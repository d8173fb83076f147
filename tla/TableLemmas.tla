---------------------------- MODULE TableLemmas ----------------------------
(* What the operators that build, search and walk an SST do, for keys,       *)
(* values and tables of any length.                                          *)
EXTENDS TableCursor, SequenceTheorems, FiniteSetTheorems, WellFoundedInduction, TLAPS

-----------------------------------------------------------------------------
(* A nonempty set of naturals has a least member.                           *)
LEMMA NatMin ==
  ASSUME NEW T \in SUBSET Nat, T # {}
  PROVE  \E m \in T : \A n \in T : m <= n
<1> DEFINE R == {p \in Nat \X Nat : p[1] < p[2]}
<1>1. IsWellFoundedOn(R, Nat)
  BY NatLessThanWellFounded DEF OpToRel
<1> HIDE DEF R
<1>2. PICK m \in T : \A n \in T : <<n, m>> \notin R
  BY <1>1, WFMin
<1>3. \A n \in T : n < m => <<n, m>> \in R
  BY DEF R
<1>4. m \in Nat /\ \A n \in T : n \in Nat
  OBVIOUS
<1>5. \A n \in T : ~(n < m)
  BY <1>2, <1>3
<1> QED
  BY <1>4, <1>5

(* A bounded nonempty set of naturals has a greatest member.                *)
LEMMA NatMax ==
  ASSUME NEW N \in Nat, NEW T \in SUBSET (0..N), T # {}
  PROVE  \E m \in T : \A n \in T : n <= m
<1> DEFINE U == {N - n : n \in T}
<1>1. U \in SUBSET Nat /\ U # {}
  <2>1. \A n \in T : n \in Nat /\ N - n \in Nat
    OBVIOUS
  <2> QED
    BY <2>1
<1>2. PICK u \in U : \A n \in U : u <= n
  BY <1>1, NatMin
<1>3. PICK m \in T : u = N - m
  OBVIOUS
<1>4. \A n \in T : N - m <= N - n
  BY <1>2, <1>3
<1> QED
  BY <1>4

(* N steps on S, and the results of taking them one after the other.        *)
IsSteps(step, N, S) == step \in [1..N -> [S -> S]]

IsRun(g, x, step, N, S) ==
  g \in [0..N -> S] /\ g[0] = x /\ \A n \in 1..N : g[n] = step[n][g[n - 1]]

(* Steps can be taken one after the other.                                  *)
LEMMA Iteration ==
  ASSUME NEW N \in Nat, NEW S, NEW x \in S, NEW step, IsSteps(step, N, S)
  PROVE  \E g : IsRun(g, x, step, N, S)
<1> USE DEF IsSteps
<1> DEFINE Upto(k) == \E g \in [0..k -> S] : g[0] = x /\ \A n \in 1..k : g[n] = step[n][g[n - 1]]
           T == {k \in 0..N : ~Upto(k)}
<1> HIDE DEF Upto
<1>1. ASSUME T # {} PROVE FALSE
  <2>0. T \in SUBSET Nat
    OBVIOUS
  <2>1. PICK k \in T : \A n \in T : k <= n
    BY <1>1, <2>0, NatMin
  <2>2. k # 0
    <3> DEFINE h == [i \in 0..0 |-> x]
    <3>1. h \in [0..0 -> S] /\ h[0] = x /\ \A n \in 1..0 : h[n] = step[n][h[n - 1]]
      OBVIOUS
    <3>2. Upto(0)
      BY <3>1 DEF Upto
    <3> QED
      BY <3>2
  <2>3. k \in 1..N /\ k - 1 \in 0..N /\ Upto(k - 1)
    <3>1. k - 1 \in 0..N /\ k \in 1..N
      BY <2>2
    <3>2. k - 1 \notin T
      BY <2>1, <3>1
    <3> QED
      BY <3>1, <3>2
  <2>4. PICK g \in [0..(k - 1) -> S] : g[0] = x /\ \A n \in 1..(k - 1) : g[n] = step[n][g[n - 1]]
    BY <2>3 DEF Upto
  <2> DEFINE h == [i \in 0..k |-> IF i = k THEN step[k][g[k - 1]] ELSE g[i]]
  <2>5. h \in [0..k -> S]
    <3>1. g[k - 1] \in S
      BY <2>3, <2>4
    <3>2. step[k][g[k - 1]] \in S
      BY <2>3, <3>1
    <3>3. \A i \in 0..k : i # k => i \in 0..(k - 1)
      BY <2>3
    <3> QED
      BY <2>4, <3>2, <3>3
  <2>6. h[0] = x
    BY <2>3, <2>4
  <2>7. ASSUME NEW n \in 1..k PROVE h[n] = step[n][h[n - 1]]
    <3>1. n - 1 \in 0..k /\ n - 1 # k /\ n \in 0..k
      BY <2>3
    <3>2. h[n - 1] = g[n - 1]
      BY <3>1
    <3>3. CASE n = k
      BY <3>1, <3>2, <3>3
    <3>4. CASE n # k
      <4>1. n \in 1..(k - 1)
        BY <2>3, <3>4
      <4> QED
        BY <2>4, <3>1, <3>2, <3>4, <4>1
    <3> QED
      BY <3>3, <3>4
  <2>8. Upto(k)
    BY <2>5, <2>6, <2>7 DEF Upto
  <2> QED
    BY <2>1, <2>8
<1>2. Upto(N)
  BY <1>1
<1> QED
  BY <1>2 DEF Upto, IsRun

(* Walks from the numbers up to N: a walk ends in L, and adds a sequence on *)
(* every leap it takes elsewhere.                                           *)
IsMap(N, V, L, base, head, leap) ==
  /\ L \in SUBSET (0..N) /\ N \in L
  /\ base \in [0..N -> Seq(V)] /\ head \in [0..N -> Seq(V)]
  /\ \A o \in (0..N) \ L : leap[o] \in (o + 1)..N

IsWalk(g, N, V, L, base, head, leap) ==
  /\ g \in [0..N -> Seq(V)]
  /\ \A o \in 0..N : g[o] = IF o \in L THEN base[o] ELSE head[o] \o g[leap[o]]

(* Every walk ends.                                                         *)
LEMMA Walk ==
  ASSUME NEW N \in Nat, NEW V, NEW L, NEW base, NEW head, NEW leap,
         IsMap(N, V, L, base, head, leap)
  PROVE  \E g : IsWalk(g, N, V, L, base, head, leap)
<1> USE DEF IsMap
<1> DEFINE From(k) == \E g \in [k..N -> Seq(V)] :
                         \A o \in k..N : g[o] = IF o \in L THEN base[o] ELSE head[o] \o g[leap[o]]
           T == {k \in 0..N : ~From(k)}
<1> HIDE DEF From
<1>1. ASSUME T # {} PROVE FALSE
  <2>1. PICK k \in T : \A n \in T : n <= k
    <3>1. T \in SUBSET (0..N)
      OBVIOUS
    <3> QED
      BY <1>1, <3>1, NatMax
  <2>2. PICK g \in [(k + 1)..N -> Seq(V)] :
           \A o \in (k + 1)..N : g[o] = IF o \in L THEN base[o] ELSE head[o] \o g[leap[o]]
    <3>1. CASE k = N
      <4> DEFINE h == [o \in (k + 1)..N |-> <<>>]
      <4>1. (k + 1)..N = {}
        BY <3>1
      <4>2. h \in [(k + 1)..N -> Seq(V)]
        BY <4>1
      <4> QED
        BY <4>1, <4>2
    <3>2. CASE k # N
      <4>1. k + 1 \in 0..N /\ ~(k + 1 <= k)
        BY <3>2
      <4>2. From(k + 1)
        BY <2>1, <4>1
      <4> QED
        BY <4>2 DEF From
    <3> QED
      BY <3>1, <3>2
  <2> DEFINE top == IF k \in L THEN base[k] ELSE head[k] \o g[leap[k]]
             h == [o \in k..N |-> IF o = k THEN top ELSE g[o]]
  <2>3. top \in Seq(V)
    <3>1. k \notin L => leap[k] \in (k + 1)..N
      OBVIOUS
    <3>2. k \notin L => g[leap[k]] \in Seq(V) /\ head[k] \in Seq(V)
      BY <2>2, <3>1
    <3> QED
      BY <3>2
  <2> HIDE DEF top
  <2>4. h \in [k..N -> Seq(V)]
    <3>1. \A o \in k..N : o # k => o \in (k + 1)..N
      OBVIOUS
    <3> QED
      BY <2>2, <2>3, <3>1
  <2>5. ASSUME NEW o \in k..N PROVE h[o] = IF o \in L THEN base[o] ELSE head[o] \o h[leap[o]]
    <3>1. o \notin L => /\ leap[o] \in (o + 1)..N /\ leap[o] \in k..N /\ leap[o] # k
                        /\ h[leap[o]] = g[leap[o]]
      <4>1. o \in 0..N /\ k \in Nat
        OBVIOUS
      <4>2. o \notin L => leap[o] \in (o + 1)..N
        BY <4>1
      <4>3. \A j \in (o + 1)..N : j \in k..N /\ j # k
        BY <4>1
      <4> QED
        BY <4>2, <4>3
    <3>2. CASE o = k
      BY <3>1, <3>2 DEF top
    <3>3. CASE o # k
      <4>1. o \in (k + 1)..N
        BY <3>3
      <4> QED
        BY <2>2, <3>1, <3>3, <4>1
    <3> QED
      BY <3>2, <3>3
  <2>6. From(k)
    BY <2>4, <2>5 DEF From
  <2> QED
    BY <2>1, <2>6
<1>2. From(0)
  <2>1. 0 \in 0..N
    OBVIOUS
  <2> QED
    BY <1>1, <2>1
<1> QED
  BY <1>2 DEF From, IsWalk

(* A walk that only leaps, to the value of the place where it ends.         *)
AreLeaps(N, V, L, base, leap) ==
  /\ L \in SUBSET (0..N) /\ N \in L
  /\ base \in [0..N -> V]
  /\ \A o \in (0..N) \ L : leap[o] \in (o + 1)..N

Leaping(h, N, L, base, leap) == h = [o \in 0..N |-> IF o \in L THEN base[o] ELSE h[leap[o]]]

LEMMA Leaps ==
  ASSUME NEW N \in Nat, NEW V, NEW L, NEW base, NEW leap, AreLeaps(N, V, L, base, leap)
  PROVE  \E h : Leaping(h, N, L, base, leap)
<1> USE DEF AreLeaps
<1> DEFINE start == [o \in 0..N |-> <<base[o]>>]
           none == [o \in 0..N |-> <<>>]
<1>1. IsMap(N, V, L, start, none, leap)
  BY DEF IsMap
<1>2. /\ \A o \in 0..N : start[o][1] = base[o] /\ none[o] = <<>>
      /\ \A o \in (0..N) \ L : leap[o] \in 0..N
  OBVIOUS
<1> HIDE DEF start, none
<1>3. PICK g : IsWalk(g, N, V, L, start, none, leap)
  BY <1>1, Walk
<1> DEFINE h == [o \in 0..N |-> g[o][1]]
           k == [o \in 0..N |-> IF o \in L THEN base[o] ELSE h[leap[o]]]
<1>4. ASSUME NEW o \in 0..N PROVE h[o] = k[o]
  <2>1. CASE o \in L
    BY <1>2, <1>3, <2>1 DEF IsWalk
  <2>2. CASE o \notin L
    <3>1. leap[o] \in 0..N
      BY <1>2, <2>2
    <3>2. g[leap[o]] \in Seq(V) /\ g[o] = <<>> \o g[leap[o]]
      BY <1>2, <1>3, <2>2, <3>1 DEF IsWalk
    <3>3. g[o] = g[leap[o]]
      BY <3>2
    <3> QED
      BY <2>2, <3>1, <3>3
  <2> QED
    BY <2>1, <2>2
<1>5. h = k
  BY <1>4
<1> HIDE DEF h
<1> QED
  BY <1>5 DEF Leaping

(* A walk the other way.                                                    *)
IsSlope(N, V, L, base, head, drop) ==
  /\ L \in SUBSET (0..N) /\ 0 \in L
  /\ base \in [0..N -> Seq(V)] /\ head \in [0..N -> Seq(V)]
  /\ \A n \in (0..N) \ L : drop[n] \in 0..(n - 1)

Descending(h, N, V, L, base, head, drop) ==
  /\ h \in [0..N -> Seq(V)]
  /\ h = [n \in 0..N |-> IF n \in L THEN base[n] ELSE head[n] \o h[drop[n]]]

LEMMA Descent ==
  ASSUME NEW N \in Nat, NEW V, NEW L, NEW base, NEW head, NEW drop,
         IsSlope(N, V, L, base, head, drop)
  PROVE  \E h : Descending(h, N, V, L, base, head, drop)
<1> USE DEF IsSlope
<1> DEFINE M == {N - n : n \in L}
           start == [o \in 0..N |-> base[N - o]]
           first == [o \in 0..N |-> head[N - o]]
           leap == [o \in 0..N |-> N - drop[N - o]]
<1>1. \A n \in 0..N : N - n \in 0..N /\ N - (N - n) = n
  OBVIOUS
<1>2. \A n \in 0..N : N - n \in M <=> n \in L
  BY <1>1
<1>3. IsMap(N, V, M, start, first, leap)
  <2>1. M \in SUBSET (0..N) /\ N \in M
    <3>1. 0 \in 0..N /\ N - 0 = N
      OBVIOUS
    <3>2. N \in M
      BY <1>2, <3>1
    <3>3. \A n \in L : N - n \in 0..N
      BY <1>1
    <3> QED
      BY <3>2, <3>3
  <2>2. start \in [0..N -> Seq(V)] /\ first \in [0..N -> Seq(V)]
    BY <1>1
  <2>3. ASSUME NEW o \in (0..N) \ M PROVE leap[o] \in (o + 1)..N
    <3>1. PICK n \in 0..N : n = N - o /\ o = N - n
      BY <1>1
    <3>2. n \notin L
      BY <1>2, <2>3, <3>1
    <3>3. drop[n] \in 0..(n - 1)
      BY <3>2
    <3>4. leap[o] = N - drop[n]
      BY <3>1
    <3>5. PICK d : d = drop[n]
      OBVIOUS
    <3>6. d \in Nat /\ n \in Nat /\ d <= n - 1 /\ n <= N
      BY <3>3, <3>5
    <3>7. N - d \in Nat /\ N - n + 1 \in Nat /\ N - n + 1 <= N - d /\ N - d <= N
      BY <3>6
    <3>8. N - d \in (N - n + 1)..N
      BY <3>7
    <3> QED
      BY <3>1, <3>4, <3>5, <3>8
  <2> QED
    BY <2>1, <2>2, <2>3 DEF IsMap
<1>4. \A n \in 0..N : /\ start[N - n] = base[n] /\ first[N - n] = head[n]
                      /\ leap[N - n] = N - drop[n]
  BY <1>1
<1> HIDE DEF M, start, first, leap
<1>5. PICK g : IsWalk(g, N, V, M, start, first, leap)
  BY <1>3, Walk
<1> DEFINE h == [n \in 0..N |-> g[N - n]]
           k == [n \in 0..N |-> IF n \in L THEN base[n] ELSE head[n] \o h[drop[n]]]
<1>6. ASSUME NEW n \in 0..N PROVE h[n] = k[n] /\ h[n] \in Seq(V)
  <2>1. h[n] = IF n \in L THEN base[n] ELSE head[n] \o g[N - drop[n]]
    BY <1>1, <1>2, <1>4, <1>5, ZenonT(60) DEF IsWalk
  <2>2. n \notin L => h[drop[n]] = g[N - drop[n]]
    OBVIOUS
  <2>3. h[n] \in Seq(V)
    BY <1>1, <1>5 DEF IsWalk
  <2> QED
    BY <2>1, <2>2, <2>3
<1>7. h = k /\ h \in [0..N -> Seq(V)]
  BY <1>6
<1> HIDE DEF h
<1> QED
  BY <1>7 DEF Descending

-----------------------------------------------------------------------------
(* A part of a sequence.                                                     *)
LEMMA Slice ==
  ASSUME NEW S, NEW s \in Seq(S), NEW m \in Nat, NEW n \in Nat, 1 <= m, m <= n + 1, n <= Len(s)
  PROVE  /\ SubSeq(s, m, n) \in Seq(S)
         /\ Len(SubSeq(s, m, n)) = n - m + 1
         /\ \A i \in 1..(n - m + 1) : SubSeq(s, m, n)[i] = s[m + i - 1]
<1>1. \A i \in m..n : s[i] \in S
  OBVIOUS
<1>2. m \in Int /\ n \in Int /\ (m <= n \/ n - m + 1 = 0)
  OBVIOUS
<1> QED
  BY <1>1, <1>2, SubSeqProperties

LEMMA Prefix ==
  ASSUME NEW S, NEW s \in Seq(S), NEW n \in Nat, n <= Len(s)
  PROVE  /\ SubSeq(s, 1, n) \in Seq(S)
         /\ Len(SubSeq(s, 1, n)) = n
         /\ \A i \in 1..n : SubSeq(s, 1, n)[i] = s[i]
<1>1. 1 \in Nat /\ 1 <= n + 1 /\ n - 1 + 1 = n /\ \A i \in 1..n : 1 + i - 1 = i
  OBVIOUS
<1> QED
  BY <1>1, Slice

LEMMA Rest ==
  ASSUME NEW S, NEW s \in Seq(S), NEW n \in Nat, n <= Len(s)
  PROVE  /\ SubSeq(s, n + 1, Len(s)) \in Seq(S)
         /\ Len(SubSeq(s, n + 1, Len(s))) = Len(s) - n
         /\ \A i \in 1..(Len(s) - n) : SubSeq(s, n + 1, Len(s))[i] = s[n + i]
<1>1. Len(s) \in Nat
  BY LenProperties
<1>2. PICK m \in Nat, l \in Nat : m = n + 1 /\ l = Len(s)
  BY <1>1
<1>3. /\ SubSeq(s, m, l) \in Seq(S)
      /\ Len(SubSeq(s, m, l)) = l - m + 1
      /\ \A i \in 1..(l - m + 1) : SubSeq(s, m, l)[i] = s[m + i - 1]
  <2>1. 1 <= m /\ m <= l + 1 /\ l <= Len(s)
    BY <1>2
  <2> QED
    BY <2>1, Slice
<1>4. l - m + 1 = Len(s) - n /\ \A i \in 1..(l - m + 1) : m + i - 1 = n + i
  BY <1>2
<1> QED
  BY <1>2, <1>3, <1>4

LEMMA Middle ==
  ASSUME NEW S, NEW s \in Seq(S), NEW n \in Nat, NEW l \in Nat, n <= l, l <= Len(s)
  PROVE  /\ SubSeq(s, n + 1, l) \in Seq(S)
         /\ Len(SubSeq(s, n + 1, l)) = l - n
         /\ \A i \in 1..(l - n) : SubSeq(s, n + 1, l)[i] = s[n + i]
<1>1. PICK m \in Nat : m = n + 1
  OBVIOUS
<1>2. /\ SubSeq(s, m, l) \in Seq(S)
      /\ Len(SubSeq(s, m, l)) = l - m + 1
      /\ \A i \in 1..(l - m + 1) : SubSeq(s, m, l)[i] = s[m + i - 1]
  <2>1. 1 <= m /\ m <= l + 1 /\ l <= Len(s)
    BY <1>1
  <2> QED
    BY <2>1, Slice
<1>3. l - m + 1 = l - n /\ \A i \in 1..(l - m + 1) : m + i - 1 = n + i
  BY <1>1
<1> QED
  BY <1>1, <1>2, <1>3

-----------------------------------------------------------------------------
(* The order of keys.                                                        *)

LEMMA BytesType ==
  ASSUME NEW s \in Bytes
  PROVE  s \in Seq(0..255) /\ Len(s) \in Nat /\ \A i \in 1..Len(s) : s[i] \in Nat
<1>1. s \in Seq(0..255)
  BY DEF Bytes
<1>2. \A i \in 1..Len(s) : s[i] \in 0..255
  BY <1>1, ElementOfSeq
<1>3. \A x \in 0..255 : x \in Nat
  OBVIOUS
<1>4. Len(s) \in Nat
  BY <1>1, LenProperties
<1> QED
  BY <1>1, <1>2, <1>3, <1>4

(* a and b begin with the same n bytes.                                      *)
Agree(a, b, n) == n <= Len(a) /\ n <= Len(b) /\ \A i \in 1..n : a[i] = b[i]

(* The first difference, bytewise.                                           *)
LEMMA LessAt ==
  ASSUME NEW a \in Bytes, NEW b \in Bytes
  PROVE  BytesLess(a, b) <=>
           \E n \in Nat : Agree(a, b, n) /\ n < Len(b) /\ (n < Len(a) => a[n + 1] < b[n + 1])
<1>1. ASSUME NEW n \in Nat, n <= Len(a), n <= Len(b)
      PROVE  SubSeq(a, 1, n) = SubSeq(b, 1, n) <=> \A i \in 1..n : a[i] = b[i]
  <2>1. \A s \in Bytes : n <= Len(s) => /\ SubSeq(s, 1, n) \in Seq(0..255)
                                        /\ Len(SubSeq(s, 1, n)) = n
                                        /\ \A i \in 1..n : SubSeq(s, 1, n)[i] = s[i]
    BY Prefix DEF Bytes
  <2> QED
    BY <1>1, <2>1, SeqEqual
<1>2. Len(a) \in Nat /\ Len(b) \in Nat
  BY DEF Bytes
<1> QED
  BY <1>1, <1>2 DEF BytesLess, Agree

(* Two sequences differ first somewhere, or one goes on where the other      *)
(* ends, or they are the same.                                               *)
LEMMA FirstDifference ==
  ASSUME NEW a \in Bytes, NEW b \in Bytes
  PROVE  \E n \in Nat : /\ Agree(a, b, n)
                        /\ \/ n = Len(a) /\ n = Len(b)
                           \/ n = Len(a) /\ n < Len(b)
                           \/ n < Len(a) /\ n = Len(b)
                           \/ n < Len(a) /\ n < Len(b) /\ a[n + 1] # b[n + 1]
<1> DEFINE T == {n \in 0..Len(a) : Agree(a, b, n)}
<1>0. Len(a) \in Nat /\ Len(b) \in Nat
  BY DEF Bytes
<1>1. 0 \in T
  BY <1>0 DEF Agree
<1>2. PICK n \in T : \A m \in T : m <= n
  BY <1>0, <1>1, NatMax
<1>3. n \in Nat /\ n <= Len(a) /\ n <= Len(b) /\ Agree(a, b, n)
  BY <1>0, <1>2 DEF Agree
<1>4. ASSUME n < Len(a), n < Len(b), a[n + 1] = b[n + 1] PROVE FALSE
  <2>1. Agree(a, b, n + 1)
    BY <1>0, <1>3, <1>4 DEF Agree
  <2>2. n + 1 \in T /\ ~(n + 1 <= n)
    BY <1>0, <1>3, <1>4, <2>1
  <2> QED
    BY <1>2, <2>2
<1> QED
  BY <1>0, <1>3, <1>4

(* Bytes are strictly and totally ordered.                                   *)
LEMMA BytesOrder ==
  ASSUME NEW a \in Bytes, NEW b \in Bytes
  PROVE  /\ ~BytesLess(a, a)
         /\ a = b \/ BytesLess(a, b) \/ BytesLess(b, a)
         /\ \A c \in Bytes : BytesLess(a, b) /\ BytesLess(b, c) => BytesLess(a, c)
<1>0. \A s \in Bytes : Len(s) \in Nat /\ \A i \in 1..Len(s) : s[i] \in Nat
  BY BytesType
<1>1. ~BytesLess(a, a)
  <2> SUFFICES ASSUME NEW n \in Nat, n < Len(a), a[n + 1] < a[n + 1] PROVE FALSE
    BY <1>0, LessAt
  <2>1. n + 1 \in 1..Len(a)
    BY <1>0
  <2> QED
    BY <1>0, <2>1
<1>2. a = b \/ BytesLess(a, b) \/ BytesLess(b, a)
  <2>1. PICK n \in Nat : /\ Agree(a, b, n)
                         /\ \/ n = Len(a) /\ n = Len(b)
                            \/ n = Len(a) /\ n < Len(b)
                            \/ n < Len(a) /\ n = Len(b)
                            \/ n < Len(a) /\ n < Len(b) /\ a[n + 1] # b[n + 1]
    BY FirstDifference
  <2>2. CASE n = Len(a) /\ n = Len(b)
    <3>1. Len(a) = Len(b) /\ \A i \in 1..Len(a) : a[i] = b[i]
      BY <2>1, <2>2 DEF Agree
    <3>2. a = b
      BY <3>1 DEF Bytes
    <3> QED
      BY <3>2
  <2>3. CASE n = Len(a) /\ n < Len(b)
    BY <1>0, <2>1, <2>3, LessAt
  <2>4. CASE n < Len(a) /\ n = Len(b)
    <3>1. Agree(b, a, n)
      BY <2>1 DEF Agree
    <3> QED
      BY <1>0, <2>4, <3>1, LessAt
  <2>5. CASE n < Len(a) /\ n < Len(b) /\ a[n + 1] # b[n + 1]
    <3>1. Agree(b, a, n)
      BY <2>1 DEF Agree
    <3>2. a[n + 1] \in Nat /\ b[n + 1] \in Nat
      BY <1>0, <2>5
    <3>3. a[n + 1] < b[n + 1] \/ b[n + 1] < a[n + 1]
      BY <2>5, <3>2
    <3> QED
      BY <2>1, <2>5, <3>1, <3>3, LessAt
  <2> QED
    BY <2>1, <2>2, <2>3, <2>4, <2>5
<1>3. ASSUME NEW c \in Bytes, BytesLess(a, b), BytesLess(b, c) PROVE BytesLess(a, c)
  <2>1. PICK n \in Nat : Agree(a, b, n) /\ n < Len(b) /\ (n < Len(a) => a[n + 1] < b[n + 1])
    BY <1>3, LessAt
  <2>2. PICK m \in Nat : Agree(b, c, m) /\ m < Len(c) /\ (m < Len(b) => b[m + 1] < c[m + 1])
    BY <1>3, LessAt
  <2>3. PICK l \in Nat : l = (IF n <= m THEN n ELSE m) /\ l <= n /\ l <= m
    OBVIOUS
  <2>4. Agree(a, c, l)
    BY <1>0, <2>1, <2>2, <2>3 DEF Agree
  <2>5. l < Len(c)
    BY <1>0, <2>1, <2>2, <2>3 DEF Agree
  <2>6. l < Len(a) => a[l + 1] < c[l + 1]
    <3> SUFFICES ASSUME l < Len(a) PROVE a[l + 1] < c[l + 1]
      OBVIOUS
    <3>1. a[l + 1] \in Nat /\ c[l + 1] \in Nat /\ l < Len(b) /\ b[l + 1] \in Nat
      BY <1>0, <2>1, <2>2, <2>3, <2>5 DEF Agree
    <3>2. CASE n < m
      <4>1. l = n /\ b[l + 1] = c[l + 1]
        BY <2>2, <2>3, <3>2 DEF Agree
      <4> QED
        BY <2>1, <4>1
    <3>3. CASE m < n
      <4>1. l = m /\ a[l + 1] = b[l + 1]
        BY <2>1, <2>3, <3>3 DEF Agree
      <4> QED
        BY <2>2, <3>1, <4>1
    <3>4. CASE n = m
      BY <2>1, <2>2, <2>3, <3>1, <3>4
    <3> QED
      BY <3>2, <3>3, <3>4
  <2> QED
    BY <2>4, <2>5, <2>6, LessAt
<1> QED
  BY <1>1, <1>2, <1>3
(* A key is its user key and its timestamp.                                  *)
LEMMA KeyParts ==
  ASSUME NEW a \in Keys
  PROVE  /\ a \in Bytes /\ a # NoKey
         /\ UserKey(a) \in Bytes /\ KeySuffix(a) \in Bytes
         /\ a = UserKey(a) \o KeySuffix(a)
<1>1. a \in Seq(0..255) /\ Len(a) \in Nat /\ SuffixLen \in Nat /\ SuffixLen > 0 /\ Len(a) >= SuffixLen
  BY SuffixLenAssumption, BytesType DEF Keys
<1>2. PICK n \in Nat : n = Len(a) - SuffixLen /\ n <= Len(a)
  <2>1. Len(a) - SuffixLen \in Nat /\ Len(a) - SuffixLen <= Len(a)
    BY <1>1
  <2> QED
    BY <2>1, Zenon
<1>3. /\ UserKey(a) \in Seq(0..255) /\ Len(UserKey(a)) = n
      /\ \A i \in 1..n : UserKey(a)[i] = a[i]
  BY <1>1, <1>2, Prefix, ZenonT(60) DEF UserKey
<1>4. /\ KeySuffix(a) \in Seq(0..255) /\ Len(KeySuffix(a)) = Len(a) - n
      /\ \A i \in 1..(Len(a) - n) : KeySuffix(a)[i] = a[n + i]
  BY <1>1, <1>2, Rest DEF KeySuffix
<1>5. PICK c : c = UserKey(a) \o KeySuffix(a)
  OBVIOUS
<1>6. /\ c \in Seq(0..255) /\ Len(c) = Len(a)
      /\ \A i \in 1..Len(a) : c[i] = IF i <= n THEN UserKey(a)[i] ELSE KeySuffix(a)[i - n]
  <2>1. n + (Len(a) - n) = Len(a)
    BY <1>1, <1>2
  <2> QED
    BY <1>3, <1>4, <1>5, <2>1, ConcatProperties
<1>7. ASSUME NEW i \in 1..Len(a) PROVE c[i] = a[i]
  <2>1. CASE i <= n
    BY <1>2, <1>3, <1>6, <2>1
  <2>2. CASE ~(i <= n)
    <3>1. i - n \in 1..(Len(a) - n) /\ n + (i - n) = i
      BY <1>1, <1>2, <2>2
    <3> QED
      BY <1>4, <1>6, <2>2, <3>1
  <2> QED
    BY <2>1, <2>2
<1>8. c = a
  BY <1>1, <1>6, <1>7, SeqEqual
<1> QED
  BY <1>1, <1>3, <1>4, <1>5, <1>8 DEF Bytes, NoKey

(* Keys are strictly and totally ordered.                                    *)
LEMMA KeyOrder ==
  ASSUME NEW a \in Keys, NEW b \in Keys
  PROVE  /\ ~KeyLess(a, a)
         /\ a = b \/ KeyLess(a, b) \/ KeyLess(b, a)
         /\ \A c \in Keys : KeyLess(a, b) /\ KeyLess(b, c) => KeyLess(a, c)
<1>1. \A k \in Keys : UserKey(k) \in Bytes /\ KeySuffix(k) \in Bytes
  BY KeyParts
<1>2. ~KeyLess(a, a)
  BY <1>1, BytesOrder DEF KeyLess
<1>3. a = b \/ KeyLess(a, b) \/ KeyLess(b, a)
  <2>1. UserKey(a) = UserKey(b) /\ KeySuffix(a) = KeySuffix(b) => a = b
    BY KeyParts
  <2> QED
    BY <1>1, <2>1, BytesOrder DEF KeyLess
<1>4. ASSUME NEW c \in Keys, KeyLess(a, b), KeyLess(b, c) PROVE KeyLess(a, c)
  <2>1. \A x, y, z \in Bytes : BytesLess(x, y) /\ BytesLess(y, z) => BytesLess(x, z)
    BY BytesOrder
  <2>2. \A x \in Bytes : ~BytesLess(x, x)
    BY BytesOrder
  <2> QED
    BY <1>1, <1>4, <2>1, <2>2 DEF KeyLess
<1> QED
  BY <1>2, <1>3, <1>4
-----------------------------------------------------------------------------
(* The encoding of values.                                                   *)

LEMMA Groups ==
  ASSUME NEW n \in Nat, n >= 128
  PROVE  n \div 128 \in 0..(n - 1)
OBVIOUS

(* The recursions of encode_var and var_size.                                *)
LEMMA EncodeVarSteps ==
  ASSUME NEW N \in Nat
  PROVE  \E g \in [0..N -> Bytes] :
            /\ EncodeVar(N) = g[N]
            /\ \A n \in 0..N : g[n] = IF n < 296 THEN <<n % 256>> ELSE <<n % 128>> \o g[n \div 128]
<1> DEFINE L == {n \in 0..N : n < 296}
           base == [n \in 0..N |-> <<n % 256>>]
           head == [n \in 0..N |-> <<n % 128>>]
           drop == [n \in 0..N |-> n \div 128]
           IsEncoding(g) ==
             g = [n \in 0..N |-> IF n < 296 THEN <<n % 256>> ELSE <<n % 128>> \o g[n \div 128]]
           bytes == CHOOSE g : IsEncoding(g)
<1>1. \A n \in 0..N : n % 256 \in 0..255 /\ n % 128 \in 0..255
  OBVIOUS
<1>2. base \in [0..N -> Seq(0..255)] /\ head \in [0..N -> Seq(0..255)]
  BY <1>1
<1>3. L \in SUBSET (0..N) /\ 0 \in L
  OBVIOUS
<1>4. \A n \in (0..N) \ L : drop[n] \in 0..(n - 1)
  BY Groups
<1>5. PICK g : Descending(g, N, 0..255, L, base, head, drop)
  <2>1. IsSlope(N, 0..255, L, base, head, drop)
    BY <1>2, <1>3, <1>4 DEF IsSlope
  <2> HIDE DEF L, base, head, drop
  <2> QED
    BY <2>1, Descent
<1>6. IsEncoding(g)
  BY <1>5 DEF Descending
<1>7. IsEncoding(bytes)
  BY <1>6, ZenonT(60)
<1>8. EncodeVar(N) = bytes[N]
  BY Zenon DEF EncodeVar
<1> HIDE DEF bytes
<1>9. \A n \in 0..N : bytes[n] = IF n < 296 THEN <<n % 256>> ELSE <<n % 128>> \o bytes[n \div 128]
  BY <1>7
<1> DEFINE T == {n \in 0..N : bytes[n] \notin Bytes}
<1>10. ASSUME T # {} PROVE FALSE
  <2>1. T \in SUBSET Nat
    OBVIOUS
  <2>2. PICK n \in T : \A m \in T : n <= m
    BY <1>10, <2>1, NatMin
  <2>3. CASE n < 296
    <3>1. <<n % 256>> \in Seq(0..255)
      BY <1>1
    <3> QED
      BY <1>9, <2>3, <3>1 DEF Bytes
  <2>4. CASE ~(n < 296)
    <3>1. PICK d : d = n \div 128
      OBVIOUS
    <3>2. d \in 0..N /\ ~(n <= d)
      BY <2>4, <3>1, Groups
    <3>3. bytes[d] \in Seq(0..255) /\ <<n % 128>> \in Seq(0..255)
      BY <1>1, <2>2, <3>2 DEF Bytes
    <3>4. <<n % 128>> \o bytes[d] \in Seq(0..255)
      BY <3>3, ConcatProperties
    <3> QED
      BY <1>9, <2>4, <3>1, <3>4 DEF Bytes
  <2> QED
    BY <2>3, <2>4
<1>11. \A n \in 0..N : bytes[n] \in Bytes
  BY <1>10
<1>12. bytes \in [0..N -> Bytes]
  BY <1>7, <1>11
<1> QED
  BY <1>8, <1>9, <1>12

LEMMA VarSizeSteps ==
  ASSUME NEW N \in Nat
  PROVE  \E g \in [0..N -> Nat] :
            /\ VarSize(N) = g[N]
            /\ \A n \in 0..N : g[n] = IF n < 128 THEN 1 ELSE 1 + g[n \div 128]
<1> DEFINE L == {n \in 0..N : n < 128}
           one == [n \in 0..N |-> <<0>>]
           drop == [n \in 0..N |-> n \div 128]
           IsSize(g) == g = [n \in 0..N |-> IF n < 128 THEN 1 ELSE 1 + g[n \div 128]]
           size == CHOOSE g : IsSize(g)
<1>1. \A n \in (0..N) \ L : drop[n] \in 0..(n - 1)
  BY Groups
<1>2. PICK h \in [0..N -> Seq({0})] :
         h = [n \in 0..N |-> IF n \in L THEN one[n] ELSE one[n] \o h[drop[n]]]
  <2>1. one \in [0..N -> Seq({0})] /\ L \in SUBSET (0..N) /\ 0 \in L
    OBVIOUS
  <2> HIDE DEF L, one, drop
  <2>2. IsSlope(N, {0}, L, one, one, drop)
    BY <1>1, <2>1 DEF IsSlope
  <2>3. PICK h : Descending(h, N, {0}, L, one, one, drop)
    BY <2>2, Descent
  <2> QED
    BY <2>3 DEF Descending
<1> DEFINE g == [n \in 0..N |-> Len(h[n])]
           k == [n \in 0..N |-> IF n < 128 THEN 1 ELSE 1 + g[n \div 128]]
<1>3. ASSUME NEW n \in 0..N PROVE g[n] = k[n]
  <2>1. CASE n < 128
    <3>1. h[n] = <<0>>
      BY <1>2, <2>1
    <3> QED
      BY <2>1, <3>1
  <2>2. CASE ~(n < 128)
    <3>1. PICK d : d = n \div 128
      OBVIOUS
    <3>2. d \in 0..N
      BY <2>2, <3>1, Groups
    <3>3. h[n] = <<0>> \o h[d] /\ h[d] \in Seq({0})
      BY <1>2, <2>2, <3>1, <3>2
    <3>4. Len(h[n]) = 1 + Len(h[d])
      BY <3>3
    <3> QED
      BY <2>2, <3>1, <3>2, <3>4
  <2> QED
    BY <2>1, <2>2
<1>4. IsSize(g)
  BY <1>3
<1> HIDE DEF g
<1>5. IsSize(size)
  BY <1>4, Zenon
<1>6. VarSize(N) = size[N]
  BY Zenon DEF VarSize
<1> HIDE DEF size
<1>7. \A n \in 0..N : size[n] = IF n < 128 THEN 1 ELSE 1 + size[n \div 128]
  BY <1>5
<1> DEFINE T == {n \in 0..N : size[n] \notin Nat}
<1>8. ASSUME T # {} PROVE FALSE
  <2>1. T \in SUBSET Nat
    OBVIOUS
  <2>2. PICK n \in T : \A m \in T : n <= m
    BY <1>8, <2>1, NatMin
  <2>3. ~(n < 128)
    BY <1>7, <2>2
  <2>4. PICK d : d = n \div 128
    OBVIOUS
  <2>5. d \in 0..N /\ ~(n <= d)
    BY <2>3, <2>4, Groups
  <2>6. size[d] \in Nat
    BY <2>2, <2>5
  <2> QED
    BY <1>7, <2>2, <2>3, <2>4, <2>6
<1>9. \A n \in 0..N : size[n] \in Nat
  BY <1>8
<1>10. size \in [0..N -> Nat]
  BY <1>5, <1>9
<1> QED
  BY <1>6, <1>7, <1>10

(* encode_var writes no more than var_size says; and 0 is a byte 0.          *)
LEMMA Varints ==
  ASSUME NEW N \in Nat
  PROVE  /\ EncodeVar(N) \in Bytes /\ VarSize(N) \in Nat
         /\ Len(EncodeVar(N)) <= VarSize(N)
         /\ N = 0 => EncodeVar(N) = <<0>>
<1>1. PICK b \in [0..N -> Bytes] :
         /\ EncodeVar(N) = b[N]
         /\ \A n \in 0..N : b[n] = IF n < 296 THEN <<n % 256>> ELSE <<n % 128>> \o b[n \div 128]
  BY EncodeVarSteps, ZenonT(60)
<1>2. PICK g \in [0..N -> Nat] :
         /\ VarSize(N) = g[N]
         /\ \A n \in 0..N : g[n] = IF n < 128 THEN 1 ELSE 1 + g[n \div 128]
  BY VarSizeSteps
<1>3. \A n \in 0..N : b[n] \in Seq(0..255) /\ Len(b[n]) \in Nat /\ g[n] \in Nat
  BY BytesType
<1> DEFINE T == {n \in 0..N : ~(Len(b[n]) <= g[n])}
<1>4. ASSUME T # {} PROVE FALSE
  <2>1. T \in SUBSET Nat
    OBVIOUS
  <2>2. PICK n \in T : \A m \in T : n <= m
    BY <1>4, <2>1, NatMin
  <2>3. ~(Len(b[n]) <= g[n]) /\ n \in 0..N
    BY <2>2
  <2>4. PICK d : d = n \div 128
    OBVIOUS
  <2>5. n >= 128 => d \in 0..N /\ ~(n <= d) /\ g[d] \in Nat /\ g[n] = 1 + g[d]
    BY <1>2, <1>3, <2>3, <2>4, Groups
  <2>6. CASE n < 296
    <3>1. b[n] = <<n % 256>>
      BY <1>1, <2>3, <2>6
    <3>2. Len(b[n]) = 1
      BY <3>1
    <3>3. g[n] >= 1
      BY <1>2, <2>3, <2>5
    <3> QED
      BY <1>3, <2>3, <3>2, <3>3
  <2>7. CASE ~(n < 296)
    <3>1. n >= 128
      BY <2>3, <2>7
    <3>2. Len(b[d]) <= g[d]
      BY <2>2, <2>5, <3>1
    <3>3. b[n] = <<n % 128>> \o b[d] /\ b[d] \in Seq(0..255)
      BY <1>1, <1>3, <2>3, <2>4, <2>5, <2>7, <3>1
    <3>4. Len(b[n]) = 1 + Len(b[d])
      <4>1. <<n % 128>> \in Seq(0..255) /\ Len(<<n % 128>>) = 1
        BY <2>3
      <4> QED
        BY <3>3, <4>1, ConcatProperties
    <3> QED
      BY <1>3, <2>3, <2>5, <3>1, <3>2, <3>4
  <2> QED
    BY <2>6, <2>7
<1>5. N \in 0..N
  OBVIOUS
<1>6. Len(b[N]) <= g[N]
  BY <1>4, <1>5
<1>7. N = 0 => b[N] = <<0>>
  BY <1>1, <1>5
<1> QED
  BY <1>1, <1>2, <1>5, <1>6, <1>7
(* The estimate of encoded_size is not too small, and what was encoded comes *)
(* back, if it does not expire.                                              *)
LEMMA Encoded ==
  ASSUME NEW v \in ValueFields
  PROVE  /\ Encode(v) \in Bytes /\ EncodedSize(v) \in Nat
         /\ Len(Encode(v)) <= EncodedSize(v)
         /\ v.expiresAt = 0 => ~DecodePanics(Encode(v)) /\ Decode(Encode(v)) = v
<1>1. /\ v.meta \in 0..255 /\ v.userMeta \in 0..255 /\ v.expiresAt \in Nat /\ v.value \in Seq(0..255)
      /\ v = [meta |-> v.meta, userMeta |-> v.userMeta, expiresAt |-> v.expiresAt, value |-> v.value]
  BY DEF ValueFields
<1>2. PICK two, var, head : /\ two = <<v.meta, v.userMeta>> /\ var = EncodeVar(v.expiresAt)
                            /\ head = two \o var
  OBVIOUS
<1>3. /\ two \in Seq(0..255) /\ Len(two) = 2 /\ two[1] = v.meta /\ two[2] = v.userMeta
  BY <1>1, <1>2
<1>4. /\ var \in Seq(0..255) /\ Len(var) \in Nat /\ VarSize(v.expiresAt) \in Nat
      /\ Len(var) <= VarSize(v.expiresAt) /\ (v.expiresAt = 0 => var = <<0>>)
  BY <1>1, <1>2, Varints, LenProperties DEF Bytes
<1>5. /\ head \in Seq(0..255) /\ Len(head) = 2 + Len(var)
      /\ \A i \in 1..(2 + Len(var)) : head[i] = IF i <= 2 THEN two[i] ELSE var[i - 2]
  BY <1>2, <1>3, <1>4, ConcatProperties
<1>6. PICK e : e = head \o v.value
  OBVIOUS
<1>7. /\ e \in Seq(0..255) /\ Len(e) = Len(head) + Len(v.value)
      /\ \A i \in 1..(Len(head) + Len(v.value)) :
            e[i] = IF i <= Len(head) THEN head[i] ELSE v.value[i - Len(head)]
  BY <1>1, <1>5, <1>6, ConcatProperties, ZenonT(60)
<1>8. Encode(v) = e
  BY <1>2, <1>6 DEF Encode
<1>9. Len(v.value) \in Nat
  BY <1>1, LenProperties
<1>10. EncodedSize(v) \in Nat /\ Len(e) <= EncodedSize(v)
  <2>1. CASE v.expiresAt = 0
    <3>1. Len(var) = 1
      BY <1>4, <2>1
    <3> QED
      BY <1>5, <1>7, <1>9, <2>1, <3>1 DEF EncodedSize
  <2>2. CASE v.expiresAt # 0
    <3>1. PICK n \in Nat, m \in Nat, l \in Nat :
             n = Len(v.value) /\ m = VarSize(v.expiresAt) /\ l = Len(var) /\ l <= m
      BY <1>4, <1>9
    <3>2. EncodedSize(v) = n + 2 + m
      BY <2>2, <3>1 DEF EncodedSize
    <3>3. Len(e) = 2 + l + n
      BY <1>5, <1>7, <3>1
    <3>4. n + 2 + m \in Nat /\ 2 + l + n <= n + 2 + m
      <4>1. \A i, j, k \in Nat : k <= j => i + 2 + j \in Nat /\ 2 + k + i <= i + 2 + j
        OBVIOUS
      <4> QED
        BY <3>1, <4>1
    <3> QED
      BY <3>2, <3>3, <3>4, Zenon
  <2> QED
    BY <2>1, <2>2
<1>11. ASSUME v.expiresAt = 0 PROVE ~DecodePanics(e) /\ Decode(e) = v
  <2>1. Len(var) = 1 /\ var[1] = 0
    BY <1>4, <1>11
  <2>2. /\ Len(head) = 3 /\ head[1] = v.meta /\ head[2] = v.userMeta /\ head[3] = 0
        /\ Len(e) = 3 + Len(v.value)
    BY <1>3, <1>5, <1>7, <2>1
  <2>3. /\ e[1] = v.meta /\ e[2] = v.userMeta /\ e[3] = 0
        /\ \A i \in 1..Len(v.value) : e[3 + i] = v.value[i]
    <3>1. PICK n \in Nat : n = Len(v.value)
      BY <1>9
    <3>2. \A i \in 1..(3 + n) : e[i] = IF i <= 3 THEN head[i] ELSE v.value[i - 3]
      BY <1>7, <2>2, <3>1
    <3>3. 1 \in 1..(3 + n) /\ 2 \in 1..(3 + n) /\ 3 \in 1..(3 + n)
      BY <3>1
    <3>4. \A i \in 1..n : 3 + i \in 1..(3 + n) /\ ~(3 + i <= 3) /\ 3 + i - 3 = i
      BY <3>1
    <3> QED
      BY <2>2, <3>1, <3>2, <3>3, <3>4
  <2>4. /\ SubSeq(e, 3, Len(e)) \in Seq(0..255) /\ Len(SubSeq(e, 3, Len(e))) = Len(e) - 2
        /\ \A i \in 1..(Len(e) - 2) : SubSeq(e, 3, Len(e))[i] = e[2 + i]
    <3>1. PICK n \in Nat : n = 2 /\ n <= Len(e)
      BY <1>9, <2>2
    <3>2. /\ SubSeq(e, n + 1, Len(e)) \in Seq(0..255) /\ Len(SubSeq(e, n + 1, Len(e))) = Len(e) - n
          /\ \A i \in 1..(Len(e) - n) : SubSeq(e, n + 1, Len(e))[i] = e[n + i]
      BY <1>7, <3>1, Rest, ZenonT(60)
    <3>3. n + 1 = 3
      BY <3>1
    <3> QED
      BY <3>1, <3>2, <3>3
  <2>5. SubSeq(e, 3, Len(e)) # <<>> /\ SubSeq(e, 3, Len(e))[1] = 0
    BY <1>9, <2>2, <2>3, <2>4
  <2>6. DecodeVar(SubSeq(e, 3, Len(e))) = [panics |-> FALSE, ans |-> 0, read |-> 1]
    BY <2>5 DEF DecodeVar
  <2>7. SubSeq(e, 4, Len(e)) = v.value
    <3>1. /\ SubSeq(e, 4, Len(e)) \in Seq(0..255) /\ Len(SubSeq(e, 4, Len(e))) = Len(e) - 3
          /\ \A i \in 1..(Len(e) - 3) : SubSeq(e, 4, Len(e))[i] = e[3 + i]
      <4>1. PICK n \in Nat : n = 3 /\ n <= Len(e)
        BY <1>9, <2>2
      <4>2. /\ SubSeq(e, n + 1, Len(e)) \in Seq(0..255) /\ Len(SubSeq(e, n + 1, Len(e))) = Len(e) - n
            /\ \A i \in 1..(Len(e) - n) : SubSeq(e, n + 1, Len(e))[i] = e[n + i]
        BY <1>7, <4>1, Rest, ZenonT(60)
      <4>3. n + 1 = 4
        BY <4>1
      <4> QED
        BY <4>1, <4>2, <4>3
    <3>2. Len(e) - 3 = Len(v.value)
      BY <1>9, <2>2
    <3> QED
      BY <1>1, <2>3, <3>1, <3>2, SeqEqual, SMTT(60)
  <2>8. ~DecodePanics(e)
    BY <2>6 DEF DecodePanics
  <2>9. Decode(e) = [meta |-> v.meta, userMeta |-> v.userMeta, expiresAt |-> 0, value |-> v.value]
    <3>1. PICK d : d = DecodeVar(SubSeq(e, 3, Len(e)))
      OBVIOUS
    <3>2. d.ans = 0 /\ d.read + 3 = 4
      BY <2>6, <3>1
    <3>3. Decode(e) = [meta |-> e[1], userMeta |-> e[2], expiresAt |-> d.ans,
                       value |-> SubSeq(e, d.read + 3, Len(e))]
      BY <3>1, Zenon DEF Decode
    <3> QED
      BY <2>3, <2>7, <3>2, <3>3
  <2> QED
    BY <1>1, <1>11, <2>8, <2>9
<1> QED
  BY <1>7, <1>8, <1>10, <1>11 DEF Bytes
-----------------------------------------------------------------------------
(* The compression of keys.                                                  *)

LEMMA AgreeOn ==
  ASSUME NEW a \in Bytes, NEW b \in Bytes, NEW i \in Nat, NEW n \in Nat, Agree(a, b, i),
         i + n <= Len(a), i + n <= Len(b), SubSeq(a, i + 1, i + n) = SubSeq(b, i + 1, i + n)
  PROVE  Agree(a, b, i + n)
<1>1. PICK m \in Nat, l \in Nat : m = i + 1 /\ l = i + n /\ 1 <= m /\ m <= l + 1
  OBVIOUS
<1>2. \A s \in Bytes : l <= Len(s) => \A j \in 1..(l - m + 1) : SubSeq(s, m, l)[j] = s[m + j - 1]
  BY <1>1, Slice, BytesType
<1>3. ASSUME NEW j \in 1..(i + n), ~(j <= i) PROVE a[j] = b[j]
  <2>1. PICK k : k = j - i
    OBVIOUS
  <2>2. k \in 1..(l - m + 1) /\ m + k - 1 = j
    BY <1>1, <1>3, <2>1
  <2>3. SubSeq(a, m, l)[k] = a[j] /\ SubSeq(b, m, l)[k] = b[j]
    BY <1>1, <1>2, <2>2
  <2> QED
    BY <1>1, <2>3
<1> QED
  BY <1>3 DEF Agree

(* A loop of bytes_diff goes on while words of w bytes are equal (those in   *)
(* M), and passes only what both have.                                       *)
Equal(a, b, end, w) ==
  {i \in 0..end : i + w <= end /\ SubSeq(a, i + 1, i + w) = SubSeq(b, i + 1, i + w)}

Loop(h, M, end, w) == h = [i \in 0..end |-> IF i \in M THEN h[i + w] ELSE i]

LEMMA LoopExists ==
  ASSUME NEW a, NEW b, NEW end \in Nat, NEW w \in Nat \ {0}
  PROVE  \E h : Loop(h, Equal(a, b, end, w), end, w)
<1> DEFINE L == (0..end) \ Equal(a, b, end, w)
           base == [i \in 0..end |-> i]
           leap == [i \in 0..end |-> i + w]
<1>1. AreLeaps(end, 0..end, L, base, leap)
  <2>1. end \in L
    BY DEF Equal
  <2>2. \A i \in (0..end) \ L : leap[i] \in (i + 1)..end
    BY DEF Equal
  <2> QED
    BY <2>1, <2>2 DEF AreLeaps
<1>2. PICK h : Leaping(h, end, L, base, leap)
  <2> HIDE DEF L, base, leap
  <2> QED
    BY <1>1, Leaps
<1>3. Loop(h, Equal(a, b, end, w), end, w)
  <2> DEFINE k == [i \in 0..end |-> IF i \in Equal(a, b, end, w) THEN h[i + w] ELSE i]
  <2>1. \A i \in 0..end : h[i] = k[i]
    BY <1>2 DEF Leaping
  <2>2. h = [i \in 0..end |-> h[i]]
    BY <1>2 DEF Leaping
  <2> QED
    BY <2>1, <2>2 DEF Loop
<1> QED
  BY <1>3

LEMMA LoopAgrees ==
  ASSUME NEW a \in Bytes, NEW b \in Bytes, NEW end \in Nat, end <= Len(a), end <= Len(b),
         NEW w \in Nat \ {0}, NEW h, Loop(h, Equal(a, b, end, w), end, w)
  PROVE  \A i \in 0..end : Agree(a, b, i) => h[i] \in 0..end /\ Agree(a, b, h[i])
<1> DEFINE T == {i \in 0..end : Agree(a, b, i) /\ ~(h[i] \in 0..end /\ Agree(a, b, h[i]))}
<1>1. ASSUME T # {} PROVE FALSE
  <2>1. PICK i \in T : \A j \in T : j <= i
    BY <1>1, NatMax
  <2>2. CASE i \in Equal(a, b, end, w)
    <3>0. h[i] = h[i + w]
      BY <2>2 DEF Loop
    <3>1. i \in Nat /\ i + w \in 0..end /\ ~(i + w <= i)
      BY <2>2 DEF Equal
    <3>2. Agree(a, b, i + w)
      <4>1. i + w <= Len(a) /\ i + w <= Len(b) /\ w \in Nat
        BY <3>1, BytesType
      <4> QED
        BY <2>1, <2>2, <3>1, <4>1, AgreeOn DEF Equal
    <3>3. i + w \notin T
      BY <2>1, <3>1
    <3> QED
      BY <2>1, <3>0, <3>1, <3>2, <3>3
  <2>3. CASE i \notin Equal(a, b, end, w)
    BY <2>1, <2>3 DEF Loop
  <2> QED
    BY <2>2, <2>3
<1> QED
  BY <1>1

(* Whatever words it is compared in, what bytes_diff leaves of target comes  *)
(* after something that base begins with too.                                *)
LEMMA DiffAgrees ==
  ASSUME NEW base \in Bytes, NEW target \in Bytes
  PROVE  \E n \in Nat : /\ Agree(base, target, n)
                        /\ BytesDiff(base, target) = SubSeq(target, n + 1, Len(target))
<1> DEFINE end == Shorter(base, target)
           same(i, n) == i + n <= end /\ SubSeq(base, i + 1, i + n) = SubSeq(target, i + 1, i + n)
           IsWide(f) == f = [i \in 0..end |-> IF same(i, WideWord) THEN f[i + WideWord] ELSE i]
           IsBytes(f) == f = [i \in 0..end |-> IF i < end /\ same(i, 1) THEN f[i + 1] ELSE i]
           wide == CHOOSE f : IsWide(f)
           bytes == CHOOSE f : IsBytes(f)
           words == IF same(wide[0], NarrowWord) THEN wide[0] + NarrowWord ELSE wide[0]
<1>1. end \in Nat /\ end <= Len(base) /\ end <= Len(target)
  BY BytesType DEF Shorter
<1>2. WideWord \in Nat \ {0} /\ NarrowWord \in Nat
  BY WordsAssumption
<1>3. BytesDiff(base, target) = SubSeq(target, bytes[words] + 1, Len(target))
  BY Zenon DEF BytesDiff
<1> HIDE DEF end
<1>4. \A f : Loop(f, Equal(base, target, end, WideWord), end, WideWord) <=> IsWide(f)
  BY <1>2 DEF Loop, Equal
<1>5. \A f : Loop(f, Equal(base, target, end, 1), end, 1) <=> IsBytes(f)
  <2>1. \A i \in 0..end : i + 1 <= end <=> i < end
    BY <1>1
  <2>2. \A i \in 0..end : i \in Equal(base, target, end, 1) <=> i < end /\ same(i, 1)
    BY <2>1 DEF Equal
  <2> HIDE DEF same
  <2> QED
    BY <2>2, Zenon DEF Loop
<1>6. IsWide(wide)
  <2>1. \E f : IsWide(f)
    BY <1>1, <1>2, <1>4, LoopExists
  <2> HIDE DEF IsWide
  <2> QED
    BY <2>1, Zenon
<1>7. IsBytes(bytes)
  <2>1. \E f : IsBytes(f)
    BY <1>1, <1>5, LoopExists
  <2> HIDE DEF IsBytes
  <2> QED
    BY <2>1, Zenon
<1> HIDE DEF wide, bytes, IsWide, IsBytes
<1>8. \A i \in 0..end : Agree(base, target, i) => wide[i] \in 0..end /\ Agree(base, target, wide[i])
  BY <1>1, <1>2, <1>4, <1>6, LoopAgrees
<1>9. \A i \in 0..end : Agree(base, target, i) => bytes[i] \in 0..end /\ Agree(base, target, bytes[i])
  BY <1>1, <1>5, <1>7, LoopAgrees
<1>10. PICK w \in 0..end : w = wide[0] /\ Agree(base, target, w)
  <2>1. 0 \in 0..end /\ Agree(base, target, 0)
    BY <1>1, BytesType DEF Agree
  <2> QED
    BY <1>8, <2>1
<1>11. words \in 0..end /\ Agree(base, target, words)
  <2>1. CASE same(w, NarrowWord)
    <3>1. w \in Nat /\ w + NarrowWord \in 0..end /\ w + NarrowWord <= Len(base) /\ w + NarrowWord <= Len(target)
      BY <1>1, <1>2, <2>1, BytesType
    <3>2. Agree(base, target, w + NarrowWord)
      BY <1>2, <1>10, <2>1, <3>1, AgreeOn
    <3> QED
      BY <1>10, <2>1, <3>1, <3>2
  <2>2. CASE ~same(w, NarrowWord)
    BY <1>10, <2>2
  <2> QED
    BY <2>1, <2>2
<1> HIDE DEF words
<1>12. bytes[words] \in 0..end /\ Agree(base, target, bytes[words])
  BY <1>9, <1>11
<1>13. bytes[words] \in Nat
  BY <1>1, <1>12
<1> QED
  BY <1>3, <1>12, <1>13
-----------------------------------------------------------------------------
(* The builder.                                                              *)

EntryFields == [overlap : Nat, diff : Bytes, val : Bytes]
BlockFields == [key : Bytes, offset : Nat, len : Nat, entries : Seq(EntryFields)]
Hashes      == {Fingerprint[s] : s \in Bytes}
Builders    == [buf : Nat, baseKey : Bytes, baseOffset : Nat, entries : Seq(EntryFields),
                offsets : Seq(BlockFields), hashes : Seq(Hashes), estimatedSize : Nat]
Additions   == [key : Keys, value : ValueFields]

(* Entry e is what was added as a, in a block with that base key.            *)
Stores(e, base, a) == /\ e.overlap <= Len(base)
                      /\ a.key = SubSeq(base, 1, e.overlap) \o e.diff
                      /\ e.val = Encode(a.value)

(* The entries of a block are what was added from a place on; the first one  *)
(* has the base key.                                                         *)
Holds(entries, base, es, from) ==
  /\ entries # <<>> /\ from + Len(entries) <= Len(es)
  /\ base = es[from + 1].key
  /\ entries[1].overlap = 0 /\ entries[1].diff = base
  /\ \A i \in 1..Len(entries) : Stores(entries[i], base, es[from + i])

(* Block b of t holds what was added from start[b - 1] on.                   *)
Starts(t, es, start) ==
  /\ start \in [0..Len(t) -> Nat] /\ start[0] = 0
  /\ \A b \in 1..Len(t) : /\ start[b] = start[b - 1] + Len(t[b].entries)
                          /\ Holds(t[b].entries, t[b].key, es, start[b - 1])

BlockFits(blk) == Len(blk.entries) > 1 => blk.len <= BlockSize

(* A builder after es was added.                                             *)
Laid(b, es) ==
  \E start : /\ Starts(b.offsets, es, start)
             /\ start[Len(b.offsets)] + Len(b.entries) = Len(es)
             /\ b.entries # <<>> => Holds(b.entries, b.baseKey, es, start[Len(b.offsets)])

FitsSoFar(b) ==
  /\ b.baseOffset <= b.buf
  /\ \A i \in 1..Len(b.offsets) : BlockFits(b.offsets[i])
  /\ Len(b.entries) > 1 =>
        b.buf - b.baseOffset + 4 * Len(b.entries) + 8 + ChecksumLen <= BlockSize

Hashed(b, es) == Len(b.hashes) = Len(es) /\ \A i \in 1..Len(es) : b.hashes[i] = KeyHash(es[i].key)

Building(b, es) ==
  /\ b \in Builders /\ es \in Seq(Additions)
  /\ b.baseKey = NoKey <=> b.entries = <<>>
  /\ b.entries = <<>> => es = <<>>
  /\ Laid(b, es) /\ FitsSoFar(b) /\ Hashed(b, es)

LEMMA NothingBuilt == Building(NewBuilder, <<>>)
<1>1. /\ NewBuilder.buf = 0 /\ NewBuilder.baseKey = NoKey /\ NewBuilder.baseOffset = 0
      /\ NewBuilder.entries = <<>> /\ NewBuilder.offsets = <<>> /\ NewBuilder.hashes = <<>>
  BY DEF NewBuilder
<1>2. NewBuilder \in Builders
  BY DEF NewBuilder, Builders, Bytes, NoKey
<1>3. Laid(NewBuilder, <<>>)
  <2> DEFINE start == [n \in 0..0 |-> 0]
  <2>1. Starts(<<>>, <<>>, start)
    BY DEF Starts
  <2>2. start[0] = 0
    OBVIOUS
  <2> HIDE DEF start
  <2>3. start[Len(<<>>)] + Len(<<>>) = Len(<<>>)
    BY <2>2
  <2> QED
    BY <1>1, <2>1, <2>3 DEF Laid
<1>4. FitsSoFar(NewBuilder) /\ Hashed(NewBuilder, <<>>)
  BY <1>1 DEF FitsSoFar, Hashed
<1> QED
  BY <1>1, <1>2, <1>3, <1>4 DEF Building

(* add_helper appends an entry that stores the key and the value.            *)
Helped(r, b, key, v, e) ==
  /\ r.baseKey = IF b.baseKey = NoKey THEN key ELSE b.baseKey
  /\ r.baseOffset = b.baseOffset /\ r.offsets = b.offsets
  /\ r.hashes = Append(b.hashes, KeyHash(key))
  /\ r.entries = Append(b.entries, e)
  /\ Stores(e, r.baseKey, [key |-> key, value |-> v])
  /\ b.baseKey = NoKey => e.overlap = 0 /\ e.diff = key
  /\ r.buf = b.buf + 4 + Len(e.diff) + Len(e.val)
  /\ Len(e.diff) <= Len(key) /\ Len(e.val) <= EncodedSize(v)

LEMMA HelperAdds ==
  ASSUME NEW b \in Builders, NEW key \in Keys, NEW v \in ValueFields,
         NEW r, r = AddHelper(b, key, v)
  PROVE  r \in Builders /\ \E e \in EntryFields : Helped(r, b, key, v, e)
<1>1. PICK base : base = IF b.baseKey = NoKey THEN key ELSE b.baseKey
  OBVIOUS
<1>2. PICK diff : diff = IF b.baseKey = NoKey THEN key ELSE BytesDiff(base, key)
  OBVIOUS
<1>3. PICK val : val = Encode(v)
  OBVIOUS
<1>4. /\ key \in Bytes /\ base \in Bytes /\ val \in Bytes
      /\ Len(val) \in Nat /\ Len(val) <= EncodedSize(v) /\ EncodedSize(v) \in Nat
  BY <1>1, <1>3, KeyParts, Encoded, BytesType DEF Builders
<1>5. \E n \in Nat : /\ Agree(base, key, n) /\ diff = SubSeq(key, n + 1, Len(key))
                     /\ b.baseKey = NoKey => n = 0 /\ diff = key
  <2>1. CASE b.baseKey = NoKey
    <3>1. Agree(base, key, 0)
      BY <1>1, <1>4, <2>1, BytesType DEF Agree
    <3>2. SubSeq(key, 0 + 1, Len(key)) = key
      <4>1. SubSeq(key, 1, Len(key)) = key
        BY <1>4, SubSeqFull DEF Bytes
      <4> QED
        BY <4>1
    <3> QED
      BY <1>2, <2>1, <3>1, <3>2
  <2>2. CASE b.baseKey # NoKey
    BY <1>2, <1>4, <2>2, DiffAgrees
  <2> QED
    BY <2>1, <2>2
<1>6. PICK n \in Nat : /\ Agree(base, key, n) /\ diff = SubSeq(key, n + 1, Len(key))
                       /\ b.baseKey = NoKey => n = 0 /\ diff = key
  BY <1>5
<1>7. /\ diff \in Bytes /\ Len(diff) \in Nat /\ Len(key) \in Nat
      /\ Len(diff) = Len(key) - n /\ n <= Len(key) /\ n <= Len(base)
      /\ \A i \in 1..(Len(key) - n) : diff[i] = key[n + i]
  <2>1. n <= Len(key) /\ n <= Len(base)
    BY <1>6 DEF Agree
  <2> QED
    BY <1>4, <1>6, <2>1, Rest, BytesType, ZenonT(60) DEF Bytes
<1>8. PICK e : e = [overlap |-> Len(key) - Len(diff), diff |-> diff, val |-> val]
  OBVIOUS
<1>9. /\ e.overlap = n /\ e.diff = diff /\ e.val = val
      /\ e \in EntryFields
  <2>1. Len(key) - Len(diff) = n
    BY <1>7
  <2> QED
    BY <1>4, <1>7, <1>8, <2>1 DEF EntryFields
<1>10. key = SubSeq(base, 1, n) \o diff
  <2>1. /\ SubSeq(base, 1, n) \in Seq(0..255) /\ Len(SubSeq(base, 1, n)) = n
        /\ \A i \in 1..n : SubSeq(base, 1, n)[i] = base[i]
    BY <1>4, <1>7, Prefix DEF Bytes
  <2>2. PICK c : c = SubSeq(base, 1, n) \o diff
    OBVIOUS
  <2>3. /\ c \in Seq(0..255) /\ Len(c) = n + Len(diff)
        /\ \A i \in 1..(n + Len(diff)) : c[i] = IF i <= n THEN SubSeq(base, 1, n)[i] ELSE diff[i - n]
    BY <1>7, <2>1, <2>2, ConcatProperties DEF Bytes
  <2>4. n + Len(diff) = Len(key)
    BY <1>7
  <2>5. ASSUME NEW i \in 1..Len(key) PROVE c[i] = key[i]
    <3>1. CASE i <= n
      BY <1>6, <2>1, <2>3, <2>4, <3>1 DEF Agree
    <3>2. CASE ~(i <= n)
      <4>1. i - n \in 1..(Len(key) - n) /\ n + (i - n) = i
        BY <1>7, <3>2
      <4> QED
        BY <1>7, <2>3, <2>4, <3>2, <4>1
    <3> QED
      BY <3>1, <3>2
  <2> QED
    BY <1>4, <2>2, <2>3, <2>4, <2>5, SeqEqual DEF Bytes
<1>11. KeyHash(key) \in Hashes
  BY KeyParts DEF KeyHash, Hashes
<1>12. r = [b EXCEPT !.hashes = Append(@, KeyHash(key)), !.baseKey = base,
                     !.entries = Append(@, e), !.buf = @ + HeaderSize + Len(diff) + Len(e.val),
                     !.estimatedSize = @ + EncodedSize(v) + Len(diff) + 4]
  BY <1>1, <1>2, <1>3, <1>8, Zenon DEF AddHelper, HashAdded
<1>13. /\ b.buf \in Nat /\ b.baseOffset \in Nat /\ b.estimatedSize \in Nat
       /\ b.entries \in Seq(EntryFields) /\ b.hashes \in Seq(Hashes) /\ b.offsets \in Seq(BlockFields)
  BY DEF Builders
<1>14. /\ r.hashes = Append(b.hashes, KeyHash(key)) /\ r.baseKey = base
       /\ r.entries = Append(b.entries, e) /\ r.buf = b.buf + 4 + Len(diff) + Len(val)
       /\ r.estimatedSize = b.estimatedSize + EncodedSize(v) + Len(diff) + 4
       /\ r.offsets = b.offsets /\ r.baseOffset = b.baseOffset
  BY <1>9, <1>12 DEF Builders, HeaderSize
<1>15. /\ Append(b.hashes, KeyHash(key)) \in Seq(Hashes) /\ Append(b.entries, e) \in Seq(EntryFields)
       /\ b.buf + 4 + Len(diff) + Len(val) \in Nat
       /\ b.estimatedSize + EncodedSize(v) + Len(diff) + 4 \in Nat
  <2>1. Append(b.hashes, KeyHash(key)) \in Seq(Hashes) /\ Append(b.entries, e) \in Seq(EntryFields)
    BY <1>9, <1>11, <1>13, AppendProperties
  <2>2. PICK i \in Nat, j \in Nat, k \in Nat, l \in Nat, m \in Nat :
           /\ i = b.buf /\ j = b.estimatedSize /\ k = Len(diff) /\ l = Len(val) /\ m = EncodedSize(v)
    BY <1>4, <1>7, <1>13
  <2>3. i + 4 + k + l \in Nat /\ j + m + k + 4 \in Nat
    OBVIOUS
  <2> QED
    BY <2>1, <2>2, <2>3
<1>16. r \in Builders
  BY <1>4, <1>9, <1>12, <1>14, <1>15 DEF Builders, HeaderSize
<1>17. Stores(e, base, [key |-> key, value |-> v])
  BY <1>3, <1>7, <1>9, <1>10 DEF Stores
<1>18. Len(diff) <= Len(key)
  BY <1>7
<1>19. Helped(r, b, key, v, e)
  BY <1>1, <1>4, <1>6, <1>9, <1>14, <1>17, <1>18 DEF Helped
<1> QED
  BY <1>9, <1>16, <1>19
(* finish_block makes a block of the entries.                                *)
LEMMA BlockFinished ==
  ASSUME NEW b \in Builders, b.entries # <<>>, b.baseOffset <= b.buf, NEW f, f = FinishBlock(b)
  PROVE  /\ f \in Builders
         /\ f.baseKey = b.baseKey /\ f.baseOffset = b.baseOffset
         /\ f.entries = b.entries /\ f.hashes = b.hashes /\ b.buf <= f.buf
         /\ \E blk \in BlockFields :
               /\ f.offsets = Append(b.offsets, blk)
               /\ blk.key = b.baseKey /\ blk.entries = b.entries
               /\ blk.len = b.buf - b.baseOffset + 4 * Len(b.entries) + 8 + ChecksumLen
<1>1. PICK end : end = b.buf + 4 * Len(b.entries) + 4 + ChecksumLen + 4
  OBVIOUS
<1>2. PICK blk : blk = [key |-> b.baseKey, offset |-> b.baseOffset,
                        len |-> end - b.baseOffset, entries |-> b.entries]
  OBVIOUS
<1>3. f = [b EXCEPT !.buf = end, !.offsets = Append(@, blk)]
  BY <1>1, <1>2, Zenon DEF FinishBlock
<1>4. /\ b.buf \in Nat /\ b.baseOffset \in Nat /\ b.entries \in Seq(EntryFields)
      /\ b.offsets \in Seq(BlockFields) /\ b.baseKey \in Bytes
  BY DEF Builders
<1>5. Len(b.entries) \in Nat /\ ChecksumLen \in Nat
  BY <1>4, LenProperties, ChecksumLenAssumption
<1>6. /\ end \in Nat /\ b.buf <= end /\ end - b.baseOffset \in Nat
      /\ end - b.baseOffset = b.buf - b.baseOffset + 4 * Len(b.entries) + 8 + ChecksumLen
  <2>1. PICK i \in Nat, j \in Nat, k \in Nat, l \in Nat :
           i = b.buf /\ j = b.baseOffset /\ k = Len(b.entries) /\ l = ChecksumLen /\ j <= i
    BY <1>4, <1>5
  <2>2. end = i + 4 * k + 4 + l + 4
    BY <1>1, <2>1
  <2>3. end \in Nat /\ i <= end /\ end - j \in Nat /\ end - j = i - j + 4 * k + 8 + l
    <3>1. PICK x \in Nat : x = 4 * k
      OBVIOUS
    <3>2. end = i + x + 4 + l + 4 /\ j <= i
      BY <2>1, <2>2, <3>1, Zenon
    <3>3. end \in Nat /\ i <= end /\ end - j \in Nat /\ end - j = i - j + x + 8 + l
      BY <3>2
    <3> QED
      BY <3>1, <3>3, Zenon
  <2> QED
    BY <2>1, <2>3
<1>7. blk \in BlockFields
  BY <1>2, <1>4, <1>6 DEF BlockFields
<1>8. Append(b.offsets, blk) \in Seq(BlockFields)
  BY <1>4, <1>7, AppendProperties
<1>9. /\ f.buf = end /\ f.offsets = Append(b.offsets, blk) /\ f.baseKey = b.baseKey
      /\ f.baseOffset = b.baseOffset /\ f.entries = b.entries /\ f.hashes = b.hashes
      /\ f \in Builders
  BY <1>3, <1>6, <1>8 DEF Builders
<1> QED
  BY <1>2, <1>6, <1>7, <1>9

(* What was laid out stays so when more is added.                            *)
LEMMA HoldsOn ==
  ASSUME NEW es \in Seq(Additions), NEW a \in Additions, NEW entries \in Seq(EntryFields), NEW base,
         NEW from \in Nat, Holds(entries, base, es, from)
  PROVE  Holds(entries, base, Append(es, a), from)
<1>1. Len(entries) \in Nat /\ Len(es) \in Nat
  BY LenProperties
<1>2. from + 1 \in 1..Len(es) /\ \A i \in 1..Len(entries) : from + i \in 1..Len(es)
  <2>1. Len(entries) > 0
    BY <1>1 DEF Holds
  <2> QED
    BY <1>1, <2>1 DEF Holds
<1>3. /\ \A i \in 1..Len(es) : Append(es, a)[i] = es[i]
      /\ Len(Append(es, a)) = Len(es) + 1
  BY AppendProperties
<1>4. from + Len(entries) <= Len(Append(es, a))
  BY <1>1, <1>3 DEF Holds
<1> QED
  BY <1>2, <1>3, <1>4 DEF Holds

LEMMA StartsOn ==
  ASSUME NEW es \in Seq(Additions), NEW a \in Additions, NEW t \in Seq(BlockFields),
         NEW start, Starts(t, es, start)
  PROVE  Starts(t, Append(es, a), start)
<1>1. Len(t) \in Nat
  BY LenProperties
<1>2. ASSUME NEW b \in 1..Len(t) PROVE Holds(t[b].entries, t[b].key, Append(es, a), start[b - 1])
  <2>1. b - 1 \in 0..Len(t) /\ t[b] \in BlockFields
    BY <1>1, ElementOfSeq
  <2>2. start[b - 1] \in Nat /\ t[b].entries \in Seq(EntryFields)
    BY <2>1 DEF Starts, BlockFields
  <2> QED
    BY <2>2, HoldsOn DEF Starts
<1> QED
  BY <1>2 DEF Starts

(* One more block.                                                           *)
LEMMA StartsMore ==
  ASSUME NEW es \in Seq(Additions), NEW t \in Seq(BlockFields), NEW blk \in BlockFields,
         NEW start, Starts(t, es, start), Holds(blk.entries, blk.key, es, start[Len(t)])
  PROVE  \E more : /\ Starts(Append(t, blk), es, more)
                   /\ more[Len(t) + 1] = start[Len(t)] + Len(blk.entries)
<1>1. Len(t) \in Nat /\ start \in [0..Len(t) -> Nat]
  BY LenProperties DEF Starts
<1>2. blk.entries \in Seq(EntryFields) /\ Len(blk.entries) \in Nat
  BY LenProperties DEF BlockFields
<1>3. PICK n \in Nat : n = Len(t)
  BY <1>1
<1>4. PICK last \in Nat : last = start[n] + Len(blk.entries)
  <2>1. start[n] \in Nat
    BY <1>1, <1>3
  <2> QED
    BY <1>2, <2>1
<1> DEFINE more == [b \in 0..(n + 1) |-> IF b <= n THEN start[b] ELSE last]
<1>5. /\ more \in [0..(n + 1) -> Nat]
      /\ \A b \in 0..n : more[b] = start[b]
      /\ more[n + 1] = last
  BY <1>1, <1>3, <1>4
<1>6. /\ \A b \in 1..n : Append(t, blk)[b] = t[b]
      /\ Append(t, blk)[n + 1] = blk
      /\ Len(Append(t, blk)) = n + 1
  BY <1>3, AppendProperties
<1> HIDE DEF more
<1>7. ASSUME NEW b \in 1..(n + 1)
      PROVE  /\ more[b] = more[b - 1] + Len(Append(t, blk)[b].entries)
             /\ Holds(Append(t, blk)[b].entries, Append(t, blk)[b].key, es, more[b - 1])
  <2>1. CASE b <= n
    <3>1. b \in 1..n /\ b \in 0..n /\ b - 1 \in 0..n
      BY <2>1
    <3> QED
      BY <1>3, <1>5, <1>6, <3>1 DEF Starts
  <2>2. CASE ~(b <= n)
    <3>1. b = n + 1 /\ b - 1 = n /\ n \in 0..n
      BY <2>2
    <3> QED
      BY <1>3, <1>4, <1>5, <1>6, <3>1
  <2> QED
    BY <2>1, <2>2
<1>8. more[0] = 0
  <2>1. 0 \in 0..n /\ start[0] = 0
    BY DEF Starts
  <2> QED
    BY <1>5, <2>1
<1>9. Starts(Append(t, blk), es, more)
  BY <1>5, <1>6, <1>7, <1>8 DEF Starts
<1> QED
  BY <1>3, <1>4, <1>5, <1>9
(* A builder whose block takes one more entry.                               *)
HasRoom(b, key, v) ==
  b.entries # <<>> => b.buf - b.baseOffset + 6 + Len(key) + EncodedSize(v)
                        + (4 * (Len(b.entries) + 1) + 4 + 8 + 4) <= BlockSize

LEMMA HelperLays ==
  ASSUME NEW b \in Builders, NEW es \in Seq(Additions), NEW key \in Keys, NEW v \in ValueFields,
         b.baseKey = NoKey <=> b.entries = <<>>, Laid(b, es)
  PROVE  Laid(AddHelper(b, key, v), Append(es, [key |-> key, value |-> v]))
<1>1. PICK r, a, fs : /\ r = AddHelper(b, key, v) /\ a = [key |-> key, value |-> v]
                      /\ fs = Append(es, a)
  OBVIOUS
<1>0. PICK e \in EntryFields : Helped(r, b, key, v, e)
  BY <1>1, HelperAdds
<1>2. /\ r.entries = Append(b.entries, e)
      /\ Stores(e, r.baseKey, a)
      /\ b.baseKey = NoKey => e.overlap = 0 /\ e.diff = key
  BY <1>0, <1>1 DEF Helped
<1>3. r.offsets = b.offsets /\ r.baseKey = IF b.baseKey = NoKey THEN key ELSE b.baseKey
  BY <1>0 DEF Helped
<1>4. PICK start : /\ Starts(b.offsets, es, start)
                   /\ start[Len(b.offsets)] + Len(b.entries) = Len(es)
                   /\ b.entries # <<>> => Holds(b.entries, b.baseKey, es, start[Len(b.offsets)])
  BY DEF Laid
<1>5. a \in Additions /\ a.key = key
  BY <1>1 DEF Additions
<1>6. b.offsets \in Seq(BlockFields) /\ b.entries \in Seq(EntryFields)
  BY DEF Builders
<1>7. Starts(b.offsets, fs, start)
  BY <1>1, <1>4, <1>5, <1>6, StartsOn
<1>8. PICK from \in Nat, n \in Nat : from = start[Len(b.offsets)] /\ n = Len(b.entries)
  <2>1. Len(b.offsets) \in 0..Len(b.offsets) /\ Len(b.entries) \in Nat
    BY <1>6, LenProperties
  <2> QED
    BY <1>4, <2>1 DEF Starts
<1>9. /\ \A i \in 1..n : r.entries[i] = b.entries[i]
      /\ r.entries[n + 1] = e /\ Len(r.entries) = n + 1 /\ r.entries # <<>>
  BY <1>2, <1>6, <1>8, AppendProperties
<1>10. /\ from + n = Len(es)
       /\ Len(fs) = from + n + 1 /\ fs[from + n + 1] = a
       /\ \A i \in 1..(from + n) : fs[i] = es[i]
  BY <1>1, <1>4, <1>5, <1>8, AppendProperties
<1>11. Holds(r.entries, r.baseKey, fs, from)
  <2>1. CASE b.entries = <<>>
    <3>1. n = 0 /\ n + 1 = 1 /\ from + n + 1 = from + 1 /\ r.baseKey = key
      BY <1>3, <1>8, <2>1
    <3>2. r.entries[1] = e /\ Len(r.entries) = 1 /\ fs[from + 1] = a
      BY <1>9, <1>10, <3>1
    <3>3. \A i \in 1..Len(r.entries) : i = 1
      BY <3>2
    <3>4. from + Len(r.entries) <= Len(fs)
      BY <1>9, <1>10
    <3> QED
      BY <1>2, <1>3, <1>5, <1>9, <2>1, <3>1, <3>2, <3>3, <3>4 DEF Holds
  <2>2. CASE b.entries # <<>>
    <3>1. Holds(b.entries, b.baseKey, es, from) /\ r.baseKey = b.baseKey
      BY <1>3, <1>4, <1>8, <2>2
    <3>2. n >= 1
      BY <1>6, <1>8, <2>2
    <3>3. fs[from + 1] = es[from + 1] /\ r.entries[1] = b.entries[1]
      BY <1>9, <1>10, <3>2
    <3>4. ASSUME NEW i \in 1..(n + 1) PROVE Stores(r.entries[i], r.baseKey, fs[from + i])
      <4>1. CASE i <= n
        <5>1. i \in 1..n /\ from + i \in 1..(from + n)
          BY <4>1
        <5> QED
          BY <1>8, <1>9, <1>10, <3>1, <5>1 DEF Holds
      <4>2. CASE ~(i <= n)
        <5>1. i = n + 1 /\ from + i = from + n + 1
          BY <4>2
        <5> QED
          BY <1>2, <1>9, <1>10, <5>1
      <4> QED
        BY <4>1, <4>2
    <3>5. from + Len(r.entries) <= Len(fs)
      BY <1>9, <1>10
    <3> QED
      BY <1>9, <3>1, <3>3, <3>4, <3>5 DEF Holds
  <2> QED
    BY <2>1, <2>2
<1>12. from + Len(r.entries) = Len(fs)
  BY <1>9, <1>10
<1> QED
  BY <1>1, <1>3, <1>7, <1>8, <1>11, <1>12 DEF Laid

LEMMA HelperFits ==
  ASSUME NEW b \in Builders, NEW key \in Keys, NEW v \in ValueFields,
         FitsSoFar(b), HasRoom(b, key, v)
  PROVE  FitsSoFar(AddHelper(b, key, v))
<1>1. PICK r : r = AddHelper(b, key, v)
  OBVIOUS
<1>0. PICK e \in EntryFields : Helped(r, b, key, v, e)
  BY <1>1, HelperAdds
<1>2. /\ r.entries = Append(b.entries, e)
      /\ r.buf = b.buf + 4 + Len(e.diff) + Len(e.val)
      /\ Len(e.diff) <= Len(key) /\ Len(e.val) <= EncodedSize(v)
  BY <1>0, Zenon DEF Helped
<1>3. r.offsets = b.offsets /\ r.baseOffset = b.baseOffset
  BY <1>0, Zenon DEF Helped
<1>4. PICK buf \in Nat, off \in Nat, n \in Nat, d \in Nat, l \in Nat, k \in Nat, s \in Nat, c \in 0..6 :
         /\ buf = b.buf /\ off = b.baseOffset /\ n = Len(b.entries) /\ d = Len(e.diff)
         /\ l = Len(e.val) /\ k = Len(key) /\ s = EncodedSize(v) /\ c = ChecksumLen
  <2>1. b.buf \in Nat /\ b.baseOffset \in Nat /\ Len(b.entries) \in Nat
    BY LenProperties DEF Builders
  <2>2. Len(e.diff) \in Nat /\ Len(e.val) \in Nat /\ Len(key) \in Nat /\ EncodedSize(v) \in Nat
    BY BytesType, KeyParts, Encoded DEF EntryFields
  <2> QED
    BY <2>1, <2>2, ChecksumLenAssumption
<1>5. d <= k /\ l <= s /\ off <= buf /\ BlockSize \in Nat
  BY <1>2, <1>4, SizesAssumption DEF FitsSoFar
<1>6. r.buf = buf + 4 + d + l /\ Len(r.entries) = n + 1
  <2>1. b.entries \in Seq(EntryFields)
    BY DEF Builders
  <2> QED
    BY <1>2, <1>4, <2>1, AppendProperties
<1>7. off <= r.buf
  <2>1. off <= buf + 4 + d + l
    BY <1>5
  <2> QED
    BY <1>6, <2>1, Zenon
<1>8. ASSUME n + 1 > 1
      PROVE  r.buf - off + 4 * Len(r.entries) + 8 + c <= BlockSize
  <2>1. b.entries # <<>>
    BY <1>4, <1>8
  <2>2. buf - off + 6 + k + s + (4 * (n + 1) + 4 + 8 + 4) <= BlockSize
    BY <1>4, <2>1 DEF HasRoom
  <2>3. PICK x \in Nat : x = 4 * (n + 1)
    OBVIOUS
  <2>4. buf - off + 6 + k + s + (x + 4 + 8 + 4) <= BlockSize
    BY <2>2, <2>3, Zenon
  <2>5. buf + 4 + d + l - off + x + 8 + c <= buf - off + 6 + k + s + (x + 4 + 8 + 4)
    BY <1>5
  <2>6. buf + 4 + d + l - off + x + 8 + c <= BlockSize
    BY <1>5, <2>4, <2>5
  <2>7. r.buf - off + x + 8 + c <= BlockSize
    BY <1>6, <2>6
  <2>8. x = 4 * Len(r.entries)
    BY <1>6, <2>3, Zenon
  <2> QED
    BY <2>7, <2>8, Zenon
<1> QED
  BY <1>1, <1>3, <1>4, <1>6, <1>7, <1>8 DEF FitsSoFar
LEMMA HelperBuilds ==
  ASSUME NEW b \in Builders, NEW es \in Seq(Additions), NEW key \in Keys, NEW v \in ValueFields,
         b.baseKey = NoKey <=> b.entries = <<>>,
         Laid(b, es), FitsSoFar(b), HasRoom(b, key, v), Hashed(b, es)
  PROVE  Building(AddHelper(b, key, v), Append(es, [key |-> key, value |-> v]))
<1>1. PICK r, a : r = AddHelper(b, key, v) /\ a = [key |-> key, value |-> v]
  OBVIOUS
<1>2. PICK e \in EntryFields : r \in Builders /\ Helped(r, b, key, v, e)
  BY <1>1, HelperAdds
<1>3. a \in Additions /\ a.key = key
  BY <1>1 DEF Additions
<1>4. /\ Append(es, a) \in Seq(Additions) /\ Len(Append(es, a)) = Len(es) + 1
      /\ \A i \in 1..Len(es) : Append(es, a)[i] = es[i]
      /\ Append(es, a)[Len(es) + 1] = a
  BY <1>3, AppendProperties
<1>5. b.hashes \in Seq(Hashes) /\ KeyHash(key) \in Hashes /\ b.entries \in Seq(EntryFields)
  BY KeyParts DEF Builders, KeyHash, Hashes
<1>6. /\ Len(r.hashes) = Len(b.hashes) + 1
      /\ \A i \in 1..Len(b.hashes) : r.hashes[i] = b.hashes[i]
      /\ r.hashes[Len(b.hashes) + 1] = KeyHash(key)
  BY <1>2, <1>5, AppendProperties DEF Helped
<1>7. Hashed(r, Append(es, a))
  <2>1. PICK n \in Nat : n = Len(es) /\ n = Len(b.hashes)
    BY LenProperties DEF Hashed
  <2>2. \A i \in 1..(n + 1) : i \in 1..n \/ i = n + 1
    OBVIOUS
  <2>3. \A i \in 1..(n + 1) : r.hashes[i] = KeyHash(Append(es, a)[i].key)
    BY <1>3, <1>4, <1>6, <2>1, <2>2 DEF Hashed
  <2> QED
    BY <1>4, <1>6, <2>1, <2>3 DEF Hashed
<1>8. r.entries # <<>> /\ r.baseKey # NoKey
  <2>1. r.entries = Append(b.entries, e) /\ r.baseKey = IF b.baseKey = NoKey THEN key ELSE b.baseKey
    BY <1>2 DEF Helped
  <2>2. r.entries # <<>>
    BY <1>5, <2>1, AppendProperties
  <2>3. key # NoKey
    BY KeyParts
  <2>4. CASE b.baseKey = NoKey
    BY <2>1, <2>2, <2>3, <2>4, Zenon
  <2>5. CASE b.baseKey # NoKey
    BY <2>1, <2>2, <2>5, Zenon
  <2> QED
    BY <2>4, <2>5
<1>9. Laid(r, Append(es, a)) /\ FitsSoFar(r)
  BY <1>1, HelperLays, HelperFits
<1> QED
  BY <1>1, <1>2, <1>4, <1>7, <1>8, <1>9 DEF Building

(* The block that is finished takes its place among the others.              *)
LEMMA FinishLays ==
  ASSUME NEW b, NEW es, Building(b, es), b.entries # <<>>, NEW f, f = FinishBlock(b)
  PROVE  /\ \E start : Starts(f.offsets, es, start) /\ start[Len(f.offsets)] = Len(es)
         /\ \A i \in 1..Len(f.offsets) : BlockFits(f.offsets[i])
         /\ f \in Builders /\ f.hashes = b.hashes /\ Len(f.offsets) > 0
         /\ f.entries = b.entries /\ f.baseKey = b.baseKey
<1>0. b \in Builders /\ es \in Seq(Additions) /\ b.baseOffset <= b.buf
  BY DEF Building, FitsSoFar
<1>1. PICK blk \in BlockFields :
         /\ f.offsets = Append(b.offsets, blk)
         /\ blk.key = b.baseKey /\ blk.entries = b.entries
         /\ blk.len = b.buf - b.baseOffset + 4 * Len(b.entries) + 8 + ChecksumLen
  BY <1>0, BlockFinished
<1>2. f \in Builders /\ f.entries = b.entries /\ f.hashes = b.hashes /\ f.baseKey = b.baseKey
  BY <1>0, BlockFinished
<1>3. PICK start : /\ Starts(b.offsets, es, start)
                   /\ start[Len(b.offsets)] + Len(b.entries) = Len(es)
                   /\ Holds(b.entries, b.baseKey, es, start[Len(b.offsets)])
  BY DEF Building, Laid
<1>4. b.offsets \in Seq(BlockFields)
  BY <1>0 DEF Builders
<1>5. PICK more : /\ Starts(f.offsets, es, more)
                  /\ more[Len(b.offsets) + 1] = start[Len(b.offsets)] + Len(b.entries)
  <2>1. Holds(blk.entries, blk.key, es, start[Len(b.offsets)])
    BY <1>1, <1>3
  <2>2. \E more : /\ Starts(Append(b.offsets, blk), es, more)
                  /\ more[Len(b.offsets) + 1] = start[Len(b.offsets)] + Len(blk.entries)
    BY <1>0, <1>3, <1>4, <2>1, StartsMore
  <2> QED
    BY <1>1, <2>2
<1>6. /\ Len(f.offsets) = Len(b.offsets) + 1 /\ Len(b.offsets) \in Nat
      /\ f.offsets[Len(b.offsets) + 1] = blk
      /\ \A i \in 1..Len(b.offsets) : f.offsets[i] = b.offsets[i]
  BY <1>1, <1>4, AppendProperties, LenProperties
<1>7. BlockFits(blk)
  BY <1>1 DEF Building, FitsSoFar, BlockFits
<1>8. \A i \in 1..Len(f.offsets) : BlockFits(f.offsets[i])
  <2>1. \A i \in 1..(Len(b.offsets) + 1) : i \in 1..Len(b.offsets) \/ i = Len(b.offsets) + 1
    BY <1>6
  <2> QED
    BY <1>6, <1>7, <2>1 DEF Building, FitsSoFar
<1> QED
  BY <1>2, <1>3, <1>5, <1>6, <1>8

(* add *)
LEMMA AddBuilds ==
  ASSUME NEW b, NEW es, Building(b, es), NEW key \in Keys, NEW v \in ValueFields
  PROVE  Building(Add(b, key, v), Append(es, [key |-> key, value |-> v]))
<1>0. b \in Builders /\ es \in Seq(Additions) /\ Hashed(b, es)
  BY DEF Building
<1>1. CASE ~ShouldFinishBlock(b, key, v)
  <2>1. Add(b, key, v) = AddHelper(b, key, v)
    BY <1>1, Zenon DEF Add
  <2>2. HasRoom(b, key, v)
    <3> SUFFICES ASSUME b.entries # <<>> PROVE HasRoom(b, key, v)
      BY DEF HasRoom
    <3>1. PICK tail : tail = 4 * (Len(b.entries) + 1) + 4 + 8 + 4
      OBVIOUS
    <3>2. ~(b.buf - b.baseOffset + 6 + Len(key) + EncodedSize(v) + tail > BlockSize)
      BY <1>1, <3>1, Zenon DEF ShouldFinishBlock
    <3>3. /\ b.buf \in Nat /\ b.baseOffset \in Nat /\ Len(b.entries) \in Nat
          /\ Len(key) \in Nat /\ EncodedSize(v) \in Nat /\ BlockSize \in Nat
      BY <1>0, BytesType, KeyParts, Encoded, SizesAssumption, LenProperties DEF Builders
    <3>4. tail \in Nat
      BY <3>1, <3>3
    <3>5. PICK buf \in Nat, off \in Nat, k \in Nat, s \in Nat :
             buf = b.buf /\ off = b.baseOffset /\ k = Len(key) /\ s = EncodedSize(v)
      BY <3>3
    <3>6. ~(buf - off + 6 + k + s + tail > BlockSize)
      BY <3>2, <3>5, Zenon
    <3>7. buf - off + 6 + k + s + tail <= BlockSize
      BY <3>3, <3>4, <3>6
    <3>8. b.buf - b.baseOffset + 6 + Len(key) + EncodedSize(v) + tail <= BlockSize
      BY <3>5, <3>7, Zenon
    <3> QED
      BY <3>1, <3>8, Zenon DEF HasRoom
  <2> QED
    BY <1>0, <2>1, <2>2, HelperBuilds DEF Building
<1>2. CASE ShouldFinishBlock(b, key, v)
  <2>1. PICK f : f = FinishBlock(b)
    OBVIOUS
  <2>2. PICK c : c = [f EXCEPT !.baseKey = NoKey, !.baseOffset = f.buf, !.entries = <<>>]
    OBVIOUS
  <2>3. Add(b, key, v) = AddHelper(c, key, v)
    BY <1>2, <2>1, <2>2, Zenon DEF Add
  <2>4. b.entries # <<>>
    BY <1>2 DEF ShouldFinishBlock
  <2>5. /\ \E start : Starts(f.offsets, es, start) /\ start[Len(f.offsets)] = Len(es)
        /\ \A i \in 1..Len(f.offsets) : BlockFits(f.offsets[i])
        /\ f \in Builders /\ f.hashes = b.hashes
    BY <2>1, <2>4, FinishLays
  <2>6. /\ c \in Builders /\ c.baseKey = NoKey /\ c.entries = <<>> /\ c.offsets = f.offsets
        /\ c.baseOffset = f.buf /\ c.buf = f.buf /\ c.hashes = b.hashes /\ f.buf \in Nat
    <3>1. /\ f \in Builders /\ f.buf \in Nat /\ f.hashes \in Seq(Hashes)
          /\ f.offsets \in Seq(BlockFields) /\ f.estimatedSize \in Nat
      BY <2>5 DEF Builders
    <3>2. <<>> \in Bytes /\ <<>> \in Seq(EntryFields)
      BY DEF Bytes
    <3>3. DOMAIN f = {"buf", "baseKey", "baseOffset", "entries", "offsets", "hashes", "estimatedSize"}
      BY <3>1 DEF Builders
    <3>4. /\ c.baseKey = NoKey /\ c.entries = <<>> /\ c.offsets = f.offsets
          /\ c.baseOffset = f.buf /\ c.buf = f.buf /\ c.hashes = f.hashes
      BY <2>2, <3>3
    <3>5. c \in Builders
      BY <2>2, <3>1, <3>2 DEF Builders, NoKey
    <3> QED
      BY <2>5, <3>1, <3>4, <3>5
  <2>7. Laid(c, es)
    <3>1. PICK start : Starts(f.offsets, es, start) /\ start[Len(f.offsets)] = Len(es)
      BY <2>5
    <3>2. start[Len(f.offsets)] + Len(c.entries) = Len(es)
      BY <1>0, <2>6, <3>1, LenProperties
    <3> QED
      BY <2>6, <3>1, <3>2 DEF Laid
  <2>8. FitsSoFar(c)
    <3>1. ~(Len(c.entries) > 1) /\ c.baseOffset <= c.buf
      BY <2>6
    <3> QED
      BY <2>5, <2>6, <3>1 DEF FitsSoFar
  <2>9. HasRoom(c, key, v) /\ Hashed(c, es)
    BY <1>0, <2>6 DEF HasRoom, Hashed
  <2> QED
    BY <1>0, <2>3, <2>6, <2>7, <2>8, <2>9, HelperBuilds
<1> QED
  BY <1>1, <1>2

(* The finished table t holds es, and nothing else.                          *)
IsTable(t, es) == /\ t \in Seq(BlockFields) /\ es \in Seq(Additions) /\ t # <<>>
                  /\ \E start : Starts(t, es, start) /\ start[Len(t)] = Len(es)

(* finish *)
LEMMA FinishBuilds ==
  ASSUME NEW b, NEW es, Building(b, es), es # <<>>
  PROVE  /\ IsTable(Finish(b).blocks, es)
         /\ \A i \in 1..Len(Finish(b).blocks) : BlockFits(Finish(b).blocks[i])
         /\ Finish(b).filter = IF BloomEnabled THEN BuildFilter(b.hashes, BitsPerKey) ELSE NoFilter
<1>1. PICK f : f = FinishBlock(b)
  OBVIOUS
<1>2. b.entries # <<>>
  BY DEF Building
<1>3. /\ \E start : Starts(f.offsets, es, start) /\ start[Len(f.offsets)] = Len(es)
      /\ \A i \in 1..Len(f.offsets) : BlockFits(f.offsets[i])
      /\ f \in Builders /\ f.hashes = b.hashes /\ Len(f.offsets) > 0
  BY <1>1, <1>2, FinishLays
<1>4. /\ Finish(b).blocks = f.offsets
      /\ Finish(b).filter = IF BloomEnabled THEN BuildFilter(f.hashes, BitsPerKey) ELSE NoFilter
  BY <1>1 DEF Finish
<1>5. f.offsets \in Seq(BlockFields) /\ es \in Seq(Additions) /\ f.offsets # <<>>
  BY <1>3 DEF Builders, Building
<1> QED
  BY <1>3, <1>4, <1>5 DEF IsTable

(* The first n entries of a table are the first n - 1 and the next.          *)
LEMMA OneMore ==
  ASSUME NEW es \in Seq(Additions), NEW n \in 1..Len(es)
  PROVE  /\ es[n].key \in Keys /\ es[n].value \in ValueFields
         /\ Append(SubSeq(es, 1, n - 1), [key |-> es[n].key, value |-> es[n].value]) = SubSeq(es, 1, n)
<1>1. Len(es) \in Nat /\ n \in Nat /\ n <= Len(es)
  BY LenProperties
<1>2. PICK m \in Nat : m = n - 1 /\ m <= Len(es) /\ n = m + 1
  BY <1>1
<1>3. es[n] \in Additions
  BY ElementOfSeq
<1>4. PICK a : a = [key |-> es[n].key, value |-> es[n].value]
  OBVIOUS
<1>5. a = es[n] /\ a \in Additions /\ es[n].key \in Keys /\ es[n].value \in ValueFields
  BY <1>3, <1>4 DEF Additions
<1>6. PICK s, u : s = SubSeq(es, 1, m) /\ u = SubSeq(es, 1, n)
  OBVIOUS
<1>7. s \in Seq(Additions) /\ Len(s) = m /\ \A i \in 1..m : s[i] = es[i]
  BY <1>2, <1>6, Prefix
<1>8. u \in Seq(Additions) /\ Len(u) = n /\ \A i \in 1..n : u[i] = es[i]
  BY <1>1, <1>6, Prefix
<1>9. PICK w : w = Append(s, a)
  OBVIOUS
<1>10. w \in Seq(Additions) /\ Len(w) = m + 1 /\ (\A i \in 1..m : w[i] = s[i]) /\ w[m + 1] = a
  BY <1>5, <1>7, <1>9, AppendProperties
<1>11. \A i \in 1..n : i \in 1..m \/ i = m + 1
  BY <1>2
<1>12. \A i \in 1..n : w[i] = u[i]
  BY <1>2, <1>5, <1>7, <1>8, <1>10, <1>11
<1>13. w = u
  BY <1>2, <1>8, <1>10, <1>12, SeqEqual
<1> QED
  BY <1>2, <1>4, <1>5, <1>6, <1>9, <1>13, Zenon

(* A table that is built at once is laid out as well.                        *)
LEMMA BuiltAtOnce ==
  ASSUME NEW es \in Seq(Additions), es # <<>>
  PROVE  IsTable(BuildTable(es).blocks, es)
<1> DEFINE Upto(n) == SubSeq(es, 1, n)
           More(b, n) == Add(b, es[n].key, es[n].value)
           step == [n \in 1..Len(es) |->
                      [b \in Builders |-> IF Building(b, Upto(n - 1)) THEN More(b, n) ELSE b]]
           IsAfter(g) ==
             g = [n \in 0..Len(es) |-> IF n = 0 THEN NewBuilder ELSE More(g[n - 1], n)]
           after == CHOOSE g : IsAfter(g)
<1>1. Len(es) \in Nat
  BY LenProperties
<1>2. ASSUME NEW n \in 1..Len(es), NEW b, Building(b, Upto(n - 1))
      PROVE  More(b, n) \in Builders /\ Building(More(b, n), Upto(n))
  <2>1. PICK k, v : k = es[n].key /\ v = es[n].value
    OBVIOUS
  <2>2. /\ k \in Keys /\ v \in ValueFields
        /\ Append(Upto(n - 1), [key |-> k, value |-> v]) = Upto(n)
    BY <2>1, OneMore
  <2>3. k \in Keys /\ v \in ValueFields
    BY <2>2
  <2>4. Building(Add(b, k, v), Append(Upto(n - 1), [key |-> k, value |-> v]))
    <3> HIDE DEF Upto
    <3> QED
      BY <1>2, <2>3, AddBuilds
  <2>5. Building(More(b, n), Upto(n))
    BY <2>1, <2>2, <2>4, Zenon
  <2> QED
    BY <2>5 DEF Building
<1> HIDE DEF Upto, More
<1>3. IsSteps(step, Len(es), Builders)
  <2>1. ASSUME NEW n \in 1..Len(es), NEW b \in Builders
        PROVE  (IF Building(b, Upto(n - 1)) THEN More(b, n) ELSE b) \in Builders
    BY <1>2
  <2> QED
    BY <2>1 DEF IsSteps
<1>4. Building(NewBuilder, Upto(0)) /\ NewBuilder \in Builders
  <2>1. Upto(0) = <<>>
    <3>1. 0 \in Nat /\ 0 <= Len(es)
      BY <1>1
    <3>2. Upto(0) \in Seq(Additions) /\ Len(Upto(0)) = 0
      BY <3>1, Prefix DEF Upto
    <3> QED
      BY <3>2, EmptySeq
  <2> QED
    BY <2>1, NothingBuilt DEF Building
<1>5. PICK g : IsRun(g, NewBuilder, step, Len(es), Builders)
  <2> HIDE DEF step
  <2> QED
    BY <1>1, <1>3, <1>4, Iteration
<1>6. /\ g \in [0..Len(es) -> Builders] /\ g[0] = NewBuilder
      /\ \A n \in 1..Len(es) :
            g[n] = IF Building(g[n - 1], Upto(n - 1)) THEN More(g[n - 1], n) ELSE g[n - 1]
  <2>1. /\ g \in [0..Len(es) -> Builders] /\ g[0] = NewBuilder
        /\ \A n \in 1..Len(es) : g[n] = step[n][g[n - 1]]
    BY <1>5 DEF IsRun
  <2>2. \A n \in 1..Len(es) : g[n - 1] \in Builders
    BY <1>1, <2>1
  <2> QED
    BY <2>1, <2>2
<1> HIDE DEF step
<1> DEFINE T == {n \in 0..Len(es) : ~Building(g[n], Upto(n))}
<1>7. ASSUME T # {} PROVE FALSE
  <2>1. T \in SUBSET Nat
    BY <1>1
  <2>2. PICK n \in T : \A m \in T : n <= m
    BY <1>7, <2>1, NatMin
  <2>3. n # 0
    BY <1>4, <1>6, <2>2
  <2>4. n \in 1..Len(es) /\ n - 1 \in 0..Len(es) /\ ~(n <= n - 1)
    BY <1>1, <2>2, <2>3
  <2>5. Building(g[n - 1], Upto(n - 1))
    BY <2>2, <2>4
  <2>6. g[n] = More(g[n - 1], n)
    BY <1>6, <2>4, <2>5
  <2> QED
    BY <1>2, <2>2, <2>4, <2>5, <2>6
<1>8. \A n \in 0..Len(es) : Building(g[n], Upto(n))
  BY <1>7
<1>9. IsAfter(g)
  <2>1. ASSUME NEW n \in 0..Len(es)
        PROVE  g[n] = IF n = 0 THEN NewBuilder ELSE More(g[n - 1], n)
    <3>1. CASE n = 0
      BY <1>6, <3>1
    <3>2. CASE n # 0
      <4>1. n \in 1..Len(es) /\ n - 1 \in 0..Len(es)
        BY <1>1, <3>2
      <4> QED
        BY <1>6, <1>8, <3>2, <4>1
    <3> QED
      BY <3>1, <3>2
  <2> QED
    BY <1>6, <2>1
<1>10. IsAfter(after)
  <2> HIDE DEF IsAfter
  <2> QED
    BY <1>9, Zenon
<1>11. BuildTable(es) = Finish(after[Len(es)])
  BY Zenon DEF BuildTable, More
<1> HIDE DEF after
<1> DEFINE U == {n \in 0..Len(es) : ~Building(after[n], Upto(n))}
<1>12. ASSUME U # {} PROVE FALSE
  <2>1. U \in SUBSET Nat
    BY <1>1
  <2>2. PICK n \in U : \A m \in U : n <= m
    BY <1>12, <2>1, NatMin
  <2>3. n # 0
    BY <1>4, <1>10, <2>2
  <2>4. n \in 1..Len(es) /\ n - 1 \in 0..Len(es) /\ ~(n <= n - 1)
    BY <1>1, <2>2, <2>3
  <2>5. Building(after[n - 1], Upto(n - 1))
    BY <2>2, <2>4
  <2>6. after[n] = More(after[n - 1], n)
    BY <1>10, <2>3, <2>4
  <2> QED
    BY <1>2, <2>2, <2>4, <2>5, <2>6
<1>13. Building(after[Len(es)], es)
  <2>1. Len(es) \in 0..Len(es)
    BY <1>1
  <2>2. Building(after[Len(es)], Upto(Len(es)))
    BY <1>12, <2>1
  <2>3. Upto(Len(es)) = es
    <3>1. Len(es) \in Nat /\ Len(es) <= Len(es)
      BY <1>1
    <3>2. /\ Upto(Len(es)) \in Seq(Additions) /\ Len(Upto(Len(es))) = Len(es)
          /\ \A i \in 1..Len(es) : Upto(Len(es))[i] = es[i]
      BY <3>1, Prefix DEF Upto
    <3> QED
      BY <3>2, SeqEqual
  <2> QED
    BY <2>2, <2>3
<1> QED
  BY <1>11, <1>13, FinishBuilds

-----------------------------------------------------------------------------
(* The binary searches.                                                      *)

(* A turn halves [i, j) at h: the rest is inside it, and smaller.            *)
LEMMA Halved ==
  ASSUME NEW i \in Nat, NEW j \in Nat, i < j, NEW h, h = (i + j) \div 2
  PROVE  h \in Nat /\ i <= h /\ h < j /\ h - i < j - i /\ j - (h + 1) < j - i /\ h + 1 <= j
OBVIOUS

(* The search ends where the predicate begins to hold.                       *)
LEMMA SearchFinds ==
  ASSUME NEW n \in Nat, NEW holds
  PROVE  /\ Search(n, holds) \in 0..n
         /\ Search(n, holds) > 0 => Search(n, holds) - 1 \notin holds
         /\ Search(n, holds) < n => Search(n, holds) \in holds
<1> DEFINE Sound(p) == /\ p.i <= p.j
                       /\ p.i > 0 => p.i - 1 \notin holds
                       /\ p.j < n => p.j \in holds
           S == {p \in [i : 0..n, j : 0..n] : Sound(p)}
           half(p) == (p.i + p.j) \div 2
           turned(p) == IF p.i >= p.j THEN p
                        ELSE IF half(p) \in holds THEN [i |-> p.i, j |-> half(p)]
                        ELSE [i |-> half(p) + 1, j |-> p.j]
           IsF(g) == g = [s \in 0..n |-> IF s = 0 THEN [i |-> 0, j |-> n] ELSE turned(g[s - 1])]
           f == CHOOSE g : IsF(g)
           step == [s \in 1..n |-> [p \in S |-> turned(p)]]
<1>1. ASSUME NEW p \in S
      PROVE  /\ turned(p) \in S
             /\ p.i < p.j => turned(p).j - turned(p).i < p.j - p.i
             /\ ~(p.i < p.j) => turned(p) = p
  <2>0. p.i \in 0..n /\ p.j \in 0..n /\ Sound(p)
    OBVIOUS
  <2>1. CASE ~(p.i < p.j)
    BY <2>0, <2>1
  <2>2. CASE p.i < p.j
    <3>1. PICK h : h = half(p)
      OBVIOUS
    <3>2. h \in Nat /\ p.i <= h /\ h < p.j /\ h - p.i < p.j - p.i /\ p.j - (h + 1) < p.j - p.i /\ h + 1 <= p.j
      <4>1. p.i \in Nat /\ p.j \in Nat /\ h = (p.i + p.j) \div 2
        BY <2>0, <3>1
      <4> QED
        BY <2>2, <4>1, Halved
    <3>3. CASE h \in holds
      <4>1. turned(p) = [i |-> p.i, j |-> h]
        BY <2>0, <2>2, <3>1, <3>3
      <4>2. turned(p).i = p.i /\ turned(p).j = h
        BY <4>1
      <4> QED
        BY <2>0, <3>2, <3>3, <4>1, <4>2, <2>2
    <3>4. CASE h \notin holds
      <4>1. turned(p) = [i |-> h + 1, j |-> p.j]
        BY <2>0, <2>2, <3>1, <3>4
      <4>2. turned(p).i = h + 1 /\ turned(p).j = p.j /\ h + 1 - 1 = h /\ h + 1 \in 0..n
        BY <4>1, <3>2, <2>0
      <4> QED
        BY <2>0, <3>2, <3>4, <4>1, <4>2, <2>2
    <3> QED
      BY <3>3, <3>4
  <2> QED
    BY <2>1, <2>2
<1>2. [i |-> 0, j |-> n] \in S
  OBVIOUS
<1> HIDE DEF S, turned
<1>3. PICK g : IsRun(g, [i |-> 0, j |-> n], step, n, S)
  <2>1. IsSteps(step, n, S)
    BY <1>1 DEF IsSteps
  <2> HIDE DEF step
  <2> QED
    BY <1>2, <2>1, Iteration
<1>4. IsF(g)
  <2>1. g \in [0..n -> S] /\ g[0] = [i |-> 0, j |-> n] /\ \A s \in 1..n : g[s] = step[s][g[s - 1]]
    BY <1>3 DEF IsRun
  <2>2. ASSUME NEW s \in 1..n PROVE g[s] = turned(g[s - 1])
    <3>1. s - 1 \in 0..n
      OBVIOUS
    <3>2. g[s - 1] \in S
      BY <2>1, <3>1
    <3>3. step[s][g[s - 1]] = turned(g[s - 1])
      BY <3>2
    <3> QED
      BY <2>1, <3>3
  <2>3. \A s \in 0..n : s = 0 \/ s \in 1..n
    OBVIOUS
  <2>4. \A s \in 0..n : g[s] = IF s = 0 THEN [i |-> 0, j |-> n] ELSE turned(g[s - 1])
    BY <2>1, <2>2, <2>3
  <2> QED
    BY <2>1, <2>4
<1>5. IsF(f)
  BY <1>4
<1> HIDE DEF f
<1>6. f[0] = [i |-> 0, j |-> n] /\ \A s \in 1..n : f[s] = turned(f[s - 1])
  BY <1>5
<1>7. \A s \in 0..n : f[s] \in S /\ f[s].j - f[s].i <= n - s
  <2> DEFINE Bad == {s \in 0..n : ~(f[s] \in S /\ f[s].j - f[s].i <= n - s)}
  <2>1. ASSUME Bad # {} PROVE FALSE
    <3>0. Bad \in SUBSET Nat
      OBVIOUS
    <3>1. PICK s \in Bad : \A m \in Bad : s <= m
      BY <2>1, <3>0, NatMin
    <3>2. s # 0
      BY <1>2, <1>6
    <3>3. s \in 1..n /\ s - 1 \in 0..n /\ s - 1 \notin Bad
      BY <3>1, <3>2
    <3>4. PICK p \in S : p = f[s - 1] /\ p.j - p.i <= n - (s - 1)
      BY <3>3
    <3>5. f[s] = turned(p)
      BY <1>6, <3>3, <3>4
    <3>6. f[s] \in S
      BY <1>1, <3>5
    <3>7. \A q \in S : q.i \in Nat /\ q.j \in Nat /\ q.i <= q.j
      BY DEF S
    <3>8. f[s].j - f[s].i <= n - s
      <4>1. CASE p.i < p.j
        <5>1. f[s].j - f[s].i < p.j - p.i
          BY <1>1, <3>5, <4>1
        <5> QED
          BY <3>3, <3>4, <3>6, <3>7, <5>1
      <4>2. CASE ~(p.i < p.j)
        <5>1. f[s] = p /\ p.i = p.j
          BY <1>1, <3>5, <3>7, <4>2
        <5> QED
          BY <3>3, <3>7, <5>1
      <4> QED
        BY <4>1, <4>2
    <3> QED
      BY <3>6, <3>8
  <2> QED
    BY <2>1
<1>8. Search(n, holds) = f[n].i
  BY Zenon DEF Search, f, IsF, turned, half
<1>9. f[n] \in S /\ f[n].j - f[n].i <= 0
  BY <1>7
<1> QED
  BY <1>8, <1>9 DEF S

-----------------------------------------------------------------------------
(* The block iterator.                                                       *)

LEMMA Truncated ==
  ASSUME NEW s \in Bytes, NEW n \in Nat, n <= Len(s)
  PROVE  /\ TruncateTo(s, n) \in Bytes /\ Len(TruncateTo(s, n)) = n
         /\ \A i \in 1..n : TruncateTo(s, n)[i] = s[i]
<1>1. CASE n < Len(s)
  <2>1. TruncateTo(s, n) = SubSeq(s, 1, n)
    BY <1>1 DEF TruncateTo
  <2>2. s \in Seq(0..255)
    BY BytesType
  <2>3. /\ SubSeq(s, 1, n) \in Seq(0..255) /\ Len(SubSeq(s, 1, n)) = n
        /\ \A i \in 1..n : SubSeq(s, 1, n)[i] = s[i]
    BY <2>2, Prefix
  <2> QED
    BY <2>1, <2>3, Zenon DEF Bytes
<1>2. CASE n = Len(s)
  <2>1. TruncateTo(s, n) = s
    BY <1>2 DEF TruncateTo
  <2> QED
    BY <1>2, <2>1
<1> QED
  BY <1>1, <1>2, BytesType

(* A sequence that is as long as a prefix of base and agrees with it.        *)
LEMMA PrefixIs ==
  ASSUME NEW s \in Bytes, NEW base \in Bytes, NEW n \in Nat, n <= Len(base), Len(s) = n,
         \A i \in 1..n : s[i] = base[i]
  PROVE  s = SubSeq(base, 1, n)
<1>1. /\ SubSeq(base, 1, n) \in Seq(0..255) /\ Len(SubSeq(base, 1, n)) = n
      /\ \A i \in 1..n : SubSeq(base, 1, n)[i] = base[i]
  BY BytesType, Prefix
<1> QED
  BY <1>1, BytesType, SeqEqual

(* A key is put together from any other key of its block.                    *)
LEMMA Rebuilt ==
  ASSUME NEW bi, NEW base \in Bytes, NEW e \in EntryFields, e.overlap <= Len(base),
         bi.key \in Bytes, bi.prev \in Nat, Agree(bi.key, base, bi.prev)
  PROVE  RebuiltKey(bi, base, e) = SubSeq(base, 1, e.overlap) \o e.diff
<1>1. PICK key \in Bytes, prev \in Nat, o \in Nat : key = bi.key /\ prev = bi.prev /\ o = e.overlap
  BY DEF EntryFields
<1>2. prev <= Len(key) /\ prev <= Len(base) /\ \A i \in 1..prev : key[i] = base[i]
  BY <1>1 DEF Agree
<1>3. Len(key) \in Nat /\ Len(base) \in Nat /\ o <= Len(base)
  BY <1>1, BytesType
<1>4. PICK shared : shared = IF o > prev THEN TruncateTo(key, prev) \o SubSeq(base, prev + 1, o) ELSE key
  OBVIOUS
<1>5. RebuiltKey(bi, base, e) = TruncateTo(shared, o) \o e.diff
  BY <1>1, <1>4, Zenon DEF RebuiltKey
<1>6. shared \in Bytes /\ o <= Len(shared) /\ \A i \in 1..o : shared[i] = base[i]
  <2>1. CASE ~(o > prev)
    <3>1. shared = key
      BY <1>4, <2>1
    <3>2. o <= prev
      BY <2>1
    <3> QED
      BY <1>2, <1>3, <3>1, <3>2
  <2>2. CASE o > prev
    <3>1. PICK a : a = TruncateTo(key, prev)
      OBVIOUS
    <3>2. a \in Seq(0..255) /\ Len(a) = prev /\ \A i \in 1..prev : a[i] = key[i]
      BY <1>2, <3>1, Truncated, BytesType
    <3>3. PICK c : c = SubSeq(base, prev + 1, o)
      OBVIOUS
    <3>4. c \in Seq(0..255) /\ Len(c) = o - prev /\ \A i \in 1..(o - prev) : c[i] = base[prev + i]
      <4>0. PICK S : S = 0..255
        OBVIOUS
      <4>1. base \in Seq(S) /\ prev <= o
        BY <2>2, <4>0, BytesType
      <4>2. /\ SubSeq(base, prev + 1, o) \in Seq(S) /\ Len(SubSeq(base, prev + 1, o)) = o - prev
            /\ \A i \in 1..(o - prev) : SubSeq(base, prev + 1, o)[i] = base[prev + i]
        BY <1>3, <4>1, Middle
      <4> QED
        BY <3>3, <4>0, <4>2, Zenon
    <3>5. shared = a \o c
      BY <1>4, <2>2, <3>1, <3>3, Zenon
    <3>6. prev + (o - prev) = o
      OBVIOUS
    <3>7. /\ shared \in Seq(0..255) /\ Len(shared) = o
          /\ \A i \in 1..o : shared[i] = IF i <= prev THEN a[i] ELSE c[i - prev]
      BY <3>2, <3>4, <3>5, <3>6, ConcatProperties, SMTT(60)
    <3>8. ASSUME NEW i \in 1..o PROVE shared[i] = base[i]
      <4>1. CASE i <= prev
        BY <1>2, <3>2, <3>7, <4>1
      <4>2. CASE ~(i <= prev)
        <5>1. i - prev \in 1..(o - prev) /\ prev + (i - prev) = i
          BY <4>2
        <5> QED
          BY <3>4, <3>7, <4>2, <5>1
      <4> QED
        BY <4>1, <4>2
    <3> QED
      BY <3>7, <3>8 DEF Bytes
  <2> QED
    BY <2>1, <2>2
<1>7. TruncateTo(shared, o) = SubSeq(base, 1, o)
  <2>1. PICK x : x = TruncateTo(shared, o)
    OBVIOUS
  <2>2. x \in Bytes /\ Len(x) = o /\ \A i \in 1..o : x[i] = shared[i]
    BY <1>6, <2>1, Truncated
  <2>3. \A i \in 1..o : x[i] = base[i]
    BY <1>6, <2>2
  <2> QED
    BY <1>3, <2>1, <2>2, <2>3, PrefixIs
<1> QED
  BY <1>1, <1>5, <1>7

(* Entry i of block b, of n, has the key ks[i], compressed against base; the *)
(* keys are in K.                                                            *)
IsBlock(t, b, n, base, ks, K) ==
  /\ n = NumEntries(t, b) /\ n \in Nat \ {0}
  /\ base \in Bytes /\ Entry(t, b, 0).diff = base
  /\ ks \in [0..(n - 1) -> K] /\ K \subseteq Keys
  /\ \A i \in 0..(n - 1) : /\ Entry(t, b, i) \in EntryFields
                           /\ Entry(t, b, i).overlap <= Len(base)
                           /\ ks[i] = SubSeq(base, 1, Entry(t, b, i).overlap) \o Entry(t, b, i).diff

BlockIters(h) == [blk : Int, idx : Int, base : Bytes, key : Bytes, prev : Nat, val : Bytes,
                  hasData : {h}, err : {"none", "EOF"}]

(* What a block iterator has, wherever it stands in block b: the next key    *)
(* can be put together, and its own key is one of K if there is one.         *)
Tracks(bi, b, base, K) ==
  /\ bi \in BlockIters(bi.hasData) /\ bi.blk = b
  /\ bi.base \in {NoKey, base}
  /\ Agree(bi.key, base, bi.prev)
  /\ bi.key \in K \cup {NoKey}

(* It stands on entry i, or past the end.                                    *)
StandsOn(bi, t, b, i, ks) ==
  bi.idx = i /\ bi.err = "none" /\ bi.key = ks[i] /\ bi.val = Entry(t, b, i).val

LEMMA FreshTracks ==
  ASSUME NEW b \in Int, NEW base \in Bytes, NEW K
  PROVE  Tracks(FreshBlock(b), b, base, K) /\ FreshBlock(b).hasData = TRUE
<1>1. <<>> \in Bytes
  BY DEF Bytes
<1>2. PICK bi : bi = FreshBlock(b)
  OBVIOUS
<1>3. bi = [blk |-> b, idx |-> 0, base |-> NoKey, key |-> NoKey, prev |-> 0,
            val |-> <<>>, hasData |-> TRUE, err |-> "none"]
  BY <1>2 DEF FreshBlock, NoBlock
<1>4. bi \in BlockIters(bi.hasData)
  BY <1>1, <1>3 DEF BlockIters, NoKey
<1>5. bi.blk = b /\ bi.base = NoKey /\ bi.key = NoKey /\ bi.prev = 0 /\ bi.hasData = TRUE
  BY <1>3
<1>6. Agree(bi.key, base, bi.prev)
  BY <1>5, BytesType DEF Agree, NoKey
<1> QED
  BY <1>2, <1>4, <1>5, <1>6 DEF Tracks

(* set_idx(i) makes r of bi.                                                 *)
Placed(r, bi, t, b, n, base, ks, K, i) ==
  /\ Tracks(r, b, base, K) /\ r.idx = i /\ r.hasData = bi.hasData
  /\ i < n => StandsOn(r, t, b, i, ks)
  /\ ~(i < n) => r.err = "EOF" /\ r.key = bi.key

LEMMA SetIdxPlaces ==
  ASSUME NEW t, NEW b, NEW n, NEW base, NEW ks, NEW K, IsBlock(t, b, n, base, ks, K),
         NEW bi, Tracks(bi, b, base, K), NEW i \in Nat
  PROVE  Placed(SetIdx(t, bi, i), bi, t, b, n, base, ks, K, i)
<1>0. PICK r : r = SetIdx(t, bi, i)
  OBVIOUS
<1>1. bi \in BlockIters(bi.hasData) /\ bi.blk = b /\ n = NumEntries(t, b) /\ n \in Nat \ {0} /\ base \in Bytes
  BY DEF Tracks, IsBlock
<1>2. CASE ~(i < n)
  <2>1. i >= NumEntries(t, bi.blk)
    BY <1>1, <1>2
  <2>2. r = [bi EXCEPT !.idx = i, !.err = "EOF"]
    BY <1>0, <2>1, Zenon DEF SetIdx
  <2>3. r \in BlockIters(bi.hasData)
    <3>1. PICK h : h = bi.hasData
      OBVIOUS
    <3>2. bi \in BlockIters(h)
      BY <1>1, <3>1, Zenon
    <3>3. i \in Int /\ "EOF" \in {"none", "EOF"}
      OBVIOUS
    <3>4. r \in BlockIters(h)
      BY <2>2, <3>2, <3>3 DEF BlockIters
    <3> QED
      BY <3>1, <3>4, Zenon
  <2>4. /\ r.idx = i /\ r.err = "EOF" /\ r.blk = bi.blk /\ r.base = bi.base /\ r.key = bi.key
        /\ r.prev = bi.prev /\ r.hasData = bi.hasData
    BY <1>1, <2>2 DEF BlockIters
  <2>5. r \in BlockIters(r.hasData)
    BY <2>3, <2>4, Zenon
  <2> QED
    BY <1>0, <1>2, <2>4, <2>5 DEF Tracks, Placed
<1>3. CASE i < n
  <2>0. ~(i >= NumEntries(t, bi.blk)) /\ i \in 0..(n - 1) /\ 0 \in 0..(n - 1)
    BY <1>1, <1>3
  <2>1. PICK e : e = Entry(t, b, i)
    OBVIOUS
  <2>2. /\ e \in EntryFields /\ e.overlap <= Len(base) /\ e.overlap \in Nat /\ e.diff \in Bytes /\ e.val \in Bytes
        /\ ks[i] = SubSeq(base, 1, e.overlap) \o e.diff /\ ks[i] \in Keys /\ ks[i] \in K
    BY <2>0, <2>1 DEF IsBlock, EntryFields
  <2>3. base = IF bi.base = NoKey THEN Entry(t, bi.blk, 0).diff ELSE bi.base
    BY <1>1 DEF Tracks, IsBlock
  <2>4. RebuiltKey(bi, base, e) = ks[i]
    <3>1. bi.key \in Bytes /\ bi.prev \in Nat /\ Agree(bi.key, base, bi.prev)
      BY <1>1 DEF BlockIters, Tracks
    <3> QED
      BY <1>1, <2>2, <3>1, Rebuilt
  <2>5. r = [bi EXCEPT !.idx = i, !.err = "none", !.base = base, !.prev = e.overlap,
                       !.key = ks[i], !.val = e.val]
    BY <1>0, <1>1, <2>0, <2>1, <2>3, <2>4, Zenon DEF SetIdx
  <2>6. ks[i] \in Bytes
    BY <2>2, KeyParts
  <2>7. /\ r.idx = i /\ r.err = "none" /\ r.blk = bi.blk /\ r.base = base /\ r.key = ks[i]
        /\ r.prev = e.overlap /\ r.val = e.val /\ r.hasData = bi.hasData
    BY <1>1, <2>5 DEF BlockIters
  <2>8. r \in BlockIters(r.hasData)
    <3>1. PICK h : h = bi.hasData
      OBVIOUS
    <3>2. bi \in BlockIters(h)
      BY <1>1, <3>1, Zenon
    <3>3. i \in Int /\ base \in Bytes /\ e.overlap \in Nat /\ ks[i] \in Bytes /\ e.val \in Bytes
      BY <1>1, <2>2, <2>6
    <3>4. r \in BlockIters(h)
      BY <2>5, <3>2, <3>3 DEF BlockIters
    <3> QED
      BY <2>7, <3>1, <3>4, Zenon
  <2>9. Agree(ks[i], base, e.overlap)
    <3>1. PICK o \in Nat : o = e.overlap /\ o <= Len(base)
      BY <2>2
    <3>2. PICK a : a = SubSeq(base, 1, o)
      OBVIOUS
    <3>3. a \in Seq(0..255) /\ Len(a) = o /\ \A j \in 1..o : a[j] = base[j]
      <4>1. base \in Seq(0..255) /\ o <= Len(base)
        BY <1>1, <3>1, BytesType
      <4>2. /\ SubSeq(base, 1, o) \in Seq(0..255) /\ Len(SubSeq(base, 1, o)) = o
            /\ \A j \in 1..o : SubSeq(base, 1, o)[j] = base[j]
        BY <4>1, Prefix
      <4> QED
        BY <3>2, <4>2, Zenon
    <3>4. PICK d \in Seq(0..255), m \in Nat : d = e.diff /\ m = Len(d)
      BY <2>2, BytesType
    <3>5. /\ Len(a \o d) = o + m
          /\ \A j \in 1..(o + m) : (a \o d)[j] = IF j <= o THEN a[j] ELSE d[j - o]
      <4>1. a \in Seq(0..255) /\ Len(a) = o /\ Len(d) = m
        BY <3>3, <3>4
      <4> QED
        BY <4>1, ConcatProperties, ZenonT(60)
    <3>6. ks[i] = a \o d
      BY <2>2, <3>1, <3>2, <3>4
    <3>7. o <= o + m /\ \A j \in 1..o : j \in 1..(o + m) /\ j <= o
      OBVIOUS
    <3>8. Len(ks[i]) = o + m /\ \A j \in 1..o : ks[i][j] = base[j]
      BY <3>3, <3>5, <3>6, <3>7
    <3> QED
      BY <3>1, <3>7, <3>8 DEF Agree
  <2> QED
    BY <1>0, <1>1, <1>3, <2>1, <2>2, <2>7, <2>8, <2>9 DEF Tracks, StandsOn, Placed
<1> QED
  BY <1>2, <1>3

(* A search for k in a block ends at the first key that is not less.         *)
Lands(i, n, ks, k) == /\ i \in 0..n
                      /\ i > 0 => KeyLess(ks[i - 1], k)
                      /\ i < n => ~KeyLess(ks[i], k)

(* seek(k) makes r of bi.                                                    *)
Sought(r, bi, t, b, n, base, ks, K, k) ==
  /\ Tracks(r, b, base, K) /\ r.hasData = bi.hasData
  /\ Lands(r.idx, n, ks, k)
  /\ r.idx < n => StandsOn(r, t, b, r.idx, ks)
  /\ ~(r.idx < n) => r.err = "EOF"

LEMMA BlockSeekLands ==
  ASSUME NEW t, NEW b, NEW n, NEW base, NEW ks, NEW K, IsBlock(t, b, n, base, ks, K),
         NEW bi, Tracks(bi, b, base, K), NEW k
  PROVE  Sought(BlockSeek(t, bi, k), bi, t, b, n, base, ks, K, k)
<1> DEFINE H == bi.hasData
           N == NumEntries(t, bi.blk)
           B == {x \in BlockIters(H) : Tracks(x, b, base, K)}
           Sound(p) == /\ p.i <= p.j
                       /\ p.i > 0 => KeyLess(ks[p.i - 1], k)
                       /\ p.j < n => ~KeyLess(ks[p.j], k)
           S == {p \in [i : 0..n, j : 0..n, bi : B] : Sound(p)}
           half(p) == (p.i + p.j) \div 2
           new(p) == SetIdx(t, p.bi, half(p))
           turned(p) == IF p.i >= p.j THEN p
                        ELSE IF KeyLess(new(p).key, k) THEN [i |-> half(p) + 1, j |-> p.j, bi |-> new(p)]
                        ELSE [i |-> p.i, j |-> half(p), bi |-> new(p)]
           first == [i |-> 0, j |-> N, bi |-> bi]
           IsF(g) == g = [s \in 0..N |-> IF s = 0 THEN first ELSE turned(g[s - 1])]
           f == CHOOSE g : IsF(g)
           step == [s \in 1..n |-> [p \in S |-> turned(p)]]
<1>0. n = N /\ n \in Nat /\ bi.blk = b
  BY DEF IsBlock, Tracks
<1>b. ASSUME NEW x \in B PROVE x.hasData = H /\ Tracks(x, b, base, K)
  BY DEF BlockIters
<1> HIDE DEF H, N
<1>s. ASSUME NEW x \in B, NEW i \in 0..(n - 1)
      PROVE  SetIdx(t, x, i) \in B /\ SetIdx(t, x, i).key = ks[i]
  <2>1. PICK y : y = SetIdx(t, x, i)
    OBVIOUS
  <2>2. i \in Nat /\ i < n
    BY <1>0
  <2>3. Tracks(y, b, base, K) /\ y.hasData = x.hasData /\ StandsOn(y, t, b, i, ks)
    <3>1. Tracks(x, b, base, K)
      BY <1>b
    <3>2. Placed(SetIdx(t, x, i), x, t, b, n, base, ks, K, i)
      BY <2>2, <3>1, SetIdxPlaces
    <3> QED
      BY <2>1, <2>2, <3>2 DEF Placed
  <2>4. y \in BlockIters(y.hasData) /\ y.hasData = H
    BY <1>b, <2>3 DEF Tracks
  <2> QED
    BY <2>1, <2>3, <2>4 DEF StandsOn
<1> HIDE DEF B
<1>1. ASSUME NEW p \in S
      PROVE  /\ turned(p) \in S
             /\ p.i < p.j => turned(p).j - turned(p).i < p.j - p.i
             /\ ~(p.i < p.j) => turned(p) = p
  <2>0. p.i \in 0..n /\ p.j \in 0..n /\ p.bi \in B /\ Sound(p)
    OBVIOUS
  <2>1. CASE ~(p.i < p.j)
    BY <1>0, <2>0, <2>1
  <2>2. CASE p.i < p.j
    <3>1. PICK h : h = half(p)
      OBVIOUS
    <3>2. h \in Nat /\ p.i <= h /\ h < p.j /\ h - p.i < p.j - p.i /\ p.j - (h + 1) < p.j - p.i /\ h + 1 <= p.j
      <4>1. p.i \in Nat /\ p.j \in Nat /\ h = (p.i + p.j) \div 2
        BY <1>0, <2>0, <3>1
      <4> QED
        BY <2>2, <4>1, Halved
    <3>3. h \in 0..(n - 1) /\ h \in 0..n /\ h + 1 \in 0..n /\ h + 1 > 0 /\ h + 1 - 1 = h
      BY <1>0, <2>0, <3>2
    <3>4. PICK y \in B : y = new(p) /\ y.key = ks[h]
      BY <1>s, <2>0, <3>1, <3>3
    <3>5. CASE ~KeyLess(ks[h], k)
      <4>1. turned(p) = [i |-> p.i, j |-> h, bi |-> y]
        BY <1>0, <2>0, <2>2, <3>1, <3>4, <3>5
      <4>2. turned(p).i = p.i /\ turned(p).j = h
        BY <4>1
      <4>3. Sound(turned(p))
        BY <2>0, <3>2, <3>5, <4>2
      <4> QED
        BY <2>0, <2>2, <3>2, <3>3, <4>1, <4>2, <4>3
    <3>6. CASE KeyLess(ks[h], k)
      <4>1. turned(p) = [i |-> h + 1, j |-> p.j, bi |-> y]
        BY <1>0, <2>0, <2>2, <3>1, <3>4, <3>6
      <4>2. turned(p).i = h + 1 /\ turned(p).j = p.j
        BY <4>1
      <4>3. Sound(turned(p))
        BY <2>0, <3>2, <3>3, <3>6, <4>2
      <4> QED
        BY <2>0, <2>2, <3>2, <3>3, <4>1, <4>2, <4>3
    <3> QED
      BY <3>5, <3>6
  <2> QED
    BY <2>1, <2>2
<1>2. first \in S
  <2>1. bi \in B
    BY DEF B, H, Tracks
  <2>2. first.i = 0 /\ first.j = n
    BY <1>0
  <2>3. Sound(first)
    BY <1>0, <2>2
  <2> QED
    BY <1>0, <2>1, <2>3
<1>3. ASSUME NEW p \in S
      PROVE  /\ p.i \in Nat /\ p.j \in Nat /\ p.i <= p.j /\ p.i \in 0..n /\ p.bi \in B
             /\ p.i = p.j => Lands(p.i, n, ks, k)
  BY <1>0 DEF Lands
<1> HIDE DEF S, turned, first
<1>4. PICK g : IsRun(g, first, step, n, S)
  <2>1. IsSteps(step, n, S)
    BY <1>1 DEF IsSteps
  <2> HIDE DEF step
  <2> QED
    BY <1>0, <1>2, <2>1, Iteration
<1>5. IsF(g)
  <2>1. g \in [0..n -> S] /\ g[0] = first /\ \A s \in 1..n : g[s] = step[s][g[s - 1]]
    BY <1>4 DEF IsRun
  <2>2. ASSUME NEW s \in 1..n PROVE g[s] = turned(g[s - 1])
    <3>1. s - 1 \in 0..n
      BY <1>0
    <3>2. g[s - 1] \in S
      BY <2>1, <3>1
    <3>3. step[s][g[s - 1]] = turned(g[s - 1])
      BY <3>2
    <3> QED
      BY <2>1, <3>3
  <2>3. \A s \in 0..n : s = 0 \/ s \in 1..n
    BY <1>0
  <2>4. \A s \in 0..n : g[s] = IF s = 0 THEN first ELSE turned(g[s - 1])
    BY <2>1, <2>2, <2>3
  <2> QED
    BY <1>0, <2>1, <2>4
<1>6. IsF(f)
  BY <1>5
<1> HIDE DEF f
<1>7. f[0] = first /\ \A s \in 1..n : f[s] = turned(f[s - 1])
  BY <1>0, <1>6
<1>8. \A s \in 0..n : f[s] \in S /\ f[s].j - f[s].i <= n - s
  <2> DEFINE Bad == {s \in 0..n : ~(f[s] \in S /\ f[s].j - f[s].i <= n - s)}
  <2>1. ASSUME Bad # {} PROVE FALSE
    <3>0. Bad \in SUBSET Nat
      BY <1>0
    <3>1. PICK s \in Bad : \A m \in Bad : s <= m
      BY <2>1, <3>0, NatMin
    <3>2. s # 0
      BY <1>0, <1>2, <1>7 DEF first
    <3>3. s \in 1..n /\ s - 1 \in 0..n /\ s - 1 \notin Bad
      BY <1>0, <3>1, <3>2
    <3>4. PICK p \in S : p = f[s - 1] /\ p.j - p.i <= n - (s - 1)
      BY <3>3
    <3>5. f[s] = turned(p)
      BY <1>7, <3>3, <3>4
    <3>6. f[s] \in S
      BY <1>1, <3>5
    <3>7. f[s].j - f[s].i <= n - s
      <4>1. CASE p.i < p.j
        <5>1. f[s].j - f[s].i < p.j - p.i
          BY <1>1, <3>5, <4>1
        <5> QED
          BY <1>0, <1>3, <3>3, <3>4, <3>6, <5>1
      <4>2. CASE ~(p.i < p.j)
        <5>1. f[s] = p /\ p.i = p.j
          BY <1>1, <1>3, <3>5, <4>2
        <5> QED
          BY <1>0, <1>3, <3>3, <5>1
      <4> QED
        BY <4>1, <4>2
    <3> QED
      BY <3>6, <3>7
  <2> QED
    BY <2>1
<1>9. PICK p \in S : p = f[n] /\ p.i = p.j
  <2>1. f[n] \in S /\ f[n].j - f[n].i <= 0
    BY <1>0, <1>8
  <2> QED
    BY <1>3, <2>1
<1>10. BlockSeek(t, bi, k) = SetIdx(t, p.bi, p.i)
  <2>1. BlockSeek(t, bi, k) = SetIdx(t, f[N].bi, f[N].i)
    BY Zenon DEF BlockSeek, f, IsF, turned, half, new, first, N
  <2> QED
    BY <1>0, <1>9, <2>1
<1>11. Lands(p.i, n, ks, k) /\ p.i \in Nat /\ p.bi \in B
  BY <1>3, <1>9
<1>12. Tracks(p.bi, b, base, K) /\ p.bi.hasData = bi.hasData
  BY <1>11, <1>b DEF H
<1>13. Placed(SetIdx(t, p.bi, p.i), p.bi, t, b, n, base, ks, K, p.i)
  BY <1>11, <1>12, SetIdxPlaces
<1> QED
  BY <1>10, <1>11, <1>12, <1>13 DEF Placed, Sought

-----------------------------------------------------------------------------
(* The table iterator.                                                       *)

KeysOf(es) == {es[i].key : i \in 1..Len(es)}

(* Block b, counted from 0, holds what was added from start[b] on.           *)
Layout(t, es, start) ==
  /\ t \in Seq(BlockFields) /\ es \in Seq(Additions) /\ t # <<>>
  /\ Starts(t, es, start) /\ start[Len(t)] = Len(es)

(* Entry i of block b was added as es[p].                                    *)
Holding(t, es, start, b, i, p) ==
  /\ b \in 0..(NumBlocks(t) - 1) /\ i \in 0..(NumEntries(t, b) - 1)
  /\ p = start[b] + i + 1 /\ p \in 1..Len(es)

BlockKeys(t, es, start, b) == [i \in 0..(NumEntries(t, b) - 1) |-> es[start[b] + i + 1].key]

LEMMA AdditionKeys ==
  ASSUME NEW es \in Seq(Additions)
  PROVE  /\ Len(es) \in Nat /\ KeysOf(es) \subseteq Keys
         /\ \A i \in 1..Len(es) : es[i] \in Additions /\ es[i].key \in Keys /\ es[i].key \in KeysOf(es)
                                  /\ es[i].value \in ValueFields
<1>1. \A i \in 1..Len(es) : es[i] \in Additions
  BY ElementOfSeq
<1>2. Len(es) \in Nat
  BY LenProperties
<1> QED
  BY <1>1, <1>2 DEF KeysOf, Additions

LEMMA LayoutBlock ==
  ASSUME NEW t, NEW es, NEW start, Layout(t, es, start), NEW b \in 0..(NumBlocks(t) - 1)
  PROVE  /\ NumEntries(t, b) \in Nat \ {0} /\ start[b] \in Nat /\ start[b + 1] \in Nat
         /\ start[b + 1] = start[b] + NumEntries(t, b) /\ start[b + 1] <= Len(es)
         /\ \A i \in 0..(NumEntries(t, b) - 1) :
               /\ start[b] + i + 1 \in 1..Len(es)
               /\ Entry(t, b, i).val = Encode(es[start[b] + i + 1].value)
         /\ BaseKey(t, b) = es[start[b] + 1].key /\ BaseKey(t, b) \in Keys
         /\ IsBlock(t, b, NumEntries(t, b), BaseKey(t, b), BlockKeys(t, es, start, b), KeysOf(es))
<1>1. /\ t \in Seq(BlockFields) /\ es \in Seq(Additions) /\ Len(t) \in Nat /\ Len(es) \in Nat
      /\ start \in [0..Len(t) -> Nat]
  BY LenProperties DEF Layout, Starts
<1>2. PICK c : c = b + 1 /\ c \in 1..Len(t) /\ c - 1 = b /\ b \in 0..Len(t) /\ c \in 0..Len(t)
  BY <1>1 DEF NumBlocks
<1>3. PICK blk : blk = t[c]
  OBVIOUS
<1>4. blk \in BlockFields
  BY <1>1, <1>2, <1>3, ElementOfSeq
<1>5. PICK n : n = Len(blk.entries) /\ n = NumEntries(t, b)
  BY <1>2, <1>3 DEF NumEntries
<1>6. blk.entries \in Seq(EntryFields) /\ n \in Nat
  BY <1>4, <1>5, LenProperties DEF BlockFields
<1>7. start[c] = start[b] + n /\ Holds(blk.entries, blk.key, es, start[b])
  BY <1>2, <1>3, <1>5 DEF Layout, Starts
<1>8. n \in Nat \ {0} /\ start[b] \in Nat /\ start[c] \in Nat /\ start[b] + n <= Len(es)
  <2>1. blk.entries # <<>> /\ start[b] + n <= Len(es)
    BY <1>5, <1>7 DEF Holds
  <2>2. n # 0
    BY <1>5, <1>6, <2>1, EmptySeq
  <2> QED
    BY <1>1, <1>2, <1>6, <2>1, <2>2
<1>9. ASSUME NEW i \in 0..(n - 1)
      PROVE  /\ start[b] + i + 1 \in 1..Len(es) /\ i + 1 \in 1..n
             /\ Entry(t, b, i) = blk.entries[i + 1] /\ Entry(t, b, i) \in EntryFields
             /\ Stores(Entry(t, b, i), blk.key, es[start[b] + i + 1])
  <2>1. start[b] + i + 1 \in 1..Len(es) /\ i + 1 \in 1..n /\ start[b] + (i + 1) = start[b] + i + 1
    BY <1>1, <1>8
  <2>2. Entry(t, b, i) = blk.entries[i + 1]
    BY <1>2, <1>3 DEF Entry
  <2>3. blk.entries[i + 1] \in EntryFields
    BY <1>5, <1>6, <2>1, ElementOfSeq
  <2>4. Stores(blk.entries[i + 1], blk.key, es[start[b] + (i + 1)])
    BY <1>5, <1>7, <2>1 DEF Holds
  <2> QED
    BY <2>1, <2>2, <2>3, <2>4
<1>10. /\ BaseKey(t, b) = blk.key /\ blk.key = es[start[b] + 1].key /\ blk.key \in Keys
       /\ Entry(t, b, 0).diff = blk.key
  <2>1. BaseKey(t, b) = blk.key
    BY <1>2, <1>3 DEF BaseKey
  <2>2. 0 \in 0..(n - 1) /\ start[b] + 1 \in 1..Len(es) /\ 0 + 1 = 1
    BY <1>1, <1>8
  <2>3. Entry(t, b, 0) = blk.entries[1]
    BY <1>9, <2>2
  <2> QED
    BY <1>1, <1>7, <2>1, <2>2, <2>3, AdditionKeys DEF Holds
<1>11. IsBlock(t, b, n, blk.key, BlockKeys(t, es, start, b), KeysOf(es))
  <2>1. BlockKeys(t, es, start, b) = [i \in 0..(n - 1) |-> es[start[b] + i + 1].key]
    BY <1>5 DEF BlockKeys
  <2>2. BlockKeys(t, es, start, b) \in [0..(n - 1) -> KeysOf(es)] /\ KeysOf(es) \subseteq Keys
    BY <1>1, <1>9, <2>1, AdditionKeys
  <2>3. ASSUME NEW i \in 0..(n - 1)
        PROVE  /\ Entry(t, b, i).overlap <= Len(blk.key)
               /\ BlockKeys(t, es, start, b)[i]
                    = SubSeq(blk.key, 1, Entry(t, b, i).overlap) \o Entry(t, b, i).diff
    BY <1>9, <2>1 DEF Stores
  <2>4. blk.key \in Bytes
    BY <1>10, KeyParts
  <2> QED
    BY <1>5, <1>8, <1>9, <1>10, <2>2, <2>3, <2>4 DEF IsBlock
<1> QED
  BY <1>2, <1>5, <1>7, <1>8, <1>9, <1>10, <1>11 DEF Stores

(* A block iterator of t, which stands on es[p] as entry i of block b, or    *)
(* past the last entry of block b.                                           *)
Tracked(bi, t, es) == /\ bi.blk \in 0..(NumBlocks(t) - 1)
                      /\ Tracks(bi, bi.blk, BaseKey(t, bi.blk), KeysOf(es))

OnEntry(bi, t, es, start, b, i, p) ==
  /\ Tracked(bi, t, es) /\ bi.blk = b /\ bi.hasData = TRUE
  /\ bi.idx = i /\ bi.err = "none" /\ Holding(t, es, start, b, i, p)
  /\ bi.key = es[p].key /\ bi.val = Encode(es[p].value)

PastBlock(bi, t, es, b) ==
  /\ Tracked(bi, t, es) /\ bi.blk = b /\ bi.hasData = TRUE
  /\ bi.idx = NumEntries(t, b) /\ bi.err = "EOF"

(* set_idx in a block of a table.                                            *)
LEMMA SetIdxTracks ==
  ASSUME NEW t, NEW es, NEW start, Layout(t, es, start), NEW bi, Tracked(bi, t, es), NEW i \in Nat
  PROVE  /\ Tracked(SetIdx(t, bi, i), t, es) /\ SetIdx(t, bi, i).blk = bi.blk
         /\ SetIdx(t, bi, i).idx = i /\ SetIdx(t, bi, i).hasData = bi.hasData
<1>1. bi.blk \in 0..(NumBlocks(t) - 1) /\ Tracks(bi, bi.blk, BaseKey(t, bi.blk), KeysOf(es))
  BY DEF Tracked
<1>2. IsBlock(t, bi.blk, NumEntries(t, bi.blk), BaseKey(t, bi.blk), BlockKeys(t, es, start, bi.blk), KeysOf(es))
  BY <1>1, LayoutBlock
<1>3. Placed(SetIdx(t, bi, i), bi, t, bi.blk, NumEntries(t, bi.blk), BaseKey(t, bi.blk),
             BlockKeys(t, es, start, bi.blk), KeysOf(es), i)
  BY <1>1, <1>2, SetIdxPlaces
<1>4. Tracks(SetIdx(t, bi, i), bi.blk, BaseKey(t, bi.blk), KeysOf(es))
  BY <1>3 DEF Placed
<1>5. SetIdx(t, bi, i).blk = bi.blk
  BY <1>4 DEF Tracks
<1> QED
  BY <1>1, <1>3, <1>4, <1>5 DEF Placed, Tracked

LEMMA SetIdxStands ==
  ASSUME NEW t, NEW es, NEW start, Layout(t, es, start),
         NEW bi, Tracked(bi, t, es), bi.hasData = TRUE, NEW b, b = bi.blk, NEW i \in Nat
  PROVE  /\ i < NumEntries(t, b) => OnEntry(SetIdx(t, bi, i), t, es, start, b, i, start[b] + i + 1)
         /\ i = NumEntries(t, b) => PastBlock(SetIdx(t, bi, i), t, es, b)
<1>1. b \in 0..(NumBlocks(t) - 1) /\ Tracks(bi, b, BaseKey(t, b), KeysOf(es))
  BY DEF Tracked
<1>2. PICK n, base, ks, r : n = NumEntries(t, b) /\ base = BaseKey(t, b) /\ ks = BlockKeys(t, es, start, b)
                            /\ r = SetIdx(t, bi, i)
  OBVIOUS
<1>3. /\ IsBlock(t, b, n, base, ks, KeysOf(es)) /\ n \in Nat
      /\ \A j \in 0..(n - 1) : start[b] + j + 1 \in 1..Len(es)
                               /\ Entry(t, b, j).val = Encode(es[start[b] + j + 1].value)
  BY <1>1, <1>2, LayoutBlock, SMTT(60)
<1>4. Placed(SetIdx(t, bi, i), bi, t, b, n, base, ks, KeysOf(es), i)
  <2>1. Tracks(bi, b, base, KeysOf(es))
    BY <1>1, <1>2
  <2> QED
    BY <1>3, <2>1, SetIdxPlaces
<1>5. Tracked(r, t, es) /\ r.blk = b /\ r.idx = i /\ r.hasData = TRUE
  BY <1>2, SetIdxTracks
<1>6. ASSUME i < n PROVE OnEntry(r, t, es, start, b, i, start[b] + i + 1)
  <2>1. i \in 0..(n - 1)
    BY <1>3, <1>6
  <2>2. StandsOn(r, t, b, i, ks)
    BY <1>2, <1>4, <1>6 DEF Placed
  <2>3. ks[i] = es[start[b] + i + 1].key
    BY <1>2, <2>1 DEF BlockKeys
  <2>4. Holding(t, es, start, b, i, start[b] + i + 1)
    BY <1>1, <1>2, <1>3, <2>1 DEF Holding
  <2> QED
    BY <1>3, <1>5, <2>1, <2>2, <2>3, <2>4 DEF OnEntry, StandsOn
<1>7. ASSUME i = n PROVE PastBlock(r, t, es, b)
  <2>1. r.err = "EOF"
    BY <1>2, <1>3, <1>4, <1>7 DEF Placed
  <2> QED
    BY <1>2, <1>5, <1>7, <2>1 DEF PastBlock
<1> QED
  BY <1>2, <1>6, <1>7

LEMMA FreshTracked ==
  ASSUME NEW t, NEW es, NEW start, Layout(t, es, start), NEW b \in 0..(NumBlocks(t) - 1)
  PROVE  Tracked(FreshBlock(b), t, es) /\ FreshBlock(b).blk = b /\ FreshBlock(b).hasData = TRUE
<1>1. BaseKey(t, b) \in Bytes
  BY LayoutBlock, KeyParts
<1>2. Tracks(FreshBlock(b), b, BaseKey(t, b), KeysOf(es)) /\ FreshBlock(b).hasData = TRUE
  <2>1. b \in Int
    BY LenProperties DEF Layout, NumBlocks
  <2> QED
    BY <1>1, <2>1, FreshTracks
<1>3. FreshBlock(b).blk = b
  BY <1>2 DEF Tracks
<1> QED
  BY <1>2, <1>3 DEF Tracked

(* seek_to_first and seek_to_last in a block that was just read.             *)
LEMMA BlockEnds ==
  ASSUME NEW t, NEW es, NEW start, Layout(t, es, start), NEW b \in 0..(NumBlocks(t) - 1)
  PROVE  /\ OnEntry(BlockFirst(t, FreshBlock(b)), t, es, start, b, 0, start[b] + 1)
         /\ OnEntry(BlockLast(t, FreshBlock(b)), t, es, start, b, NumEntries(t, b) - 1, start[b + 1])
<1>1. Tracked(FreshBlock(b), t, es) /\ FreshBlock(b).blk = b /\ FreshBlock(b).hasData = TRUE
  BY FreshTracked
<1>2. PICK n : n = NumEntries(t, b) /\ n \in Nat \ {0} /\ start[b] \in Nat /\ start[b + 1] = start[b] + n
  BY LayoutBlock
<1>3. PICK l \in Nat : l = n - 1 /\ l < n /\ 0 < n /\ start[b] + l + 1 = start[b + 1] /\ start[b] + 0 + 1 = start[b] + 1
  <2>1. n - 1 \in Nat /\ n - 1 < n /\ 0 < n /\ start[b] + (n - 1) + 1 = start[b + 1] /\ start[b] + 0 + 1 = start[b] + 1
    BY <1>2
  <2> QED
    BY <2>1
<1>4. OnEntry(SetIdx(t, FreshBlock(b), 0), t, es, start, b, 0, start[b] + 0 + 1)
  BY <1>1, <1>2, <1>3, SetIdxStands
<1>5. OnEntry(SetIdx(t, FreshBlock(b), l), t, es, start, b, l, start[b] + l + 1)
  BY <1>1, <1>2, <1>3, SetIdxStands
<1>6. BlockLast(t, FreshBlock(b)) = SetIdx(t, FreshBlock(b), l) /\ l = NumEntries(t, b) - 1
  BY <1>1, <1>2, <1>3 DEF BlockLast
<1> QED
  BY <1>3, <1>4, <1>5, <1>6 DEF BlockFirst

(* A seek for k in block b ends at entry i.                                  *)
SeekEnds(r, t, es, start, b, k, i) ==
  /\ i \in 0..NumEntries(t, b)
  /\ i > 0 => KeyLess(es[start[b] + i].key, k)
  /\ i < NumEntries(t, b) => /\ ~KeyLess(es[start[b] + i + 1].key, k)
                             /\ OnEntry(r, t, es, start, b, i, start[b] + i + 1)
  /\ i = NumEntries(t, b) => PastBlock(r, t, es, b)

LEMMA BlockSeekEnds ==
  ASSUME NEW t, NEW es, NEW start, Layout(t, es, start), NEW b \in 0..(NumBlocks(t) - 1), NEW k
  PROVE  \E i : SeekEnds(BlockSeek(t, FreshBlock(b), k), t, es, start, b, k, i)
<1>1. PICK n, base, ks, K, bi, r : /\ n = NumEntries(t, b) /\ base = BaseKey(t, b)
                                   /\ ks = BlockKeys(t, es, start, b) /\ K = KeysOf(es)
                                   /\ bi = FreshBlock(b) /\ r = BlockSeek(t, bi, k)
  OBVIOUS
<1>2. IsBlock(t, b, n, base, ks, K) /\ n \in Nat /\ start[b] \in Nat
  BY <1>1, LayoutBlock
<1>3. Tracks(bi, b, base, K) /\ bi.hasData = TRUE
  BY <1>1, FreshTracked DEF Tracked
<1>4. Sought(BlockSeek(t, bi, k), bi, t, b, n, base, ks, K, k)
  BY <1>2, <1>3, BlockSeekLands
<1>5. PICK i : i = r.idx
  OBVIOUS
<1>6. /\ Tracks(r, b, base, K) /\ r.hasData = TRUE /\ Lands(i, n, ks, k)
      /\ i < n => StandsOn(r, t, b, i, ks)
      /\ ~(i < n) => r.err = "EOF"
  BY <1>1, <1>3, <1>4, <1>5 DEF Sought
<1>7. i \in 0..n
  BY <1>6 DEF Lands
<1>8. Tracked(r, t, es) /\ r.blk = b
  BY <1>1, <1>6 DEF Tracked, Tracks
<1>9. \A j \in 0..(n - 1) : ks[j] = es[start[b] + j + 1].key
  BY <1>1 DEF BlockKeys
<1>10. ASSUME i > 0 PROVE KeyLess(es[start[b] + i].key, k)
  <2>1. i - 1 \in 0..(n - 1) /\ start[b] + (i - 1) + 1 = start[b] + i
    BY <1>2, <1>7, <1>10
  <2> QED
    BY <1>6, <1>9, <1>10, <2>1 DEF Lands
<1>11. ASSUME i < n
       PROVE  /\ ~KeyLess(es[start[b] + i + 1].key, k)
              /\ OnEntry(r, t, es, start, b, i, start[b] + i + 1)
  <2>1. i \in 0..(n - 1)
    BY <1>2, <1>7, <1>11
  <2>2. ~KeyLess(es[start[b] + i + 1].key, k)
    BY <1>6, <1>9, <1>11, <2>1 DEF Lands
  <2>3. /\ start[b] + i + 1 \in 1..Len(es)
        /\ Entry(t, b, i).val = Encode(es[start[b] + i + 1].value)
    BY <1>1, <2>1, LayoutBlock
  <2>4. Holding(t, es, start, b, i, start[b] + i + 1)
    BY <1>1, <2>1, <2>3 DEF Holding
  <2> QED
    BY <1>6, <1>8, <1>9, <1>11, <2>1, <2>2, <2>3, <2>4 DEF OnEntry, StandsOn
<1>12. ASSUME i = n PROVE PastBlock(r, t, es, b)
  <2>1. r.err = "EOF"
    BY <1>2, <1>6, <1>12
  <2> QED
    BY <1>1, <1>5, <1>6, <1>8, <1>12, <2>1 DEF PastBlock
<1>13. SeekEnds(r, t, es, start, b, k, i)
  BY <1>1, <1>7, <1>10, <1>11, <1>12 DEF SeekEnds
<1> QED
  BY <1>1, <1>13

(* next and prev within a block.                                             *)
LEMMA BlockNextMoves ==
  ASSUME NEW t, NEW es, NEW start, Layout(t, es, start),
         NEW bi, NEW b, NEW i, NEW p, OnEntry(bi, t, es, start, b, i, p)
  PROVE  /\ i + 1 < NumEntries(t, b) => OnEntry(BlockNext(t, bi), t, es, start, b, i + 1, p + 1)
         /\ ~(i + 1 < NumEntries(t, b)) => /\ PastBlock(BlockNext(t, bi), t, es, b)
                                           /\ p = start[b + 1]
<1>1. /\ Tracked(bi, t, es) /\ bi.blk = b /\ bi.hasData = TRUE /\ bi.idx = i
      /\ Holding(t, es, start, b, i, p)
  BY DEF OnEntry
<1>2. b \in 0..(NumBlocks(t) - 1) /\ i \in 0..(NumEntries(t, b) - 1) /\ p = start[b] + i + 1
  BY <1>1 DEF Holding
<1>3. NumEntries(t, b) \in Nat /\ start[b] \in Nat /\ start[b + 1] = start[b] + NumEntries(t, b)
  BY <1>2, LayoutBlock
<1>4. PICK j \in Nat : j = i + 1 /\ start[b] + j + 1 = p + 1
  <2>1. i + 1 \in Nat /\ start[b] + (i + 1) + 1 = p + 1
    BY <1>2, <1>3
  <2> QED
    BY <2>1
<1>5. BlockNext(t, bi) = SetIdx(t, bi, j)
  BY <1>1, <1>4 DEF BlockNext
<1>6. /\ j < NumEntries(t, b) => OnEntry(SetIdx(t, bi, j), t, es, start, b, j, start[b] + j + 1)
      /\ j = NumEntries(t, b) => PastBlock(SetIdx(t, bi, j), t, es, b)
  BY <1>1, SetIdxStands
<1>7. ~(j < NumEntries(t, b)) => j = NumEntries(t, b) /\ p = start[b + 1]
  BY <1>2, <1>3, <1>4
<1> QED
  BY <1>4, <1>5, <1>6, <1>7

LEMMA BlockPrevMoves ==
  ASSUME NEW t, NEW es, NEW start, Layout(t, es, start),
         NEW bi, NEW b, NEW i, NEW p, OnEntry(bi, t, es, start, b, i, p)
  PROVE  /\ i # 0 => OnEntry(BlockPrev(t, bi), t, es, start, b, i - 1, p - 1)
         /\ i = 0 => BlockPrev(t, bi).err = "EOF" /\ p = start[b] + 1
<1>1. /\ Tracked(bi, t, es) /\ bi.blk = b /\ bi.hasData = TRUE /\ bi.idx = i
      /\ Holding(t, es, start, b, i, p)
  BY DEF OnEntry
<1>2. b \in 0..(NumBlocks(t) - 1) /\ i \in 0..(NumEntries(t, b) - 1) /\ p = start[b] + i + 1
  BY <1>1 DEF Holding
<1>3. NumEntries(t, b) \in Nat /\ start[b] \in Nat
  BY <1>2, LayoutBlock
<1>4. ASSUME i # 0 PROVE OnEntry(BlockPrev(t, bi), t, es, start, b, i - 1, p - 1)
  <2>1. PICK j \in Nat : j = i - 1 /\ start[b] + j + 1 = p - 1 /\ j < NumEntries(t, b)
    <3>1. i - 1 \in Nat /\ start[b] + (i - 1) + 1 = p - 1 /\ i - 1 < NumEntries(t, b)
      BY <1>2, <1>3, <1>4
    <3> QED
      BY <3>1
  <2>2. BlockPrev(t, bi) = SetIdx(t, bi, j)
    BY <1>1, <1>4, <2>1 DEF BlockPrev
  <2>3. OnEntry(SetIdx(t, bi, j), t, es, start, b, j, start[b] + j + 1)
    BY <1>1, <2>1, SetIdxStands
  <2> QED
    BY <2>1, <2>2, <2>3
<1>5. ASSUME i = 0 PROVE BlockPrev(t, bi).err = "EOF" /\ p = start[b] + 1
  <2>1. BlockPrev(t, bi) = [bi EXCEPT !.idx = UsizeMax, !.err = "EOF"]
    BY <1>1, <1>5 DEF BlockPrev
  <2>2. bi \in BlockIters(bi.hasData)
    BY <1>1 DEF Tracked, Tracks
  <2>3. BlockPrev(t, bi).err = "EOF"
    BY <2>1, <2>2 DEF BlockIters
  <2> QED
    BY <1>2, <1>3, <1>5, <2>3
<1> QED
  BY <1>4, <1>5

LEMMA BlockPrevFromEnd ==
  ASSUME NEW t, NEW es, NEW start, Layout(t, es, start), NEW bi, NEW b, PastBlock(bi, t, es, b)
  PROVE  OnEntry(BlockPrev(t, bi), t, es, start, b, NumEntries(t, b) - 1, start[b + 1])
<1>1. /\ Tracked(bi, t, es) /\ bi.blk = b /\ bi.hasData = TRUE /\ bi.idx = NumEntries(t, b)
      /\ b \in 0..(NumBlocks(t) - 1)
  BY DEF PastBlock, Tracked
<1>2. NumEntries(t, b) \in Nat \ {0} /\ start[b] \in Nat /\ start[b + 1] = start[b] + NumEntries(t, b)
  BY <1>1, LayoutBlock
<1>3. PICK j \in Nat : j = NumEntries(t, b) - 1 /\ j < NumEntries(t, b) /\ start[b] + j + 1 = start[b + 1]
  <2>1. /\ NumEntries(t, b) - 1 \in Nat /\ NumEntries(t, b) - 1 < NumEntries(t, b)
        /\ start[b] + (NumEntries(t, b) - 1) + 1 = start[b + 1]
    BY <1>2
  <2> QED
    BY <2>1
<1>4. BlockPrev(t, bi) = SetIdx(t, bi, j)
  BY <1>1, <1>2, <1>3 DEF BlockPrev
<1>5. OnEntry(SetIdx(t, bi, j), t, es, start, b, j, start[b] + j + 1)
  BY <1>1, <1>3, SetIdxStands
<1> QED
  BY <1>3, <1>4, <1>5

(* Wherever the block iterator stands, it can go on.                         *)
LEMMA BlockMovesTrack ==
  ASSUME NEW t, NEW es, NEW start, Layout(t, es, start), NEW bi, Tracked(bi, t, es), bi.idx \in Nat
  PROVE  /\ Tracked(BlockNext(t, bi), t, es) /\ BlockNext(t, bi).idx \in Nat
         /\ Tracked(BlockPrev(t, bi), t, es) /\ BlockPrev(t, bi).idx \in Nat \cup {UsizeMax}
         /\ BlockPrev(t, bi).err = "none" => BlockPrev(t, bi).idx \in Nat
<1>1. Tracked(BlockNext(t, bi), t, es) /\ BlockNext(t, bi).idx \in Nat
  <2>1. PICK j \in Nat : j = bi.idx + 1
    OBVIOUS
  <2>2. Tracked(SetIdx(t, bi, j), t, es) /\ SetIdx(t, bi, j).idx = j
    BY SetIdxTracks
  <2> QED
    BY <2>1, <2>2 DEF BlockNext
<1>2. ASSUME bi.idx # 0
      PROVE  Tracked(BlockPrev(t, bi), t, es) /\ BlockPrev(t, bi).idx \in Nat
  <2>1. PICK j \in Nat : j = bi.idx - 1
    BY <1>2
  <2>2. Tracked(SetIdx(t, bi, j), t, es) /\ SetIdx(t, bi, j).idx = j
    BY SetIdxTracks
  <2> QED
    BY <1>2, <2>1, <2>2 DEF BlockPrev
<1>3. ASSUME bi.idx = 0
      PROVE  /\ Tracked(BlockPrev(t, bi), t, es) /\ BlockPrev(t, bi).idx = UsizeMax
             /\ BlockPrev(t, bi).err = "EOF"
  <2>1. PICK r : r = BlockPrev(t, bi)
    OBVIOUS
  <2>2. r = [bi EXCEPT !.idx = UsizeMax, !.err = "EOF"]
    BY <1>3, <2>1 DEF BlockPrev
  <2>3. PICK h : h = bi.hasData
    OBVIOUS
  <2>4. bi \in BlockIters(h)
    BY <2>3 DEF Tracked, Tracks
  <2>5. UsizeMax \in Int /\ "EOF" \in {"none", "EOF"}
    BY DEF UsizeMax
  <2>6. r \in BlockIters(h)
    BY <2>2, <2>4, <2>5 DEF BlockIters
  <2>7. /\ r.blk = bi.blk /\ r.base = bi.base /\ r.key = bi.key /\ r.prev = bi.prev
        /\ r.idx = UsizeMax /\ r.err = "EOF" /\ r.hasData = h
    BY <2>2, <2>4 DEF BlockIters
  <2>8. r \in BlockIters(r.hasData)
    BY <2>6, <2>7, Zenon
  <2>9. Tracked(r, t, es)
    BY <2>7, <2>8 DEF Tracked, Tracks
  <2> QED
    BY <2>1, <2>7, <2>9
<1> QED
  BY <1>1, <1>2, <1>3

(* data.clear() *)
Clear(bi) == [bi EXCEPT !.hasData = FALSE]

LEMMA Cleared ==
  ASSUME NEW t, NEW es, NEW bi, Tracked(bi, t, es)
  PROVE  Tracked(Clear(bi), t, es) /\ Clear(bi).hasData = FALSE /\ Clear(bi).idx = bi.idx
<1>0. PICK r : r = Clear(bi) /\ r = [bi EXCEPT !.hasData = FALSE]
  BY DEF Clear
<1>1. PICK h : h = bi.hasData
  OBVIOUS
<1>2. bi \in BlockIters(h)
  BY <1>1 DEF Tracked, Tracks
<1>3. /\ r.blk = bi.blk /\ r.base = bi.base /\ r.key = bi.key /\ r.prev = bi.prev
      /\ r.idx = bi.idx /\ r.hasData = FALSE
  BY <1>0, <1>2 DEF BlockIters
<1>4. r \in BlockIters(FALSE)
  BY <1>0, <1>2 DEF BlockIters
<1>5. r \in BlockIters(r.hasData)
  BY <1>3, <1>4, Zenon
<1> QED
  BY <1>0, <1>3, <1>5 DEF Tracked, Tracks

(* What holds of an iterator whatever failed before.                         *)
Loose(it, t, es) ==
  /\ DOMAIN it = {"bpos", "bi", "err"}
  /\ it.bpos \in UsizeMax..NumBlocks(t) /\ it.err \in {"none", "EOF", "Error"}
  /\ \/ it.bi = NoBlock
     \/ /\ Tracked(it.bi, t, es) /\ it.bi.idx \in Nat \cup {UsizeMax}
        /\ it.bi.hasData => it.bi.idx \in Nat

(* It stands on es[p]; behind the last entry of the last block, where seek   *)
(* leaves it, or behind the last block; or before the first entry.           *)
AtPos(it, t, es, start, p) ==
  it.err = "none" /\ \E i : OnEntry(it.bi, t, es, start, it.bpos, i, p)

AtLast(it, t, es) ==
  it.err = "EOF" /\ it.bpos = NumBlocks(t) - 1 /\ PastBlock(it.bi, t, es, it.bpos)

AtEnd(it, t, es) ==
  (it.err = "EOF" /\ it.bpos = NumBlocks(t) /\ it.bi.hasData = FALSE) \/ AtLast(it, t, es)

AtBegin(it) == it.err = "EOF" /\ it.bpos = UsizeMax /\ it.bi.hasData = FALSE

LEMMA Blocks ==
  ASSUME NEW t, NEW es, NEW start, Layout(t, es, start)
  PROVE  /\ NumBlocks(t) \in Nat \ {0} /\ Len(es) \in Nat \ {0}
         /\ start[0] = 0 /\ start[NumBlocks(t)] = Len(es)
<1>1. t \in Seq(BlockFields) /\ es \in Seq(Additions) /\ t # <<>>
  BY DEF Layout
<1>2. NumBlocks(t) \in Nat \ {0} /\ Len(es) \in Nat
  BY <1>1, EmptySeq, LenProperties DEF NumBlocks
<1>3. start[0] = 0 /\ start[NumBlocks(t)] = Len(es)
  BY DEF Layout, Starts, NumBlocks
<1>4. 0 \in 0..(NumBlocks(t) - 1)
  BY <1>2
<1>5. NumEntries(t, 0) \in Nat \ {0} /\ start[0 + 1] = start[0] + NumEntries(t, 0) /\ start[0 + 1] <= Len(es)
  BY <1>4, LayoutBlock
<1> QED
  BY <1>2, <1>3, <1>5

LEMMA InRange ==
  ASSUME NEW t, NEW es, NEW start, Layout(t, es, start), NEW b \in 0..(NumBlocks(t) - 1)
  PROVE  ~PastEnd(t, b) /\ b \in UsizeMax..NumBlocks(t)
BY Blocks DEF PastEnd, UsizeMax

LEMMA InBlockLoose ==
  ASSUME NEW t, NEW es, NEW start, Layout(t, es, start), NEW b \in 0..(NumBlocks(t) - 1),
         NEW it, Loose(it, t, es), NEW bad, NEW placed, Tracked(placed, t, es), placed.idx \in Nat
  PROVE  Loose(InBlock(t, it, b, bad, placed), t, es)
<1>1. PICK r : r = InBlock(t, it, b, bad, placed)
  OBVIOUS
<1>2. b \in UsizeMax..NumBlocks(t) /\ ~PastEnd(t, b)
  BY InRange
<1>3. CASE b \in bad
  <2>1. r = [it EXCEPT !.bpos = b, !.err = "Error"]
    BY <1>1, <1>2, <1>3, Zenon DEF InBlock
  <2>2. DOMAIN r = {"bpos", "bi", "err"} /\ r.bpos = b /\ r.err = "Error" /\ r.bi = it.bi
    BY <2>1 DEF Loose
  <2> QED
    BY <1>1, <1>2, <2>2 DEF Loose
<1>4. CASE b \notin bad
  <2>1. r = [bpos |-> b, bi |-> placed, err |-> placed.err]
    BY <1>1, <1>2, <1>4, Zenon DEF InBlock
  <2>2. placed.err \in {"none", "EOF"}
    BY DEF Tracked, Tracks, BlockIters
  <2>3. DOMAIN r = {"bpos", "bi", "err"} /\ r.bpos = b /\ r.bi = placed /\ r.err \in {"none", "EOF", "Error"}
    BY <2>1, <2>2
  <2> QED
    BY <1>1, <1>2, <2>3 DEF Loose
<1> QED
  BY <1>3, <1>4

LEMMA InBlockStands ==
  ASSUME NEW t, NEW es, NEW start, Layout(t, es, start), NEW b \in 0..(NumBlocks(t) - 1),
         NEW it, Loose(it, t, es), NEW bad, NEW placed, NEW i, NEW p,
         OnEntry(placed, t, es, start, b, i, p),
         NEW r, r = InBlock(t, it, b, bad, placed)
  PROVE  (r.err = "Error" /\ b \in bad) \/ AtPos(r, t, es, start, p)
<1>0. ~PastEnd(t, b)
  BY InRange
<1>1. CASE b \in bad
  <2>1. r = [it EXCEPT !.bpos = b, !.err = "Error"]
    BY <1>0, <1>1, Zenon DEF InBlock
  <2> QED
    BY <1>1, <2>1 DEF Loose
<1>2. CASE b \notin bad
  <2>1. r = [bpos |-> b, bi |-> placed, err |-> placed.err]
    BY <1>0, <1>2, Zenon DEF InBlock
  <2>2. r.bpos = b /\ r.bi = placed /\ r.err = "none"
    BY <2>1 DEF OnEntry
  <2> QED
    BY <2>2 DEF AtPos
<1> QED
  BY <1>1, <1>2

LEMMA NewIsLoose ==
  ASSUME NEW t, NEW es, NEW start, Layout(t, es, start)
  PROVE  Loose(NewIterator, t, es)
<1>1. /\ DOMAIN NewIterator = {"bpos", "bi", "err"} /\ NewIterator.bpos = 0
      /\ NewIterator.bi = NoBlock /\ NewIterator.err = "none"
  BY DEF NewIterator
<1>2. 0 \in UsizeMax..NumBlocks(t)
  BY Blocks DEF UsizeMax
<1> QED
  BY <1>1, <1>2 DEF Loose

(* The ends of the table.                                                    *)
LEMMA SeekToEnds ==
  ASSUME NEW t, NEW es, NEW start, Layout(t, es, start), NEW it, Loose(it, t, es), NEW bad
  PROVE  /\ Loose(SeekToFirst(t, it, bad), t, es) /\ Loose(SeekToLast(t, it, bad), t, es)
         /\ \/ SeekToFirst(t, it, bad).err = "Error" /\ bad # {}
            \/ AtPos(SeekToFirst(t, it, bad), t, es, start, 1)
         /\ \/ SeekToLast(t, it, bad).err = "Error" /\ bad # {}
            \/ AtPos(SeekToLast(t, it, bad), t, es, start, Len(es))
<1>1. NumBlocks(t) \in Nat \ {0} /\ start[0] = 0 /\ start[NumBlocks(t)] = Len(es)
  BY Blocks
<1>2. PICK l : l = NumBlocks(t) - 1 /\ l + 1 = NumBlocks(t) /\ l \in 0..(NumBlocks(t) - 1)
               /\ 0 \in 0..(NumBlocks(t) - 1) /\ NumBlocks(t) # 0
  BY <1>1
<1>3. PICK first, last : first = BlockFirst(t, FreshBlock(0)) /\ last = BlockLast(t, FreshBlock(l))
  OBVIOUS
<1>4. OnEntry(first, t, es, start, 0, 0, 1)
  <2>1. OnEntry(first, t, es, start, 0, 0, start[0] + 1)
    BY <1>2, <1>3, BlockEnds
  <2> QED
    BY <1>1, <2>1
<1>5. OnEntry(last, t, es, start, l, NumEntries(t, l) - 1, Len(es))
  <2>1. OnEntry(last, t, es, start, l, NumEntries(t, l) - 1, start[l + 1])
    BY <1>2, <1>3, BlockEnds
  <2> QED
    BY <1>1, <1>2, <2>1
<1>6. /\ Tracked(first, t, es) /\ first.idx \in Nat
      /\ Tracked(last, t, es) /\ last.idx \in Nat
  <2>1. NumEntries(t, l) \in Nat \ {0}
    BY <1>2, LayoutBlock
  <2> QED
    BY <1>4, <1>5, <2>1 DEF OnEntry
<1>7. /\ SeekToFirst(t, it, bad) = InBlock(t, it, 0, bad, first)
      /\ SeekToLast(t, it, bad) = InBlock(t, it, l, bad, last)
  BY <1>2, <1>3 DEF SeekToFirst, SeekToLast
<1>8. Loose(SeekToFirst(t, it, bad), t, es) /\ Loose(SeekToLast(t, it, bad), t, es)
  BY <1>2, <1>6, <1>7, InBlockLoose
<1>9. \/ SeekToFirst(t, it, bad).err = "Error" /\ bad # {}
      \/ AtPos(SeekToFirst(t, it, bad), t, es, start, 1)
  BY <1>2, <1>4, <1>7, InBlockStands
<1>10. \/ SeekToLast(t, it, bad).err = "Error" /\ bad # {}
       \/ AtPos(SeekToLast(t, it, bad), t, es, start, Len(es))
  BY <1>2, <1>5, <1>7, InBlockStands
<1> QED
  BY <1>8, <1>9, <1>10

-----------------------------------------------------------------------------
(* Seeking.                                                                  *)

(* What was added is in key order.                                           *)
Ordered(es) == \A i, j \in 1..Len(es) : i < j => KeyLess(es[i].key, es[j].key)

LEMMA OrderedOn ==
  ASSUME NEW es \in Seq(Additions), Ordered(es), NEW a \in Additions,
         es # <<>> => KeyLess(es[Len(es)].key, a.key)
  PROVE  Ordered(Append(es, a))
<1>1. PICK n \in Nat : n = Len(es)
  BY LenProperties
<1>2. /\ Len(Append(es, a)) = n + 1 /\ Append(es, a)[n + 1] = a
      /\ \A i \in 1..n : Append(es, a)[i] = es[i]
  BY <1>1, AppendProperties
<1>3. \A i \in 1..n : es[i].key \in Keys
  <2>1. \A i \in 1..n : es[i] \in Additions
    BY <1>1, ElementOfSeq
  <2> QED
    BY <2>1 DEF Additions
<1>4. a.key \in Keys
  BY DEF Additions
<1>5. ASSUME NEW i \in 1..n PROVE KeyLess(es[i].key, a.key)
  <2>1. es # <<>> /\ n \in 1..n
    BY <1>1, EmptySeq
  <2>2. KeyLess(es[n].key, a.key)
    BY <1>1, <2>1
  <2>3. CASE i = n
    BY <2>2, <2>3
  <2>4. CASE i < n
    <3>1. KeyLess(es[i].key, es[n].key)
      BY <1>1, <2>1, <2>4 DEF Ordered
    <3> QED
      BY <1>3, <1>4, <2>1, <2>2, <3>1, KeyOrder
  <2> QED
    BY <2>3, <2>4
<1>6. ASSUME NEW i \in 1..(n + 1), NEW j \in 1..(n + 1), i < j
      PROVE  KeyLess(Append(es, a)[i].key, Append(es, a)[j].key)
  <2>1. i \in 1..n
    BY <1>6
  <2>2. CASE j = n + 1
    BY <1>2, <1>5, <2>1, <2>2
  <2>3. CASE j \in 1..n
    BY <1>1, <1>2, <1>6, <2>1, <2>3 DEF Ordered
  <2>4. j = n + 1 \/ j \in 1..n
    OBVIOUS
  <2> QED
    BY <2>2, <2>3, <2>4
<1> QED
  BY <1>2, <1>6 DEF Ordered

(* The keys of a table are in the order of its entries.                      *)
LEMMA EntryOrder ==
  ASSUME NEW es \in Seq(Additions), Ordered(es)
  PROVE  /\ Len(es) \in Nat
         /\ \A i \in 1..Len(es) : es[i].key \in Keys
         /\ \A i, j \in 1..Len(es) : KeyLess(es[i].key, es[j].key) <=> i < j
<1>1. Len(es) \in Nat /\ \A i \in 1..Len(es) : es[i].key \in Keys
  BY AdditionKeys, LenProperties
<1>2. ASSUME NEW i \in 1..Len(es), NEW j \in 1..Len(es), KeyLess(es[i].key, es[j].key) PROVE i < j
  <2>1. PICK a \in Keys, b \in Keys : a = es[i].key /\ b = es[j].key
    BY <1>1
  <2>2. ~KeyLess(a, a) /\ ~(KeyLess(a, b) /\ KeyLess(b, a))
    BY KeyOrder
  <2>3. i # j /\ ~(j < i)
    BY <1>2, <2>1, <2>2 DEF Ordered
  <2> QED
    BY <1>1, <2>3
<1> QED
  BY <1>1, <1>2 DEF Ordered

LEMMA OrderedUpto ==
  ASSUME NEW es \in Seq(Additions), Ordered(es), NEW p \in 1..Len(es), NEW q \in 1..Len(es), p <= q,
         NEW k \in Keys
  PROVE  /\ KeyLess(es[q].key, k) => KeyLess(es[p].key, k)
         /\ KeyLess(k, es[p].key) => KeyLess(k, es[q].key)
<1>1. es[p].key \in Keys /\ es[q].key \in Keys /\ Len(es) \in Nat
  BY AdditionKeys
<1>2. CASE p = q
  BY <1>2
<1>3. CASE p < q
  <2>1. KeyLess(es[p].key, es[q].key)
    BY <1>3 DEF Ordered
  <2> QED
    BY <1>1, <2>1, KeyOrder
<1> QED
  BY <1>1, <1>2, <1>3

(* Where a seek for k may lead.                                              *)
FirstFrom(es, k, p) == /\ p \in 1..Len(es) /\ ~KeyLess(es[p].key, k)
                       /\ p > 1 => KeyLess(es[p - 1].key, k)

SeekLeads(r, t, es, start, k, bad) ==
  \/ r.err = "Error" /\ bad # {}
  \/ \E p : FirstFrom(es, k, p) /\ AtPos(r, t, es, start, p)
  \/ AtLast(r, t, es) /\ KeyLess(es[Len(es)].key, k)

(* seek_helper: what it makes of a search that ends at entry i.              *)
LEMMA SeekHelperEnds ==
  ASSUME NEW t, NEW es, NEW start, Layout(t, es, start), NEW b \in 0..(NumBlocks(t) - 1),
         NEW it, Loose(it, t, es), NEW bad, NEW k,
         NEW r, r = SeekHelper(t, it, b, k, bad)
  PROVE  /\ Loose(r, t, es)
         /\ \/ r.err = "Error" /\ bad # {}
            \/ \E i : SeekEnds(r.bi, t, es, start, b, k, i) /\ r.bpos = b /\ r.err = r.bi.err
<1>1. PICK placed : placed = BlockSeek(t, FreshBlock(b), k)
  OBVIOUS
<1>2. PICK i : SeekEnds(placed, t, es, start, b, k, i)
  BY <1>1, BlockSeekEnds
<1>3. r = InBlock(t, it, b, bad, placed)
  BY <1>1 DEF SeekHelper
<1>4. Tracked(placed, t, es) /\ placed.idx \in Nat
  <2>1. NumEntries(t, b) \in Nat
    BY LayoutBlock
  <2>2. i \in 0..NumEntries(t, b) /\ (i < NumEntries(t, b) \/ i = NumEntries(t, b))
    BY <1>2, <2>1 DEF SeekEnds
  <2> QED
    BY <1>2, <2>1, <2>2 DEF SeekEnds, OnEntry, PastBlock
<1>5. Loose(r, t, es)
  BY <1>3, <1>4, InBlockLoose
<1>6. ~PastEnd(t, b)
  BY InRange
<1>7. CASE b \in bad
  <2>1. r = [it EXCEPT !.bpos = b, !.err = "Error"]
    BY <1>3, <1>6, <1>7, Zenon DEF InBlock
  <2>2. r.err = "Error"
    BY <2>1 DEF Loose
  <2> QED
    BY <1>5, <1>7, <2>2
<1>8. CASE b \notin bad
  <2>1. r = [bpos |-> b, bi |-> placed, err |-> placed.err]
    BY <1>3, <1>6, <1>8, Zenon DEF InBlock
  <2>2. r.bpos = b /\ r.bi = placed /\ r.err = placed.err
    BY <2>1
  <2> QED
    BY <1>2, <1>5, <2>2
<1> QED
  BY <1>7, <1>8

(* seek_inner *)
LEMMA SeekInnerLeads ==
  ASSUME NEW t, NEW es, NEW start, Layout(t, es, start), Ordered(es), NEW it, Loose(it, t, es),
         NEW bad, NEW k \in Keys, NEW r, r = SeekInner(t, it, k, bad)
  PROVE  Loose(r, t, es) /\ SeekLeads(r, t, es, start, k, bad)
<1>0. es \in Seq(Additions)
  BY DEF Layout
<1>1. PICK n, L : /\ n = NumBlocks(t) /\ n \in Nat \ {0} /\ L = Len(es) /\ L \in Nat \ {0}
                  /\ start[0] = 0 /\ start[n] = L
  BY Blocks
<1>2. PICK holds : holds = {b \in 0..(n - 1) : KeyLess(k, BaseKey(t, b))}
  OBVIOUS
<1>3. PICK idx : idx = Search(n, holds)
  OBVIOUS
<1>4. idx \in 0..n /\ (idx > 0 => idx - 1 \notin holds) /\ (idx < n => idx \in holds)
  BY <1>1, <1>3, SearchFinds
<1>5. PICK in : in = SeekHelper(t, it, idx - 1, k, bad)
  OBVIOUS
<1>6. r = IF idx = 0 THEN SeekHelper(t, it, 0, k, bad)
          ELSE IF in.err = "EOF" /\ idx # n THEN SeekHelper(t, in, idx, k, bad)
          ELSE in
  BY <1>1, <1>2, <1>3, <1>5 DEF SeekInner
<1>7. \A b \in 0..(n - 1) : BaseKey(t, b) = es[start[b] + 1].key /\ BaseKey(t, b) \in Keys
                            /\ start[b] \in Nat /\ NumEntries(t, b) \in Nat \ {0}
                            /\ start[b + 1] = start[b] + NumEntries(t, b) /\ start[b + 1] <= L
  BY <1>1, LayoutBlock
(* A block whose base key is greater than k, with smaller keys before it.    *)
<1>8. ASSUME NEW b \in 0..(n - 1), KeyLess(k, BaseKey(t, b)), NEW j, Loose(j, t, es),
             start[b] > 0 => KeyLess(es[start[b]].key, k),
             NEW q, q = SeekHelper(t, j, b, k, bad)
      PROVE  Loose(q, t, es) /\ SeekLeads(q, t, es, start, k, bad)
  <2>1. /\ Loose(q, t, es)
        /\ \/ q.err = "Error" /\ bad # {}
           \/ \E i : SeekEnds(q.bi, t, es, start, b, k, i) /\ q.bpos = b /\ q.err = q.bi.err
    BY <1>1, <1>8, SeekHelperEnds
  <2>2. CASE q.err = "Error" /\ bad # {}
    BY <2>1, <2>2 DEF SeekLeads
  <2>3. ASSUME NEW i, SeekEnds(q.bi, t, es, start, b, k, i), q.bpos = b, q.err = q.bi.err
        PROVE  SeekLeads(q, t, es, start, k, bad)
    <3>1. i \in 0..NumEntries(t, b) /\ i \in Nat
      BY <1>7, <2>3 DEF SeekEnds
    <3>2. i = 0
      <4> SUFFICES ASSUME i > 0 PROVE FALSE
        BY <3>1
      <4>1. KeyLess(es[start[b] + i].key, k)
        BY <2>3 DEF SeekEnds
      <4>2. start[b] + i \in 1..L /\ start[b] + 1 \in 1..L /\ start[b] + 1 <= start[b] + i
        <5>1. PICK s \in Nat, N \in Nat : s = start[b] /\ N = NumEntries(t, b) /\ s + N <= L
          BY <1>7
        <5>2. i \in 0..N /\ i > 0 /\ L \in Nat
          BY <1>1, <3>1, <5>1
        <5>3. s + i \in 1..L /\ s + 1 \in 1..L /\ s + 1 <= s + i
          BY <5>1, <5>2
        <5> QED
          BY <5>1, <5>3
      <4>3. KeyLess(es[start[b] + 1].key, k)
        BY <1>0, <1>1, <4>1, <4>2, OrderedUpto
      <4>4. KeyLess(BaseKey(t, b), k) /\ BaseKey(t, b) \in Keys
        BY <1>7, <4>3
      <4> QED
        BY <1>8, <4>4, KeyOrder
    <3>3. 0 < NumEntries(t, b) /\ start[b] + 0 + 1 = start[b] + 1 /\ start[b] + 1 \in 1..L
          /\ start[b] + 1 - 1 = start[b] /\ (start[b] + 1 > 1 => start[b] > 0)
      BY <1>1, <1>7
    <3>4. ~KeyLess(es[start[b] + 1].key, k) /\ OnEntry(q.bi, t, es, start, b, 0, start[b] + 1)
      <4>1. ~KeyLess(es[start[b] + 0 + 1].key, k) /\ OnEntry(q.bi, t, es, start, b, 0, start[b] + 0 + 1)
        BY <2>3, <3>2, <3>3 DEF SeekEnds
      <4> QED
        BY <3>3, <4>1
    <3>5. FirstFrom(es, k, start[b] + 1)
      <4>1. PICK p : p = start[b] + 1
        OBVIOUS
      <4>2. p \in 1..Len(es) /\ ~KeyLess(es[p].key, k) /\ p - 1 = start[b] /\ (p > 1 => start[b] > 0)
        <5>1. p \in 1..Len(es)
          BY <1>1, <3>3, <4>1, Zenon
        <5>2. ~KeyLess(es[p].key, k)
          BY <3>4, <4>1, Zenon
        <5>3. start[b] \in Nat
          BY <1>7
        <5>4. p - 1 = start[b] /\ (p > 1 => start[b] > 0)
          BY <4>1, <5>3
        <5> QED
          BY <5>1, <5>2, <5>4, Zenon
      <4>3. p > 1 => KeyLess(es[p - 1].key, k)
        BY <1>8, <4>2
      <4>4. FirstFrom(es, k, p)
        BY <4>2, <4>3 DEF FirstFrom
      <4> QED
        BY <4>1, <4>4
    <3>6. q.err = "none"
      BY <2>3, <3>4 DEF OnEntry
    <3>7. AtPos(q, t, es, start, start[b] + 1)
      BY <2>3, <3>4, <3>6 DEF AtPos
    <3> QED
      BY <3>5, <3>7 DEF SeekLeads
  <2> QED
    BY <2>1, <2>2, <2>3
<1>9. CASE idx = 0
  <2>1. 0 \in 0..(n - 1) /\ KeyLess(k, BaseKey(t, 0))
    BY <1>1, <1>2, <1>4, <1>9
  <2>2. r = SeekHelper(t, it, 0, k, bad)
    BY <1>6, <1>9
  <2>3. ~(start[0] > 0)
    BY <1>1
  <2> QED
    BY <1>8, <2>1, <2>2, <2>3
<1>10. CASE idx # 0
  <2>1. PICK b \in 0..(n - 1) : b = idx - 1 /\ b + 1 = idx /\ ~KeyLess(k, BaseKey(t, b))
    <3>1. idx - 1 \in 0..(n - 1) /\ (idx - 1) + 1 = idx /\ idx > 0
      BY <1>1, <1>4, <1>10
    <3>2. idx - 1 \notin holds
      BY <1>4, <3>1
    <3> QED
      BY <1>2, <3>1, <3>2
  <2>2. /\ Loose(in, t, es)
        /\ \/ in.err = "Error" /\ bad # {}
           \/ \E i : SeekEnds(in.bi, t, es, start, b, k, i) /\ in.bpos = b /\ in.err = in.bi.err
    BY <1>1, <1>5, <2>1, SeekHelperEnds
  <2>3. r = IF in.err = "EOF" /\ idx # n THEN SeekHelper(t, in, idx, k, bad) ELSE in
    BY <1>6, <1>10
  <2>4. CASE in.err = "Error" /\ bad # {}
    BY <2>2, <2>3, <2>4 DEF SeekLeads
  <2>5. ASSUME NEW i, SeekEnds(in.bi, t, es, start, b, k, i), in.bpos = b, in.err = in.bi.err
        PROVE  Loose(r, t, es) /\ SeekLeads(r, t, es, start, k, bad)
    <3>1. PICK N : N = NumEntries(t, b) /\ N \in Nat \ {0} /\ i \in 0..N /\ start[b] \in Nat
                   /\ start[b + 1] = start[b] + N /\ start[b + 1] <= L
      BY <1>7, <2>5 DEF SeekEnds
    <3>2. CASE i < N
      <4>1. PICK p : p = start[b] + i + 1 /\ p \in 1..L
        BY <1>1, <3>1, <3>2
      <4>2. ~KeyLess(es[p].key, k) /\ OnEntry(in.bi, t, es, start, b, i, p)
        BY <2>5, <3>1, <3>2, <4>1 DEF SeekEnds
      <4>3. in.err = "none"
        BY <2>5, <4>2 DEF OnEntry
      <4>4. r = in
        BY <2>3, <4>3
      <4>5. AtPos(r, t, es, start, p)
        BY <2>5, <4>2, <4>3, <4>4 DEF AtPos
      <4>6. ASSUME p > 1 PROVE KeyLess(es[p - 1].key, k)
        <5>1. CASE i > 0
          <6>1. p - 1 = start[b] + i
            BY <3>1, <4>1
          <6> QED
            BY <2>5, <5>1, <6>1 DEF SeekEnds
        <5>2. CASE i = 0
          <6>1. p = start[b] + 1 /\ p - 1 \in 1..L /\ p - 1 < p
            BY <1>1, <3>1, <4>1, <4>6, <5>2
          <6>2. es[p].key = BaseKey(t, b) /\ es[p].key \in Keys
            BY <1>7, <2>1, <6>1
          <6>3. es[p].key = k
            BY <2>1, <4>2, <6>2, KeyOrder
          <6>4. KeyLess(es[p - 1].key, es[p].key)
            BY <1>1, <4>1, <6>1 DEF Ordered
          <6> QED
            BY <6>3, <6>4
        <5> QED
          BY <3>1, <5>1, <5>2
      <4>7. FirstFrom(es, k, p)
        BY <1>1, <4>1, <4>2, <4>6 DEF FirstFrom
      <4> QED
        BY <2>2, <4>4, <4>5, <4>7 DEF SeekLeads
    <3>3. CASE i = N
      <4>1. PastBlock(in.bi, t, es, b) /\ KeyLess(es[start[b] + i].key, k)
        BY <2>5, <3>1, <3>3 DEF SeekEnds
      <4>2. in.err = "EOF" /\ KeyLess(es[start[idx]].key, k) /\ start[idx] > 0
        BY <2>1, <2>5, <3>1, <3>3, <4>1 DEF PastBlock
      <4>3. CASE idx = n
        <5>1. r = in
          BY <2>3, <4>3
        <5>2. in.bpos = NumBlocks(t) - 1 /\ PastBlock(in.bi, t, es, in.bpos)
          BY <1>1, <2>1, <2>5, <4>1, <4>3
        <5>3. AtLast(r, t, es)
          BY <4>2, <5>1, <5>2 DEF AtLast
        <5>4. KeyLess(es[Len(es)].key, k)
          BY <1>1, <4>2, <4>3
        <5> QED
          BY <2>2, <5>1, <5>3, <5>4 DEF SeekLeads
      <4>4. CASE idx # n
        <5>1. r = SeekHelper(t, in, idx, k, bad)
          BY <2>3, <4>2, <4>4
        <5>2. idx \in 0..(n - 1) /\ idx \in holds
          BY <1>1, <1>4, <4>4
        <5>3. KeyLess(k, BaseKey(t, idx))
          BY <1>2, <5>2
        <5> QED
          BY <1>8, <2>2, <4>2, <5>1, <5>2, <5>3
      <4> QED
        BY <4>3, <4>4
    <3> QED
      BY <3>1, <3>2, <3>3
  <2> QED
    BY <2>2, <2>4, <2>5, <2>3 DEF SeekLeads
<1> QED
  BY <1>9, <1>10

-----------------------------------------------------------------------------
(* Moving.                                                                   *)

LEMMA LooseErr ==
  ASSUME NEW t, NEW es, NEW it, Loose(it, t, es), NEW e \in {"none", "EOF", "Error"},
         NEW r, r = [it EXCEPT !.err = e]
  PROVE  Loose(r, t, es) /\ r.err = e /\ r.bpos = it.bpos /\ r.bi = it.bi
<1>1. DOMAIN r = {"bpos", "bi", "err"} /\ r.err = e /\ r.bpos = it.bpos /\ r.bi = it.bi
  BY DEF Loose
<1> QED
  BY <1>1 DEF Loose

(* The block iterator has left its block: the data is cleared, and the next  *)
(* block is q.                                                               *)
Left(it, bi, q) == [it EXCEPT !.bi = Clear(bi), !.bpos = q]

LEMMA LooseLeft ==
  ASSUME NEW t, NEW es, NEW it, Loose(it, t, es), NEW bi, Tracked(bi, t, es),
         bi.idx \in Nat \cup {UsizeMax}, NEW q \in UsizeMax..NumBlocks(t)
  PROVE  Loose(Left(it, bi, q), t, es) /\ Left(it, bi, q).bpos = q /\ Left(it, bi, q).bi.hasData = FALSE
<1>0. PICK r : r = Left(it, bi, q)
  OBVIOUS
<1>1. PICK c : c = Clear(bi)
  OBVIOUS
<1>2. Tracked(c, t, es) /\ c.hasData = FALSE /\ c.idx = bi.idx
  BY <1>1, Cleared
<1>3. r = [it EXCEPT !.bi = c, !.bpos = q]
  BY <1>0, <1>1, Zenon DEF Left
<1>4. DOMAIN r = {"bpos", "bi", "err"} /\ r.err = it.err /\ r.bpos = q /\ r.bi = c
  BY <1>3 DEF Loose
<1>5. Loose(r, t, es)
  BY <1>2, <1>4 DEF Loose
<1> QED
  BY <1>0, <1>2, <1>4, <1>5

(* It has moved to bi within the block.                                      *)
Moved(it, bi) == [it EXCEPT !.bi = bi, !.err = "none"]

LEMMA MovedFields ==
  ASSUME NEW t, NEW es, NEW it, Loose(it, t, es), NEW bi
  PROVE  /\ DOMAIN Moved(it, bi) = {"bpos", "bi", "err"} /\ Moved(it, bi).bpos = it.bpos
         /\ Moved(it, bi).bi = bi /\ Moved(it, bi).err = "none"
BY DEF Loose, Moved

LEMMA LooseMoved ==
  ASSUME NEW t, NEW es, NEW it, Loose(it, t, es), NEW bi, Tracked(bi, t, es), bi.idx \in Nat
  PROVE  Loose(Moved(it, bi), t, es)
<1>1. PICK r : r = Moved(it, bi)
  OBVIOUS
<1>2. DOMAIN r = {"bpos", "bi", "err"} /\ r.err = "none" /\ r.bpos = it.bpos /\ r.bi = bi
  BY <1>1, MovedFields
<1>3. Loose(r, t, es)
  BY <1>2 DEF Loose
<1> QED
  BY <1>1, <1>3

(* There is a block to walk in.                                              *)
LEMMA NotReady ==
  ASSUME NEW t, NEW es, NEW it, Loose(it, t, es), ~IsReady(it)
  PROVE  Tracked(it.bi, t, es) /\ it.bi.idx \in Nat
<1>1. NoBlock.hasData = FALSE
  BY DEF NoBlock
<1>2. it.bi # NoBlock
  BY <1>1 DEF IsReady
<1> QED
  BY <1>2 DEF Loose, IsReady

(* next_inner once there is no block to walk in.                             *)
LEMMA NextReadyLeads ==
  ASSUME NEW t, NEW es, NEW start, Layout(t, es, start), NEW it, Loose(it, t, es), NEW bad,
         NEW r, r = NextReady(t, it, bad)
  PROVE  /\ Loose(r, t, es)
         /\ PastEnd(t, it.bpos) => r.err = "EOF" /\ r.bpos = it.bpos /\ r.bi = it.bi
         /\ ~PastEnd(t, it.bpos) => /\ it.bpos \in 0..(NumBlocks(t) - 1)
                                    /\ \/ r.err = "Error" /\ bad # {}
                                       \/ AtPos(r, t, es, start, start[it.bpos] + 1)
<1>1. CASE PastEnd(t, it.bpos)
  <2>1. r = [it EXCEPT !.err = "EOF"]
    BY <1>1, Zenon DEF NextReady
  <2> QED
    BY <1>1, <2>1, LooseErr
<1>2. CASE ~PastEnd(t, it.bpos)
  <2>1. PICK b : b = it.bpos
    OBVIOUS
  <2>2. b \in 0..(NumBlocks(t) - 1)
    BY <1>2, <2>1, Blocks DEF PastEnd, Loose, UsizeMax
  <2>3. PICK j, placed : j = [it EXCEPT !.err = "none"] /\ placed = BlockFirst(t, FreshBlock(b))
    OBVIOUS
  <2>4. r = InBlock(t, j, b, bad, placed)
    BY <1>2, <2>1, <2>3, Zenon DEF NextReady
  <2>5. Loose(j, t, es)
    BY <2>3, LooseErr
  <2>6. OnEntry(placed, t, es, start, b, 0, start[b] + 1)
    BY <2>2, <2>3, BlockEnds
  <2>7. Tracked(placed, t, es) /\ placed.idx \in Nat
    BY <2>6 DEF OnEntry
  <2>8. Loose(r, t, es)
    BY <2>2, <2>4, <2>5, <2>7, InBlockLoose
  <2>9. (r.err = "Error" /\ b \in bad) \/ AtPos(r, t, es, start, start[b] + 1)
    BY <2>2, <2>4, <2>5, <2>6, InBlockStands
  <2> QED
    BY <1>2, <2>1, <2>2, <2>8, <2>9
<1> QED
  BY <1>1, <1>2

(* prev_inner once there is no block to walk in.                             *)
LEMMA PrevReadyLeads ==
  ASSUME NEW t, NEW es, NEW start, Layout(t, es, start), NEW it, Loose(it, t, es), NEW bad,
         NEW r, r = PrevReady(t, it, bad)
  PROVE  /\ Loose(r, t, es)
         /\ it.bpos = UsizeMax => r.err = "EOF" /\ r.bpos = it.bpos /\ r.bi = it.bi
         /\ it.bpos = NumBlocks(t) => r.err = "Error"
         /\ it.bpos \in 0..(NumBlocks(t) - 1) =>
               (r.err = "Error" /\ bad # {}) \/ AtPos(r, t, es, start, start[it.bpos + 1])
<1>0. NumBlocks(t) \in Nat \ {0} /\ it.bpos \in UsizeMax..NumBlocks(t)
  BY Blocks DEF Loose
<1>1. CASE it.bpos = UsizeMax
  <2>1. r = [it EXCEPT !.err = "EOF"]
    BY <1>1, Zenon DEF PrevReady
  <2>2. it.bpos # NumBlocks(t) /\ it.bpos \notin 0..(NumBlocks(t) - 1)
    BY <1>0, <1>1 DEF UsizeMax
  <2> QED
    BY <1>1, <2>1, <2>2, LooseErr
<1>2. CASE it.bpos = NumBlocks(t)
  <2>1. it.bpos # UsizeMax /\ PastEnd(t, it.bpos) /\ it.bpos \notin 0..(NumBlocks(t) - 1)
    BY <1>0, <1>2 DEF UsizeMax, PastEnd
  <2>2. PICK j : j = [it EXCEPT !.err = "none"]
    OBVIOUS
  <2>3. Loose(j, t, es) /\ j.bpos = it.bpos
    BY <2>2, LooseErr
  <2>4. r = [j EXCEPT !.bpos = it.bpos, !.err = "Error"]
    BY <2>1, <2>2, Zenon DEF PrevReady, InBlock
  <2>5. DOMAIN r = {"bpos", "bi", "err"} /\ r.err = "Error" /\ r.bpos = it.bpos /\ r.bi = j.bi
    BY <2>3, <2>4 DEF Loose
  <2>6. Loose(r, t, es)
    BY <2>3, <2>5 DEF Loose
  <2> QED
    BY <2>1, <2>5, <2>6
<1>3. CASE it.bpos \in 0..(NumBlocks(t) - 1)
  <2>1. PICK b : b = it.bpos
    OBVIOUS
  <2>2. b \in 0..(NumBlocks(t) - 1) /\ b # UsizeMax /\ b # NumBlocks(t)
    BY <1>0, <1>3, <2>1 DEF UsizeMax
  <2>3. PICK j, placed : j = [it EXCEPT !.err = "none"] /\ placed = BlockLast(t, FreshBlock(b))
    OBVIOUS
  <2>4. r = InBlock(t, j, b, bad, placed)
    BY <2>1, <2>2, <2>3, Zenon DEF PrevReady
  <2>5. Loose(j, t, es)
    BY <2>3, LooseErr
  <2>6. OnEntry(placed, t, es, start, b, NumEntries(t, b) - 1, start[b + 1])
    BY <2>2, <2>3, BlockEnds
  <2>7. Tracked(placed, t, es) /\ placed.idx \in Nat
    <3>1. NumEntries(t, b) \in Nat \ {0}
      BY <2>2, LayoutBlock
    <3> QED
      BY <2>6, <3>1 DEF OnEntry
  <2>8. Loose(r, t, es)
    BY <2>2, <2>4, <2>5, <2>7, InBlockLoose
  <2>9. (r.err = "Error" /\ b \in bad) \/ AtPos(r, t, es, start, start[b + 1])
    BY <2>2, <2>4, <2>5, <2>6, InBlockStands
  <2> QED
    BY <2>1, <2>2, <2>8, <2>9
<1>4. it.bpos = UsizeMax \/ it.bpos = NumBlocks(t) \/ it.bpos \in 0..(NumBlocks(t) - 1)
  BY <1>0 DEF UsizeMax
<1> QED
  BY <1>1, <1>2, <1>3, <1>4

(* next_inner and prev_inner of any iterator.                                *)
LEMMA NextLoose ==
  ASSUME NEW t, NEW es, NEW start, Layout(t, es, start), NEW it, Loose(it, t, es), NEW bad
  PROVE  Loose(NextInner(t, it, bad), t, es)
<1>1. CASE PastEnd(t, it.bpos) \/ IsReady(it)
  <2>1. NextInner(t, it, bad) = NextReady(t, it, bad)
    BY <1>1, Zenon DEF NextInner
  <2> QED
    BY <2>1, NextReadyLeads
<1>2. CASE ~(PastEnd(t, it.bpos) \/ IsReady(it))
  <2>1. Tracked(it.bi, t, es) /\ it.bi.idx \in Nat
    BY <1>2, NotReady
  <2>2. PICK bi : bi = BlockNext(t, it.bi)
    OBVIOUS
  <2>3. Tracked(bi, t, es) /\ bi.idx \in Nat
    BY <2>1, <2>2, BlockMovesTrack
  <2>4. PICK m : m = Left(it, bi, it.bpos + 1)
    OBVIOUS
  <2>5. NextInner(t, it, bad) = IF bi.err = "none" THEN Moved(it, bi) ELSE NextReady(t, m, bad)
    BY <1>2, <2>2, <2>4, Zenon DEF NextInner, Moved, Left, Clear
  <2>6. CASE bi.err = "none"
    <3>1. Loose(Moved(it, bi), t, es)
      BY <2>3, <2>6, LooseMoved
    <3> QED
      BY <2>5, <2>6, <3>1
  <2>7. CASE bi.err # "none"
    <3>1. PICK q : q = it.bpos + 1 /\ q \in UsizeMax..NumBlocks(t)
      BY <1>2, Blocks DEF Loose, PastEnd, UsizeMax
    <3>2. Loose(m, t, es)
      BY <2>3, <2>4, <3>1, LooseLeft
    <3> QED
      BY <2>5, <2>7, <3>2, NextReadyLeads
  <2> QED
    BY <2>6, <2>7
<1> QED
  BY <1>1, <1>2

LEMMA PrevLoose ==
  ASSUME NEW t, NEW es, NEW start, Layout(t, es, start), NEW it, Loose(it, t, es), NEW bad
  PROVE  Loose(PrevInner(t, it, bad), t, es)
<1>1. CASE it.bpos = UsizeMax \/ IsReady(it)
  <2>1. PrevInner(t, it, bad) = PrevReady(t, it, bad)
    BY <1>1, Zenon DEF PrevInner
  <2> QED
    BY <2>1, PrevReadyLeads
<1>2. CASE ~(it.bpos = UsizeMax \/ IsReady(it))
  <2>1. Tracked(it.bi, t, es) /\ it.bi.idx \in Nat
    BY <1>2, NotReady
  <2>2. PICK bi : bi = BlockPrev(t, it.bi)
    OBVIOUS
  <2>3. Tracked(bi, t, es) /\ bi.idx \in Nat \cup {UsizeMax} /\ (bi.err = "none" => bi.idx \in Nat)
    BY <2>1, <2>2, BlockMovesTrack
  <2>4. PICK m : m = Left(it, bi, it.bpos - 1)
    OBVIOUS
  <2>5. PrevInner(t, it, bad) = IF bi.err = "none" THEN Moved(it, bi) ELSE PrevReady(t, m, bad)
    BY <1>2, <2>2, <2>4, Zenon DEF PrevInner, Moved, Left, Clear
  <2>6. CASE bi.err = "none"
    <3>1. Loose(Moved(it, bi), t, es)
      BY <2>3, <2>6, LooseMoved
    <3> QED
      BY <2>5, <2>6, <3>1
  <2>7. CASE bi.err # "none"
    <3>1. PICK q : q = it.bpos - 1 /\ q \in UsizeMax..NumBlocks(t)
      BY <1>2, Blocks DEF Loose, UsizeMax
    <3>2. Loose(m, t, es)
      BY <2>3, <2>4, <3>1, LooseLeft
    <3> QED
      BY <2>5, <2>7, <3>2, PrevReadyLeads
  <2> QED
    BY <2>6, <2>7
<1> QED
  BY <1>1, <1>2

LEMMA EntryReady ==
  ASSUME NEW t, NEW es, NEW start, Layout(t, es, start), NEW it, NEW i, NEW p,
         OnEntry(it.bi, t, es, start, it.bpos, i, p)
  PROVE  /\ it.bpos \in 0..(NumBlocks(t) - 1) /\ ~PastEnd(t, it.bpos) /\ it.bpos # UsizeMax
         /\ ~IsReady(it)
<1>1. it.bpos \in 0..(NumBlocks(t) - 1) /\ it.bi.hasData = TRUE
  BY DEF OnEntry, Holding
<1>2. ~PastEnd(t, it.bpos)
  BY <1>1, InRange
<1> QED
  BY <1>1, <1>2 DEF IsReady, PastEnd

(* next_inner of an iterator that stands on an entry.                        *)
LEMMA NextFromEntry ==
  ASSUME NEW t, NEW es, NEW start, Layout(t, es, start), NEW it, Loose(it, t, es), NEW bad,
         NEW p, AtPos(it, t, es, start, p), NEW r, r = NextInner(t, it, bad)
  PROVE  \/ r.err = "Error" /\ bad # {}
         \/ p < Len(es) /\ AtPos(r, t, es, start, p + 1)
         \/ p = Len(es) /\ AtEnd(r, t, es)
<1>1. PICK i : OnEntry(it.bi, t, es, start, it.bpos, i, p)
  BY DEF AtPos
<1>2. PICK b : b = it.bpos /\ b \in 0..(NumBlocks(t) - 1) /\ ~(PastEnd(t, it.bpos) \/ IsReady(it))
  BY <1>1, EntryReady
<1>3. PICK n : n = NumBlocks(t) /\ n \in Nat \ {0} /\ start[n] = Len(es) /\ Len(es) \in Nat
  BY Blocks
<1>4. PICK bi : bi = BlockNext(t, it.bi)
  OBVIOUS
<1>5. PICK m : m = Left(it, bi, it.bpos + 1)
  OBVIOUS
<1>6. r = IF bi.err = "none" THEN Moved(it, bi) ELSE NextReady(t, m, bad)
  BY <1>2, <1>4, <1>5, Zenon DEF NextInner, Moved, Left, Clear
<1>7. /\ i + 1 < NumEntries(t, b) => OnEntry(bi, t, es, start, b, i + 1, p + 1)
      /\ ~(i + 1 < NumEntries(t, b)) => PastBlock(bi, t, es, b) /\ p = start[b + 1]
  BY <1>1, <1>2, <1>4, BlockNextMoves
<1>8. p \in 1..Len(es)
  BY <1>1 DEF OnEntry, Holding
<1>9. CASE i + 1 < NumEntries(t, b)
  <2>1. OnEntry(bi, t, es, start, b, i + 1, p + 1)
    BY <1>7, <1>9
  <2>2. bi.err = "none" /\ p + 1 \in 1..Len(es)
    BY <2>1 DEF OnEntry, Holding
  <2>3. r = Moved(it, bi)
    BY <1>6, <2>2
  <2>4. r.bpos = b /\ r.bi = bi /\ r.err = "none"
    BY <1>2, <2>3, MovedFields
  <2>5. AtPos(r, t, es, start, p + 1)
    BY <2>1, <2>4 DEF AtPos
  <2> QED
    BY <1>3, <1>8, <2>2, <2>5
<1>10. CASE ~(i + 1 < NumEntries(t, b))
  <2>1. PastBlock(bi, t, es, b) /\ p = start[b + 1]
    BY <1>7, <1>10
  <2>2. bi.err # "none" /\ Tracked(bi, t, es) /\ bi.idx \in Nat
    BY <1>2, <2>1, LayoutBlock DEF PastBlock
  <2>3. r = NextReady(t, m, bad)
    BY <1>6, <2>2
  <2>4. PICK q : q = b + 1 /\ q \in UsizeMax..NumBlocks(t) /\ (q = n \/ q \in 0..(n - 1))
    BY <1>2, <1>3 DEF UsizeMax
  <2>5. m = Left(it, bi, q)
    BY <1>2, <1>5, <2>4, Zenon
  <2>6. Loose(m, t, es) /\ m.bpos = q /\ m.bi.hasData = FALSE
    <3>1. Tracked(bi, t, es) /\ bi.idx \in Nat \cup {UsizeMax} /\ q \in UsizeMax..NumBlocks(t)
      BY <2>2, <2>4
    <3>2. /\ Loose(Left(it, bi, q), t, es) /\ Left(it, bi, q).bpos = q
          /\ Left(it, bi, q).bi.hasData = FALSE
      BY <3>1, LooseLeft
    <3>3. m = Left(it, bi, q)
      BY <2>5, Zenon
    <3> QED
      BY <3>2, <3>3, Zenon
  <2>7. /\ PastEnd(t, m.bpos) => r.err = "EOF" /\ r.bpos = m.bpos /\ r.bi = m.bi
        /\ ~PastEnd(t, m.bpos) => \/ r.err = "Error" /\ bad # {}
                                  \/ AtPos(r, t, es, start, start[m.bpos] + 1)
    BY <2>3, <2>6, NextReadyLeads
  <2>8. CASE q = n
    <3>1. PastEnd(t, m.bpos)
      BY <1>3, <2>6, <2>8 DEF PastEnd
    <3>2. AtEnd(r, t, es)
      BY <1>3, <2>6, <2>7, <2>8, <3>1 DEF AtEnd
    <3>3. p = Len(es)
      BY <1>3, <2>1, <2>4, <2>8
    <3> QED
      BY <3>2, <3>3
  <2>9. CASE q \in 0..(n - 1)
    <3>1. ~PastEnd(t, m.bpos)
      BY <1>3, <2>6, <2>9, InRange
    <3>2. (r.err = "Error" /\ bad # {}) \/ AtPos(r, t, es, start, p + 1)
      BY <2>1, <2>4, <2>6, <2>7, <3>1
    <3>3. p < Len(es)
      <4>1. start[q] \in Nat /\ NumEntries(t, q) \in Nat \ {0} /\ start[q + 1] = start[q] + NumEntries(t, q)
            /\ start[q + 1] <= Len(es)
        BY <1>3, <2>9, LayoutBlock
      <4>2. p = start[q]
        BY <2>1, <2>4
      <4> QED
        BY <1>3, <4>1, <4>2
    <3> QED
      BY <3>2, <3>3
  <2> QED
    BY <2>4, <2>8, <2>9
<1> QED
  BY <1>9, <1>10

(* next_inner elsewhere: it stays past either end.                           *)
LEMMA NextFromEnds ==
  ASSUME NEW t, NEW es, NEW start, Layout(t, es, start), NEW it, Loose(it, t, es), NEW bad,
         NEW r, r = NextInner(t, it, bad)
  PROVE  /\ AtEnd(it, t, es) => AtEnd(r, t, es)
         /\ AtBegin(it) => AtBegin(r)
         /\ it = NewIterator => r.err = "Error" \/ AtPos(r, t, es, start, 1)
<1>1. PICK n : n = NumBlocks(t) /\ n \in Nat \ {0} /\ start[0] = 0
  BY Blocks
<1>2. ASSUME PastEnd(t, it.bpos) PROVE r.err = "EOF" /\ r.bpos = it.bpos /\ r.bi = it.bi
  <2>1. r = NextReady(t, it, bad)
    BY <1>2, Zenon DEF NextInner
  <2> QED
    BY <1>2, <2>1, NextReadyLeads
<1>3. ASSUME AtBegin(it) PROVE AtBegin(r)
  <2>1. PastEnd(t, it.bpos)
    BY <1>3 DEF AtBegin, PastEnd
  <2> QED
    BY <1>2, <1>3, <2>1 DEF AtBegin
<1>4. ASSUME AtEnd(it, t, es), ~AtLast(it, t, es) PROVE AtEnd(r, t, es)
  <2>1. PastEnd(t, it.bpos)
    BY <1>1, <1>4 DEF AtEnd, PastEnd
  <2> QED
    BY <1>2, <1>4, <2>1 DEF AtEnd
<1>5. ASSUME AtLast(it, t, es) PROVE AtEnd(r, t, es)
  <2>1. it.bpos = n - 1 /\ PastBlock(it.bi, t, es, it.bpos)
    BY <1>1, <1>5 DEF AtLast
  <2>2. PICK b : b = it.bpos /\ b \in 0..(NumBlocks(t) - 1) /\ b + 1 = n /\ ~PastEnd(t, it.bpos)
    BY <1>1, <2>1, InRange
  <2>3. Tracked(it.bi, t, es) /\ it.bi.blk = b /\ it.bi.hasData = TRUE /\ it.bi.idx = NumEntries(t, b)
        /\ NumEntries(t, b) \in Nat
    BY <2>1, <2>2, LayoutBlock DEF PastBlock
  <2>4. PICK bi, j : bi = BlockNext(t, it.bi) /\ j = it.bi.idx + 1
    OBVIOUS
  <2>5. bi = [it.bi EXCEPT !.idx = j, !.err = "EOF"]
    <3>1. j >= NumEntries(t, it.bi.blk)
      BY <2>3, <2>4
    <3> QED
      BY <2>4, <3>1, Zenon DEF BlockNext, SetIdx
  <2>6. bi.err # "none"
    <3>1. it.bi \in BlockIters(it.bi.hasData)
      BY <2>3 DEF Tracked, Tracks
    <3> QED
      BY <2>5, <3>1 DEF BlockIters
  <2>7. Tracked(bi, t, es) /\ bi.idx \in Nat
    BY <2>3, <2>4, BlockMovesTrack
  <2>8. PICK m : m = Left(it, bi, it.bpos + 1)
    OBVIOUS
  <2>9. ~IsReady(it)
    BY <2>3 DEF IsReady
  <2>10. r = NextReady(t, m, bad)
    BY <2>2, <2>4, <2>6, <2>8, <2>9, Zenon DEF NextInner, Left, Clear
  <2>11. PICK q : q = it.bpos + 1 /\ q = n /\ q \in UsizeMax..NumBlocks(t)
    BY <1>1, <2>2 DEF UsizeMax
  <2>12. Loose(m, t, es) /\ m.bpos = q /\ m.bi.hasData = FALSE
    <3>1. Tracked(bi, t, es) /\ bi.idx \in Nat \cup {UsizeMax} /\ q \in UsizeMax..NumBlocks(t)
      BY <2>7, <2>11
    <3>2. /\ Loose(Left(it, bi, q), t, es) /\ Left(it, bi, q).bpos = q
          /\ Left(it, bi, q).bi.hasData = FALSE
      BY <3>1, LooseLeft
    <3>3. m = Left(it, bi, q)
      BY <2>8, <2>11, Zenon
    <3> QED
      BY <3>2, <3>3, Zenon
  <2>13. PastEnd(t, m.bpos)
    BY <1>1, <2>11, <2>12 DEF PastEnd
  <2>14. r.err = "EOF" /\ r.bpos = m.bpos /\ r.bi = m.bi
    BY <2>10, <2>12, <2>13, NextReadyLeads
  <2> QED
    BY <1>1, <2>11, <2>12, <2>14 DEF AtEnd
<1>6. ASSUME it = NewIterator PROVE r.err = "Error" \/ AtPos(r, t, es, start, 1)
  <2>1. it.bpos = 0 /\ IsReady(it)
    BY <1>6 DEF NewIterator, NoBlock, IsReady
  <2>2. r = NextReady(t, it, bad)
    BY <2>1, Zenon DEF NextInner
  <2>3. ~PastEnd(t, it.bpos)
    BY <1>1, <2>1 DEF PastEnd, UsizeMax
  <2>4. r.err = "Error" \/ AtPos(r, t, es, start, start[it.bpos] + 1)
    BY <2>2, <2>3, NextReadyLeads
  <2> QED
    BY <1>1, <2>1, <2>4
<1> QED
  BY <1>3, <1>4, <1>5, <1>6

(* prev_inner of an iterator that stands on an entry.                        *)
LEMMA PrevFromEntry ==
  ASSUME NEW t, NEW es, NEW start, Layout(t, es, start), NEW it, Loose(it, t, es), NEW bad,
         NEW p, AtPos(it, t, es, start, p), NEW r, r = PrevInner(t, it, bad)
  PROVE  \/ r.err = "Error" /\ bad # {}
         \/ p > 1 /\ AtPos(r, t, es, start, p - 1)
         \/ p = 1 /\ AtBegin(r)
<1>1. PICK i : OnEntry(it.bi, t, es, start, it.bpos, i, p)
  BY DEF AtPos
<1>2. PICK b : b = it.bpos /\ b \in 0..(NumBlocks(t) - 1) /\ ~(it.bpos = UsizeMax \/ IsReady(it))
  BY <1>1, EntryReady
<1>3. PICK n : n = NumBlocks(t) /\ n \in Nat \ {0} /\ start[0] = 0
  BY Blocks
<1>4. PICK bi : bi = BlockPrev(t, it.bi)
  OBVIOUS
<1>5. PICK m : m = Left(it, bi, it.bpos - 1)
  OBVIOUS
<1>6. r = IF bi.err = "none" THEN Moved(it, bi) ELSE PrevReady(t, m, bad)
  BY <1>2, <1>4, <1>5, Zenon DEF PrevInner, Moved, Left, Clear
<1>7. /\ i # 0 => OnEntry(bi, t, es, start, b, i - 1, p - 1)
      /\ i = 0 => bi.err = "EOF" /\ p = start[b] + 1
  <2>1. OnEntry(it.bi, t, es, start, b, i, p)
    BY <1>1, <1>2
  <2>2. /\ i # 0 => OnEntry(BlockPrev(t, it.bi), t, es, start, b, i - 1, p - 1)
        /\ i = 0 => BlockPrev(t, it.bi).err = "EOF" /\ p = start[b] + 1
    BY <2>1, BlockPrevMoves
  <2> QED
    BY <1>4, <2>2
<1>8. p \in 1..Len(es)
  BY <1>1 DEF OnEntry, Holding
<1>9. CASE i # 0
  <2>1. OnEntry(bi, t, es, start, b, i - 1, p - 1)
    BY <1>7, <1>9
  <2>2. bi.err = "none" /\ p - 1 \in 1..Len(es)
    BY <2>1 DEF OnEntry, Holding
  <2>3. r = Moved(it, bi)
    BY <1>6, <2>2
  <2>4. r.bpos = b /\ r.bi = bi /\ r.err = "none"
    BY <1>2, <2>3, MovedFields
  <2>5. AtPos(r, t, es, start, p - 1)
    BY <2>1, <2>4 DEF AtPos
  <2>6. p > 1
    BY <1>8, <2>2
  <2> QED
    BY <2>5, <2>6
<1>10. CASE i = 0
  <2>1. bi.err = "EOF" /\ p = start[b] + 1
    BY <1>7, <1>10
  <2>2. Tracked(bi, t, es) /\ bi.idx \in Nat \cup {UsizeMax}
    <3>1. Tracked(it.bi, t, es) /\ it.bi.idx \in Nat
      BY <1>2, NotReady
    <3> QED
      BY <1>4, <3>1, BlockMovesTrack
  <2>3. r = PrevReady(t, m, bad)
    BY <1>6, <2>1
  <2>4. PICK q : q = b - 1 /\ q \in UsizeMax..NumBlocks(t) /\ q + 1 = b /\ (q = UsizeMax \/ q \in 0..(n - 1))
    BY <1>2, <1>3 DEF UsizeMax
  <2>5. m = Left(it, bi, q)
    BY <1>2, <1>5, <2>4, Zenon
  <2>6. Loose(m, t, es) /\ m.bpos = q /\ m.bi.hasData = FALSE
    <3>1. Tracked(bi, t, es) /\ bi.idx \in Nat \cup {UsizeMax} /\ q \in UsizeMax..NumBlocks(t)
      BY <2>2, <2>4
    <3>2. /\ Loose(Left(it, bi, q), t, es) /\ Left(it, bi, q).bpos = q
          /\ Left(it, bi, q).bi.hasData = FALSE
      BY <3>1, LooseLeft
    <3> QED
      BY <2>5, <3>2, Zenon
  <2>7. /\ m.bpos = UsizeMax => r.err = "EOF" /\ r.bpos = m.bpos /\ r.bi = m.bi
        /\ m.bpos \in 0..(NumBlocks(t) - 1) =>
              (r.err = "Error" /\ bad # {}) \/ AtPos(r, t, es, start, start[m.bpos + 1])
    BY <2>3, <2>6, PrevReadyLeads
  <2>8. CASE q = UsizeMax
    <3>1. AtBegin(r)
      BY <2>6, <2>7, <2>8 DEF AtBegin
    <3>2. p = 1
      BY <1>3, <2>1, <2>4, <2>8 DEF UsizeMax
    <3> QED
      BY <3>1, <3>2
  <2>9. CASE q \in 0..(n - 1)
    <3>1. start[b] \in Nat /\ start[b] = start[q] + NumEntries(t, q) /\ start[q] \in Nat
          /\ NumEntries(t, q) \in Nat \ {0}
      BY <1>3, <2>4, <2>9, LayoutBlock
    <3>2. start[m.bpos + 1] = p - 1 /\ p > 1
      <4>1. start[m.bpos + 1] = start[b]
        BY <2>4, <2>6
      <4> QED
        BY <2>1, <3>1, <4>1
    <3>3. (r.err = "Error" /\ bad # {}) \/ AtPos(r, t, es, start, start[m.bpos + 1])
      BY <1>3, <2>6, <2>7, <2>9
    <3> QED
      BY <3>2, <3>3
  <2> QED
    BY <2>4, <2>8, <2>9
<1> QED
  BY <1>9, <1>10

(* prev_inner elsewhere.                                                     *)
LEMMA PrevFromLast ==
  ASSUME NEW t, NEW es, NEW start, Layout(t, es, start), NEW it, Loose(it, t, es), NEW bad,
         AtLast(it, t, es)
  PROVE  AtPos(PrevInner(t, it, bad), t, es, start, Len(es))
<1>1. PICK n : n = NumBlocks(t) /\ n \in Nat \ {0} /\ start[n] = Len(es)
  BY Blocks
<1>2. PICK b : b = it.bpos /\ b \in 0..(NumBlocks(t) - 1) /\ b + 1 = n /\ b # UsizeMax
               /\ PastBlock(it.bi, t, es, b)
  BY <1>1 DEF AtLast, UsizeMax
<1>3. it.bi.hasData = TRUE
  BY <1>2 DEF PastBlock
<1>4. PICK bi : bi = BlockPrev(t, it.bi)
  OBVIOUS
<1>5. OnEntry(bi, t, es, start, b, NumEntries(t, b) - 1, start[b + 1])
  BY <1>2, <1>4, BlockPrevFromEnd
<1>6. bi.err = "none" /\ ~IsReady(it)
  BY <1>3, <1>5 DEF OnEntry, IsReady
<1>7. PrevInner(t, it, bad) = Moved(it, bi)
  BY <1>2, <1>4, <1>6, Zenon DEF PrevInner, Moved
<1>8. Moved(it, bi).bpos = b /\ Moved(it, bi).bi = bi /\ Moved(it, bi).err = "none"
  BY <1>2, MovedFields
<1> QED
  BY <1>1, <1>2, <1>5, <1>7, <1>8 DEF AtPos

LEMMA PrevFromEnds ==
  ASSUME NEW t, NEW es, NEW start, Layout(t, es, start), NEW it, Loose(it, t, es), NEW bad,
         NEW r, r = PrevInner(t, it, bad)
  PROVE  /\ AtBegin(it) => AtBegin(r)
         /\ AtEnd(it, t, es) => r.err = "Error" \/ AtPos(r, t, es, start, Len(es))
         /\ it = NewIterator => r.err = "Error" \/ \E p : AtPos(r, t, es, start, p)
<1>1. ASSUME it.bpos = UsizeMax \/ it.bi.hasData = FALSE PROVE r = PrevReady(t, it, bad)
  <2>1. it.bpos = UsizeMax \/ IsReady(it)
    BY <1>1 DEF IsReady
  <2> QED
    BY <2>1, Zenon DEF PrevInner
<1>2. ASSUME AtBegin(it) PROVE AtBegin(r)
  <2>1. it.bpos = UsizeMax /\ it.bi.hasData = FALSE
    BY <1>2 DEF AtBegin
  <2>2. r.err = "EOF" /\ r.bpos = it.bpos /\ r.bi = it.bi
    BY <1>1, <2>1, PrevReadyLeads
  <2> QED
    BY <2>1, <2>2 DEF AtBegin
<1>3. ASSUME AtEnd(it, t, es) PROVE r.err = "Error" \/ AtPos(r, t, es, start, Len(es))
  <2>1. CASE AtLast(it, t, es)
    BY <2>1, PrevFromLast
  <2>2. CASE ~AtLast(it, t, es)
    <3>1. it.bpos = NumBlocks(t) /\ it.bi.hasData = FALSE
      BY <1>3, <2>2 DEF AtEnd
    <3>2. r = PrevReady(t, it, bad)
      BY <1>1, <3>1
    <3> QED
      BY <3>1, <3>2, PrevReadyLeads
  <2> QED
    BY <2>1, <2>2
<1>4. ASSUME it = NewIterator PROVE r.err = "Error" \/ \E p : AtPos(r, t, es, start, p)
  <2>1. it.bpos = 0 /\ it.bi.hasData = FALSE
    BY <1>4 DEF NewIterator, NoBlock
  <2>2. it.bpos \in 0..(NumBlocks(t) - 1)
    BY <2>1, Blocks
  <2>3. (r.err = "Error" /\ bad # {}) \/ AtPos(r, t, es, start, start[it.bpos + 1])
    BY <1>1, <2>1, <2>2, PrevReadyLeads, ZenonT(60)
  <2> QED
    BY <2>3
<1> QED
  BY <1>2, <1>3, <1>4

(* Where a seek backwards for k may lead.                                    *)
LastUpto(es, k, p) == /\ p \in 1..Len(es) /\ ~KeyLess(k, es[p].key)
                      /\ p < Len(es) => KeyLess(k, es[p + 1].key)

(* seek_for_prev, if no block fails.                                         *)
LEMMA SeekForPrevLeads ==
  ASSUME NEW t, NEW es, NEW start, Layout(t, es, start), Ordered(es), NEW it, Loose(it, t, es),
         NEW k \in Keys
  PROVE  /\ ~SeekForPrevPanics(t, it, k, {})
         /\ \/ \E p : LastUpto(es, k, p) /\ AtPos(SeekForPrev(t, it, k, {}), t, es, start, p)
            \/ AtBegin(SeekForPrev(t, it, k, {})) /\ KeyLess(k, es[1].key)
<1>0. es \in Seq(Additions)
  BY DEF Layout
<1>1. PICK s : s = SeekInner(t, it, k, {})
  OBVIOUS
<1>2. Loose(s, t, es) /\ SeekLeads(s, t, es, start, k, {})
  BY <1>1, SeekInnerLeads
<1>3. PICK r : r = SeekForPrev(t, it, k, {})
  OBVIOUS
<1>4. r = IF s.bi.key # k THEN PrevInner(t, s, {}) ELSE s
  BY <1>1, <1>3, Zenon DEF SeekForPrev
<1>5. PICK L \in Nat \ {0} : L = Len(es)
  BY Blocks
<1>6. \A i \in 1..L : es[i].key \in Keys
  BY <1>0, <1>5, AdditionKeys
<1>7. ASSUME Tracked(s.bi, t, es) PROVE ~SeekForPrevPanics(t, it, k, {})
  <2>1. s.bi.blk # UsizeMax
    BY <1>7, InRange DEF Tracked, PastEnd
  <2>2. NoBlock.blk = UsizeMax
    BY DEF NoBlock
  <2>3. s.bi # NoBlock
    BY <2>1, <2>2
  <2> QED
    BY <1>1, <2>3 DEF SeekForPrevPanics
<1>8. ASSUME NEW p, FirstFrom(es, k, p), AtPos(s, t, es, start, p)
      PROVE  /\ ~SeekForPrevPanics(t, it, k, {})
             /\ \/ \E q : LastUpto(es, k, q) /\ AtPos(r, t, es, start, q)
                \/ AtBegin(r) /\ KeyLess(k, es[1].key)
  <2>1. p \in 1..L /\ ~KeyLess(es[p].key, k) /\ (p > 1 => KeyLess(es[p - 1].key, k))
    BY <1>5, <1>8 DEF FirstFrom
  <2>2. s.bi.key = es[p].key /\ Tracked(s.bi, t, es)
    BY <1>8 DEF AtPos, OnEntry
  <2>3. CASE es[p].key = k
    <3>1. r = s
      BY <1>4, <2>2, <2>3
    <3>2. ~KeyLess(k, es[p].key)
      BY <2>3, KeyOrder
    <3>3. ASSUME p < Len(es) PROVE KeyLess(k, es[p + 1].key)
      <4>1. p + 1 \in 1..L /\ p < p + 1
        BY <1>5, <2>1, <3>3
      <4> QED
        BY <1>5, <2>1, <2>3, <4>1 DEF Ordered
    <3>4. LastUpto(es, k, p)
      BY <1>5, <2>1, <3>2, <3>3 DEF LastUpto
    <3> QED
      BY <1>7, <1>8, <2>2, <3>1, <3>4
  <2>4. CASE es[p].key # k
    <3>1. r = PrevInner(t, s, {})
      BY <1>4, <2>2, <2>4
    <3>2. KeyLess(k, es[p].key)
      BY <1>6, <2>1, <2>4, KeyOrder
    <3>3. (p > 1 /\ AtPos(r, t, es, start, p - 1)) \/ (p = 1 /\ AtBegin(r))
      BY <1>2, <1>8, <3>1, PrevFromEntry
    <3>4. CASE p = 1 /\ AtBegin(r)
      BY <1>7, <2>2, <3>2, <3>4
    <3>5. CASE p > 1 /\ AtPos(r, t, es, start, p - 1)
      <4>1. PICK q : q = p - 1 /\ q \in 1..L /\ q + 1 = p
        BY <2>1, <3>5
      <4>2. es[q].key \in Keys /\ KeyLess(es[q].key, k)
        BY <1>6, <2>1, <3>5, <4>1
      <4>3. ~KeyLess(k, es[q].key)
        BY <4>2, KeyOrder
      <4>4. LastUpto(es, k, q)
        BY <1>5, <3>2, <4>1, <4>3 DEF LastUpto
      <4> QED
        BY <1>7, <2>2, <3>5, <4>1, <4>4
    <3> QED
      BY <3>3, <3>4, <3>5
  <2> QED
    BY <2>3, <2>4
<1>9. ASSUME AtLast(s, t, es), KeyLess(es[Len(es)].key, k)
      PROVE  /\ ~SeekForPrevPanics(t, it, k, {})
             /\ \E q : LastUpto(es, k, q) /\ AtPos(r, t, es, start, q)
  <2>1. Tracked(s.bi, t, es)
    BY <1>9 DEF AtLast, PastBlock
  <2>2. s.bi.key \in KeysOf(es) \cup {NoKey}
    BY <2>1 DEF Tracked, Tracks
  <2>3. s.bi.key # k
    <3>1. k # NoKey
      BY KeyParts
    <3>2. ASSUME NEW i \in 1..L PROVE es[i].key # k
      <4>1. L \in 1..L /\ i <= L
        BY <1>5
      <4>2. KeyLess(es[i].key, k)
        BY <1>0, <1>5, <1>9, <4>1, OrderedUpto
      <4> QED
        BY <4>2, KeyOrder
    <3> QED
      BY <1>5, <2>2, <3>1, <3>2 DEF KeysOf
  <2>4. r = PrevInner(t, s, {})
    BY <1>4, <2>3
  <2>5. AtPos(r, t, es, start, L)
    BY <1>2, <1>5, <1>9, <2>4, PrevFromLast
  <2>6. L \in 1..L /\ es[L].key \in Keys /\ ~(L < Len(es))
    BY <1>5, <1>6
  <2>7. ~KeyLess(k, es[L].key)
    BY <1>5, <1>9, <2>6, KeyOrder
  <2>8. LastUpto(es, k, L)
    BY <1>5, <2>6, <2>7 DEF LastUpto
  <2> QED
    BY <1>7, <2>1, <2>5, <2>8
<1>10. \/ \E p : FirstFrom(es, k, p) /\ AtPos(s, t, es, start, p)
       \/ AtLast(s, t, es) /\ KeyLess(es[Len(es)].key, k)
  BY <1>2 DEF SeekLeads
<1> QED
  BY <1>3, <1>8, <1>9, <1>10

LEMMA SeekForPrevLoose ==
  ASSUME NEW t, NEW es, NEW start, Layout(t, es, start), Ordered(es), NEW it, Loose(it, t, es),
         NEW k \in Keys, NEW bad
  PROVE  Loose(SeekInner(t, it, k, bad), t, es) /\ Loose(SeekForPrev(t, it, k, bad), t, es)
<1>1. PICK s : s = SeekInner(t, it, k, bad)
  OBVIOUS
<1>2. Loose(s, t, es)
  BY <1>1, SeekInnerLeads
<1>3. SeekForPrev(t, it, k, bad) = IF s.bi.key # k THEN PrevInner(t, s, bad) ELSE s
  BY <1>1, Zenon DEF SeekForPrev
<1>4. Loose(PrevInner(t, s, bad), t, es)
  BY <1>2, PrevLoose
<1> QED
  BY <1>1, <1>2, <1>3, <1>4
=============================================================================
