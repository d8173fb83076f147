----------------------------- MODULE WalProofs -----------------------------
(* What write_entry returned for is read back, whatever the log was used    *)
(* for before and wherever it was cut off: proofs for entries of any sizes  *)
(* and files of any size.                                                   *)
EXTENDS Wal, SequenceTheorems, FiniteSetTheorems, WellFoundedInduction, TLAPS

-----------------------------------------------------------------------------
(* A nonempty set of naturals has a least member.                           *)
LEMMA NatMin ==
  ASSUME NEW T \in SUBSET Nat, T # {}
  PROVE  \E m \in T : \A n \in T : m <= n
<1> DEFINE R == {p \in Nat \X Nat : p[1] < p[2]}
<1>1. IsWellFoundedOn(R, Nat)
  BY NatLessThanWellFounded DEF OpToRel
<1> HIDE DEF R
<1>2. PICK m \in T : \A n \in T : <<n, m>> \notin R
  BY <1>1, WFMin
<1>3. \A n \in T : n < m => <<n, m>> \in R
  BY DEF R
<1>4. m \in Nat /\ \A n \in T : n \in Nat
  OBVIOUS
<1>5. \A n \in T : ~(n < m)
  BY <1>2, <1>3
<1> QED
  BY <1>4, <1>5

(* A bounded nonempty set of naturals has a greatest member.                *)
LEMMA NatMax ==
  ASSUME NEW N \in Nat, NEW T \in SUBSET (0..N), T # {}
  PROVE  \E m \in T : \A n \in T : n <= m
<1> DEFINE U == {N - n : n \in T}
<1>1. U \in SUBSET Nat /\ U # {}
  <2>1. \A n \in T : n \in Nat /\ N - n \in Nat
    OBVIOUS
  <2> QED
    BY <2>1
<1>2. PICK u \in U : \A n \in U : u <= n
  BY <1>1, NatMin
<1>3. PICK m \in T : u = N - m
  OBVIOUS
<1>4. \A n \in T : N - m <= N - n
  BY <1>2, <1>3
<1> QED
  BY <1>4

(* N steps on S, and the results of taking them one after the other.        *)
IsSteps(step, N, S) == step \in [1..N -> [S -> S]]

IsRun(g, x, step, N, S) ==
  g \in [0..N -> S] /\ g[0] = x /\ \A n \in 1..N : g[n] = step[n][g[n - 1]]

(* Steps can be taken one after the other.                                  *)
LEMMA Iteration ==
  ASSUME NEW N \in Nat, NEW S, NEW x \in S, NEW step, IsSteps(step, N, S)
  PROVE  \E g : IsRun(g, x, step, N, S)
<1> USE DEF IsSteps
<1> DEFINE Upto(k) == \E g \in [0..k -> S] : g[0] = x /\ \A n \in 1..k : g[n] = step[n][g[n - 1]]
           T == {k \in 0..N : ~Upto(k)}
<1> HIDE DEF Upto
<1>1. ASSUME T # {} PROVE FALSE
  <2>0. T \in SUBSET Nat
    OBVIOUS
  <2>1. PICK k \in T : \A n \in T : k <= n
    BY <1>1, <2>0, NatMin
  <2>2. k # 0
    <3> DEFINE h == [i \in 0..0 |-> x]
    <3>1. h \in [0..0 -> S] /\ h[0] = x /\ \A n \in 1..0 : h[n] = step[n][h[n - 1]]
      OBVIOUS
    <3>2. Upto(0)
      BY <3>1 DEF Upto
    <3> QED
      BY <3>2
  <2>3. k \in 1..N /\ k - 1 \in 0..N /\ Upto(k - 1)
    <3>1. k - 1 \in 0..N /\ k \in 1..N
      BY <2>2
    <3>2. k - 1 \notin T
      BY <2>1, <3>1
    <3> QED
      BY <3>1, <3>2
  <2>4. PICK g \in [0..(k - 1) -> S] : g[0] = x /\ \A n \in 1..(k - 1) : g[n] = step[n][g[n - 1]]
    BY <2>3 DEF Upto
  <2> DEFINE h == [i \in 0..k |-> IF i = k THEN step[k][g[k - 1]] ELSE g[i]]
  <2>5. h \in [0..k -> S]
    <3>1. g[k - 1] \in S
      BY <2>3, <2>4
    <3>2. step[k][g[k - 1]] \in S
      BY <2>3, <3>1
    <3>3. \A i \in 0..k : i # k => i \in 0..(k - 1)
      BY <2>3
    <3> QED
      BY <2>4, <3>2, <3>3
  <2>6. h[0] = x
    BY <2>3, <2>4
  <2>7. ASSUME NEW n \in 1..k PROVE h[n] = step[n][h[n - 1]]
    <3>1. n - 1 \in 0..k /\ n - 1 # k /\ n \in 0..k
      BY <2>3
    <3>2. h[n - 1] = g[n - 1]
      BY <3>1
    <3>3. CASE n = k
      BY <3>1, <3>2, <3>3
    <3>4. CASE n # k
      <4>1. n \in 1..(k - 1)
        BY <2>3, <3>4
      <4> QED
        BY <2>4, <3>1, <3>2, <3>4, <4>1
    <3> QED
      BY <3>3, <3>4
  <2>8. Upto(k)
    BY <2>5, <2>6, <2>7 DEF Upto
  <2> QED
    BY <2>1, <2>8
<1>2. Upto(N)
  BY <1>1
<1> QED
  BY <1>2 DEF Upto, IsRun

(* Walks from the numbers up to N: a walk ends in L, and adds a sequence on *)
(* every leap it takes elsewhere.                                           *)
IsMap(N, V, L, base, head, leap) ==
  /\ L \in SUBSET (0..N) /\ N \in L
  /\ base \in [0..N -> Seq(V)] /\ head \in [0..N -> Seq(V)]
  /\ \A o \in (0..N) \ L : leap[o] \in (o + 1)..N

IsWalk(g, N, V, L, base, head, leap) ==
  /\ g \in [0..N -> Seq(V)]
  /\ \A o \in 0..N : g[o] = IF o \in L THEN base[o] ELSE head[o] \o g[leap[o]]

(* Every walk ends.                                                         *)
LEMMA Walk ==
  ASSUME NEW N \in Nat, NEW V, NEW L, NEW base, NEW head, NEW leap,
         IsMap(N, V, L, base, head, leap)
  PROVE  \E g : IsWalk(g, N, V, L, base, head, leap)
<1> USE DEF IsMap
<1> DEFINE From(k) == \E g \in [k..N -> Seq(V)] :
                         \A o \in k..N : g[o] = IF o \in L THEN base[o] ELSE head[o] \o g[leap[o]]
           T == {k \in 0..N : ~From(k)}
<1> HIDE DEF From
<1>1. ASSUME T # {} PROVE FALSE
  <2>1. PICK k \in T : \A n \in T : n <= k
    <3>1. T \in SUBSET (0..N)
      OBVIOUS
    <3> QED
      BY <1>1, <3>1, NatMax
  <2>2. PICK g \in [(k + 1)..N -> Seq(V)] :
           \A o \in (k + 1)..N : g[o] = IF o \in L THEN base[o] ELSE head[o] \o g[leap[o]]
    <3>1. CASE k = N
      <4> DEFINE h == [o \in (k + 1)..N |-> <<>>]
      <4>1. (k + 1)..N = {}
        BY <3>1
      <4>2. h \in [(k + 1)..N -> Seq(V)]
        BY <4>1
      <4> QED
        BY <4>1, <4>2
    <3>2. CASE k # N
      <4>1. k + 1 \in 0..N /\ ~(k + 1 <= k)
        BY <3>2
      <4>2. From(k + 1)
        BY <2>1, <4>1
      <4> QED
        BY <4>2 DEF From
    <3> QED
      BY <3>1, <3>2
  <2> DEFINE top == IF k \in L THEN base[k] ELSE head[k] \o g[leap[k]]
             h == [o \in k..N |-> IF o = k THEN top ELSE g[o]]
  <2>3. top \in Seq(V)
    <3>1. k \notin L => leap[k] \in (k + 1)..N
      OBVIOUS
    <3>2. k \notin L => g[leap[k]] \in Seq(V) /\ head[k] \in Seq(V)
      BY <2>2, <3>1
    <3> QED
      BY <3>2
  <2> HIDE DEF top
  <2>4. h \in [k..N -> Seq(V)]
    <3>1. \A o \in k..N : o # k => o \in (k + 1)..N
      OBVIOUS
    <3> QED
      BY <2>2, <2>3, <3>1
  <2>5. ASSUME NEW o \in k..N PROVE h[o] = IF o \in L THEN base[o] ELSE head[o] \o h[leap[o]]
    <3>1. o \notin L => /\ leap[o] \in (o + 1)..N /\ leap[o] \in k..N /\ leap[o] # k
                        /\ h[leap[o]] = g[leap[o]]
      <4>1. o \in 0..N /\ k \in Nat
        OBVIOUS
      <4>2. o \notin L => leap[o] \in (o + 1)..N
        BY <4>1
      <4>3. \A j \in (o + 1)..N : j \in k..N /\ j # k
        BY <4>1
      <4> QED
        BY <4>2, <4>3
    <3>2. CASE o = k
      BY <3>1, <3>2 DEF top
    <3>3. CASE o # k
      <4>1. o \in (k + 1)..N
        BY <3>3
      <4> QED
        BY <2>2, <3>1, <3>3, <4>1
    <3> QED
      BY <3>2, <3>3
  <2>6. From(k)
    BY <2>4, <2>5 DEF From
  <2> QED
    BY <2>1, <2>6
<1>2. From(0)
  <2>1. 0 \in 0..N
    OBVIOUS
  <2> QED
    BY <1>1, <2>1
<1> QED
  BY <1>2 DEF From, IsWalk

(* Whatever function follows the leaps yields a sequence everywhere.        *)
LEMMA WalkTyped ==
  ASSUME NEW N \in Nat, NEW V, NEW L, NEW base, NEW head, NEW leap, NEW g,
         IsMap(N, V, L, base, head, leap), g = [o \in 0..N |-> g[o]],
         \A o \in 0..N : g[o] = IF o \in L THEN base[o] ELSE head[o] \o g[leap[o]]
  PROVE  IsWalk(g, N, V, L, base, head, leap)
<1> USE DEF IsMap
<1> DEFINE T == {o \in 0..N : g[o] \notin Seq(V)}
<1>1. ASSUME T # {} PROVE FALSE
  <2>1. PICK o \in T : \A n \in T : n <= o
    <3>1. T \in SUBSET (0..N)
      OBVIOUS
    <3> QED
      BY <1>1, <3>1, NatMax
  <2>2. o \notin L
    OBVIOUS
  <2>3. leap[o] \in (o + 1)..N
    BY <2>2
  <2>4. \A j \in (o + 1)..N : j \in 0..N /\ ~(j <= o)
    OBVIOUS
  <2>5. g[leap[o]] \in Seq(V) /\ head[o] \in Seq(V)
    BY <2>1, <2>3, <2>4
  <2>6. g[o] = head[o] \o g[leap[o]]
    BY <2>2
  <2>7. head[o] \o g[leap[o]] \in Seq(V)
    <3>1. \A s, t \in Seq(V) : s \o t \in Seq(V)
      OBVIOUS
    <3> QED
      BY <2>5, <3>1, Zenon
  <2> QED
    BY <2>6, <2>7
<1>2. \A o \in 0..N : g[o] \in Seq(V)
  BY <1>1
<1>3. g \in [0..N -> Seq(V)]
  BY <1>2
<1> QED
  BY <1>3 DEF IsWalk

-----------------------------------------------------------------------------
(* The inductive invariant.                                                 *)
Cells == [entry : Entries, at : Nat]

(* The entries a write goes behind: none when it begins the log anew.       *)
Log == IF begun THEN <<>> ELSE acked

Total == EndOf(Log, Len(Log))

TypeInv ==
  /\ file \in [0..(FileSize - 1) -> {Zero} \cup Cells]
  /\ fileLen \in 0..FileSize /\ mapLen \in 0..FileSize
  /\ exists \in BOOLEAN /\ done \in BOOLEAN /\ torn \in BOOLEAN /\ begun \in BOOLEAN
  /\ pc \in {"closed", "creating", "idle", "copy", "zero", "copy_panic", "zero_panic"}
  /\ size \in Nat /\ writeAt \in Nat
  /\ entry \in Entries \cup {None} /\ copied \in SUBSET Nat
  /\ acked \in Seq(Entries)

(* The mapping and the place to write at.  Only truncate leaves the mapping *)
(* longer than the file, and after it nothing is written.                   *)
Mapping ==
  /\ pc \notin {"closed", "creating"} => size = fileLen /\ fileLen <= mapLen /\ writeAt <= mapLen
  /\ pc \in {"copy", "zero", "copy_panic", "zero_panic"} \/ (pc = "idle" /\ ~done) => fileLen = mapLen
  /\ pc = "creating" \/ ~exists => fileLen = 0
  /\ pc \in {"copy", "zero", "copy_panic", "zero_panic"} => entry \in Entries
  /\ pc = "copy" => writeAt + Size[entry] <= mapLen
  /\ pc = "zero" => writeAt + MaxHeaderSize <= mapLen
  /\ pc = "copy_panic" => writeAt + Size[entry] > mapLen
  /\ pc = "zero_panic" => writeAt + MaxHeaderSize > mapLen
  /\ IF pc = "copy" THEN copied \subseteq 1..Size[entry] ELSE copied = {}

(* The entries are laid out one behind the other and begin within the file, *)
(* whose end may cut the last of them in two.  The file holds nothing past  *)
(* its end.                                                                 *)
Layout ==
  /\ \A i \in 1..Len(Log) : \A c \in 1..Size[Log[i]] :
        EndOf(Log, i - 1) + c - 1 < fileLen => file[EndOf(Log, i - 1) + c - 1] = Cell(Log[i], c)
  /\ \A i \in 1..Len(Log) : EndOf(Log, i - 1) < fileLen
  /\ \A o \in fileLen..(FileSize - 1) : file[o] = Zero

(* A write goes behind the entries, or to the beginning of a file that was  *)
(* opened again.                                                            *)
WritePoint ==
  /\ pc = "idle" /\ ~done => writeAt \in {0, Total}
  /\ pc = "copy" => writeAt = Total /\ \A i \in copied : file[Total + i - 1] = Cell(entry, i)
  /\ pc \in {"zero", "zero_panic"} =>
        /\ writeAt = Total + Size[entry]
        /\ \A i \in 1..Size[entry] : file[Total + i - 1] = Cell(entry, i)

(* Nothing is read from offset o on: it is the end, or a zeroed header.     *)
StopsAt(o) == o >= fileLen \/ file[o] = Zero

Terminated == ~torn /\ pc \notin {"copy", "zero", "zero_panic"} => ~begun /\ StopsAt(Total)

IInv == TypeInv /\ Mapping /\ Layout /\ WritePoint /\ Terminated

-----------------------------------------------------------------------------
(* Where entries end.                                                       *)

(* The recursion of EndOf.                                                  *)
LEMMA EndOfSteps ==
  ASSUME NEW s \in Seq(Entries)
  PROVE  /\ EndOf(s, 0) = 0
         /\ \A i \in 0..Len(s) : EndOf(s, i) \in Nat
         /\ \A i \in 1..Len(s) : EndOf(s, i) = EndOf(s, i - 1) + Size[s[i]]
<1> DEFINE step == [i \in 1..Len(s) |-> [n \in Nat |-> n + Size[s[i]]]]
           IsEnd(g) == g = [i \in 0..Len(s) |-> IF i = 0 THEN 0 ELSE g[i - 1] + Size[s[i]]]
           end == CHOOSE g : IsEnd(g)
<1>1. Len(s) \in Nat /\ \A i \in 1..Len(s) : s[i] \in Entries /\ Size[s[i]] \in Nat
  BY SizeAssumption
<1>2. IsSteps(step, Len(s), Nat)
  BY <1>1 DEF IsSteps
<1>3. PICK g \in [0..Len(s) -> Nat] : g[0] = 0 /\ \A i \in 1..Len(s) : g[i] = step[i][g[i - 1]]
  <2> HIDE DEF step
  <2>1. 0 \in Nat
    OBVIOUS
  <2>2. PICK g : IsRun(g, 0, step, Len(s), Nat)
    BY <1>1, <1>2, <2>1, Iteration
  <2> QED
    BY <2>2 DEF IsRun
<1>4. ASSUME NEW i \in 1..Len(s) PROVE g[i] = g[i - 1] + Size[s[i]]
  <2>1. g[i - 1] \in Nat
    BY <1>1
  <2> QED
    BY <1>3, <2>1
<1> HIDE DEF step
<1>5. IsEnd(g)
  <2> DEFINE h == [i \in 0..Len(s) |-> IF i = 0 THEN 0 ELSE g[i - 1] + Size[s[i]]]
  <2>1. \A i \in 0..Len(s) : g[i] = h[i]
    BY <1>1, <1>3, <1>4
  <2> QED
    BY <2>1
<1>6. IsEnd(end)
  BY <1>5, Zenon
<1>7. \A n : EndOf(s, n) = end[n]
  BY Zenon DEF EndOf
<1>8. end = [i \in 0..Len(s) |-> IF i = 0 THEN 0 ELSE end[i - 1] + Size[s[i]]]
  BY <1>6
<1> HIDE DEF end
<1>9. end[0] = 0 /\ \A i \in 1..Len(s) : end[i] = end[i - 1] + Size[s[i]]
  BY <1>1, <1>8
<1>10. ASSUME NEW T, T = {i \in 0..Len(s) : end[i] \notin Nat}, T # {} PROVE FALSE
  <2>1. PICK i \in T : \A n \in T : i <= n
    <3>1. T \in SUBSET Nat
      BY <1>1, <1>10
    <3> QED
      BY <1>10, <3>1, NatMin
  <2>2. i \in 1..Len(s) /\ i - 1 \in 0..Len(s) /\ ~(i <= i - 1)
    BY <1>1, <1>9, <1>10
  <2>3. end[i - 1] \in Nat
    BY <1>10, <2>1, <2>2
  <2> QED
    BY <1>1, <1>9, <1>10, <2>2, <2>3, SMTT(60)
<1>11. \A i \in 0..Len(s) : end[i] \in Nat
  BY <1>10
<1> QED
  BY <1>7, <1>9, <1>11

(* Entries end where they end in any sequence that begins with them.        *)
LEMMA EndOfPrefix ==
  ASSUME NEW r \in Seq(Entries), NEW s \in Seq(Entries), NEW n \in 0..Len(r), n <= Len(s),
         \A i \in 1..n : r[i] = s[i]
  PROVE  \A i \in 0..n : EndOf(r, i) = EndOf(s, i)
<1> DEFINE T == {i \in 0..n : EndOf(r, i) # EndOf(s, i)}
<1>1. ASSUME T # {} PROVE FALSE
  <2>1. PICK i \in T : \A k \in T : i <= k
    <3>1. T \in SUBSET Nat
      OBVIOUS
    <3> QED
      BY <1>1, <3>1, NatMin
  <2>2. EndOf(r, i) # EndOf(s, i) /\ i \in 1..n
    BY EndOfSteps
  <2>3. i - 1 \in 0..n /\ ~(i <= i - 1) /\ i \in 1..Len(r) /\ i \in 1..Len(s)
    BY <2>2
  <2>4. EndOf(r, i - 1) = EndOf(s, i - 1)
    BY <2>1, <2>3
  <2> QED
    BY <2>2, <2>3, <2>4, EndOfSteps
<1> QED
  BY <1>1

(* Later entries end later.                                                 *)
LEMMA EndOfMonotone ==
  ASSUME NEW s \in Seq(Entries), NEW i \in 0..Len(s), NEW j \in i..Len(s)
  PROVE  EndOf(s, i) <= EndOf(s, j)
<1> DEFINE T == {k \in i..Len(s) : EndOf(s, i) > EndOf(s, k)}
<1>0. \A k \in 0..Len(s) : EndOf(s, k) \in Nat
  BY EndOfSteps
<1>1. ASSUME T # {} PROVE FALSE
  <2>1. PICK k \in T : \A n \in T : k <= n
    <3>1. T \in SUBSET Nat
      OBVIOUS
    <3> QED
      BY <1>1, <3>1, NatMin
  <2>2. EndOf(s, i) > EndOf(s, k) /\ k \in 1..Len(s) /\ k # i
    BY <1>0
  <2>3. k - 1 \in i..Len(s) /\ k - 1 \in 0..Len(s) /\ ~(k <= k - 1)
    BY <2>2
  <2>4. EndOf(s, i) <= EndOf(s, k - 1)
    BY <1>0, <2>1, <2>3
  <2>5. s[k] \in Entries /\ Size[s[k]] \in Nat
    BY <2>2, SizeAssumption
  <2>6. EndOf(s, k) = EndOf(s, k - 1) + Size[s[k]]
    BY <2>2, EndOfSteps
  <2> QED
    BY <1>0, <2>2, <2>3, <2>4, <2>5, <2>6
<1> QED
  BY <1>0, <1>1

-----------------------------------------------------------------------------
(* Reading the log.                                                         *)
Readable == Entries \cup {Garbage, LogRead}

(* What the iterator returns from offset o on, if g is what it returns      *)
(* further on.                                                              *)
Rest(g, o) == IF o = size \/ file[o] = Zero THEN <<>>
              ELSE IF file[o].at # 1 THEN <<Garbage>>
              ELSE IF TooLong(o) THEN <<LogRead>>
              ELSE IF Ends(o) THEN <<>>
              ELSE <<IF WholeAt(o) THEN file[o].entry ELSE Garbage>> \o g[o + Size[file[o].entry]]

IsReplay(g) == /\ g \in [0..size -> Seq(Readable)]
               /\ Replay = g[0]
               /\ \A o \in 0..size : g[o] = Rest(g, o)

(* The recursion of the iterator: what it returns from every offset.        *)
LEMMA ReplaySteps ==
  ASSUME TypeInv, size = fileLen
  PROVE  \E g : IsReplay(g)
<1> DEFINE IsRest(g) == g = [o \in 0..size |-> Rest(g, o)]
           rest == CHOOSE g : IsRest(g)
           L == {o \in 0..size : \/ o = size \/ file[o] = Zero \/ file[o].at # 1
                                 \/ TooLong(o) \/ Ends(o)}
           base == [o \in 0..size |-> IF o = size \/ file[o] = Zero THEN <<>>
                                      ELSE IF file[o].at # 1 THEN <<Garbage>>
                                      ELSE IF TooLong(o) THEN <<LogRead>> ELSE <<>>]
           head == [o \in 0..size |-> IF o \in L THEN <<>>
                                      ELSE <<IF WholeAt(o) THEN file[o].entry ELSE Garbage>>]
           leap == [o \in 0..size |-> o + Size[file[o].entry]]
           W(g) == IsWalk(g, size, Readable, L, base, head, leap)
<1>1. size \in Nat /\ \A o \in 0..size : o # size => o \in 0..(FileSize - 1)
  BY SizeAssumption DEF TypeInv, FileSize
<1>2. \A o \in (0..size) \ L : /\ file[o] \in Cells /\ file[o].entry \in Entries
                               /\ Size[file[o].entry] \in Nat \ {0}
                               /\ o + Size[file[o].entry] \in (o + 1)..size
  <2> SUFFICES ASSUME NEW o \in (0..size) \ L
               PROVE  /\ file[o] \in Cells /\ file[o].entry \in Entries
                      /\ Size[file[o].entry] \in Nat \ {0}
                      /\ o + Size[file[o].entry] \in (o + 1)..size
    OBVIOUS
  <2>1. file[o] \in Cells
    BY <1>1 DEF TypeInv
  <2>2. file[o].entry \in Entries
    BY <2>1 DEF Cells
  <2>3. Size[file[o].entry] \in Nat \ {0}
    BY <2>2, SizeAssumption
  <2>4. ~(o + Size[file[o].entry] > size)
    BY DEF Ends
  <2> QED
    BY <1>1, <2>1, <2>2, <2>3, <2>4
<1>3. IsMap(size, Readable, L, base, head, leap)
  <2>1. L \in SUBSET (0..size) /\ size \in L
    BY <1>1
  <2>0. <<>> \in Seq(Readable) /\ \A x \in Readable : <<x>> \in Seq(Readable)
    OBVIOUS
  <2>2. base \in [0..size -> Seq(Readable)]
    <3>1. <<Garbage>> \in Seq(Readable) /\ <<LogRead>> \in Seq(Readable)
      BY <2>0 DEF Readable
    <3> QED
      BY <2>0, <3>1
  <2>3. head \in [0..size -> Seq(Readable)]
    <3>1. \A o \in (0..size) \ L :
             <<IF WholeAt(o) THEN file[o].entry ELSE Garbage>> \in Seq(Readable)
      BY <1>2, <2>0 DEF Readable
    <3> HIDE DEF L
    <3> QED
      BY <2>0, <3>1
  <2>4. \A o \in (0..size) \ L : leap[o] \in (o + 1)..size
    BY <1>2
  <2> QED
    BY <2>1, <2>2, <2>3, <2>4 DEF IsMap
<1>4. \A g : \A o \in 0..size : Rest(g, o) = IF o \in L THEN base[o] ELSE head[o] \o g[leap[o]]
  BY DEF Rest
<1> HIDE DEF L, base, head, leap
<1>5. PICK g : W(g)
  BY <1>1, <1>3, Walk
<1>6. IsRest(g)
  <2>1. g \in [0..size -> Seq(Readable)] /\ \A o \in 0..size : g[o] = Rest(g, o)
    BY <1>4, <1>5 DEF IsWalk
  <2> QED
    BY <2>1
<1>7. IsRest(rest)
  BY <1>6, Zenon
<1>8. Replay = rest[0]
  BY Zenon DEF Replay, Rest
<1> HIDE DEF rest
<1>9. \A o \in 0..size : rest[o] = Rest(rest, o)
  BY <1>7
<1>10. rest = [o \in 0..size |-> rest[o]]
  BY <1>7
<1>11. \A o \in 0..size : rest[o] = IF o \in L THEN base[o] ELSE head[o] \o rest[leap[o]]
  BY <1>4, <1>9
<1>12. W(rest)
  BY <1>1, <1>3, <1>10, <1>11, WalkTyped
<1>13. rest \in [0..size -> Seq(Readable)]
  BY <1>12 DEF IsWalk
<1> QED
  BY <1>8, <1>9, <1>13 DEF IsReplay

(* The log is a sequence of entries.                                        *)
LEMMA LogTyped ==
  ASSUME TypeInv
  PROVE  Log \in Seq(Entries) /\ Len(Log) \in Nat
<1>1. acked \in Seq(Entries) /\ <<>> \in Seq(Entries)
  BY DEF TypeInv
<1>2. Log \in Seq(Entries)
  BY <1>1, Zenon DEF Log
<1> QED
  BY <1>2

(* Where the entries of the log lie.                                        *)
LEMMA WhereEntriesLie ==
  ASSUME TypeInv
  PROVE  /\ Total \in Nat
         /\ \A i \in 1..Len(Log) :
               /\ Log[i] \in Entries /\ Size[Log[i]] \in Nat \ {0}
               /\ EndOf(Log, i - 1) \in Nat
               /\ EndOf(Log, i) = EndOf(Log, i - 1) + Size[Log[i]]
               /\ EndOf(Log, i) <= Total
<1>1. Log \in Seq(Entries) /\ Len(Log) \in Nat
  BY LogTyped
<1>2. Total \in Nat
  BY <1>1, EndOfSteps DEF Total
<1>3. ASSUME NEW i \in 1..Len(Log)
      PROVE  /\ Log[i] \in Entries /\ Size[Log[i]] \in Nat \ {0}
             /\ EndOf(Log, i - 1) \in Nat
             /\ EndOf(Log, i) = EndOf(Log, i - 1) + Size[Log[i]]
             /\ EndOf(Log, i) <= Total
  <2>1. Log[i] \in Entries /\ Size[Log[i]] \in Nat \ {0}
    BY <1>1, SizeAssumption
  <2>2. i \in 0..Len(Log) /\ i - 1 \in 0..Len(Log) /\ Len(Log) \in i..Len(Log)
    BY <1>1
  <2>3. EndOf(Log, i) <= Total
    BY <1>1, <2>2, EndOfMonotone DEF Total
  <2> QED
    BY <1>1, <2>1, <2>2, <2>3, EndOfSteps
<1> QED
  BY <1>2, <1>3
(* Replay begins with the entries in front of the first that cannot be read *)
(* back, whatever comes behind them.                                        *)
LEMMA ReplayPrefix ==
  ASSUME TypeInv, Layout, size = fileLen, NEW g, IsReplay(g), NEW N \in 0..Len(Log),
         \A i \in 1..N : Log[i] \notin EmptyKey \cup LongKey /\ EndOf(Log, i) <= fileLen
  PROVE  Replay = SubSeq(Log, 1, N) \o g[EndOf(Log, N)]
<1> DEFINE Upto(n) == Replay = SubSeq(Log, 1, n) \o g[EndOf(Log, n)]
           T == {n \in 0..N : ~Upto(n)}
<1>0. g \in [0..size -> Seq(Readable)] /\ Replay = g[0] /\ size \in Nat
  BY DEF IsReplay, TypeInv
<1>1. Log \in Seq(Entries) /\ Len(Log) \in Nat /\ Log \in Seq(Readable)
  BY LogTyped, SeqMonotonic DEF Readable
<1>2. Upto(0)
  <2>1. SubSeq(Log, 1, 0) = <<>> /\ EndOf(Log, 0) = 0
    BY <1>1, EndOfSteps
  <2>2. g[0] \in Seq(Readable)
    BY <1>0
  <2> QED
    BY <1>0, <2>1, <2>2, ConcatEmptySeq
<1>3. ASSUME NEW n \in 1..N, Upto(n - 1) PROVE Upto(n)
  <2> DEFINE o == EndOf(Log, n - 1)
             e == Log[n]
  <2>1. /\ e \in Entries /\ Size[e] \in Nat \ {0} /\ o \in Nat /\ n \in 1..Len(Log)
        /\ EndOf(Log, n) = o + Size[e] /\ o + Size[e] <= size /\ size \in Nat
    <3>1. n \in 1..Len(Log) /\ EndOf(Log, n) <= size
      BY <1>1
    <3> QED
      BY <1>0, <3>1, WhereEntriesLie
  <2>2. \A c \in 1..Size[e] : file[o + c - 1] = Cell(e, c)
    <3>1. \A c \in 1..Size[e] : o + c - 1 < fileLen
      BY <2>1
    <3> QED
      BY <2>1, <3>1 DEF Layout
  <2>13. e \notin EmptyKey \cup LongKey
    OBVIOUS
  <2> HIDE DEF o, e
  <2>3. file[o] = Cell(e, 1)
    <3>1. 1 \in 1..Size[e] /\ o + 1 - 1 = o
      BY <2>1
    <3> QED
      BY <2>2, <3>1
  <2>4. Cell(e, 1).entry = e /\ Cell(e, 1).at = 1 /\ Cell(e, 1) # Zero
    BY <2>1, ZeroAssumption DEF Cell
  <2>5. WholeAt(o)
    BY <2>2, <2>3, <2>4 DEF WholeAt
  <2>6. o \in 0..size /\ o # size /\ ~(o + Size[e] > size) /\ o + Size[e] \in 0..size
    BY <2>1
  <2>14. ~TooLong(o) /\ ~Ends(o)
    BY <2>3, <2>4, <2>6, <2>13 DEF TooLong, Ends
  <2>7. g[o] = <<e>> \o g[o + Size[e]]
    <3>1. g[o] = Rest(g, o)
      BY <2>6 DEF IsReplay
    <3> QED
      BY <2>3, <2>4, <2>5, <2>6, <2>14, <3>1 DEF Rest
  <2>8. SubSeq(Log, 1, n) = SubSeq(Log, 1, n - 1) \o <<e>>
    BY <1>1, SubSeqRecursiveSecond DEF e
  <2>9. SubSeq(Log, 1, n - 1) \in Seq(Readable)
    BY <1>1
  <2>10. <<e>> \in Seq(Readable) /\ g[o + Size[e]] \in Seq(Readable)
    <3>1. <<e>> \in Seq(Readable)
      BY <2>1 DEF Readable
    <3>2. g[o + Size[e]] \in Seq(Readable)
      BY <1>0, <2>6
    <3> QED
      BY <3>1, <3>2
  <2>11. (SubSeq(Log, 1, n - 1) \o <<e>>) \o g[o + Size[e]] =
            SubSeq(Log, 1, n - 1) \o (<<e>> \o g[o + Size[e]])
    <3>1. \A x, y, z \in Seq(Readable) : (x \o y) \o z = x \o (y \o z)
      BY ConcatAssociative
    <3> QED
      BY <2>9, <2>10, <3>1, Zenon
  <2>12. Replay = SubSeq(Log, 1, n - 1) \o g[o]
    BY <1>3 DEF o
  <2> QED
    BY <2>1, <2>7, <2>8, <2>11, <2>12
<1> HIDE DEF Upto
<1>4. ASSUME T # {} PROVE FALSE
  <2>1. PICK n \in T : \A k \in T : n <= k
    <3>1. T \in SUBSET Nat
      OBVIOUS
    <3> QED
      BY <1>4, <3>1, NatMin
  <2>2. n \in 1..N /\ n - 1 \in 0..N /\ ~(n <= n - 1)
    BY <1>1, <1>2
  <2>3. Upto(n - 1)
    BY <2>1, <2>2
  <2> QED
    BY <1>3, <2>2, <2>3
<1>5. Upto(N)
  BY <1>1, <1>4
<1> QED
  BY <1>5 DEF Upto

(* The entries that a truncation leaves are those that begin in front of    *)
(* the new end of the file: a prefix.                                       *)
LEMMA KeptPrefix ==
  ASSUME TypeInv, NEW end \in Nat
  PROVE  \E k \in 0..Len(acked) :
            /\ Kept(end) = SubSeq(acked, 1, k)
            /\ \A i \in 1..k : EndOf(acked, i - 1) < end
            /\ k < Len(acked) => EndOf(acked, k) >= end
<1> DEFINE K == {i \in 1..Len(acked) : EndOf(acked, i - 1) < end}
<1>2. acked \in Seq(Entries) /\ Len(acked) \in Nat
  BY DEF TypeInv
<1>3. \A i \in 0..Len(acked) : EndOf(acked, i) \in Nat
  BY <1>2, EndOfSteps
<1>4. PICK k \in 0..Len(acked) :
         /\ k = 0 \/ EndOf(acked, k - 1) < end
         /\ \A i \in 0..Len(acked) : i = 0 \/ EndOf(acked, i - 1) < end => i <= k
  <2> DEFINE T == {i \in 0..Len(acked) : i = 0 \/ EndOf(acked, i - 1) < end}
  <2>1. T \in SUBSET (0..Len(acked)) /\ 0 \in T
    BY <1>2
  <2>2. PICK k \in T : \A i \in T : i <= k
    BY <1>2, <2>1, NatMax
  <2> QED
    BY <2>2
<1>5. \A i \in 1..k : EndOf(acked, i - 1) < end
  <2> SUFFICES ASSUME NEW i \in 1..k PROVE EndOf(acked, i - 1) < end
    OBVIOUS
  <2>1. i - 1 \in 0..Len(acked) /\ k - 1 \in (i - 1)..Len(acked) /\ k - 1 \in 0..Len(acked) /\ k # 0
    BY <1>2
  <2>2. EndOf(acked, i - 1) <= EndOf(acked, k - 1)
    BY <1>2, <2>1, EndOfMonotone
  <2> QED
    BY <1>3, <1>4, <2>1, <2>2
<1>6. K = 1..k
  <2>1. ASSUME NEW i \in 1..k PROVE i \in K
    BY <1>2, <1>5
  <2>2. ASSUME NEW i \in K PROVE i \in 1..k
    BY <1>2, <1>4
  <2> QED
    BY <2>1, <2>2
<1>7. Cardinality(1..k) = k
  <2>1. k \in Int /\ 1 \in Int
    BY <1>2
  <2>2. Cardinality(1..k) = IF 1 > k THEN 0 ELSE k - 1 + 1
    BY <2>1, FS_Interval
  <2> QED
    BY <1>2, <2>2
<1>8. Kept(end) = SubSeq(acked, 1, k)
  BY <1>6, <1>7 DEF Kept
<1>9. k < Len(acked) => EndOf(acked, k) >= end
  <2>1. k < Len(acked) => /\ k + 1 \in 0..Len(acked) /\ ~(k + 1 <= k) /\ k + 1 - 1 = k
                          /\ k \in 0..Len(acked)
    BY <1>2
  <2> QED
    BY <1>3, <1>4, <2>1
<1> QED
  BY <1>5, <1>8, <1>9

-----------------------------------------------------------------------------
(* The invariant is inductive.                                              *)
LEMMA FileSizePositive == FileSize \in Nat \ {0}
BY SizeAssumption DEF FileSize

LEMMA InitIInv == Init => IInv
<1> SUFFICES ASSUME Init PROVE IInv
  OBVIOUS
<1>1. TypeInv
  BY FileSizePositive DEF Init, TypeInv
<1>2. Mapping
  BY DEF Init, Mapping
<1>3. Total = 0 /\ Log = <<>> /\ Len(<<>>) = 0
  <2>1. <<>> \in Seq(Entries) /\ Len(<<>>) = 0 /\ Log = <<>>
    BY DEF Init, Log
  <2> QED
    BY <2>1, EndOfSteps DEF Total
<1>4. Layout
  BY <1>3, FileSizePositive DEF Init, Layout
<1>5. WritePoint /\ Terminated
  BY <1>3 DEF Init, WritePoint, Terminated, StopsAt
<1> QED
  BY <1>1, <1>2, <1>4, <1>5 DEF IInv

(* Where nothing is stored and nothing acknowledged, the layout stays.      *)
LEMMA LayoutKept ==
  ASSUME Layout, file' = file, fileLen' = fileLen, acked' = acked, begun' = begun
  PROVE  Layout' /\ Total' = Total /\ (StopsAt(Total) => StopsAt(Total)')
<1>1. Log' = Log
  BY DEF Log
<1> QED
  BY <1>1 DEF Layout, Total, StopsAt

(* A new file: entries can be written from its beginning.                   *)
LEMMA CreateStep == IInv /\ (CreateFile \/ SetLen) => IInv'
<1>1. ASSUME IInv, CreateFile PROVE IInv'
  <2>1. TypeInv' /\ Mapping'
    BY <1>1 DEF IInv, CreateFile, TypeInv, Mapping
  <2>2. Layout' /\ Total' = Total /\ (StopsAt(Total) => StopsAt(Total)')
    BY <1>1, LayoutKept DEF IInv, CreateFile
  <2>3. WritePoint' /\ Terminated'
    BY <1>1, <2>2 DEF IInv, CreateFile, WritePoint, Terminated
  <2> QED
    BY <2>1, <2>2, <2>3 DEF IInv
<1>2. ASSUME IInv, SetLen PROVE IInv'
  <2>1. TypeInv' /\ Mapping'
    BY <1>2, FileSizePositive DEF IInv, SetLen, Map, TypeInv, Mapping
  <2>2. fileLen = 0 /\ Len(Log) = 0 /\ Log' = Log /\ Total = 0 /\ Total' = Total
    <3>1. fileLen = 0 /\ Log \in Seq(Entries) /\ Len(Log) \in Nat /\ EndOf(Log, 0) = 0
      BY <1>2, LogTyped, EndOfSteps DEF IInv, SetLen, Mapping
    <3>2. 1 \in 1..Len(Log) => EndOf(Log, 1 - 1) < 0
      BY <1>2, <3>1 DEF IInv, Layout
    <3>3. Len(Log) = 0
      BY <3>1, <3>2
    <3> QED
      BY <1>2, <3>1, <3>3 DEF SetLen, Log, Total
  <2>3. Layout'
    BY <1>2, <2>2, FileSizePositive DEF IInv, SetLen, Layout
  <2>4. file[0] = Zero
    BY <1>2, <2>2, FileSizePositive DEF IInv, Layout
  <2>5. WritePoint'
    BY <1>2, <2>2 DEF SetLen, Map, WritePoint
  <2>6. Terminated'
    <3>1. ~torn => ~begun
      BY <1>2 DEF IInv, SetLen, Terminated
    <3> QED
      BY <1>2, <2>2, <2>4, <3>1 DEF SetLen, Terminated, StopsAt
  <2> QED
    BY <2>1, <2>3, <2>5, <2>6 DEF IInv
<1> QED
  BY <1>1, <1>2

(* A file that is opened again, and a log that is closed.                   *)
LEMMA OpenStopStep == IInv /\ (OpenExisting \/ Stop) => IInv'
<1>1. ASSUME IInv, OpenExisting PROVE IInv'
  <2>0. fileLen \in 0..FileSize /\ FileSize \in Nat /\ exists /\ copied = {}
    BY <1>1, FileSizePositive DEF IInv, OpenExisting, TypeInv, Mapping
  <2>1. TypeInv' /\ Mapping'
    <3>1. TypeInv'
      BY <1>1, <2>0 DEF IInv, OpenExisting, Map, disk, TypeInv
    <3>2. Mapping'
      BY <1>1, <2>0 DEF OpenExisting, Map, disk, Mapping
    <3> QED
      BY <3>1, <3>2
  <2>2. Layout' /\ Total' = Total /\ (StopsAt(Total) => StopsAt(Total)')
    BY <1>1, LayoutKept DEF IInv, OpenExisting, disk
  <2>3. WritePoint' /\ Terminated'
    BY <1>1, <2>2 DEF IInv, OpenExisting, Map, WritePoint, Terminated
  <2> QED
    BY <2>1, <2>2, <2>3 DEF IInv
<1>2. ASSUME IInv, Stop PROVE IInv'
  <2>1. TypeInv' /\ Mapping'
    <3>1. torn' \in BOOLEAN
      BY <1>2 DEF Stop
    <3>2. TypeInv'
      <4>0. mapLen' = 0 /\ size' = 0 /\ writeAt' = 0 /\ done' = FALSE
        BY <1>2 DEF Stop
      <4>1. mapLen' \in 0..FileSize /\ size' \in Nat /\ writeAt' \in Nat
        BY <4>0, FileSizePositive
      <4>4. done' \in BOOLEAN
        BY <4>0, Zenon
      <4>2. entry' \in Entries \cup {None} /\ copied' \in SUBSET Nat /\ pc' = "closed"
        BY <1>2 DEF Stop
      <4>3. UNCHANGED <<file, fileLen, exists, acked, begun>>
        BY <1>2 DEF Stop, disk
      <4> QED
        BY <1>2, <3>1, <4>1, <4>2, <4>3, <4>4 DEF IInv, TypeInv
    <3>3. Mapping'
      BY <1>2 DEF IInv, Stop, disk, Mapping
    <3> QED
      BY <3>2, <3>3
  <2>2. Layout' /\ Total' = Total /\ (StopsAt(Total) => StopsAt(Total)')
    BY <1>2, LayoutKept DEF IInv, Stop, disk
  <2>3. WritePoint' /\ Terminated'
    BY <1>2, <2>2 DEF IInv, Stop, WritePoint, Terminated
  <2> QED
    BY <2>1, <2>2, <2>3 DEF IInv
<1> QED
  BY <1>1, <1>2

(* write_entry begins: behind the entries, or at the start of a new life.   *)
LEMMA WriteEntryStep ==
  ASSUME IInv, NEW e \in Entries, WriteEntry(e)
  PROVE  IInv'
<1>0. Size[e] \in Nat \ {0} /\ writeAt \in Nat /\ mapLen \in Nat /\ fileLen = mapLen
  BY SizeAssumption DEF IInv, TypeInv, Mapping, WriteEntry
<1>1. TypeInv'
  <2>1. begun' \in BOOLEAN
    BY Zenon DEF WriteEntry
  <2> QED
    BY <2>1 DEF IInv, WriteEntry, disk, TypeInv
<1>2. Mapping'
  BY <1>0 DEF IInv, WriteEntry, disk, Mapping
<1>3. CASE pc' = "copy" /\ writeAt = 0
  <2>1. Log' = <<>> /\ Len(<<>>) = 0 /\ <<>> \in Seq(Entries)
    <3>1. begun'
      BY <1>3, Zenon DEF WriteEntry
    <3> QED
      BY <3>1 DEF Log
  <2>2. Total' = 0
    BY <2>1, EndOfSteps DEF Total
  <2>3. Layout'
    BY <1>0, <2>1, <2>2 DEF IInv, WriteEntry, disk, Layout
  <2>4. WritePoint' /\ Terminated'
    BY <1>3, <2>2 DEF IInv, WriteEntry, Mapping, WritePoint, Terminated
  <2> QED
    BY <1>1, <1>2, <2>3, <2>4 DEF IInv
<1>4. CASE ~(pc' = "copy" /\ writeAt = 0)
  <2>1. acked' = acked /\ begun' = begun
    BY <1>4 DEF IInv, TypeInv, WriteEntry
  <2>2. Layout' /\ Total' = Total /\ (StopsAt(Total) => StopsAt(Total)')
    BY <2>1, LayoutKept DEF IInv, WriteEntry, disk
  <2>3. WritePoint' /\ Terminated'
    BY <1>4, <2>2 DEF IInv, WriteEntry, Mapping, WritePoint, Terminated
  <2> QED
    BY <1>1, <1>2, <2>2, <2>3 DEF IInv
<1> QED
  BY <1>3, <1>4

(* What is stored behind the entries does not touch them.                   *)
LEMMA LayoutBehind ==
  ASSUME TypeInv, Layout, acked' = acked, begun' = begun, fileLen' = fileLen,
         \A o \in 0..(Total - 1) : file'[o] = file[o],
         \A o \in fileLen..(FileSize - 1) : file'[o] = Zero
  PROVE  Layout' /\ Total' = Total
<1>1. Log' = Log /\ Total' = Total
  BY DEF Log, Total
<1>2. ASSUME NEW i \in 1..Len(Log), NEW c \in 1..Size[Log[i]],
             EndOf(Log, i - 1) + c - 1 < fileLen
      PROVE  file'[EndOf(Log, i - 1) + c - 1] = Cell(Log[i], c)
  <2>1. file[EndOf(Log, i - 1) + c - 1] = Cell(Log[i], c)
    BY <1>2 DEF Layout
  <2>2. EndOf(Log, i - 1) + c - 1 \in 0..(Total - 1)
    BY WhereEntriesLie
  <2> QED
    BY <2>1, <2>2
<1> QED
  BY <1>1, <1>2 DEF Layout

(* The cells are copied, and write_at moves on.                             *)
LEMMA CopyStep == IInv /\ (CopyCell \/ CopyDone) => IInv'
<1>1. ASSUME IInv, CopyCell PROVE IInv'
  <2>1. PICK i \in 1..Size[entry] \ copied :
           /\ file' = [file EXCEPT ![writeAt + i - 1] = Cell(entry, i)]
           /\ copied' = copied \cup {i}
    BY <1>1 DEF CopyCell
  <2>2. /\ pc = "copy" /\ entry \in Entries /\ Size[entry] \in Nat \ {0}
        /\ writeAt = Total /\ Total \in Nat /\ fileLen = mapLen /\ mapLen \in 0..FileSize
        /\ writeAt + Size[entry] <= mapLen
    BY <1>1, WhereEntriesLie, SizeAssumption DEF IInv, CopyCell, Mapping, WritePoint, TypeInv
  <2>3. writeAt + i - 1 \in 0..(FileSize - 1) /\ Cell(entry, i) \in Cells
    BY <2>2, FileSizePositive DEF Cell, Cells
  <2>4. \A o \in 0..(FileSize - 1) :
           file'[o] = IF o = writeAt + i - 1 THEN Cell(entry, i) ELSE file[o]
    BY <1>1, <2>1 DEF IInv, TypeInv
  <2>5. TypeInv'
    BY <1>1, <2>1, <2>2, <2>3 DEF IInv, CopyCell, TypeInv
  <2>6. Mapping'
    BY <1>1, <2>1, <2>2 DEF IInv, CopyCell, Mapping
  <2>7. Layout' /\ Total' = Total
    <3>1. \A o \in 0..(Total - 1) : file'[o] = file[o]
      BY <2>2, <2>4, FileSizePositive
    <3>2. \A o \in fileLen..(FileSize - 1) : file'[o] = Zero
      BY <1>1, <2>2, <2>4, FileSizePositive DEF IInv, Layout
    <3> QED
      BY <1>1, <3>1, <3>2, LayoutBehind DEF IInv, CopyCell
  <2>8. WritePoint'
    <3>1. ASSUME NEW j \in copied' PROVE file'[Total + j - 1] = Cell(entry, j)
      <4>1. j \in 1..Size[entry] /\ Total + j - 1 \in 0..(FileSize - 1)
        BY <1>1, <2>1, <2>2, FileSizePositive DEF IInv, Mapping
      <4>2. CASE j = i
        BY <2>2, <2>4, <4>1, <4>2
      <4>3. CASE j # i
        <5>1. j \in copied /\ Total + j - 1 # writeAt + i - 1
          BY <2>1, <2>2, <4>1, <4>3
        <5> QED
          BY <1>1, <2>2, <2>4, <4>1, <5>1 DEF IInv, WritePoint
      <4> QED
        BY <4>2, <4>3
    <3> QED
      BY <1>1, <2>2, <2>7, <3>1 DEF CopyCell, WritePoint
  <2>9. Terminated'
    BY <1>1, <2>2 DEF CopyCell, Terminated
  <2> QED
    BY <2>5, <2>6, <2>7, <2>8, <2>9 DEF IInv
<1>2. ASSUME IInv, CopyDone PROVE IInv'
  <2>1. /\ pc = "copy" /\ copied = 1..Size[entry] /\ entry \in Entries
        /\ Size[entry] \in Nat \ {0} /\ writeAt = Total /\ writeAt \in Nat /\ fileLen = mapLen
        /\ writeAt + Size[entry] <= mapLen /\ mapLen \in Nat
    BY <1>2, SizeAssumption DEF IInv, CopyDone, Mapping, WritePoint, TypeInv
  <2>2. TypeInv'
    BY <1>2, <2>1 DEF IInv, CopyDone, disk, TypeInv
  <2>3. Mapping'
    BY <1>2, <2>1, SizeAssumption DEF IInv, CopyDone, disk, Mapping
  <2>4. Layout' /\ Total' = Total
    BY <1>2, LayoutKept DEF IInv, CopyDone, disk
  <2>5. WritePoint' /\ Terminated'
    BY <1>2, <2>1, <2>4 DEF IInv, CopyDone, disk, WritePoint, Terminated
  <2> QED
    BY <2>2, <2>3, <2>4, <2>5 DEF IInv
<1> QED
  BY <1>1, <1>2

(* zero_next_entry clears the next header, and the entry is acknowledged.   *)
LEMMA ZeroStep ==
  ASSUME IInv, ZeroNextEntry
  PROVE  IInv'
<1>1. /\ pc = "zero" /\ entry \in Entries /\ Size[entry] \in Nat \ {0} /\ Total \in Nat
      /\ writeAt = Total + Size[entry] /\ writeAt + MaxHeaderSize <= mapLen /\ fileLen = mapLen
      /\ mapLen \in 0..FileSize /\ MaxHeaderSize \in Nat \ {0} /\ copied = {}
  BY WhereEntriesLie, SizeAssumption DEF IInv, ZeroNextEntry, Mapping, WritePoint, TypeInv
<1>2. Log \in Seq(Entries) /\ Len(Log) \in Nat
  BY LogTyped DEF IInv
<1>3. /\ Log' \in Seq(Entries) /\ Len(Log') = Len(Log) + 1
      /\ Log'[Len(Log) + 1] = entry /\ \A i \in 1..Len(Log) : Log'[i] = Log[i]
  <2>1. Log' = Append(Log, entry)
    <3>1. <<entry>> = Append(<<>>, entry)
      OBVIOUS
    <3>2. CASE begun
      BY <3>1, <3>2, Zenon DEF ZeroNextEntry, Log
    <3>3. CASE ~begun
      BY <3>3, Zenon DEF ZeroNextEntry, Log
    <3> QED
      BY <3>2, <3>3
  <2> QED
    BY <1>1, <1>2, <2>1
<1>4. \A i \in 0..Len(Log) : EndOf(Log', i) = EndOf(Log, i)
  <2>1. Len(Log) \in 0..Len(Log) /\ Len(Log) <= Len(Log')
    BY <1>2, <1>3
  <2> QED
    BY <1>2, <1>3, <2>1, EndOfPrefix
<1>5. Total' = writeAt
  <2>1. Len(Log) + 1 \in 1..Len(Log') /\ Len(Log) \in 0..Len(Log)
    BY <1>2, <1>3
  <2>2. EndOf(Log', Len(Log) + 1) = EndOf(Log', Len(Log) + 1 - 1) + Size[entry]
    BY <1>3, <2>1, EndOfSteps, SMTT(60)
  <2>3. Len(Log) + 1 - 1 = Len(Log)
    BY <1>2
  <2> QED
    BY <1>1, <1>3, <1>4, <2>1, <2>2, <2>3 DEF Total
<1>6. \A o \in 0..(FileSize - 1) :
         file'[o] = IF o \in writeAt..(writeAt + MaxHeaderSize - 1) THEN Zero ELSE file[o]
  BY DEF IInv, ZeroNextEntry, Cleared, TypeInv
<1>7. TypeInv'
  <2>1. file' \in [0..(FileSize - 1) -> {Zero} \cup Cells]
    BY DEF IInv, ZeroNextEntry, Cleared, TypeInv
  <2>2. torn' \in BOOLEAN /\ begun' \in BOOLEAN
    BY Zenon DEF ZeroNextEntry
  <2>3. acked' \in Seq(Entries)
    <3>1. acked \in Seq(Entries) /\ <<entry>> \in Seq(Entries) /\ Append(acked, entry) \in Seq(Entries)
      BY <1>1 DEF IInv, TypeInv
    <3> QED
      BY <3>1, Zenon DEF ZeroNextEntry
  <2> QED
    BY <2>1, <2>2, <2>3 DEF IInv, ZeroNextEntry, TypeInv
<1>8. Mapping'
  BY <1>1 DEF IInv, ZeroNextEntry, Mapping
<1>9. Layout'
  <2>1. ASSUME NEW i \in 1..Len(Log'), NEW c \in 1..Size[Log'[i]]
        PROVE  file'[EndOf(Log', i - 1) + c - 1] = Cell(Log'[i], c)
    <3>1. CASE i = Len(Log) + 1
      <4>1. EndOf(Log', i - 1) = Total /\ Log'[i] = entry
        BY <1>2, <1>3, <1>4, <3>1 DEF Total
      <4>2. Total + c - 1 \in 0..(writeAt - 1) /\ Total + c - 1 \in 0..(FileSize - 1)
        BY <1>1, <4>1, FileSizePositive
      <4>3. file[Total + c - 1] = Cell(entry, c)
        BY <1>1, <4>1 DEF IInv, WritePoint
      <4>4. Total + c - 1 \notin writeAt..(writeAt + MaxHeaderSize - 1)
        BY <1>1, <4>2
      <4> QED
        BY <1>6, <4>1, <4>2, <4>3, <4>4
    <3>2. CASE i # Len(Log) + 1
      <4>1. i \in 1..Len(Log) /\ i - 1 \in 0..Len(Log)
        BY <1>2, <1>3, <3>2
      <4>2. EndOf(Log', i - 1) = EndOf(Log, i - 1) /\ Log'[i] = Log[i]
        BY <1>3, <1>4, <4>1
      <4>3. /\ EndOf(Log, i - 1) + c - 1 \in 0..(writeAt - 1)
            /\ EndOf(Log, i - 1) + c - 1 \in 0..(FileSize - 1)
        <5>1. /\ EndOf(Log, i - 1) \in Nat /\ EndOf(Log, i - 1) + Size[Log[i]] <= Total
              /\ Size[Log[i]] \in Nat
          BY <4>1, WhereEntriesLie DEF IInv
        <5>2. c \in 1..Size[Log[i]]
          BY <4>2
        <5>3. writeAt \in Nat /\ Total <= writeAt /\ writeAt <= FileSize
          BY <1>1, FileSizePositive
        <5>4. Total \in Nat /\ c \in Nat /\ 1 <= c /\ c <= Size[Log[i]]
          BY <1>1, <5>1, <5>2
        <5>5. EndOf(Log, i - 1) + c - 1 \in Nat /\ EndOf(Log, i - 1) + c - 1 < writeAt
          BY <5>1, <5>3, <5>4
        <5> QED
          BY <5>3, <5>5, FileSizePositive
      <4>4. file[EndOf(Log, i - 1) + c - 1] = Cell(Log[i], c)
        <5>1. EndOf(Log, i - 1) + c - 1 < fileLen /\ c \in 1..Size[Log[i]]
          BY <1>1, <4>2, <4>3
        <5> QED
          BY <4>1, <5>1 DEF IInv, Layout
      <4> QED
        BY <1>1, <1>6, <4>2, <4>3, <4>4, SMTT(60)
    <3> QED
      BY <3>1, <3>2
  <2>2. ASSUME NEW i \in 1..Len(Log') PROVE EndOf(Log', i - 1) < fileLen'
    <3>1. i - 1 \in 0..Len(Log) /\ Len(Log) \in (i - 1)..Len(Log)
      BY <1>2, <1>3
    <3>2. EndOf(Log', i - 1) <= Total /\ EndOf(Log', i - 1) \in Nat
      BY <1>2, <1>4, <3>1, EndOfMonotone, EndOfSteps DEF Total
    <3> QED
      BY <1>1, <3>2 DEF ZeroNextEntry
  <2>3. \A o \in fileLen'..(FileSize - 1) : file'[o] = Zero
    BY <1>1, <1>6, FileSizePositive, SMTT(60) DEF IInv, ZeroNextEntry, Layout
  <2> QED
    BY <2>1, <2>2, <2>3 DEF Layout
<1>10. WritePoint'
  BY <1>5 DEF ZeroNextEntry, WritePoint
<1>11. Terminated'
  <2>0. ~begun'
    BY DEF ZeroNextEntry
  <2>1. writeAt \in 0..(FileSize - 1) /\ writeAt \in writeAt..(writeAt + MaxHeaderSize - 1)
    BY <1>1, FileSizePositive
  <2>2. file'[writeAt] = Zero
    BY <1>6, <2>1
  <2> QED
    BY <1>5, <2>0, <2>2 DEF Terminated, StopsAt
<1> QED
  BY <1>7, <1>8, <1>9, <1>10, <1>11 DEF IInv

(* truncate: the entries in front of the new end stay, and the replay stops *)
(* behind them.                                                             *)
LEMMA TruncateStep ==
  ASSUME IInv, NEW end \in 0..fileLen, Truncate(end)
  PROVE  IInv'
<1>0. /\ end \in Nat /\ fileLen \in 0..FileSize /\ end <= fileLen /\ pc = "idle" /\ copied = {}
      /\ pc' = "idle" /\ done' = TRUE /\ done' \in BOOLEAN
  BY FileSizePositive DEF IInv, TypeInv, Mapping, Truncate
<1>1. CASE fileLen = end
  <2>1. UNCHANGED <<file, fileLen, size, acked, exists, mapLen, writeAt, entry, copied, begun, torn>>
    BY <1>1 DEF Truncate
  <2>2. Layout' /\ Total' = Total /\ (StopsAt(Total) => StopsAt(Total)')
    BY <2>1, LayoutKept DEF IInv
  <2>3. TypeInv' /\ Mapping'
    BY <1>0, <2>1 DEF IInv, TypeInv, Mapping
  <2>4. WritePoint' /\ Terminated'
    BY <1>0, <2>1, <2>2 DEF IInv, WritePoint, Terminated
  <2> QED
    BY <2>2, <2>3, <2>4 DEF IInv
<1>2. CASE fileLen # end
  <2>1. /\ file' = Cut(end) /\ fileLen' = end /\ size' = end /\ acked' = Kept(end)
        /\ UNCHANGED <<exists, mapLen, writeAt, entry, copied, begun, torn>>
    BY <1>2 DEF Truncate
  <2>2. \A o \in 0..(FileSize - 1) : file'[o] = IF o < end THEN file[o] ELSE Zero
    BY <2>1 DEF IInv, TypeInv, Cut
  <2>0. PICK n \in 0..Len(acked) : /\ acked' = SubSeq(acked, 1, n)
                                   /\ \A i \in 1..n : EndOf(acked, i - 1) < end
                                   /\ n < Len(acked) => EndOf(acked, n) >= end
    BY <1>0, <2>1, KeptPrefix DEF IInv
  <2>3. PICK k \in 0..Len(Log) : /\ Log' = SubSeq(Log, 1, k)
                                 /\ \A i \in 1..k : EndOf(Log, i - 1) < end
                                 /\ k < Len(Log) => EndOf(Log, k) >= end
    <3>1. CASE begun
      <4>1. Log = <<>> /\ Log' = <<>> /\ Len(<<>>) = 0 /\ SubSeq(<<>>, 1, 0) = <<>>
        BY <2>1, <3>1 DEF Log
      <4> QED
        BY <4>1
    <3>2. CASE ~begun
      <4>1. Log = acked /\ Log' = acked'
        BY <2>1, <3>2 DEF Log
      <4> QED
        BY <2>0, <4>1
    <3> QED
      BY <3>1, <3>2
  <2>4. Log \in Seq(Entries) /\ Len(Log) \in Nat
    BY LogTyped DEF IInv
  <2>5. /\ Log' \in Seq(Entries) /\ Len(Log') = k
        /\ \A i \in 1..k : Log'[i] = Log[i]
    BY <2>3, <2>4
  <2>6. \A i \in 0..k : EndOf(Log', i) = EndOf(Log, i)
    <3>1. k \in 0..Len(Log') /\ k <= Len(Log)
      BY <2>4, <2>5
    <3> QED
      BY <2>4, <2>5, <3>1, EndOfPrefix
  <2>7. Total' = EndOf(Log, k) /\ EndOf(Log, k) \in Nat
    BY <2>4, <2>5, <2>6, EndOfSteps DEF Total
  <2>8. TypeInv' /\ Mapping'
    <3>1. file' \in [0..(FileSize - 1) -> {Zero} \cup Cells]
      BY <2>1 DEF IInv, TypeInv, Cut
    <3>2. end \in 0..FileSize
      BY <1>0, FileSizePositive
    <3>3. acked' \in Seq(Entries)
      <4>1. acked \in Seq(Entries) /\ Len(acked) \in Nat
        BY DEF IInv, TypeInv
      <4> QED
        BY <2>0, <4>1
    <3>4. TypeInv'
      BY <1>0, <2>1, <3>1, <3>2, <3>3 DEF IInv, TypeInv
    <3>5. mapLen \in Nat /\ (~exists => end = 0)
      BY <1>0 DEF IInv, TypeInv, Mapping
    <3>6. Mapping'
      BY <1>0, <2>1, <3>5 DEF IInv, TypeInv, Mapping
    <3> QED
      BY <3>4, <3>6
  <2>9. Layout'
    <3>0. \A i \in 1..Len(Log') : /\ i \in 1..Len(Log) /\ EndOf(Log', i - 1) = EndOf(Log, i - 1)
                                  /\ Log'[i] = Log[i] /\ EndOf(Log, i - 1) < end
      BY <2>3, <2>4, <2>5, <2>6
    <3>1. ASSUME NEW i \in 1..Len(Log'), NEW c \in 1..Size[Log'[i]],
                 EndOf(Log', i - 1) + c - 1 < fileLen'
          PROVE  file'[EndOf(Log', i - 1) + c - 1] = Cell(Log'[i], c)
      <4>1. EndOf(Log, i - 1) \in Nat /\ Size[Log[i]] \in Nat /\ i \in 1..Len(Log)
        BY <3>0, WhereEntriesLie DEF IInv
      <4>2. c \in 1..Size[Log[i]] /\ EndOf(Log, i - 1) + c - 1 < end
        BY <2>1, <3>0, <3>1
      <4>3. /\ EndOf(Log, i - 1) + c - 1 \in 0..(FileSize - 1)
            /\ EndOf(Log, i - 1) + c - 1 < fileLen
        BY <1>0, <4>1, <4>2, FileSizePositive, SMTT(60)
      <4>4. file[EndOf(Log, i - 1) + c - 1] = Cell(Log[i], c)
        BY <4>1, <4>2, <4>3 DEF IInv, Layout
      <4>5. file'[EndOf(Log, i - 1) + c - 1] = Cell(Log[i], c)
        BY <2>2, <4>2, <4>3, <4>4
      <4> QED
        BY <3>0, <4>5
    <3>2. \A i \in 1..Len(Log') : EndOf(Log', i - 1) < fileLen'
      BY <2>1, <3>0
    <3>3. \A o \in fileLen'..(FileSize - 1) : file'[o] = Zero
      BY <1>0, <2>1, <2>2, FileSizePositive
    <3> QED
      BY <3>1, <3>2, <3>3 DEF Layout
  <2>10. WritePoint'
    BY <1>0 DEF WritePoint
  <2>11. Terminated'
    <3>1. SUFFICES ASSUME ~torn PROVE ~begun' /\ StopsAt(Total)'
      BY <2>1 DEF Terminated
    <3>2. ~begun /\ StopsAt(Total)
      BY <1>0, <3>1 DEF IInv, Terminated
    <3>3. CASE EndOf(Log, k) >= end
      BY <2>1, <2>7, <3>2, <3>3 DEF StopsAt
    <3>4. CASE ~(EndOf(Log, k) >= end)
      <4>1. k = Len(Log)
        BY <2>3, <2>4, <3>4
      <4>2. Total = EndOf(Log, k) /\ Total \in 0..(FileSize - 1) /\ Total < end /\ ~(Total >= fileLen)
        BY <1>0, <2>7, <3>4, <4>1, FileSizePositive DEF Total
      <4>3. file'[Total] = Zero
        BY <2>2, <3>2, <4>2 DEF StopsAt
      <4> QED
        BY <2>1, <2>7, <3>2, <4>2, <4>3 DEF StopsAt
    <3> QED
      BY <3>3, <3>4
  <2> QED
    BY <2>8, <2>9, <2>10, <2>11 DEF IInv
<1> QED
  BY <1>1, <1>2

(* The invariant holds in every state of every behaviour.                   *)
THEOREM Invariance == Spec => []IInv
<1>1. IInv /\ UNCHANGED vars => IInv'
  <2> SUFFICES ASSUME IInv, UNCHANGED vars PROVE IInv'
    OBVIOUS
  <2>1. Layout' /\ Total' = Total /\ (StopsAt(Total) => StopsAt(Total)')
    BY LayoutKept DEF IInv, vars
  <2> QED
    BY <2>1 DEF vars, IInv, TypeInv, Mapping, WritePoint, Terminated
<1>2. IInv /\ [Next]_vars => IInv'
  BY <1>1, CreateStep, OpenStopStep, WriteEntryStep, CopyStep, ZeroStep, TruncateStep DEF Next
<1> QED
  BY InitIInv, <1>2, PTL DEF Spec

-----------------------------------------------------------------------------
(* Wal.size is the real length of the file as long as it is mapped, and     *)
(* nothing is written behind the mapping.                                   *)
THEOREM TypeCorrect == Spec => []TypeOK
<1>1. IInv => TypeOK
  <2> SUFFICES ASSUME IInv PROVE TypeOK
    OBVIOUS
  <2>1. copied \subseteq 1..FileSize
    <3>1. CASE pc = "copy"
      <4>1. /\ copied \subseteq 1..Size[entry] /\ Size[entry] \in Nat
            /\ writeAt \in Nat /\ writeAt + Size[entry] <= mapLen /\ mapLen \in 0..FileSize
        BY <3>1, SizeAssumption DEF IInv, Mapping, TypeInv
      <4> QED
        BY <4>1, FileSizePositive
    <3>2. CASE pc # "copy"
      BY <3>2 DEF IInv, Mapping
    <3> QED
      BY <3>1, <3>2
  <2> QED
    BY <2>1 DEF IInv, TypeInv, Mapping, TypeOK, Cells
<1> QED
  BY Invariance, <1>1, PTL

(* What comes back is what can come back of acked, and what a write that was *)
(* cut off left behind it.                                                  *)
LEMMA ReplayBegins ==
  ASSUME IInv, pc = "idle", ~begun
  PROVE  /\ Returned \in Seq(Readable)
         /\ \E tail \in Seq(Readable) : Replay = Returned \o tail /\ (~torn => tail = <<>>)
<1>1. size = fileLen /\ size \in Nat /\ TypeInv /\ Layout /\ (~torn => StopsAt(Total))
  BY DEF IInv, Mapping, Terminated, TypeInv
<1>2. PICK g : IsReplay(g)
  BY <1>1, ReplaySteps
<1>3. Log = acked /\ acked \in Seq(Entries) /\ Len(acked) \in Nat /\ acked \in Seq(Readable)
  BY SeqMonotonic DEF Log, IInv, TypeInv, Readable
<1>4. g \in [0..size -> Seq(Readable)] /\ \A o \in 0..size : g[o] = Rest(g, o)
  BY <1>2 DEF IsReplay
<1>5. \A i \in 0..Len(acked) : EndOf(acked, i) \in Nat
  BY <1>3, EndOfSteps
<1>6. CASE Stops = {}
  <2>1. Returned = acked
    BY <1>6 DEF Returned
  <2>2. \A i \in 1..Len(Log) : Log[i] \notin EmptyKey \cup LongKey /\ EndOf(Log, i) <= fileLen
    <3>1. \A i \in 1..Len(acked) : i \notin Stops /\ EndOf(acked, i) \in Nat /\ fileLen \in Nat
      BY <1>1, <1>3, <1>5, <1>6
    <3> QED
      BY <1>3, <3>1 DEF Stops
  <2>3. Replay = SubSeq(Log, 1, Len(Log)) \o g[Total]
    <3>1. Len(Log) \in 0..Len(Log)
      BY <1>3
    <3> QED
      BY <1>1, <1>2, <2>2, <3>1, ReplayPrefix DEF Total
  <2>4. SubSeq(Log, 1, Len(Log)) = acked
    BY <1>3, SubSeqFull
  <2>5. Total \in 0..size
    <3>1. Len(Log) = 0 => Total = 0
      BY <1>3, EndOfSteps DEF Total
    <3>2. Len(Log) # 0 => Len(Log) \in 1..Len(Log) /\ Total \in Nat /\ Total <= size
      BY <1>1, <1>3, <1>5, <2>2 DEF Total
    <3> QED
      BY <1>1, <3>1, <3>2
  <2>6. ~torn => g[Total] = <<>>
    <3>1. ~torn => Total = size \/ file[Total] = Zero
      BY <1>1, <2>5 DEF StopsAt
    <3> QED
      BY <1>4, <2>5, <3>1 DEF Rest
  <2>7. Replay = Returned \o g[Total] /\ g[Total] \in Seq(Readable)
    BY <1>4, <2>1, <2>3, <2>4, <2>5
  <2> QED
    BY <1>3, <2>1, <2>6, <2>7
<1>7. CASE Stops # {}
  <2>1. Stops \in SUBSET Nat
    BY <1>3 DEF Stops
  <2>2. \E m \in Stops : \A j \in Stops : m <= j
    BY <1>7, <2>1, NatMin
  <2> DEFINE n == CHOOSE i \in Stops : \A j \in Stops : i <= j
             end == IF acked[n] \in LongKey THEN <<LogRead>> ELSE <<>>
             o == EndOf(acked, n - 1)
  <2>3. n \in Stops /\ \A j \in Stops : n <= j
    BY <2>2
  <2>4. Returned = SubSeq(acked, 1, n - 1) \o end
    BY <1>7, Zenon DEF Returned
  <2> HIDE DEF n
  <2>5. /\ n \in 1..Len(acked) /\ n - 1 \in 0..Len(acked) /\ acked[n] \in Entries
        /\ acked[n] \in EmptyKey \cup LongKey \/ EndOf(acked, n) > fileLen
    BY <1>3, <2>3 DEF Stops
  <2>6. \A i \in 1..(n - 1) : Log[i] \notin EmptyKey \cup LongKey /\ EndOf(Log, i) <= fileLen
    <3>1. \A i \in 1..(n - 1) : i \in 1..Len(acked) /\ i \notin Stops /\ EndOf(acked, i) \in Nat
      BY <1>3, <1>5, <2>3, <2>5
    <3> QED
      BY <1>1, <1>3, <3>1 DEF Stops
  <2>7. Replay = SubSeq(acked, 1, n - 1) \o g[o]
    BY <1>1, <1>2, <1>3, <2>5, <2>6, ReplayPrefix
  <2>8. /\ o \in Nat /\ o < size /\ Size[acked[n]] \in Nat \ {0}
        /\ EndOf(acked, n) = o + Size[acked[n]]
    BY <1>1, <1>3, <2>5, WhereEntriesLie DEF Layout
  <2>9. file[o] = Cell(acked[n], 1)
    <3>1. 1 \in 1..Size[acked[n]] /\ o + 1 - 1 = o /\ o < fileLen
      BY <1>1, <2>8
    <3> HIDE DEF o
    <3>2. o + 1 - 1 < fileLen => file[o + 1 - 1] = Cell(acked[n], 1)
      BY <1>1, <1>3, <2>5, <3>1 DEF Layout, o
    <3> QED
      BY <3>1, <3>2
  <2> HIDE DEF o
  <2>10. Cell(acked[n], 1).entry = acked[n] /\ Cell(acked[n], 1).at = 1 /\ Cell(acked[n], 1) # Zero
    BY <2>5, ZeroAssumption DEF Cell
  <2>11. acked[n] \notin LongKey => Ends(o)
    BY <1>1, <2>5, <2>8, <2>9, <2>10 DEF Ends
  <2>12. TooLong(o) <=> acked[n] \in LongKey
    BY <2>9, <2>10 DEF TooLong
  <2>13. g[o] = end
    <3>1. o \in 0..size /\ o # size /\ g[o] = Rest(g, o)
      BY <1>1, <1>4, <2>8
    <3> QED
      BY <2>9, <2>10, <2>11, <2>12, <3>1 DEF Rest
  <2>14. SubSeq(acked, 1, n - 1) \in Seq(Readable) /\ end \in Seq(Readable)
    <3>1. <<LogRead>> \in Seq(Readable) /\ <<>> \in Seq(Readable)
      BY DEF Readable
    <3>2. SubSeq(acked, 1, n - 1) \in Seq(Readable)
      BY <1>3, <2>5
    <3> QED
      BY <3>1, <3>2
  <2> HIDE DEF end
  <2>15. Returned \in Seq(Readable)
    <3>1. \A s, t \in Seq(Readable) : s \o t \in Seq(Readable)
      OBVIOUS
    <3> QED
      BY <2>4, <2>14, <3>1, Zenon
  <2>16. Replay = Returned \o <<>>
    <3>1. \A s \in Seq(Readable) : s \o <<>> = s
      BY ConcatEmptySeq
    <3> QED
      BY <2>4, <2>7, <2>13, <2>15, <3>1, Zenon
  <2>17. <<>> \in Seq(Readable)
    OBVIOUS
  <2> QED
    BY <2>15, <2>16, <2>17, Zenon
<1> QED
  BY <1>6, <1>7

(* After a restart, a truncation or the end of a write the iterator returns *)
(* exactly the entries write_entry returned for, up to the first that it    *)
(* cannot read back (an empty key, a key that is too long, an entry cut in  *)
(* two), unless the last write was cut off.                                 *)
THEOREM ReplayReturnsWhatWasWritten == Spec => []ReplayExact
<1>1. IInv => ReplayExact
  <2> SUFFICES ASSUME IInv, pc = "idle", ~torn PROVE Replay = Returned
    BY DEF ReplayExact
  <2>1. ~begun
    BY DEF IInv, Terminated
  <2>2. Returned \in Seq(Readable) /\ Replay = Returned \o <<>>
    BY <2>1, ReplayBegins
  <2>3. \A s \in Seq(Readable) : s \o <<>> = s
    BY ConcatEmptySeq
  <2> QED
    BY <2>2, <2>3, Zenon
<1> QED
  BY Invariance, <1>1, PTL

(* Wherever a write was cut off, what can come back of the entries that     *)
(* write_entry had returned for comes first when the log is read again.     *)
(* Not so when it was the first write to a file that was opened again:      *)
(* AckedSurvive leaves out the states in which such a write has not         *)
(* returned.                                                                *)
THEOREM AcknowledgedEntriesSurvive == Spec => []AckedSurvive
<1>1. IInv => AckedSurvive
  <2> SUFFICES ASSUME IInv, pc = "idle", ~begun
               PROVE  Len(Returned) <= Len(Replay) /\ SubSeq(Replay, 1, Len(Returned)) = Returned
    BY DEF AckedSurvive
  <2>1. Returned \in Seq(Readable)
    BY ReplayBegins
  <2>2. PICK tail \in Seq(Readable) : Replay = Returned \o tail
    BY ReplayBegins
  <2>3. \A s, t \in Seq(Readable) : Len(s) <= Len(s \o t) /\ SubSeq(s \o t, 1, Len(s)) = s
    <3> SUFFICES ASSUME NEW s \in Seq(Readable), NEW t \in Seq(Readable)
                 PROVE  Len(s) <= Len(s \o t) /\ SubSeq(s \o t, 1, Len(s)) = s
      OBVIOUS
    <3>1. /\ Len(s) \in Nat /\ Len(t) \in Nat /\ Len(s \o t) = Len(s) + Len(t)
          /\ \A i \in 1..Len(s) : (s \o t)[i] = s[i]
      OBVIOUS
    <3>2. SubSeq(s \o t, 1, Len(s)) = s
      BY <3>1
    <3> QED
      BY <3>1, <3>2
  <2> QED
    BY <2>1, <2>2, <2>3, Zenon
<1> QED
  BY Invariance, <1>1, PTL

(* write_entry panics only past the flush threshold, for an entry that      *)
(* leaves no room for the next header, or in a file that was cut short.     *)
THEOREM RoomForEntries == Spec => []RoomUntilFlush
<1>1. IInv => RoomUntilFlush
  <2> SUFFICES ASSUME IInv PROVE RoomUntilFlush
    OBVIOUS
  <2>1. mapLen \in 0..FileSize /\ writeAt \in Nat
    BY DEF IInv, TypeInv
  <2>2. CASE pc = "copy_panic"
    <3>1. writeAt + Size[entry] > mapLen /\ Size[entry] \in Nat
      BY <2>2, SizeAssumption DEF IInv, Mapping
    <3> QED
      BY <2>1, <2>2, <3>1, SizeAssumption DEF RoomUntilFlush, ShouldFlush, FileSize
  <2>3. CASE pc = "zero_panic"
    <3>1. writeAt + MaxHeaderSize > mapLen /\ Size[entry] \in Nat
      BY <2>3, SizeAssumption DEF IInv, Mapping
    <3> QED
      BY <2>1, <2>3, <3>1, SizeAssumption DEF RoomUntilFlush, ShouldFlush, FileSize
  <2> QED
    BY <2>2, <2>3 DEF RoomUntilFlush
<1> QED
  BY Invariance, <1>1, PTL

(* A pointer to an entry that is there in full and was not overwritten      *)
(* reads that entry, and no pointer makes read touch the mapping behind the *)
(* end of the file.                                                         *)
THEOREM PointersStayGood == Spec => []PointersReadBack
<1>1. IInv => PointersReadBack
  <2> SUFFICES ASSUME IInv, pc = "idle"
               PROVE  /\ \A i \in 1..Len(acked) : ~begun /\ EndOf(acked, i) <= fileLen =>
                            Read(EndOf(acked, i - 1), Size[acked[i]]) =
                              [c \in 1..Size[acked[i]] |-> Cell(acked[i], c)]
                      /\ \A o, n \in 0..FileSize : Read(o, n) # Eof => o + n <= fileLen
    BY DEF PointersReadBack
  <2>1. /\ size = fileLen /\ size <= mapLen /\ size \in Nat /\ mapLen \in Nat
        /\ TypeInv /\ Layout
    BY FileSizePositive DEF IInv, Mapping, TypeInv
  <2>2. ASSUME NEW i \in 1..Len(acked), ~begun, EndOf(acked, i) <= fileLen
        PROVE  Read(EndOf(acked, i - 1), Size[acked[i]]) =
                 [c \in 1..Size[acked[i]] |-> Cell(acked[i], c)]
    <3> DEFINE o == EndOf(acked, i - 1)
               n == Size[acked[i]]
    <3>0. Log = acked
      BY <2>2 DEF Log
    <3>1. o \in Nat /\ n \in Nat \ {0} /\ o + n <= size
      BY <2>1, <2>2, <3>0, WhereEntriesLie
    <3>2. \A c \in 1..n : o + c - 1 < fileLen => file[o + c - 1] = Cell(acked[i], c)
      BY <2>1, <3>0 DEF Layout
    <3> HIDE DEF o, n
    <3>3. ~(o >= mapLen \/ o + n > mapLen \/ o + n > size)
      BY <2>1, <3>1
    <3>4. Read(o, n) = [c \in 1..n |-> file[o + c - 1]]
      BY <3>3 DEF Read
    <3>5. \A c \in 1..n : file[o + c - 1] = Cell(acked[i], c)
      BY <2>1, <3>1, <3>2
    <3>6. Read(o, n) = [c \in 1..n |-> Cell(acked[i], c)]
      BY <3>4, <3>5
    <3> QED
      BY <3>6 DEF o, n
  <2>3. ASSUME NEW o \in 0..FileSize, NEW n \in 0..FileSize, Read(o, n) # Eof
        PROVE  o + n <= fileLen
    BY <2>1, <2>3, FileSizePositive DEF Read
  <2> QED
    BY <2>2, <2>3
<1> QED
  BY Invariance, <1>1, PTL
=============================================================================
