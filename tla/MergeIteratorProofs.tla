------------------------ MODULE MergeIteratorProofs ------------------------
(* Proofs about the merge of two iterators, for any keys in its children.    *)
EXTENDS MergeIterator, FiniteSetTheorems, WellFoundedInduction, TLAPS

-----------------------------------------------------------------------------
(* A nonempty set of naturals has a least member.                           *)
LEMMA NatMin ==
  ASSUME NEW T \in SUBSET Nat, T # {}
  PROVE  \E q \in T : \A n \in T : q <= n
<1> DEFINE R == {p \in Nat \X Nat : p[1] < p[2]}
<1>1. IsWellFoundedOn(R, Nat)
  BY NatLessThanWellFounded DEF OpToRel
<1> HIDE DEF R
<1>2. PICK q \in T : \A n \in T : <<n, q>> \notin R
  BY <1>1, WFMin
<1>3. \A n \in T : n < q => <<n, q>> \in R
  BY DEF R
<1>4. q \in Nat /\ \A n \in T : n \in Nat
  OBVIOUS
<1>5. \A n \in T : ~(n < q)
  BY <1>2, <1>3
<1> QED
  BY <1>4, <1>5

(* A finite nonempty set of naturals has a greatest member.                 *)
LEMMA FiniteMax ==
  ASSUME NEW S \in SUBSET Nat, IsFiniteSet(S), S # {}
  PROVE  \E q \in S : \A n \in S : n <= q
<1> DEFINE Topped(U) == \E q \in U : \A n \in U : n <= q
           Bad == {U \in SUBSET Nat : IsFiniteSet(U) /\ U # {} /\ ~Topped(U)}
           T == {Cardinality(U) : U \in Bad}
<1>1. ASSUME Bad # {} PROVE FALSE
  <2>1. T \in SUBSET Nat /\ T # {}
    BY <1>1, FS_CardinalityType
  <2>2. PICK c \in T : \A d \in T : c <= d
    BY <2>1, NatMin
  <2>3. PICK U \in Bad : c = Cardinality(U)
    OBVIOUS
  <2>4. PICK x \in U : x \in Nat
    OBVIOUS
  <2> DEFINE V == U \ {x}
  <2>5. IsFiniteSet(V) /\ Cardinality(V) = Cardinality(U) - 1 /\ Cardinality(U) \in Nat
    BY <2>4, FS_RemoveElement, FS_CardinalityType
  <2>6. V \notin Bad
    <3>1. V \in Bad => c <= Cardinality(V)
      BY <2>2
    <3> QED
      BY <2>3, <2>5, <3>1
  <2>7. CASE V = {}
    <3>1. \A n \in U : n <= x
      BY <2>4, <2>7
    <3> QED
      BY <2>4, <3>1
  <2>8. CASE V # {}
    <3>1. PICK q \in V : \A n \in V : n <= q
      BY <2>5, <2>6, <2>8
    <3>2. q \in U /\ q \in Nat /\ \A n \in U : n = x \/ n <= q
      BY <3>1
    <3>3. CASE x <= q
      BY <3>2, <3>3
    <3>4. CASE ~(x <= q)
      <4>1. \A n \in U : n \in Nat
        OBVIOUS
      <4>2. \A n \in U : n <= x
        BY <2>4, <3>2, <3>4, <4>1
      <4> QED
        BY <4>2
    <3> QED
      BY <3>3, <3>4
  <2> QED
    BY <2>7, <2>8
<1> QED
  BY <1>1

-----------------------------------------------------------------------------
(* The order in which the merge goes through the keys.                       *)
Before(a, b) == IF rev THEN b < a ELSE a < b

LEMMA Order ==
  ASSUME NEW a \in Nat, NEW b \in Nat, NEW c \in Nat
  PROVE  /\ ~Before(a, a)
         /\ Before(a, b) => ~Before(b, a)
         /\ Before(a, b) /\ Before(b, c) => Before(a, c)
         /\ a = b \/ Before(a, b) \/ Before(b, a)
BY DEF Before

(* k is the first key of S on the way.                                       *)
IsLead(k, S) == k \in S /\ \A n \in S : ~Before(n, k)

(* Lead finds the first key of any keys the children may hold.               *)
LEMMA LeadIs ==
  ASSUME NEW S \in SUBSET Universe
  PROVE  /\ S = {} => Lead(S) = NoKey
         /\ S # {} => IsLead(Lead(S), S) /\ Lead(S) # NoKey
<1>1. S = {} => Lead(S) = NoKey
  BY DEF Lead
<1>2. ASSUME S # {} PROVE IsLead(Lead(S), S) /\ Lead(S) # NoKey
  <2> DEFINE First(k) == \A n \in S : IF rev THEN n <= k ELSE k <= n
  <2>1. S \in SUBSET Nat /\ 0 \notin S /\ IsFiniteSet(S)
    BY UniverseAssumption, FS_Subset
  <2>2. \E k \in S : First(k)
    <3>1. \E k \in S : \A n \in S : k <= n
      BY <1>2, <2>1, NatMin
    <3>2. \E k \in S : \A n \in S : n <= k
      BY <1>2, <2>1, FiniteMax
    <3> QED
      BY <3>1, <3>2
  <2>3. Lead(S) = CHOOSE k \in S : First(k)
    BY <1>2 DEF Lead
  <2> HIDE DEF First
  <2>4. Lead(S) \in S /\ First(Lead(S))
    BY <2>2, <2>3
  <2>5. PICK k : k = Lead(S)
    OBVIOUS
  <2>6. k \in Nat /\ k # 0 /\ \A n \in S : n \in Nat
    BY <2>1, <2>4, <2>5
  <2>7. \A n \in S : ~Before(n, k)
    BY <2>4, <2>5, <2>6 DEF First, Before
  <2> QED
    BY <2>4, <2>5, <2>6, <2>7 DEF IsLead, NoKey
<1> QED
  BY <1>1, <1>2

(* There is one first key.                                                   *)
LEMMA LeadUnique ==
  ASSUME NEW S \in SUBSET Nat, NEW a \in S, NEW b \in S, IsLead(a, S), IsLead(b, S)
  PROVE  a = b
BY Order DEF IsLead

(* What the children look at when they seek and move on.                     *)
Later(S, k) == {n \in S : Before(k, n)}
From(S, k)  == {n \in S : ~Before(n, k)}

LEMMA ChildMoves ==
  ASSUME NEW S \in SUBSET Universe, NEW k \in Nat
  PROVE  ChildNext(S, k) = Lead(Later(S, k)) /\ ChildSeek(S, k) = Lead(From(S, k))
<1>1. Later(S, k) = {n \in S : IF rev THEN n < k ELSE k < n}
  BY DEF Later, Before
<1>2. From(S, k) = {n \in S : IF rev THEN n <= k ELSE k <= n}
  <2>1. \A n \in S : n \in Nat
    BY UniverseAssumption
  <2> QED
    BY <2>1 DEF From, Before
<1> QED
  BY <1>1, <1>2 DEF ChildNext, ChildSeek

-----------------------------------------------------------------------------
(* A node of a child with keys S, and one that stands on the first key of T. *)
Nodes(S) == [valid : BOOLEAN, key : S \cup {NoKey}, place : S \cup {NoKey}, failed : BOOLEAN]

Stands(n, T) ==
  /\ n.valid => ~n.failed /\ IsLead(n.key, T) /\ n.place = n.key
  /\ ~n.valid => n.failed \/ T = {}

LEMMA KeyIsNat ==
  ASSUME NEW S \in SUBSET Universe, NEW node \in Nodes(S)
  PROVE  node.key \in Nat
<1>1. node.key \in S \cup {0}
  BY DEF Nodes, NoKey
<1>2. \A k \in S \cup {0} : k \in Nat
  BY UniverseAssumption
<1> QED
  BY <1>1, <1>2

LEMMA MoveStands ==
  ASSUME NEW S \in SUBSET Universe, NEW T \in SUBSET S, NEW node \in Nodes(S), NEW f
  PROVE  /\ MoveTo(node, Lead(T), f) \in Nodes(S)
         /\ Stands(MoveTo(node, Lead(T), f), T)
<1>1. T = {} => Lead(T) = NoKey
  BY LeadIs
<1>2. T # {} => IsLead(Lead(T), T) /\ Lead(T) # NoKey /\ Lead(T) \in S
  BY LeadIs DEF IsLead
<1>3. PICK k, r : k = Lead(T) /\ r = MoveTo(node, k, f)
  OBVIOUS
<1>4. node.key \in S \cup {NoKey}
  BY DEF Nodes
<1>5. CASE f
  <2> DEFINE old == [valid |-> FALSE, key |-> node.key, place |-> NoKey, failed |-> FALSE]
  <2>0. SetKey(node, NoKey) = old
    BY Zenon DEF SetKey
  <2>1. r = [old EXCEPT !.failed = TRUE]
    BY <1>3, <1>5, <2>0, Zenon DEF MoveTo
  <2>2. r \in Nodes(S)
    BY <1>4, <2>1 DEF Nodes
  <2>3. ~r.valid /\ r.failed
    BY <2>1
  <2> QED
    BY <1>3, <2>2, <2>3 DEF Stands
<1>6. CASE ~f /\ T = {}
  <2>1. r = [valid |-> FALSE, key |-> node.key, place |-> NoKey, failed |-> FALSE]
    BY <1>1, <1>3, <1>6, Zenon DEF MoveTo, SetKey
  <2>2. r \in Nodes(S)
    BY <1>4, <2>1 DEF Nodes
  <2>3. ~r.valid
    BY <2>1
  <2> QED
    BY <1>3, <1>6, <2>2, <2>3 DEF Stands
<1>7. CASE ~f /\ T # {}
  <2>1. r = [valid |-> TRUE, key |-> k, place |-> k, failed |-> FALSE]
    BY <1>2, <1>3, <1>7, Zenon DEF MoveTo, SetKey
  <2>2. r \in Nodes(S)
    BY <1>2, <1>3, <1>7, <2>1 DEF Nodes
  <2>3. r.valid /\ ~r.failed /\ r.key = k /\ r.place = k
    BY <2>1
  <2> QED
    BY <1>2, <1>3, <1>7, <2>2, <2>3 DEF Stands
<1> QED
  BY <1>5, <1>6, <1>7
-----------------------------------------------------------------------------
(* The merge between two steps of an operation.                              *)
Merges == [left : Nodes(lkeys), right : Nodes(rkeys), leftSmall : BOOLEAN,
           current : Universe \cup {NoKey}, bad : BOOLEAN, fails : SUBSET {"left", "right"}]

KeysOK == lkeys \in SUBSET Universe /\ rkeys \in SUBSET Universe /\ rev \in BOOLEAN

(* The right child moves on from a key it stands on.                         *)
LEMMA RightMoves ==
  ASSUME KeysOK, NEW i \in Merges, i.right.valid, i.right.place = i.right.key, ~i.bad,
         NEW j, j = RightNext(i)
  PROVE  /\ j \in Merges /\ ~j.bad /\ j.left = i.left /\ j.leftSmall = i.leftSmall
         /\ j.current = i.current /\ Stands(j.right, Later(rkeys, i.right.key))
<1>1. i.right \in Nodes(rkeys) /\ i.bad \in BOOLEAN /\ i.right.valid \in BOOLEAN
  BY DEF Merges, Nodes
<1>2. (i.bad \/ ~i.right.valid) = FALSE
  BY <1>1
<1>3. PICK n, f : f = ("right" \in i.fails) /\ n = NodeNext(rkeys, i.right, f)
  OBVIOUS
<1>4. n \in Nodes(rkeys) /\ Stands(n, Later(rkeys, i.right.key))
  <2>1. i.right.key \in Nat
    BY <1>1, KeyIsNat DEF KeysOK
  <2>2. n = MoveTo(i.right, Lead(Later(rkeys, i.right.key)), f)
    BY <1>3, <2>1, ChildMoves DEF NodeNext, KeysOK
  <2>3. Later(rkeys, i.right.key) \in SUBSET rkeys
    BY DEF Later
  <2> QED
    BY <1>1, <2>1, <2>2, <2>3, MoveStands DEF KeysOK
<1>5. j = [i EXCEPT !.right = n, !.bad = FALSE]
  BY <1>2, <1>3, Zenon DEF RightNext
<1>6. j \in Merges /\ j.right = n /\ ~j.bad /\ j.left = i.left /\ j.leftSmall = i.leftSmall
      /\ j.current = i.current
  BY <1>4, <1>5 DEF Merges
<1> QED
  BY <1>4, <1>6

(* The left child moves on from a key it stands on.                          *)
LEMMA LeftMoves ==
  ASSUME KeysOK, NEW i \in Merges, i.left.valid, i.left.place = i.left.key, ~i.bad,
         NEW j, j = LeftNext(i)
  PROVE  /\ j \in Merges /\ ~j.bad /\ j.right = i.right /\ j.leftSmall = i.leftSmall
         /\ j.current = i.current /\ Stands(j.left, Later(lkeys, i.left.key))
<1>1. i.left \in Nodes(lkeys) /\ i.bad \in BOOLEAN /\ i.left.valid \in BOOLEAN
  BY DEF Merges, Nodes
<1>2. (i.bad \/ ~i.left.valid) = FALSE
  BY <1>1
<1>3. PICK n, f : f = ("left" \in i.fails) /\ n = NodeNext(lkeys, i.left, f)
  OBVIOUS
<1>4. n \in Nodes(lkeys) /\ Stands(n, Later(lkeys, i.left.key))
  <2>1. i.left.key \in Nat
    BY <1>1, KeyIsNat DEF KeysOK
  <2>2. n = MoveTo(i.left, Lead(Later(lkeys, i.left.key)), f)
    BY <1>3, <2>1, ChildMoves DEF NodeNext, KeysOK
  <2>3. Later(lkeys, i.left.key) \in SUBSET lkeys
    BY DEF Later
  <2> QED
    BY <1>1, <2>1, <2>2, <2>3, MoveStands DEF KeysOK
<1>5. j = [i EXCEPT !.left = n, !.bad = FALSE]
  BY <1>2, <1>3, Zenon DEF LeftNext
<1>6. j \in Merges /\ j.left = n /\ ~j.bad /\ j.right = i.right /\ j.leftSmall = i.leftSmall
      /\ j.current = i.current
  BY <1>4, <1>5 DEF Merges
<1> QED
  BY <1>4, <1>6

-----------------------------------------------------------------------------
SKeys(i) == IF i.leftSmall THEN lkeys ELSE rkeys
BKeys(i) == IF i.leftSmall THEN rkeys ELSE lkeys

(* Both children stand on their first key in U, or cannot be read.           *)
Ready(i, U) == Stands(i.left, lkeys \cap U) /\ Stands(i.right, rkeys \cap U)

(* The smaller child is on its first key in U, the bigger one behind it, and *)
(* the left one has no such key where the right one is the smaller.          *)
Settled(i, U) ==
  LET s == Smaller(i)
      b == Bigger(i)
  IN  /\ s.valid => /\ Stands(s, SKeys(i) \cap U)
                    /\ Stands(b, Later(BKeys(i), s.key))
                    /\ ~b.failed => \A n \in BKeys(i) \cap U : ~Before(n, s.key)
                    /\ ~i.leftSmall /\ ~i.left.failed => s.key \notin lkeys
      /\ ~s.valid => ~b.valid /\ Ready(i, U)

(* U holds, with a key, all the keys behind it.                              *)
Onward(U) == U \in SUBSET Nat /\ \A n \in U, k \in Universe : Before(n, k) => k \in U

(* In an onward set, the keys behind the first one are those behind it       *)
(* anywhere.                                                                 *)
LEMMA LaterIn ==
  ASSUME NEW S \in SUBSET Universe, NEW U, Onward(U), NEW k \in U, NEW n, Stands(n, S \cap U),
         n.valid => Before(k, n.key)
  PROVE  Stands(n, Later(S, k)) /\ (~n.failed => \A x \in S \cap U : Before(k, x))
<1>0. S \in SUBSET Nat /\ k \in Nat
  BY UniverseAssumption DEF Onward
<1>1. Later(S, k) \subseteq S \cap U
  BY DEF Later, Onward
<1>2. CASE n.valid
  <2>1. n.key \in S /\ n.key \in U /\ n.key \in Nat /\ \A x \in S \cap U : ~Before(x, n.key)
    BY <1>0, <1>2 DEF Stands, IsLead
  <2>2. \A x \in S \cap U : Before(k, x)
    BY <1>0, <1>2, <2>1, Order
  <2>3. Later(S, k) = S \cap U
    BY <1>1, <2>2 DEF Later
  <2> QED
    BY <2>2, <2>3
<1>3. CASE ~n.valid /\ n.failed
  BY <1>3 DEF Stands
<1>4. CASE ~n.valid /\ ~n.failed
  <2>1. S \cap U = {}
    BY <1>4 DEF Stands
  <2>2. Later(S, k) = {}
    BY <1>1, <2>1
  <2> QED
    BY <1>4, <2>1, <2>2 DEF Stands
<1> QED
  BY <1>2, <1>3, <1>4

(* Fix has nothing to do when the smaller child is before the bigger one.    *)
LEMMA InOrder ==
  ASSUME KeysOK, NEW U, Onward(U), NEW i \in Merges, Ready(i, U), Smaller(i).valid,
         Bigger(i).valid => Before(Smaller(i).key, Bigger(i).key)
  PROVE  Settled(i, U)
<1>1. PICK s, b, S, B : s = Smaller(i) /\ b = Bigger(i) /\ S = SKeys(i) /\ B = BKeys(i)
  OBVIOUS
<1>2. Stands(s, S \cap U) /\ Stands(b, B \cap U) /\ B \in SUBSET Universe
  <2>1. CASE i.leftSmall
    BY <1>1, <2>1 DEF Ready, Smaller, Bigger, SKeys, BKeys, KeysOK
  <2>2. CASE ~i.leftSmall
    BY <1>1, <2>2 DEF Ready, Smaller, Bigger, SKeys, BKeys, KeysOK
  <2> QED
    BY <2>1, <2>2
<1>3. s.key \in U
  BY <1>1, <1>2 DEF Stands, IsLead
<1>4. Stands(b, Later(B, s.key)) /\ (~b.failed => \A x \in B \cap U : Before(s.key, x))
  <2>1. b.valid => Before(s.key, b.key)
    BY <1>1
  <2> QED
    BY <1>2, <1>3, <2>1, LaterIn
<1>5. \A x \in U : Before(s.key, x) => ~Before(x, s.key) /\ x # s.key
  BY <1>3, Order DEF Onward
<1>6. ~b.failed => \A x \in B \cap U : ~Before(x, s.key)
  BY <1>4, <1>5
<1>7. ~i.leftSmall /\ ~i.left.failed => s.key \notin lkeys
  <2>1. ~i.leftSmall => b = i.left /\ B = lkeys
    BY <1>1 DEF Bigger, BKeys
  <2> QED
    BY <1>3, <1>4, <1>5, <2>1
<1> QED
  BY <1>1, <1>2, <1>4, <1>6, <1>7 DEF Settled

(* Fix restores the order, whatever moved.                                   *)
LEMMA FixSettles ==
  ASSUME KeysOK, NEW U, Onward(U), NEW i \in Merges, ~i.bad, Ready(i, U), NEW j, j = Fix(i)
  PROVE  j \in Merges /\ ~j.bad /\ j.current = i.current /\ Settled(j, U)
<1>1. PICK s, b : s = Smaller(i) /\ b = Bigger(i)
  OBVIOUS
<1>2. /\ (s = i.left /\ b = i.right /\ i.leftSmall) \/ (s = i.right /\ b = i.left /\ ~i.leftSmall)
      /\ i.left \in Nodes(lkeys) /\ i.right \in Nodes(rkeys)
  BY <1>1 DEF Smaller, Bigger, Merges
<1>3. s.key \in Nat /\ b.key \in Nat
  BY <1>2, KeyIsNat DEF KeysOK
<1>4. PICK w : w = SwapSmall(i)
  OBVIOUS
<1>5. /\ w \in Merges /\ ~w.bad /\ w.current = i.current /\ Ready(w, U)
      /\ Smaller(w) = b /\ Bigger(w) = s
  <2>1. w = [i EXCEPT !.leftSmall = ~i.leftSmall]
    BY <1>4, Zenon DEF SwapSmall
  <2>2. i.leftSmall \in BOOLEAN
    BY DEF Merges
  <2>3. /\ w \in Merges /\ ~w.bad /\ w.current = i.current
        /\ w.left = i.left /\ w.right = i.right /\ (w.leftSmall <=> ~i.leftSmall)
    <3>1. CASE i.leftSmall
      <4>1. w = [i EXCEPT !.leftSmall = FALSE]
        BY <2>1, <2>2, <3>1, Zenon
      <4> QED
        BY <3>1, <4>1 DEF Merges
    <3>2. CASE ~i.leftSmall
      <4>1. w = [i EXCEPT !.leftSmall = TRUE]
        BY <2>1, <2>2, <3>2, Zenon
      <4> QED
        BY <3>2, <4>1 DEF Merges
    <3> QED
      BY <3>1, <3>2
  <2> QED
    BY <1>2, <2>3 DEF Ready, Smaller, Bigger
<1>6. CASE ~b.valid
  <2>1. j = i
    BY <1>1, <1>6 DEF Fix
  <2>2. CASE s.valid
    BY <1>1, <1>6, <2>1, <2>2, InOrder
  <2>3. CASE ~s.valid
    BY <1>1, <1>6, <2>1, <2>3 DEF Settled
  <2> QED
    BY <2>1, <2>2, <2>3
<1>7. CASE b.valid /\ ~s.valid
  <2>1. j = w
    BY <1>1, <1>4, <1>7 DEF Fix
  <2> QED
    BY <1>5, <1>7, <2>1, InOrder
<1>8. CASE b.valid /\ s.valid /\ s.key = b.key
  <2>1. PICK r : r = RightNext(i)
    OBVIOUS
  <2>2. j = [r EXCEPT !.leftSmall = TRUE]
    BY <1>1, <1>8, <2>1 DEF Fix
  <2>3. i.left.valid /\ i.right.valid /\ i.left.key = i.right.key
    BY <1>2, <1>8
  <2>4. /\ ~i.left.failed /\ IsLead(i.left.key, lkeys \cap U)
        /\ IsLead(i.right.key, rkeys \cap U) /\ i.right.place = i.right.key
    BY <2>3 DEF Ready, Stands
  <2>5. /\ r \in Merges /\ ~r.bad /\ r.left = i.left /\ r.current = i.current
        /\ Stands(r.right, Later(rkeys, i.right.key))
    BY <2>1, <2>3, <2>4, RightMoves
  <2>6. /\ j \in Merges /\ ~j.bad /\ j.left = i.left /\ j.right = r.right /\ j.leftSmall
        /\ j.current = i.current
    BY <2>2, <2>5 DEF Merges
  <2>7. Smaller(j) = i.left /\ Bigger(j) = r.right /\ SKeys(j) = lkeys /\ BKeys(j) = rkeys
    BY <2>6 DEF Smaller, Bigger, SKeys, BKeys
  <2>8. \A n \in rkeys \cap U : ~Before(n, i.left.key)
    BY <2>3, <2>4 DEF IsLead
  <2>9. Settled(j, U)
    BY <2>3, <2>5, <2>6, <2>7, <2>8 DEF Settled, Ready
  <2> QED
    BY <2>6, <2>9
<1>9. CASE b.valid /\ s.valid /\ s.key # b.key /\ ((s.key < b.key) <=> rev)
  <2>0. (s.key < b.key) = rev
    BY <1>9 DEF KeysOK
  <2>1. j = w
    BY <1>1, <1>4, <1>9, <2>0, Zenon DEF Fix
  <2>2. Before(b.key, s.key)
    BY <1>3, <1>9 DEF Before
  <2> QED
    BY <1>5, <1>9, <2>1, <2>2, InOrder
<1>10. CASE b.valid /\ s.valid /\ s.key # b.key /\ ~((s.key < b.key) <=> rev)
  <2>1. j = i
    BY <1>1, <1>10, Zenon DEF Fix, KeysOK
  <2>2. Before(s.key, b.key)
    BY <1>3, <1>10 DEF Before
  <2> QED
    BY <1>1, <1>10, <2>1, <2>2, InOrder
<1> QED
  BY <1>6, <1>7, <1>8, <1>9, <1>10

-----------------------------------------------------------------------------
(* The merge between two operations: the bigger child stands on its first    *)
(* key behind the one of the smaller child.                                  *)
Covered(i) ==
  LET s == Smaller(i)
      b == Bigger(i)
  IN  /\ s.valid => /\ ~s.failed /\ s.place = s.key /\ s.key \in SKeys(i)
                    /\ Stands(b, Later(BKeys(i), s.key))
                    /\ ~i.leftSmall /\ ~i.left.failed => s.key \notin lkeys
      /\ ~s.valid => ~b.valid

LEMMA SettledCovers ==
  ASSUME NEW i, NEW U, Settled(i, U)
  PROVE  Covered(i)
BY DEF Settled, Covered, Stands, IsLead

(* The three places from which an operation goes on.                         *)
LEMMA OnwardSets ==
  ASSUME NEW k \in Nat
  PROVE  Onward(Universe) /\ Onward(Later(Universe, k)) /\ Onward(From(Universe, k))
<1>1. Universe \in SUBSET Nat
  BY UniverseAssumption
<1>2. Onward(Universe)
  BY <1>1 DEF Onward
<1>3. Onward(Later(Universe, k))
  BY <1>1, Order DEF Onward, Later
<1>4. Onward(From(Universe, k))
  BY <1>1, Order DEF Onward, From
<1> QED
  BY <1>2, <1>3, <1>4

(* Once the smaller child has moved, both stand behind the key it was on.    *)
LEMMA MovedReady ==
  ASSUME KeysOK, NEW i \in Merges, ~i.bad, Covered(i), Smaller(i).valid, NEW j, j = SmallerNext(i)
  PROVE  /\ j \in Merges /\ ~j.bad /\ j.current = i.current
         /\ Ready(j, Later(Universe, Smaller(i).key)) /\ Onward(Later(Universe, Smaller(i).key))
<1>1. PICK k : k = Smaller(i).key
  OBVIOUS
<1>2. lkeys \cap Later(Universe, k) = Later(lkeys, k) /\ rkeys \cap Later(Universe, k) = Later(rkeys, k)
  BY DEF Later, KeysOK
<1>3. i.left \in Nodes(lkeys) /\ i.right \in Nodes(rkeys)
  BY DEF Merges
<1>4. CASE i.leftSmall
  <2>1. i.left.valid /\ i.left.place = i.left.key /\ k = i.left.key /\ Stands(i.right, Later(rkeys, k))
    BY <1>1, <1>4 DEF Covered, Smaller, Bigger, BKeys
  <2>2. j = LeftNext(i)
    BY <1>4 DEF SmallerNext
  <2>3. /\ j \in Merges /\ ~j.bad /\ j.right = i.right /\ j.current = i.current
        /\ Stands(j.left, Later(lkeys, k))
    BY <2>1, <2>2, LeftMoves
  <2>4. k \in Nat
    BY <1>3, <2>1, KeyIsNat DEF KeysOK
  <2> QED
    BY <1>1, <1>2, <2>1, <2>3, <2>4, OnwardSets DEF Ready
<1>5. CASE ~i.leftSmall
  <2>1. i.right.valid /\ i.right.place = i.right.key /\ k = i.right.key /\ Stands(i.left, Later(lkeys, k))
    BY <1>1, <1>5 DEF Covered, Smaller, Bigger, BKeys
  <2>2. j = RightNext(i)
    BY <1>5 DEF SmallerNext
  <2>3. /\ j \in Merges /\ ~j.bad /\ j.left = i.left /\ j.current = i.current
        /\ Stands(j.right, Later(rkeys, k))
    BY <2>1, <2>2, RightMoves
  <2>4. k \in Nat
    BY <1>3, <2>1, KeyIsNat DEF KeysOK
  <2> QED
    BY <1>1, <1>2, <2>1, <2>3, <2>4, OnwardSets DEF Ready
<1> QED
  BY <1>4, <1>5

(* The loop of next takes one turn: the key the merge was on does not come   *)
(* back.                                                                     *)
LEMMA LoopIsOneTurn ==
  ASSUME KeysOK, NEW i \in Merges, ~i.bad, Covered(i), Smaller(i).valid, Smaller(i).key = i.current
  PROVE  /\ NextLoop(i) \in Merges /\ ~NextLoop(i).bad
         /\ Settled(NextLoop(i), Later(Universe, i.current))
<1>1. PICK j : j = Fix(SmallerNext(i))
  OBVIOUS
<1>2. j \in Merges /\ ~j.bad /\ j.current = i.current /\ Settled(j, Later(Universe, i.current))
  <2>1. PICK h : h = SmallerNext(i)
    OBVIOUS
  <2>2. /\ h \in Merges /\ ~h.bad /\ h.current = i.current
        /\ Ready(h, Later(Universe, i.current)) /\ Onward(Later(Universe, i.current))
    BY <2>1, MovedReady
  <2> QED
    BY <1>1, <2>1, <2>2, FixSettles
<1>3. Turn(i) = j
  BY <1>1 DEF Turn
<1>4. Turn(j) = j
  <2>1. Smaller(j).valid => Smaller(j).key \in Later(Universe, i.current)
    BY <1>2 DEF Settled, Stands, IsLead
  <2>2. i.current \in Nat
    <3>1. i.left \in Nodes(lkeys) /\ i.right \in Nodes(rkeys)
      BY DEF Merges
    <3>2. i.left.key \in Nat /\ i.right.key \in Nat
      BY <3>1, KeyIsNat DEF KeysOK
    <3> QED
      BY <3>2 DEF Smaller
  <2>3. i.current \notin Later(Universe, i.current)
    BY <2>2, Order DEF Later
  <2> QED
    BY <1>2, <2>1, <2>3 DEF Turn
<1>5. Turns \in Nat /\ Turns >= 1
  BY UniverseAssumption, FS_CardinalityType DEF Turns
<1> DEFINE IsLoop(f) == f = [n \in 0..Turns |-> IF n = 0 THEN i ELSE Turn(f[n - 1])]
           after == CHOOSE f : IsLoop(f)
<1>6. IsLoop(after)
  <2> DEFINE h == [n \in 0..Turns |-> IF n = 0 THEN i ELSE j]
  <2>1. \A n \in 0..Turns : n # 0 => Turn(h[n - 1]) = j
    <3> SUFFICES ASSUME NEW n \in 0..Turns, n # 0 PROVE Turn(h[n - 1]) = j
      OBVIOUS
    <3>1. n - 1 \in 0..Turns
      BY <1>5
    <3>2. h[n - 1] = i \/ h[n - 1] = j
      BY <3>1
    <3> QED
      BY <1>3, <1>4, <3>2, Zenon
  <2>2. IsLoop(h)
    BY <2>1
  <2>3. \E f : IsLoop(f)
    BY <2>2, Zenon
  <2> QED
    BY <2>3, Zenon
<1>7. NextLoop(i) = after[Turns]
  BY Zenon DEF NextLoop
<1> HIDE DEF after
<1>8. after[Turns] = j
  <2> DEFINE T == {n \in 1..Turns : after[n] # j}
  <2>1. ASSUME T # {} PROVE FALSE
    <3>1. T \in SUBSET Nat
      BY <1>5
    <3>2. PICK n \in T : \A p \in T : n <= p
      BY <2>1, <3>1, NatMin
    <3>3. n \in 0..Turns /\ n # 0 /\ n - 1 \in 0..Turns /\ ~(n <= n - 1)
      BY <1>5
    <3>4. after[n] = Turn(after[n - 1])
      BY <1>6, <3>3
    <3>5. after[n - 1] = i \/ after[n - 1] = j
      <4>1. CASE n = 1
        BY <1>5, <1>6, <4>1
      <4>2. CASE n # 1
        BY <3>2, <3>3, <4>2
      <4> QED
        BY <4>1, <4>2
    <3> QED
      BY <1>3, <1>4, <3>4, <3>5
  <2> QED
    BY <1>5, <2>1
<1> QED
  BY <1>2, <1>7, <1>8

-----------------------------------------------------------------------------
(* An operation ends on a merge that is settled in U.                        *)
Ends(i, U) == /\ i \in Merges /\ ~i.bad
              /\ i.current = Smaller(i).key
              /\ Settled(i, U)

(* Neither current nor the bookkeeping of the model has a part in it.        *)
LEMMA SameNodes ==
  ASSUME NEW i, NEW j, NEW U, j.left = i.left, j.right = i.right, j.leftSmall = i.leftSmall
  PROVE  Smaller(j) = Smaller(i) /\ (Settled(i, U) => Settled(j, U))
<1>1. Smaller(j) = Smaller(i) /\ Bigger(j) = Bigger(i) /\ SKeys(j) = SKeys(i) /\ BKeys(j) = BKeys(i)
  BY DEF Smaller, Bigger, SKeys, BKeys
<1> QED
  BY <1>1 DEF Settled, Ready

LEMMA CurrentSet ==
  ASSUME KeysOK, NEW U, NEW i \in Merges, ~i.bad, Settled(i, U), NEW j, j = SetCurrent(i)
  PROVE  Ends(j, U)
<1>1. i.left \in Nodes(lkeys) /\ i.right \in Nodes(rkeys)
  BY DEF Merges
<1>2. PICK k : k = Smaller(i).key
  OBVIOUS
<1>3. k \in Universe \cup {NoKey}
  BY <1>1, <1>2 DEF Smaller, Nodes, KeysOK
<1>4. j = [i EXCEPT !.current = k]
  BY <1>2, Zenon DEF SetCurrent
<1>5. /\ j \in Merges /\ ~j.bad /\ j.left = i.left /\ j.right = i.right
      /\ j.leftSmall = i.leftSmall /\ j.current = k
  BY <1>3, <1>4 DEF Merges
<1> QED
  BY <1>2, <1>5, SameNodes DEF Ends

LEMMA PlacedEnds ==
  ASSUME KeysOK, m \in Merges, ~m.bad, NEW U, Onward(U), NEW fails \in SUBSET {"left", "right"}
  PROVE  Ends(Placed(Lead(lkeys \cap U), Lead(rkeys \cap U), fails), U)
<1>1. PICK l, r : /\ l = MoveTo(m.left, Lead(lkeys \cap U), "left" \in fails)
                  /\ r = MoveTo(m.right, Lead(rkeys \cap U), "right" \in fails)
  OBVIOUS
<1>2. m.left \in Nodes(lkeys) /\ m.right \in Nodes(rkeys)
  BY DEF Merges
<1>3. l \in Nodes(lkeys) /\ Stands(l, lkeys \cap U) /\ r \in Nodes(rkeys) /\ Stands(r, rkeys \cap U)
  BY <1>1, <1>2, MoveStands DEF KeysOK
<1>4. PICK i : i = [m EXCEPT !.left = l, !.right = r, !.fails = fails]
  OBVIOUS
<1>5. i \in Merges /\ ~i.bad /\ i.left = l /\ i.right = r
  BY <1>3, <1>4 DEF Merges
<1>6. PICK j : j = Fix(i)
  OBVIOUS
<1>7. j \in Merges /\ ~j.bad /\ Settled(j, U)
  BY <1>3, <1>5, <1>6, FixSettles DEF Ready
<1>8. Placed(Lead(lkeys \cap U), Lead(rkeys \cap U), fails) = SetCurrent(j)
  BY <1>1, <1>4, <1>6, Zenon DEF Placed
<1> QED
  BY <1>7, <1>8, CurrentSet

-----------------------------------------------------------------------------
(* The inductive invariant.                                                  *)
IInv == /\ KeysOK
        /\ m \in Merges /\ ~m.bad
        /\ m.current = Smaller(m).key
        /\ Covered(m)
        /\ call.op = "new" => ~Smaller(m).valid
        /\ misused = FALSE

(* Every operation is one of three: rewind starts from all keys, seek from   *)
(* the wanted one, next behind the current one.                              *)
Goes(U) ==
  \/ call' = [op |-> IF rev THEN "seek_to_last" ELSE "seek_to_first", key |-> NoKey] /\ U = Universe
  \/ \E k \in Wanted : /\ call' = [op |-> IF rev THEN "seek_for_prev" ELSE "seek", key |-> k]
                       /\ U = From(Universe, k)
  \/ /\ Smaller(m).valid
     /\ call' = [op |-> IF rev THEN "prev" ELSE "next", key |-> NoKey]
     /\ U = Later(Universe, Smaller(m).key)

LEMMA DoEnds ==
  ASSUME KeysOK, misused = FALSE, NEW U, NEW o, NEW k, NEW new, Ends(new, U), Do(o, k, new)
  PROVE  Ends(m', U) /\ misused' = FALSE /\ UNCHANGED <<lkeys, rkeys, rev>> /\ call' = [op |-> o, key |-> k]
<1>1. m' = [new EXCEPT !.bad = FALSE, !.fails = {}] /\ new \in Merges
  BY DEF Do, Ends
<1>2. /\ m' \in Merges /\ ~m'.bad /\ m'.left = new.left /\ m'.right = new.right
      /\ m'.leftSmall = new.leftSmall /\ m'.current = new.current
  BY <1>1 DEF Merges
<1>3. Ends(m', U)
  BY <1>2, SameNodes DEF Ends
<1>4. misused' = FALSE
  <2>1. misused' = (misused \/ new.bad) /\ ~new.bad
    BY Zenon DEF Do, Ends
  <2> QED
    BY <2>1
<1> QED
  BY <1>3, <1>4 DEF Do

LEMMA StepEnds ==
  ASSUME IInv, Next
  PROVE  /\ misused' = FALSE /\ UNCHANGED <<lkeys, rkeys, rev>>
         /\ \E U : Onward(U) /\ Goes(U) /\ Ends(m', U)
<1> USE DEF IInv
<1>1. CASE Rewind
  <2>1. PICK fails \in Failures :
           Do(IF rev THEN "seek_to_last" ELSE "seek_to_first", NoKey,
              Placed(ChildRewind(lkeys), ChildRewind(rkeys), fails))
    BY <1>1 DEF Rewind
  <2>2. lkeys \cap Universe = lkeys /\ rkeys \cap Universe = rkeys
    BY DEF KeysOK
  <2>3. Onward(Universe)
    <3>1. 0 \in Nat
      OBVIOUS
    <3> QED
      BY <3>1, OnwardSets
  <2>4. Ends(Placed(ChildRewind(lkeys), ChildRewind(rkeys), fails), Universe)
    <3>1. Ends(Placed(Lead(lkeys \cap Universe), Lead(rkeys \cap Universe), fails), Universe)
      BY <2>3, PlacedEnds, FailuresAssumption
    <3> QED
      BY <2>2, <3>1 DEF ChildRewind
  <2>5. /\ Ends(m', Universe) /\ misused' = FALSE /\ UNCHANGED <<lkeys, rkeys, rev>>
        /\ call' = [op |-> IF rev THEN "seek_to_last" ELSE "seek_to_first", key |-> NoKey]
    BY <2>1, <2>4, DoEnds, Zenon
  <2> QED
    BY <2>3, <2>5 DEF Goes
<1>2. CASE \E k \in Wanted : Seek(k)
  <2>1. PICK k \in Wanted, fails \in Failures :
           Do(IF rev THEN "seek_for_prev" ELSE "seek", k,
              Placed(ChildSeek(lkeys, k), ChildSeek(rkeys, k), fails))
    BY <1>2 DEF Seek
  <2>2. k \in Nat
    BY WantedAssumption
  <2>3. PICK U : U = From(Universe, k)
    OBVIOUS
  <2>4. Onward(U)
    BY <2>2, <2>3, OnwardSets
  <2>5. ChildSeek(lkeys, k) = Lead(lkeys \cap U) /\ ChildSeek(rkeys, k) = Lead(rkeys \cap U)
    <3>1. lkeys \cap U = From(lkeys, k) /\ rkeys \cap U = From(rkeys, k)
      BY <2>3 DEF From, KeysOK
    <3> QED
      BY <2>2, <3>1, ChildMoves DEF KeysOK
  <2>6. Ends(Placed(ChildSeek(lkeys, k), ChildSeek(rkeys, k), fails), U)
    BY <2>4, <2>5, PlacedEnds, FailuresAssumption
  <2>7. /\ Ends(m', U) /\ misused' = FALSE /\ UNCHANGED <<lkeys, rkeys, rev>>
        /\ call' = [op |-> IF rev THEN "seek_for_prev" ELSE "seek", key |-> k]
    BY <2>1, <2>6, DoEnds, Zenon
  <2> QED
    BY <2>3, <2>4, <2>7 DEF Goes
<1>3. CASE MergeNext
  <2>1. PICK fails \in Failures :
           Do(IF rev THEN "prev" ELSE "next", NoKey, SetCurrent(NextLoop([m EXCEPT !.fails = fails])))
    BY <1>3 DEF MergeNext
  <2>2. PICK i : i = [m EXCEPT !.fails = fails]
    OBVIOUS
  <2>3. /\ i \in Merges /\ ~i.bad /\ i.current = m.current
        /\ i.left = m.left /\ i.right = m.right /\ i.leftSmall = m.leftSmall
    BY <2>2, FailuresAssumption DEF Merges
  <2>4. Smaller(i) = Smaller(m) /\ Covered(i) /\ Smaller(m).valid
    BY <1>3, <2>3 DEF Covered, Smaller, Bigger, SKeys, BKeys, MergeNext
  <2>5. PICK U : U = Later(Universe, m.current)
    OBVIOUS
  <2>6. NextLoop(i) \in Merges /\ ~NextLoop(i).bad /\ Settled(NextLoop(i), U)
    BY <2>3, <2>4, <2>5, LoopIsOneTurn
  <2>7. Ends(SetCurrent(NextLoop(i)), U)
    BY <2>6, CurrentSet
  <2>8. /\ Ends(m', U) /\ misused' = FALSE /\ UNCHANGED <<lkeys, rkeys, rev>>
        /\ call' = [op |-> IF rev THEN "prev" ELSE "next", key |-> NoKey]
    BY <2>1, <2>2, <2>7, DoEnds, Zenon
  <2>9. Onward(U)
    <3>1. m.left \in Nodes(lkeys) /\ m.right \in Nodes(rkeys)
      BY DEF Merges
    <3>2. m.left.key \in Nat /\ m.right.key \in Nat
      BY <3>1, KeyIsNat DEF KeysOK
    <3>3. m.current \in Nat
      BY <3>2 DEF Smaller
    <3> QED
      BY <2>5, <3>3, OnwardSets
  <2> QED
    BY <2>4, <2>5, <2>8, <2>9 DEF Goes
<1> QED
  BY <1>1, <1>2, <1>3 DEF Next

(* What holds of a merge still holds of it where only other things change.   *)
LEMMA Kept ==
  ASSUME UNCHANGED <<lkeys, rkeys, rev>>
  PROVE  /\ KeysOK => KeysOK'
         /\ m' \in Merges => (m \in Merges)'
         /\ Covered(m') => Covered(m)'
<1>1. (KeysOK => KeysOK') /\ (m' \in Merges => (m \in Merges)')
  BY DEF KeysOK, Merges, Nodes
<1>2. Covered(m') => Covered(m)'
  BY DEF Covered, Smaller, Bigger, SKeys, BKeys, Stands, IsLead, Later, Before
<1> QED
  BY <1>1, <1>2

(* IInv holds of a new merge, and every operation of merge_iterator.rs       *)
(* preserves it.                                                             *)
THEOREM Invariance == Spec => []IInv
<1>1. Init => IInv
  <2> SUFFICES ASSUME Init PROVE IInv
    OBVIOUS
  <2> USE DEF Init
  <2>1. m = NewMerge /\ NoKey \in lkeys \cup {NoKey} /\ NoKey \in rkeys \cup {NoKey}
    OBVIOUS
  <2>2. NewNode \in Nodes(lkeys) /\ NewNode \in Nodes(rkeys) /\ ~NewNode.valid /\ NewNode.key = NoKey
    BY DEF NewNode, Nodes
  <2>3. m \in Merges /\ ~m.bad /\ m.left = NewNode /\ m.right = NewNode /\ m.current = NoKey
    BY <2>1, <2>2 DEF NewMerge, Merges
  <2>4. Smaller(m) = NewNode /\ Bigger(m) = NewNode
    BY <2>3 DEF Smaller, Bigger
  <2> QED
    BY <2>2, <2>3, <2>4 DEF IInv, KeysOK, Covered
<1>2. IInv /\ [Next]_vars => IInv'
  <2> SUFFICES ASSUME IInv, [Next]_vars PROVE IInv'
    OBVIOUS
  <2>1. CASE Next
    <3>1. misused' = FALSE /\ UNCHANGED <<lkeys, rkeys, rev>>
      BY <2>1, StepEnds
    <3>2. PICK U : Onward(U) /\ Goes(U) /\ Ends(m', U)
      BY <2>1, StepEnds
    <3>3. m' \in Merges /\ ~m'.bad /\ m'.current = Smaller(m').key /\ Covered(m')
      BY <3>2, SettledCovers DEF Ends
    <3>4. call'.op # "new"
      BY <3>2 DEF Goes
    <3>5. KeysOK' /\ (m \in Merges)' /\ Covered(m)'
      BY <3>1, <3>3, Kept DEF IInv
    <3>6. m'.current = Smaller(m)'.key
      BY <3>3 DEF Smaller
    <3> QED
      BY <3>1, <3>3, <3>4, <3>5, <3>6 DEF IInv
  <2>2. CASE UNCHANGED vars
    <3>1. KeysOK' /\ (m \in Merges)' /\ Covered(m)' /\ m' = m /\ call' = call /\ misused' = misused
      BY <2>2, Kept DEF IInv, vars
    <3> QED
      BY <3>1 DEF IInv, Smaller
  <2> QED
    BY <2>1, <2>2
<1> QED
  BY <1>1, <1>2, PTL DEF Spec

(* The buffered keys are keys of their children.                             *)
THEOREM TypeCorrect == Spec => []TypeOK
<1>1. IInv => TypeOK
  BY DEF IInv, TypeOK, Merges, Nodes
<1> QED
  BY <1>1, Invariance, PTL

(* A key of both children comes from the left one and is not offered again.  *)
THEOREM LeftChildWins == Spec => []LeftWins
<1>1. ASSUME IInv PROVE LeftWins
  <2>1. Smaller(m).valid /\ Smaller(m).key \in lkeys => m.leftSmall \/ m.left.failed
    BY <1>1 DEF IInv, Covered
  <2>2. m.left.valid /\ m.right.valid => m.left.key # m.right.key
    <3> SUFFICES ASSUME m.left.valid, m.right.valid PROVE m.left.key # m.right.key
      OBVIOUS
    <3>1. Smaller(m).valid /\ Bigger(m).valid
      BY DEF Smaller, Bigger
    <3>2. Bigger(m).key \in Later(BKeys(m), Smaller(m).key)
      BY <1>1, <3>1 DEF IInv, Covered, Stands, IsLead
    <3>3. Before(Smaller(m).key, Bigger(m).key)
      BY <3>2 DEF Later
    <3>4. m.left \in Nodes(lkeys) /\ m.right \in Nodes(rkeys)
      BY <1>1 DEF IInv, Merges
    <3>5. m.left.key \in Nat /\ m.right.key \in Nat
      BY <1>1, <3>4, KeyIsNat DEF IInv, KeysOK
    <3>6. Smaller(m).key # Bigger(m).key
      BY <3>3, <3>5, Order DEF Smaller, Bigger
    <3> QED
      BY <3>6 DEF Smaller, Bigger
  <2> QED
    BY <2>1, <2>2 DEF LeftWins
<1> QED
  BY <1>1, Invariance, PTL

(* next is called on a child only while it is valid.                         *)
THEOREM ChildrenUsedRightly == Spec => []ChildrenNotMisused
<1>1. IInv => ChildrenNotMisused
  BY DEF IInv, ChildrenNotMisused
<1> QED
  BY <1>1, Invariance, PTL

-----------------------------------------------------------------------------
(* The keys of the children that can be read.                                *)
Readable(i) == (IF i.left.failed THEN {} ELSE lkeys) \cup (IF i.right.failed THEN {} ELSE rkeys)

(* A settled merge is on the first readable key of U, or there is none.      *)
LEMMA SettledLeads ==
  ASSUME KeysOK, NEW i \in Merges, NEW U, Settled(i, U)
  PROVE  /\ Smaller(i).valid => IsLead(Smaller(i).key, Readable(i) \cap U)
         /\ ~Smaller(i).valid => Readable(i) \cap U = {}
<1>1. PICK s, b, S, B : s = Smaller(i) /\ b = Bigger(i) /\ S = SKeys(i) /\ B = BKeys(i)
  OBVIOUS
<1>2. Readable(i) = (IF s.failed THEN {} ELSE S) \cup (IF b.failed THEN {} ELSE B)
  BY <1>1 DEF Smaller, Bigger, SKeys, BKeys, Readable
<1>3. CASE s.valid
  <2>1. ~s.failed /\ IsLead(s.key, S \cap U) /\ (~b.failed => \A n \in B \cap U : ~Before(n, s.key))
    BY <1>1, <1>3 DEF Settled, Stands
  <2> QED
    BY <1>1, <1>2, <1>3, <2>1 DEF IsLead
<1>4. CASE ~s.valid
  <2>1. ~i.left.valid /\ ~i.right.valid /\ Ready(i, U)
    BY <1>1, <1>4 DEF Settled, Smaller, Bigger
  <2>2. (i.left.failed \/ lkeys \cap U = {}) /\ (i.right.failed \/ rkeys \cap U = {})
    BY <2>1 DEF Ready, Stands
  <2> QED
    BY <1>1, <1>4, <2>2 DEF Readable
<1> QED
  BY <1>3, <1>4

(* next leads to the nearest key of the children that can be read, and to    *)
(* the end only when they have no more.                                      *)
THEOREM NothingSkipped == Spec => OthersGoOn
<1> DEFINE Moved == call'.op \in {"next", "prev"} /\ m' # m =>
                      LET k == ChildNext(Healthy', Smaller(m).key)
                      IN  /\ Smaller(m)'.valid <=> k # NoKey
                          /\ k # NoKey => Smaller(m)'.key = k
<1>1. ASSUME IInv, Next, call'.op \in {"next", "prev"} PROVE Moved
  <2>1. UNCHANGED <<lkeys, rkeys, rev>>
    BY <1>1, StepEnds
  <2>2. PICK U : Onward(U) /\ Goes(U) /\ Ends(m', U)
    BY <1>1, StepEnds
  <2>3. PICK c : c = Smaller(m).key
    OBVIOUS
  <2>4. U = Later(Universe, c)
    BY <1>1, <2>2, <2>3 DEF Goes
  <2>5. Healthy' = Readable(m') /\ Smaller(m)' = Smaller(m')
    BY <2>1 DEF Healthy, Readable, Smaller
  <2>6. PICK H, s : H = Readable(m') /\ s = Smaller(m')
    OBVIOUS
  <2>7. H \in SUBSET Universe
    BY <1>1, <2>6 DEF IInv, KeysOK, Readable
  <2>8. c \in Nat
    <3>1. m.left \in Nodes(lkeys) /\ m.right \in Nodes(rkeys)
      BY <1>1 DEF IInv, Merges
    <3>2. m.left.key \in Nat /\ m.right.key \in Nat
      BY <1>1, <3>1, KeyIsNat DEF IInv, KeysOK
    <3> QED
      BY <2>3, <3>2 DEF Smaller
  <2>9. H \cap U = Later(H, c) /\ Later(H, c) \in SUBSET Universe /\ Later(H, c) \in SUBSET Nat
    BY <2>4, <2>7, UniverseAssumption DEF Later
  <2>10. (s.valid => IsLead(s.key, Later(H, c))) /\ (~s.valid => Later(H, c) = {})
    BY <1>1, <2>2, <2>6, <2>9, SettledLeads, SMTT(60) DEF Ends, IInv
  <2>11. PICK k : k = ChildNext(H, c)
    OBVIOUS
  <2>12. (Later(H, c) = {} => k = NoKey) /\ (Later(H, c) # {} => IsLead(k, Later(H, c)) /\ k # NoKey)
    BY <2>7, <2>8, <2>9, <2>11, ChildMoves, LeadIs
  <2>13. (s.valid <=> k # NoKey) /\ (k # NoKey => s.key = k)
    <3>1. CASE s.valid
      <4>1. Later(H, c) # {}
        BY <2>10, <3>1 DEF IsLead
      <4>2. s.key \in Later(H, c) /\ k \in Later(H, c)
        BY <2>10, <2>12, <3>1, <4>1 DEF IsLead
      <4>3. s.key = k
        BY <2>9, <2>10, <2>12, <3>1, <4>1, <4>2, LeadUnique
      <4> QED
        BY <2>12, <3>1, <4>1, <4>3
    <3>2. CASE ~s.valid
      BY <2>10, <2>12, <3>2
    <3> QED
      BY <3>1, <3>2
  <2> QED
    BY <2>3, <2>5, <2>6, <2>11, <2>13
<1>2. ASSUME IInv, [Next]_vars PROVE [Moved]_vars
  <2>1. CASE Next
    BY <1>1, <1>2, <2>1
  <2>2. CASE UNCHANGED vars
    BY <2>2
  <2> QED
    BY <1>2, <2>1, <2>2
<1> QED
  BY <1>2, Invariance, PTL DEF Spec, OthersGoOn

-----------------------------------------------------------------------------
(* The merge implements the iterator that SortedCursor describes.            *)
Goal(S) == IF rev THEN Cursor!Highest(S) ELSE Cursor!Lowest(S)

LEMMA GoalIs ==
  ASSUME NEW S \in SUBSET Nat
  PROVE  /\ S = {} => Goal(S) = IF rev THEN Cursor!Bof ELSE Cursor!Eof
         /\ \A k \in S : IsLead(k, S) => Goal(S) = Cursor!At(k)
<1>1. S = {} => Goal(S) = IF rev THEN Cursor!Bof ELSE Cursor!Eof
  BY DEF Goal, Cursor!Highest, Cursor!Lowest
<1>2. ASSUME NEW k \in S, IsLead(k, S) PROVE Goal(S) = Cursor!At(k)
  <2> DEFINE first == CHOOSE x \in S : IsLead(x, S)
  <2>1. first \in S /\ IsLead(first, S)
    BY <1>2
  <2> HIDE DEF first
  <2>2. first = k
    BY <1>2, <2>1, LeadUnique
  <2>3. CASE rev
    <3>1. \A x \in S : IsLead(x, S) <=> \A n \in S : ~Precedes(x, n)
      BY <2>3 DEF IsLead, Before, Precedes
    <3>2. first = CHOOSE x \in S : \A n \in S : ~Precedes(x, n)
      BY <3>1 DEF first
    <3> QED
      BY <2>2, <2>3, <3>2 DEF Goal, Cursor!Highest, Cursor!At
  <2>4. CASE ~rev
    <3>1. \A x \in S : IsLead(x, S) <=> \A n \in S : ~Precedes(n, x)
      BY <2>4 DEF IsLead, Before, Precedes
    <3>2. first = CHOOSE x \in S : \A n \in S : ~Precedes(n, x)
      BY <3>1 DEF first
    <3> QED
      BY <2>2, <2>4, <3>2 DEF Goal, Cursor!Lowest, Cursor!At
  <2> QED
    BY <2>3, <2>4
<1> QED
  BY <1>1, <1>2

(* Where the merge stands, as its callers see it.                            *)
PlaceOf(i) ==
  IF i.left.failed \/ i.right.failed THEN Cursor!Failed
  ELSE IF Smaller(i).valid THEN Cursor!At(Smaller(i).key)
  ELSE IF rev THEN Cursor!Bof ELSE Cursor!Eof

LEMMA PlaceIs == Place = IF call.op = "new" THEN Cursor!Unset ELSE PlaceOf(m)
BY DEF Place, PlaceOf, Cursor!Unset, Cursor!Failed, Cursor!At, Cursor!Bof, Cursor!Eof

LEMMA EndsAtGoal ==
  ASSUME KeysOK, NEW i, NEW U, Ends(i, U)
  PROVE  PlaceOf(i) \in {Goal((lkeys \cup rkeys) \cap U), Cursor!Failed}
<1> DEFINE S == (lkeys \cup rkeys) \cap U
<1>1. CASE i.left.failed \/ i.right.failed
  BY <1>1 DEF PlaceOf
<1>2. CASE ~i.left.failed /\ ~i.right.failed
  <2>1. Readable(i) = lkeys \cup rkeys
    BY <1>2 DEF Readable
  <2>2. (Smaller(i).valid => IsLead(Smaller(i).key, S)) /\ (~Smaller(i).valid => S = {})
    BY <2>1, SettledLeads DEF Ends
  <2>3. S \in SUBSET Nat
    BY UniverseAssumption DEF KeysOK
  <2> HIDE DEF S
  <2>4. CASE Smaller(i).valid
    <3>1. Smaller(i).key \in S
      BY <2>2, <2>4 DEF IsLead
    <3>2. Goal(S) = Cursor!At(Smaller(i).key)
      BY <2>2, <2>3, <2>4, <3>1, GoalIs
    <3> QED
      BY <1>2, <2>4, <3>2 DEF PlaceOf, S
  <2>5. CASE ~Smaller(i).valid
    <3>1. Goal(S) = IF rev THEN Cursor!Bof ELSE Cursor!Eof
      BY <2>2, <2>3, <2>5, GoalIs
    <3> QED
      BY <1>2, <2>5, <3>1 DEF PlaceOf, S
  <2> QED
    BY <2>4, <2>5
<1> QED
  BY <1>1, <1>2

(* Every step of the merge is a step of the cursor.                          *)
LEMMA StepMoves ==
  ASSUME IInv, Next
  PROVE  Cursor!Next
<1>1. UNCHANGED <<lkeys, rkeys, rev>>
  BY StepEnds
<1>2. PICK U : Onward(U) /\ Goes(U) /\ Ends(m', U)
  BY StepEnds
<1>3. PICK source : source = lkeys \cup rkeys
  OBVIOUS
<1>4. source \in SUBSET Universe /\ source \in SUBSET Nat /\ KeysOK
  BY <1>3, UniverseAssumption DEF IInv, KeysOK
<1>5. call'.op # "new"
  BY <1>2 DEF Goes
<1>6. Place' \in {Goal(source \cap U), Cursor!Failed}
  <2>1. Place' = PlaceOf(m')
    <3>1. Place' = PlaceOf(m)'
      BY <1>5 DEF Place, PlaceOf, Cursor!Failed, Cursor!At, Cursor!Bof, Cursor!Eof
    <3>2. PlaceOf(m)' = PlaceOf(m')
      BY <1>1 DEF PlaceOf, Smaller, Cursor!Failed, Cursor!At, Cursor!Bof, Cursor!Eof
    <3> QED
      BY <3>1, <3>2
  <2> QED
    BY <1>2, <1>3, <1>4, <2>1, EndsAtGoal
<1>7. SUFFICES call' \in Cursor!Calls /\ Goal(source \cap U) \in Cursor!Goals(call', Place) \cup {Cursor!Failed}
  BY <1>1, <1>6 DEF Cursor!Next, Cursor!Step
<1>8. CASE call' = [op |-> IF rev THEN "seek_to_last" ELSE "seek_to_first", key |-> NoKey] /\ U = Universe
  <2>1. source \cap U = source
    BY <1>4, <1>8
  <2>2. call' \in Cursor!Calls
    BY <1>8 DEF Cursor!Calls, Cursor!Call
  <2>3. Goal(source) \in Cursor!Goals(call', Place)
    BY <1>3, <1>8 DEF Cursor!Goals, Goal
  <2> QED
    BY <2>1, <2>2, <2>3
<1>9. CASE \E k \in Wanted : /\ call' = [op |-> IF rev THEN "seek_for_prev" ELSE "seek", key |-> k]
                             /\ U = From(Universe, k)
  <2>1. PICK k \in Wanted : /\ call' = [op |-> IF rev THEN "seek_for_prev" ELSE "seek", key |-> k]
                            /\ U = From(Universe, k)
    BY <1>9
  <2>2. call' \in Cursor!Calls
    BY <2>1 DEF Cursor!Calls, Cursor!Call
  <2>3. CASE rev
    <3>1. source \cap U = {n \in source : ~Precedes(k, n)}
      BY <1>4, <2>1, <2>3 DEF From, Before, Precedes
    <3> QED
      BY <1>3, <2>1, <2>2, <2>3, <3>1 DEF Cursor!Goals, Goal
  <2>4. CASE ~rev
    <3>1. source \cap U = {n \in source : ~Precedes(n, k)}
      BY <1>4, <2>1, <2>4 DEF From, Before, Precedes
    <3> QED
      BY <1>3, <2>1, <2>2, <2>4, <3>1 DEF Cursor!Goals, Goal
  <2> QED
    BY <2>3, <2>4
<1>10. CASE /\ Smaller(m).valid
            /\ call' = [op |-> IF rev THEN "prev" ELSE "next", key |-> NoKey]
            /\ U = Later(Universe, Smaller(m).key)
  <2>1. PICK c : c = Smaller(m).key
    OBVIOUS
  <2>2. call' \in Cursor!Calls
    BY <1>10 DEF Cursor!Calls, Cursor!Call
  <2>3. Place = PlaceOf(m)
    BY <1>10, PlaceIs DEF IInv
  <2>4. CASE ~m.left.failed /\ ~m.right.failed
    <3>1. Place.state = "at" /\ Place.key = c
      BY <1>10, <2>1, <2>3, <2>4 DEF PlaceOf, Cursor!At
    <3>2. CASE rev
      <4>1. source \cap U = {n \in source : Precedes(n, c)}
        BY <1>4, <1>10, <2>1, <3>2 DEF Later, Before, Precedes
      <4> QED
        BY <1>3, <1>10, <2>2, <3>1, <3>2, <4>1 DEF Cursor!Goals, Goal
    <3>3. CASE ~rev
      <4>1. source \cap U = {n \in source : Precedes(c, n)}
        BY <1>4, <1>10, <2>1, <3>3 DEF Later, Before, Precedes
      <4> QED
        BY <1>3, <1>10, <2>2, <3>1, <3>3, <4>1 DEF Cursor!Goals, Goal
    <3> QED
      BY <3>2, <3>3
  <2>5. CASE m.left.failed \/ m.right.failed
    <3>1. Place.state = "error"
      BY <2>3, <2>5 DEF PlaceOf, Cursor!Failed
    <3>2. Cursor!Goals(call', Place) = Cursor!Places
      BY <1>10, <3>1 DEF Cursor!Goals
    <3>3. Goal(source \cap U) \in Cursor!Places
      <4>1. source \cap U \in SUBSET Nat
        BY <1>4
      <4>2. source \cap U = {} => Goal(source \cap U) \in {Cursor!Bof, Cursor!Eof}
        BY <4>1, GoalIs
      <4>3. source \cap U # {} => \E k \in source : Goal(source \cap U) = Cursor!At(k)
        <5>1. source \cap U \in SUBSET Universe
          BY <1>4
        <5>2. source \cap U # {} => \E k \in source \cap U : IsLead(k, source \cap U)
          BY <5>1, LeadIs DEF IsLead
        <5> QED
          BY <4>1, <5>2, GoalIs
      <4> QED
        BY <1>3, <4>2, <4>3 DEF Cursor!Places
    <3> QED
      BY <2>2, <3>2, <3>3
  <2> QED
    BY <2>4, <2>5
<1> QED
  BY <1>2, <1>8, <1>9, <1>10 DEF Goes

(* The merge of two sorted iterators is a sorted iterator over all their     *)
(* keys: it implements SortedCursor.                                         *)
THEOREM Refinement == Spec => IsSortedCursor
<1>1. Init => Cursor!Init
  BY PlaceIs DEF Init, Cursor!Init, Cursor!Call
<1>2. IInv /\ [Next]_vars => [Cursor!Next]_(Cursor!vars)
  <2>1. UNCHANGED vars => UNCHANGED Cursor!vars
    BY DEF vars, Cursor!vars, Place, Smaller
  <2> QED
    BY <2>1, StepMoves
<1> QED
  BY <1>1, <1>2, Invariance, PTL DEF Spec, IsSortedCursor, Cursor!Spec
=============================================================================
