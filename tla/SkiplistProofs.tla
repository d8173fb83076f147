--------------------------- MODULE SkiplistProofs ---------------------------
(* The skiplist is safe for any number of writers and readers, any keys, any *)
(* MAX_HEIGHT and any arena: Spec implies IInv of Skiplist, by one lemma per *)
(* action.                                                                   *)
EXTENDS Skiplist, FiniteSetTheorems, TLAPS

(* An empty list satisfies the invariant.                                    *)
LEMMA InitIInv == Init => IInv
<1> SUFFICES ASSUME Init PROVE IInv
  OBVIOUS
<1> USE KeysAssumption, ValsAssumption, HeightAssumption, ArenaAssumption
<1>1. TypeShared /\ TypeWriters /\ TypeReaders
  BY DEF Init, TypeShared, TypeWriters, TypeReaders, Slots, Ptr, Levels, Arrays, Null, Head, EmptyKey, NoSplice
<1>2. \A i \in Levels : Linked(i) = {Head}
  BY DEF Init, Linked, Slots, Head, Levels
<1>3. ArenaInv
  BY DEF Init, ArenaInv, Slots, Head
<1>4. OwnerInv
  BY DEF Init, OwnerInv, Linking
<1>5. SpliceInv
  BY DEF Init, SpliceInv, NoSplice, Levels, Arrays
<1>6. ProgressInv
  BY DEF Init, ProgressInv, Linking, Levels
<1>7. DropInv
  BY DEF Init, DropInv
<1>8. ListWellFormed
  BY <1>2 DEF Init, ListWellFormed, ChainSorted, ChainComplete, Slots, Head, Levels, EmptyKey, Null
<1>9. ReaderInv
  BY DEF Init, ReaderInv
<1> QED
  BY <1>1, <1>3, <1>4, <1>5, <1>6, <1>7, <1>8, <1>9 DEF IInv, WriterInv

(* Readers only load: what is known of the list and of the writers does not  *)
(* depend on them.                                                           *)
LEMMA ReadKeepsWriterInv == ASSUME WriterInv, UNCHANGED <<shared, writers, closing>> PROVE WriterInv'
<1> USE DEF shared, writers, closing
<1>1. TypeShared' /\ TypeWriters'
  BY DEF TypeShared, TypeWriters, WriterInv
<1>2. \A i \in Levels : Linked(i)' = Linked(i)
  BY DEF Linked
<1>3. ArenaInv' /\ OwnerInv'
  BY DEF ArenaInv, OwnerInv, Linking, WriterInv
<1>4. SpliceInv'
  BY <1>2 DEF SpliceInv, WriterInv
<1>5. ProgressInv'
  BY <1>2 DEF ProgressInv, Linking, WriterInv
<1>6. DropInv'
  BY DEF DropInv, Linked, WriterInv
<1>7. ListWellFormed'
  BY <1>2 DEF ListWellFormed, ChainSorted, ChainComplete, WriterInv
<1> QED
  BY <1>1, <1>3, <1>4, <1>5, <1>6, <1>7 DEF WriterInv

(* Where the head, the levels and the arrays of put lie, for any MAX_HEIGHT  *)
(* and any arena.                                                            *)
LEMMA Bounds ==
  /\ 0 \in Levels /\ Head \in Slots /\ Null \notin Slots /\ Slots \subseteq Nat
  /\ \A i \in Levels : i \in Nat /\ i \in Arrays /\ i + 1 \in Arrays /\ i < MaxHeight
  /\ \A i \in Levels : i > 0 => i - 1 \in Levels
  /\ MaxHeight \in Nat /\ Arrays \subseteq Nat
  /\ \A k \in Keys : k \in Nat /\ k > EmptyKey
BY KeysAssumption, HeightAssumption, ArenaAssumption
DEF Levels, Slots, Head, Null, Arrays, EmptyKey

(* What the nodes reachable at a level have in common: they lie in the       *)
(* arena, hold a key and are linked at every lower level.                    *)
LEMMA LinkedBasics ==
  ASSUME WriterInv
  PROVE  \A i \in Levels :
            /\ Linked(i) \subseteq Slots
            /\ Head \in Linked(i)
            /\ \A j \in Levels : j <= i => Linked(i) \subseteq Linked(j)
            /\ \A n \in Linked(i) : nodeKey[n] \in Nat
            /\ \A n \in Linked(i) \ {Head} : nodeKey[n] \in Keys
<1> USE Bounds
<1>1. TAKE i \in Levels
<1>2. Linked(i) \subseteq Slots /\ Head \in Linked(i)
  BY DEF Linked
<1>3. ASSUME NEW j \in Levels, j <= i PROVE Linked(i) \subseteq Linked(j)
  <2> SUFFICES ASSUME NEW n \in Slots, n \in Linked(i), n # Head PROVE n \in Linked(j)
    BY <1>2 DEF Linked
  <2>1. nodeHeight[n] \in Nat /\ \A t \in Writers : lvl[t] \in Nat
    BY DEF WriterInv, TypeShared, TypeWriters
  <2> QED
    BY <1>3, <2>1 DEF Linked
<1>4. \A n \in Linked(i) \ {Head} : nodeKey[n] \in Keys
  BY DEF WriterInv, ArenaInv, Linked
<1>5. \A n \in Linked(i) : nodeKey[n] \in Nat
  BY <1>4 DEF WriterInv, ArenaInv, EmptyKey
<1> QED
  BY <1>2, <1>3, <1>4, <1>5

(* What a writer does to its locals before it has a node links nothing.      *)
LEMMA LinkedSame ==
  ASSUME NEW t \in Writers,
         x[t] = Null, x'[t] = Null,
         \A u \in Writers \ {t} : x'[u] = x[u] /\ lvl'[u] = lvl[u],
         UNCHANGED <<nodeState, nodeHeight>>
  PROVE  \A i \in Levels : Linked(i)' = Linked(i)
<1> USE Bounds
<1>1. TAKE i \in Levels
<1>2. ASSUME NEW n \in Slots
      PROVE  (\A u \in Writers : x'[u] = n => i < lvl'[u]) <=> (\A u \in Writers : x[u] = n => i < lvl[u])
  BY <1>2
<1> QED
  BY <1>2 DEF Linked

(* What find_splice_for_level loads from a linked node is linked, or null.   *)
LEMMA AheadLinked ==
  ASSUME WriterInv, NEW t \in Writers, pc[t] \in {"descend", "fresh", "retry"}
  PROVE  /\ before[t] \in Slots /\ before[t] \in Linked(lvl[t]) /\ lvl[t] \in Levels
         /\ wkey[t] \in Keys
         /\ Ahead(t) \in Ptr
         /\ Ahead(t) # Null => Ahead(t) \in Linked(lvl[t]) \ {Head} /\ Ahead(t) \in Slots
<1> DEFINE i == lvl[t]
<1>1. i \in Levels
  BY DEF WriterInv, TypeWriters
<1>2. before[t] \in Linked(i) /\ wkey[t] \in Keys
  BY <1>1 DEF WriterInv, SpliceInv
<1>3. Linked(i) \subseteq Slots
  BY <1>1, LinkedBasics
<1>4. tower[before[t]][i] \in Ptr
  BY <1>1, <1>2, <1>3 DEF WriterInv, TypeShared
<1>5. tower[before[t]][i] # Null => tower[before[t]][i] \in Linked(i) \ {Head}
  BY <1>1, <1>2 DEF WriterInv, ListWellFormed, ChainSorted
<1> QED
  BY <1>1, <1>2, <1>3, <1>4, <1>5 DEF Ahead

(* Each step of put keeps the invariant; one lemma per action.               *)
LEMMA PutCallStep ==
  ASSUME WriterInv, NEW t \in Writers, NEW k \in Keys, NEW v \in Vals, PutCall(t, k, v)
  PROVE  WriterInv'
<1> USE Bounds DEF PutCall, shared, closing
<1>1. TypeShared' /\ TypeWriters'
  BY DEF WriterInv, TypeShared, TypeWriters, NoSplice, Ptr
<1>2. x[t] = Null
  BY DEF WriterInv, OwnerInv, Linking
<1>3. \A i \in Levels : Linked(i)' = Linked(i)
  BY <1>2, LinkedSame DEF WriterInv, TypeWriters
<1>4. ArenaInv'
  BY DEF ArenaInv, WriterInv
<1>5. OwnerInv'
  BY <1>2 DEF OwnerInv, Linking, WriterInv, TypeWriters
<1>6. SpliceInv'
  BY <1>3, LinkedBasics DEF SpliceInv, WriterInv, TypeWriters, TypeShared, ArenaInv, NoSplice, EmptyKey
<1>7. ProgressInv'
  BY DEF ProgressInv, Linking, WriterInv, TypeWriters, TypeShared, NoSplice, Head, Null, Arrays, Levels
<1>8. DropInv'
  BY <1>3 DEF DropInv, WriterInv
<1>9. ListWellFormed'
  BY <1>3 DEF ListWellFormed, ChainSorted, ChainComplete, WriterInv
<1> QED
  BY <1>1, <1>4, <1>5, <1>6, <1>7, <1>8, <1>9 DEF WriterInv

(* The loop of find_splice_for_level moves to a linked node before the key.  *)
LEMMA SpliceAdvanceStep ==
  ASSUME WriterInv, NEW t \in Writers, SpliceAdvance(t)
  PROVE  WriterInv'
<1> USE Bounds DEF SpliceAdvance, SpliceMore, shared, closing
<1>1. /\ Ahead(t) \in Slots /\ Ahead(t) \in Linked(lvl[t]) /\ lvl[t] \in Levels
      /\ nodeKey[Ahead(t)] < wkey[t]
  BY AheadLinked
<1>2. TypeShared' /\ TypeWriters'
  BY <1>1 DEF WriterInv, TypeShared, TypeWriters, Ptr
<1>3. \A i \in Levels : Linked(i)' = Linked(i)
  BY DEF Linked
<1>4. ArenaInv' /\ OwnerInv'
  BY DEF ArenaInv, OwnerInv, Linking, WriterInv
<1>5. SpliceInv'
  BY <1>1, <1>3 DEF SpliceInv, WriterInv, TypeWriters
<1>6. ProgressInv'
  BY DEF ProgressInv, Linking, WriterInv
<1>7. DropInv'
  BY <1>3 DEF DropInv, WriterInv
<1>8. ListWellFormed'
  BY <1>3 DEF ListWellFormed, ChainSorted, ChainComplete, WriterInv
<1> QED
  BY <1>2, <1>4, <1>5, <1>6, <1>7, <1>8 DEF WriterInv

(* The first pass finds the key: put returns and nothing was linked.         *)
LEMMA DescendFoundStep ==
  ASSUME WriterInv, NEW t \in Writers, DescendFound(t)
  PROVE  WriterInv'
<1> USE Bounds DEF DescendFound, Return, shared, closing
<1>1. TypeShared' /\ TypeWriters'
  BY DEF WriterInv, TypeShared, TypeWriters, NoSplice, Ptr
<1>2. x[t] = Null
  BY DEF WriterInv, OwnerInv, Linking
<1>3. \A i \in Levels : Linked(i)' = Linked(i)
  BY <1>2, LinkedSame DEF WriterInv, TypeWriters
<1>4. ArenaInv' /\ OwnerInv'
  BY <1>2 DEF ArenaInv, OwnerInv, Linking, WriterInv, TypeWriters
<1>5. SpliceInv'
  BY <1>3 DEF SpliceInv, WriterInv, TypeWriters, NoSplice
<1>6. ProgressInv'
  BY DEF ProgressInv, Linking, WriterInv, TypeWriters, TypeShared
<1>7. DropInv'
  BY <1>3 DEF DropInv, WriterInv, TypeWriters
<1>8. ListWellFormed'
  BY <1>3 DEF ListWellFormed, ChainSorted, ChainComplete, WriterInv
<1> QED
  BY <1>1, <1>4, <1>5, <1>6, <1>7, <1>8 DEF WriterInv

(* The splice a search ends with brackets the key.                           *)
LEMMA SpliceBrackets ==
  ASSUME WriterInv, NEW t \in Writers, pc[t] \in {"descend", "fresh", "retry"}, SpliceStop(t)
  PROVE  /\ before[t] \in Linked(lvl[t]) /\ before[t] \in Slots
         /\ nodeKey[before[t]] < wkey[t]
         /\ Ahead(t) \in Ptr
         /\ Ahead(t) # Null => Ahead(t) \in Linked(lvl[t]) /\ wkey[t] < nodeKey[Ahead(t)]
<1>1. lvl[t] \in Levels
  BY DEF WriterInv, TypeWriters
<1> QED
  BY <1>1, AheadLinked DEF SpliceStop, WriterInv, SpliceInv

(* Storing a splice changes no other level.                                  *)
LEMMA KeepSpliceEffect ==
  ASSUME WriterInv, NEW t \in Writers, KeepSplice(t)
  PROVE  /\ \A u \in Writers \ {t} : prev'[u] = prev[u] /\ next'[u] = next[u]
         /\ \A j \in Arrays : /\ prev'[t][j] = IF j = lvl[t] THEN before[t] ELSE prev[t][j]
                              /\ next'[t][j] = IF j = lvl[t] THEN Ahead(t) ELSE next[t][j]
BY DEF KeepSplice, WriterInv, TypeWriters

(* The first pass ends a level: the splices of all levels down to it are     *)
(* known.                                                                    *)
LEMMA DescendEndStep ==
  ASSUME WriterInv, NEW t \in Writers, DescendEnd(t)
  PROVE  WriterInv'
<1> USE Bounds
<1> DEFINE i == lvl[t]
<1>1. /\ i \in Levels /\ lh[t] \in Levels
      /\ before[t] \in Linked(i) /\ before[t] \in Slots
      /\ nodeKey[before[t]] < wkey[t]
      /\ Ahead(t) \in Ptr
      /\ Ahead(t) # Null => Ahead(t) \in Linked(i) /\ wkey[t] < nodeKey[Ahead(t)]
  BY SpliceBrackets DEF DescendEnd, WriterInv, TypeWriters
<1>2. i > 0 => i - 1 \in Levels /\ Linked(i) \subseteq Linked(i - 1)
  BY <1>1, LinkedBasics
<1>3. TypeShared' /\ TypeWriters'
  BY <1>1, <1>2 DEF DescendEnd, shared, closing, WriterInv, TypeShared, TypeWriters, Ptr, KeepSplice
<1>4. /\ pc[t] = "descend"
      /\ i > 0 => pc'[t] = "descend" /\ lvl'[t] = i - 1
      /\ i = 0 => pc'[t] = "alloc" /\ lvl'[t] = 0
      /\ \A u \in Writers \ {t} : pc'[u] = pc[u] /\ lvl'[u] = lvl[u]
  BY DEF DescendEnd, WriterInv, TypeWriters
<1>5. /\ \A u \in Writers \ {t} : prev'[u] = prev[u] /\ next'[u] = next[u]
      /\ \A j \in Arrays : /\ prev'[t][j] = IF j = i THEN before[t] ELSE prev[t][j]
                           /\ next'[t][j] = IF j = i THEN Ahead(t) ELSE next[t][j]
  BY KeepSpliceEffect DEF DescendEnd
<1>6. UNCHANGED <<arenaLen, nodeKey, nodeVal, nodeHeight, tower, nodeState, height,
                  wkey, lh, before, x, phase, dropAt>>
  BY DEF DescendEnd, shared, closing
<1>7. x[t] = Null
  BY <1>4 DEF WriterInv, OwnerInv, Linking
<1>8. \A j \in Levels : Linked(j)' = Linked(j)
  BY <1>4, <1>6, <1>7, LinkedSame
<1>9. ArenaInv' /\ OwnerInv'
  BY <1>1, <1>4, <1>6, <1>7 DEF ArenaInv, OwnerInv, Linking, WriterInv
<1>10. SpliceInv'
  BY <1>1, <1>2, <1>4, <1>5, <1>6, <1>8 DEF SpliceInv, WriterInv
<1>11. ProgressInv'
  <2> SUFFICES ASSUME NEW u \in Writers PROVE ProgressInv!(u)'
    BY DEF ProgressInv
  <2>1. CASE u = t /\ i > 0
    BY <2>1, <1>1, <1>4, <1>5, <1>6 DEF ProgressInv, Linking, WriterInv
  <2>2. CASE u = t /\ i = 0
    BY <2>2, <1>1, <1>4, <1>5, <1>6 DEF ProgressInv, Linking, WriterInv
  <2>3. CASE u # t
    BY <2>3, <1>4, <1>5, <1>6 DEF ProgressInv, Linking, WriterInv
  <2> QED
    BY <1>1, <2>1, <2>2, <2>3
<1>12. DropInv'
  BY <1>4, <1>6, <1>8 DEF DropInv, WriterInv
<1>13. ListWellFormed'
  BY <1>6, <1>8 DEF ListWellFormed, ChainSorted, ChainComplete, WriterInv
<1> QED
  BY <1>3, <1>9, <1>10, <1>11, <1>12, <1>13 DEF WriterInv

(* A put that finds the arena full leaves the list as it was.                *)
LEMMA AllocPanicStep ==
  ASSUME WriterInv, NEW t \in Writers, AllocPanic(t)
  PROVE  WriterInv'
<1> USE Bounds
<1>1. TypeShared' /\ TypeWriters'
  BY DEF AllocPanic, Return, closing, WriterInv, TypeShared, TypeWriters, NoSplice, Ptr
<1>2. x[t] = Null
  BY DEF AllocPanic, WriterInv, OwnerInv, Linking
<1>3. /\ pc'[t] = "panicked" /\ x'[t] = Null /\ lh'[t] = 0
      /\ \A i \in Arrays : prev'[t][i] = Null /\ next'[t][i] = Null
      /\ \A u \in Writers \ {t} : /\ pc'[u] = pc[u] /\ lvl'[u] = lvl[u] /\ x'[u] = x[u]
                                  /\ wkey'[u] = wkey[u] /\ lh'[u] = lh[u] /\ before'[u] = before[u]
                                  /\ prev'[u] = prev[u] /\ next'[u] = next[u]
  BY DEF AllocPanic, Return, NoSplice, WriterInv, TypeWriters
<1>4. UNCHANGED <<nodeKey, nodeHeight, tower, nodeState, height, phase, dropAt>>
  BY DEF AllocPanic, closing
<1>5. \A i \in Levels : Linked(i)' = Linked(i)
  BY <1>2, <1>3, <1>4, LinkedSame
<1>6. ArenaInv'
  <2>1. arenaLen \in Nat /\ arenaLen >= ArenaCap /\ arenaLen' = arenaLen + 1
    BY DEF AllocPanic, WriterInv, TypeShared
  <2>2. \A n \in Slots : n \in Nat /\ n <= ArenaCap
    BY ArenaAssumption DEF Slots
  <2> QED
    BY <1>4, <2>1, <2>2, ArenaAssumption DEF ArenaInv, WriterInv
<1>7. OwnerInv'
  BY <1>2, <1>3, <1>4 DEF OwnerInv, Linking, WriterInv
<1>8. SpliceInv'
  BY <1>3, <1>4, <1>5 DEF SpliceInv, WriterInv
<1>9. ProgressInv'
  BY <1>3, <1>4 DEF ProgressInv, Linking, WriterInv, TypeShared
<1>10. DropInv'
  BY <1>3, <1>4, <1>5 DEF DropInv, WriterInv
<1>11. ListWellFormed'
  BY <1>4, <1>5 DEF ListWellFormed, ChainSorted, ChainComplete, WriterInv
<1> QED
  BY <1>1, <1>6, <1>7, <1>8, <1>9, <1>10, <1>11 DEF WriterInv

(* A level without a splice is above level 1, so the assertions hold.        *)
LEMMA FreshSpliceStep ==
  ASSUME WriterInv, NEW t \in Writers, FreshSplice(t)
  PROVE  WriterInv'
<1> USE Bounds
<1>1. lvl[t] \in Levels /\ lvl[t] > 1
  BY DEF FreshSplice, WriterInv, ProgressInv, Linking, TypeWriters
<1>2. /\ pc[t] = "link" /\ pc'[t] = "fresh" /\ before'[t] = Head
      /\ \A u \in Writers \ {t} : pc'[u] = pc[u] /\ before'[u] = before[u]
  BY <1>1 DEF FreshSplice, WriterInv, TypeWriters
<1>3. UNCHANGED <<arenaLen, nodeKey, nodeHeight, tower, nodeState, height,
                  wkey, lh, lvl, prev, next, x, phase, dropAt>>
  BY DEF FreshSplice, shared, closing
<1>4. TypeShared' /\ TypeWriters'
  BY DEF FreshSplice, shared, closing, WriterInv, TypeShared, TypeWriters, Ptr
<1>5. \A i \in Levels : Linked(i)' = Linked(i)
  BY <1>3 DEF Linked
<1>6. ArenaInv' /\ OwnerInv'
  BY <1>2, <1>3 DEF ArenaInv, OwnerInv, Linking, WriterInv
<1>7. SpliceInv'
  BY <1>2, <1>3, <1>5, LinkedBasics DEF SpliceInv, WriterInv, ArenaInv, EmptyKey
<1>8. ProgressInv'
  <2> SUFFICES ASSUME NEW u \in Writers PROVE ProgressInv!(u)'
    BY DEF ProgressInv
  <2>1. CASE u = t
    BY <2>1, <1>1, <1>2, <1>3 DEF ProgressInv, Linking, WriterInv
  <2>2. CASE u # t
    BY <2>2, <1>2, <1>3 DEF ProgressInv, Linking, WriterInv
  <2> QED
    BY <2>1, <2>2
<1>9. DropInv'
  BY <1>2, <1>3, <1>5 DEF DropInv, WriterInv
<1>10. ListWellFormed'
  BY <1>3, <1>5 DEF ListWellFormed, ChainSorted, ChainComplete, WriterInv
<1> QED
  BY <1>4, <1>6, <1>7, <1>8, <1>9, <1>10 DEF WriterInv

(* A splice found while linking brackets the key on its level.               *)
LEMMA LinkSpliceStep ==
  ASSUME WriterInv, NEW t \in Writers, LinkSplice(t)
  PROVE  WriterInv'
<1> USE Bounds
<1> DEFINE i == lvl[t]
<1>1. /\ i \in Levels
      /\ before[t] \in Linked(i) /\ before[t] \in Slots
      /\ nodeKey[before[t]] < wkey[t]
      /\ Ahead(t) \in Ptr
      /\ Ahead(t) # Null => Ahead(t) \in Linked(i) /\ wkey[t] < nodeKey[Ahead(t)]
  BY SpliceBrackets DEF LinkSplice, WriterInv, TypeWriters
<1>2. TypeShared' /\ TypeWriters'
  BY <1>1 DEF LinkSplice, shared, closing, WriterInv, TypeShared, TypeWriters, Ptr, KeepSplice
<1>3. /\ pc[t] \in {"fresh", "retry"} /\ pc'[t] = "link"
      /\ \A u \in Writers \ {t} : pc'[u] = pc[u]
  BY DEF LinkSplice, WriterInv, TypeWriters
<1>4. /\ \A u \in Writers \ {t} : prev'[u] = prev[u] /\ next'[u] = next[u]
      /\ \A j \in Arrays : /\ prev'[t][j] = IF j = i THEN before[t] ELSE prev[t][j]
                           /\ next'[t][j] = IF j = i THEN Ahead(t) ELSE next[t][j]
  BY KeepSpliceEffect DEF LinkSplice
<1>5. UNCHANGED <<arenaLen, nodeKey, nodeHeight, tower, nodeState, height,
                  wkey, lh, lvl, before, x, phase, dropAt>>
  BY DEF LinkSplice, shared, closing
<1>6. \A j \in Levels : Linked(j)' = Linked(j)
  BY <1>5 DEF Linked
<1>7. ArenaInv' /\ OwnerInv'
  BY <1>3, <1>5 DEF ArenaInv, OwnerInv, Linking, WriterInv
<1>8. SpliceInv'
  BY <1>1, <1>3, <1>4, <1>5, <1>6 DEF SpliceInv, WriterInv
<1>9. ProgressInv'
  BY <1>1, <1>3, <1>4, <1>5 DEF ProgressInv, Linking, WriterInv
<1>10. DropInv'
  BY <1>3, <1>5, <1>6 DEF DropInv, WriterInv
<1>11. ListWellFormed'
  BY <1>5, <1>6 DEF ListWellFormed, ChainSorted, ChainComplete, WriterInv
<1> QED
  BY <1>2, <1>7, <1>8, <1>9, <1>10, <1>11 DEF WriterInv

(* After a lost compare-exchange the old prev is still linked: a sound       *)
(* start.                                                                    *)
LEMMA CasFailStep ==
  ASSUME WriterInv, NEW t \in Writers, CasFail(t)
  PROVE  WriterInv'
<1> USE Bounds
<1>1. lvl[t] \in Levels /\ prev[t][lvl[t]] # Null /\ prev[t][lvl[t]] \in Ptr
  BY DEF CasFail, WriterInv, ProgressInv, TypeWriters
<1>2. /\ pc[t] = "cas" /\ pc'[t] = "retry" /\ before'[t] = prev[t][lvl[t]]
      /\ \A u \in Writers \ {t} : pc'[u] = pc[u] /\ before'[u] = before[u]
  BY DEF CasFail, WriterInv, TypeWriters
<1>3. UNCHANGED <<arenaLen, nodeKey, nodeHeight, tower, nodeState, height,
                  wkey, lh, lvl, prev, next, x, phase, dropAt>>
  BY DEF CasFail, shared, closing
<1>4. TypeShared' /\ TypeWriters'
  BY <1>1 DEF CasFail, shared, closing, WriterInv, TypeShared, TypeWriters, Ptr
<1>5. \A i \in Levels : Linked(i)' = Linked(i)
  BY <1>3 DEF Linked
<1>6. ArenaInv' /\ OwnerInv'
  BY <1>2, <1>3 DEF ArenaInv, OwnerInv, Linking, WriterInv
<1>7. SpliceInv'
  BY <1>1, <1>2, <1>3, <1>5 DEF SpliceInv, WriterInv
<1>8. ProgressInv'
  BY <1>1, <1>2, <1>3 DEF ProgressInv, Linking, WriterInv
<1>9. DropInv'
  BY <1>2, <1>3, <1>5 DEF DropInv, WriterInv
<1>10. ListWellFormed'
  BY <1>3, <1>5 DEF ListWellFormed, ChainSorted, ChainComplete, WriterInv
<1> QED
  BY <1>4, <1>6, <1>7, <1>8, <1>9, <1>10 DEF WriterInv

(* The list height only grows, and reaches the height of the node to be      *)
(* linked.                                                                   *)
LEMMA RaiseHeightStep ==
  ASSUME WriterInv, NEW t \in Writers, RaiseHeight(t)
  PROVE  WriterInv'
<1> USE Bounds
<1>1. /\ pc[t] = "raise" /\ x[t] # Null /\ x[t] \in Slots /\ nodeHeight[x[t]] \in Levels
      /\ lh[t] < nodeHeight[x[t]] /\ lh[t] \in Levels /\ height \in Levels
  <2>1. pc[t] = "raise" /\ x[t] # Null
    BY DEF RaiseHeight, WriterInv, OwnerInv, Linking
  <2>2. x[t] \in Slots
    BY <2>1 DEF WriterInv, TypeWriters, Ptr
  <2>3. lh[t] < nodeHeight[x[t]]
    BY <2>1 DEF WriterInv, ProgressInv
  <2> QED
    BY <2>1, <2>2, <2>3 DEF WriterInv, TypeWriters, TypeShared
<1>2. UNCHANGED <<arenaLen, nodeKey, nodeHeight, tower, nodeState,
                  wkey, lvl, before, prev, next, x, phase, dropAt>>
  BY DEF RaiseHeight, closing
<1>3. /\ height' \in Levels /\ height <= height' /\ lh'[t] \in Levels /\ lh'[t] <= height'
      /\ \/ pc'[t] = "raise" /\ lh'[t] < nodeHeight[x[t]]
         \/ pc'[t] = "link" /\ nodeHeight[x[t]] <= height'
      /\ \A u \in Writers \ {t} : pc'[u] = pc[u] /\ lh'[u] = lh[u]
  BY <1>1 DEF RaiseHeight, WriterInv, TypeWriters
<1>4. TypeShared' /\ TypeWriters'
  <2>1. TypeShared'
    BY <1>2, <1>3 DEF RaiseHeight, WriterInv, TypeShared
  <2>2. TypeWriters'
    <3>1. CASE height = lh[t]
      BY <3>1, <1>2 DEF RaiseHeight, WriterInv, TypeWriters
    <3>2. CASE height # lh[t]
      <4>1. /\ lh' = [lh EXCEPT ![t] = height] /\ UNCHANGED <<wval, resp>>
            /\ \E p \in {"raise", "link"} : pc' = [pc EXCEPT ![t] = p]
        BY <3>2 DEF RaiseHeight
      <4> QED
        BY <4>1, <1>1, <1>2 DEF WriterInv, TypeWriters
    <3> QED
      BY <3>1, <3>2
  <2> QED
    BY <2>1, <2>2
<1>5. \A i \in Levels : Linked(i)' = Linked(i)
  BY <1>2 DEF Linked
<1>6. ArenaInv' /\ OwnerInv'
  BY <1>1, <1>2, <1>3 DEF ArenaInv, OwnerInv, Linking, WriterInv
<1>7. SpliceInv'
  BY <1>1, <1>2, <1>3, <1>5 DEF SpliceInv, WriterInv
<1>8. ProgressInv'
  <2> SUFFICES ASSUME NEW u \in Writers PROVE ProgressInv!(u)'
    BY DEF ProgressInv
  <2>1. CASE u = t
    BY <2>1, <1>1, <1>2, <1>3 DEF ProgressInv, Linking, WriterInv
  <2>2. CASE u # t
    <3>1. lh[u] \in Nat /\ (x[u] # Null => nodeHeight[x[u]] \in Nat)
      BY DEF WriterInv, TypeWriters, TypeShared, Ptr
    <3> QED
      BY <2>2, <3>1, <1>1, <1>2, <1>3 DEF ProgressInv, OwnerInv, Linking, WriterInv
  <2> QED
    BY <2>1, <2>2
<1>9. DropInv'
  BY <1>1, <1>2, <1>3, <1>5 DEF DropInv, WriterInv
<1>10. ListWellFormed'
  BY <1>1, <1>2, <1>3, <1>5 DEF ListWellFormed, ChainSorted, ChainComplete, WriterInv
<1> QED
  BY <1>4, <1>6, <1>7, <1>8, <1>9, <1>10 DEF WriterInv

(* The new node points behind its splice before anyone can see it.           *)
LEMMA StoreNextStep ==
  ASSUME WriterInv, NEW t \in Writers, StoreNext(t)
  PROVE  WriterInv'
<1> USE Bounds
<1> DEFINE i == lvl[t]
           y == x[t]
<1>1. /\ pc[t] = "link" /\ y # Null /\ y \in Slots /\ y # Head /\ i \in Levels
      /\ prev[t][i] # Null /\ next[t][i] \in Ptr
      /\ \A u \in Writers \ {t} : x[u] # y
  BY DEF StoreNext, WriterInv, TypeWriters, OwnerInv, Linking, Ptr
<1>2. y \notin Linked(i)
  BY <1>1 DEF Linked
<1>3. UNCHANGED <<arenaLen, nodeKey, nodeHeight, nodeState, height,
                  wkey, lh, lvl, before, prev, next, x, phase, dropAt>>
  BY DEF StoreNext, closing
<1>4. /\ pc'[t] = "cas" /\ tower'[y][i] = next[t][i]
      /\ \A u \in Writers \ {t} : pc'[u] = pc[u]
      /\ \A n \in Slots, j \in Levels : n # y \/ j # i => tower'[n][j] = tower[n][j]
  BY <1>1 DEF StoreNext, WriterInv, TypeWriters, TypeShared
<1>5. TypeShared' /\ TypeWriters'
  BY <1>1 DEF StoreNext, closing, WriterInv, TypeShared, TypeWriters
<1>6. \A j \in Levels : Linked(j)' = Linked(j)
  BY <1>3 DEF Linked
<1>7. ArenaInv' /\ OwnerInv'
  BY <1>1, <1>3, <1>4 DEF ArenaInv, OwnerInv, Linking, WriterInv
<1>8. SpliceInv'
  BY <1>1, <1>3, <1>4, <1>6 DEF SpliceInv, WriterInv
<1>9. ProgressInv'
  <2> SUFFICES ASSUME NEW u \in Writers PROVE ProgressInv!(u)'
    BY DEF ProgressInv
  <2>1. CASE u = t
    BY <2>1, <1>1, <1>3, <1>4 DEF ProgressInv, Linking, WriterInv
  <2>2. CASE u # t
    <3>1. pc[u] = "cas" => x[u] \in Slots /\ x[u] # y /\ lvl[u] \in Levels
      BY <2>2, <1>1 DEF WriterInv, OwnerInv, TypeWriters, Linking, Ptr
    <3> QED
      BY <2>2, <3>1, <1>3, <1>4 DEF ProgressInv, Linking, WriterInv
  <2> QED
    BY <2>1, <2>2
<1>10. DropInv'
  BY <1>1, <1>3, <1>4, <1>6 DEF DropInv, WriterInv
<1>11. ListWellFormed'
  <2>1. \A j \in Levels : \A n \in Linked(j) : tower'[n][j] = tower[n][j]
    BY <1>1, <1>2, <1>4, LinkedBasics
  <2> QED
    BY <2>1, <1>3, <1>6 DEF ListWellFormed, ChainSorted, ChainComplete, WriterInv
<1> QED
  BY <1>5, <1>7, <1>8, <1>9, <1>10, <1>11 DEF WriterInv

(* A new node is private to its writer and linked nowhere.                   *)
LEMMA AllocStep ==
  ASSUME WriterInv, NEW t \in Writers, NEW h \in Levels, Alloc(t, h)
  PROVE  WriterInv'
<1> USE Bounds
<1> DEFINE y == arenaLen + 1
<1>1. /\ y \in Slots /\ y # Head /\ y # Null /\ arenaLen \in Nat /\ arenaLen >= 1
      /\ nodeState[y] = "free" /\ x[t] = Null /\ pc[t] = "alloc" /\ lvl[t] = 0
      /\ phase = "open" /\ wkey[t] \in Keys
      /\ \A u \in Writers : x[u] # y
  <2>1. arenaLen \in Nat /\ arenaLen >= 1 /\ arenaLen < ArenaCap /\ pc[t] = "alloc"
    BY DEF Alloc, WriterInv, TypeShared, ArenaInv
  <2>2. y \in Slots /\ y # Head /\ y # Null /\ y > arenaLen
    BY <2>1, ArenaAssumption DEF Slots, Head, Null
  <2>3. nodeState[y] = "free"
    BY <2>2 DEF WriterInv, ArenaInv
  <2> QED
    BY <2>1, <2>2, <2>3 DEF WriterInv, OwnerInv, Linking, ProgressInv, DropInv, SpliceInv
<1>2. UNCHANGED <<height, wkey, lh, lvl, before, prev, next, phase, dropAt>>
  BY DEF Alloc, closing
<1>3. /\ arenaLen' = y /\ x'[t] = y
      /\ nodeKey'[y] = wkey[t] /\ nodeHeight'[y] = h /\ nodeState'[y] = "live"
      /\ pc'[t] = IF h > lh[t] THEN "raise" ELSE "link"
      /\ \A u \in Writers \ {t} : pc'[u] = pc[u] /\ x'[u] = x[u]
      /\ \A n \in Slots \ {y} : /\ nodeKey'[n] = nodeKey[n] /\ nodeHeight'[n] = nodeHeight[n]
                                /\ nodeState'[n] = nodeState[n] /\ tower'[n] = tower[n]
  BY <1>1 DEF Alloc, WriterInv, TypeWriters, TypeShared
<1>4. TypeShared' /\ TypeWriters'
  BY <1>1 DEF Alloc, closing, WriterInv, TypeShared, TypeWriters, Ptr
<1>5. \A j \in Levels : y \notin Linked(j)
  BY <1>1 DEF Linked
<1>6. \A j \in Levels : Linked(j)' = Linked(j)
  <2> SUFFICES ASSUME NEW j \in Levels, NEW n \in Slots, n # Head
               PROVE  n \in Linked(j)' <=> n \in Linked(j)
    BY DEF Linked
  <2>1. CASE n = y
    BY <2>1, <1>1, <1>2, <1>3, <1>5 DEF Linked
  <2>2. CASE n # y
    BY <2>2, <1>1, <1>2, <1>3 DEF Linked
  <2> QED
    BY <2>1, <2>2
<1>7. ArenaInv'
  <2>1. \A n \in Slots \ {y} : n \in Nat /\ (n > arenaLen <=> n > y)
    BY <1>1
  <2> QED
    BY <1>1, <1>3, <2>1 DEF ArenaInv, WriterInv
<1>8. OwnerInv'
  <2> SUFFICES ASSUME NEW u \in Writers PROVE OwnerInv!(u)'
    BY DEF OwnerInv
  <2>1. CASE u = t
    BY <2>1, <1>1, <1>2, <1>3 DEF Linking
  <2>2. CASE u # t
    <3>1. x[u] # Null => x[u] \in Slots \ {y}
      BY <1>1 DEF WriterInv, TypeWriters, Ptr
    <3>2. pc'[u] = pc[u] /\ x'[u] = x[u]
      BY <2>2, <1>3
    <3>3. x[u] # Null => \A w \in Writers : x'[w] = x[u] => w = u
      BY <3>1, <1>3 DEF OwnerInv, WriterInv
    <3>4. x[u] # Null => /\ nodeState'[x[u]] = nodeState[x[u]] /\ nodeKey'[x[u]] = nodeKey[x[u]]
                         /\ nodeHeight'[x[u]] = nodeHeight[x[u]]
      BY <3>1, <1>3
    <3> QED
      BY <3>2, <3>3, <3>4, <1>2 DEF OwnerInv, Linking, WriterInv
  <2> QED
    BY <2>1, <2>2
<1>9. SpliceInv'
  <2> SUFFICES ASSUME NEW u \in Writers PROVE SpliceInv!(u)'
    BY DEF SpliceInv
  <2>1. \A j \in Levels : \A n \in Linked(j) : nodeKey'[n] = nodeKey[n]
    <3>1. \A j \in Levels : \A n \in Linked(j) : n \in Slots \ {y}
      BY <1>5, LinkedBasics
    <3> QED
      BY <3>1, <1>3
  <2>2. pc'[u] = pc[u] \/ (pc[u] = "alloc" /\ pc'[u] \in {"raise", "link"})
    BY <1>1, <1>3
  <2> QED
    BY <2>1, <2>2, <1>2, <1>6 DEF SpliceInv, WriterInv
<1>10. ProgressInv'
  <2> SUFFICES ASSUME NEW u \in Writers PROVE ProgressInv!(u)'
    BY DEF ProgressInv
  <2>1. CASE u = t
    <3>1. lh[t] \in Nat /\ height \in Nat /\ lh[t] <= height
      BY DEF WriterInv, TypeWriters, TypeShared, ProgressInv
    <3> QED
      BY <2>1, <3>1, <1>1, <1>2, <1>3 DEF ProgressInv, Linking, WriterInv
  <2>2. CASE u # t
    <3>1. Linking(u) => x[u] \in Slots \ {y}
      BY <1>1 DEF WriterInv, OwnerInv, TypeWriters, Ptr
    <3>2. /\ pc'[u] = pc[u] /\ x'[u] = x[u]
          /\ Linking(u) => nodeHeight'[x[u]] = nodeHeight[x[u]] /\ tower'[x[u]] = tower[x[u]]
      BY <2>2, <3>1, <1>3
    <3> QED
      BY <3>2, <1>2 DEF ProgressInv, Linking, WriterInv
  <2> QED
    BY <2>1, <2>2
<1>11. DropInv'
  BY <1>1, <1>2, <1>3 DEF DropInv, WriterInv
<1>12. ListWellFormed'
  <2>1. \A j \in Levels : \A n \in Linked(j) : n \in Slots \ {y}
    BY <1>5, LinkedBasics
  <2>2. \A j \in Levels : \A n \in Linked(j) : tower[n][j] # Null => tower[n][j] \in Linked(j)
    BY DEF WriterInv, ListWellFormed, ChainSorted
  <2>3. \A j \in Levels : \A n \in Linked(j) :
           /\ tower'[n][j] = tower[n][j] /\ nodeKey'[n] = nodeKey[n]
           /\ tower[n][j] # Null => nodeKey'[tower[n][j]] = nodeKey[tower[n][j]]
    BY <2>1, <2>2, <1>3
  <2> QED
    BY <2>3, <1>2, <1>6 DEF ListWellFormed, ChainSorted, ChainComplete, WriterInv
<1> QED
  BY <1>4, <1>7, <1>8, <1>9, <1>10, <1>11, <1>12 DEF WriterInv

(* The key of a node being linked is met again only at level 0, by a put     *)
(* that lost the race: above it the node itself is the one with that key.    *)
LEMMA FoundAtBottom ==
  ASSUME WriterInv, NEW t \in Writers, pc[t] \in {"fresh", "retry"}, SpliceEqual(t)
  PROVE  lvl[t] = 0
<1> USE Bounds
<1> DEFINE i == lvl[t]
           y == x[t]
           a == Ahead(t)
<1>1. /\ i \in Levels /\ y # Null /\ y \in Slots /\ y # Head /\ nodeState[y] = "live"
      /\ nodeKey[y] = wkey[t] /\ i <= nodeHeight[y] /\ nodeHeight[y] \in Levels
      /\ \A u \in Writers : x[u] = y => u = t
  <2>1. /\ y # Null /\ y # Head /\ nodeState[y] = "live" /\ nodeKey[y] = wkey[t]
        /\ i <= nodeHeight[y] /\ \A u \in Writers : x[u] = y => u = t
    BY DEF WriterInv, OwnerInv, Linking
  <2>2. i \in Levels /\ y \in Slots
    BY <2>1 DEF WriterInv, TypeWriters, Ptr
  <2>3. nodeHeight[y] \in Levels
    BY <2>2 DEF WriterInv, TypeShared
  <2> QED
    BY <2>1, <2>2, <2>3
<1>2. a \in Linked(i) /\ nodeKey[a] = wkey[t]
  BY AheadLinked DEF SpliceEqual
<1>3. y \notin Linked(i)
  BY <1>1 DEF Linked
<1>4. i > 0 => y \in Linked(0)
  BY <1>1 DEF Linked
<1>5. a \in Linked(0)
  BY <1>1, <1>2, LinkedBasics
<1> QED
  BY <1>1, <1>2, <1>3, <1>4, <1>5 DEF WriterInv, ListWellFormed, ChainComplete

(* A put that lost the race at level 0 gives up its node; above, it cannot   *)
(* lose.                                                                     *)
LEMMA LinkFoundStep ==
  ASSUME WriterInv, NEW t \in Writers, LinkFound(t)
  PROVE  WriterInv'
<1> USE Bounds
<1> DEFINE y == x[t]
<1>1. /\ lvl[t] = 0 /\ y # Null /\ y \in Slots /\ y # Head /\ nodeState[y] = "live"
      /\ \A u \in Writers : x[u] = y => u = t
      /\ arenaLen \in Nat /\ phase = "open" /\ y <= arenaLen
  <2>1. lvl[t] = 0
    BY FoundAtBottom DEF LinkFound
  <2>2. y # Null /\ y # Head /\ nodeState[y] = "live" /\ \A u \in Writers : x[u] = y => u = t
    BY DEF LinkFound, WriterInv, OwnerInv, Linking
  <2>3. y \in Slots /\ arenaLen \in Nat
    BY <2>2 DEF WriterInv, TypeWriters, TypeShared, Ptr
  <2>4. phase = "open"
    BY DEF LinkFound, WriterInv, DropInv
  <2>5. y <= arenaLen
    <3>1. nodeState[y] = "free" <=> y > arenaLen
      BY <2>3 DEF WriterInv, ArenaInv
    <3>2. ~(y > arenaLen) /\ y \in Nat /\ arenaLen \in Nat
      BY <2>2, <2>3, <3>1
    <3> QED
      BY <3>2
  <2> QED
    BY <2>1, <2>2, <2>3, <2>4, <2>5
<1>2. /\ \E a \in {"Some", "None"} : Return(t, "idle", a)
      /\ \E s \in {"taken", "dropped"} : nodeState' = [nodeState EXCEPT ![y] = s]
      /\ nodeKey' = [nodeKey EXCEPT ![y] = EmptyKey] \/ UNCHANGED nodeKey
      /\ nodeVal' = [nodeVal EXCEPT ![y] = NoVal] \/ UNCHANGED nodeVal
      /\ UNCHANGED <<arenaLen, nodeHeight, tower, height, phase, dropAt>>
  BY <1>1 DEF LinkFound, closing
<1>3. /\ pc'[t] = "idle" /\ x'[t] = Null /\ lh'[t] = 0
      /\ \A i \in Arrays : prev'[t][i] = Null /\ next'[t][i] = Null
      /\ \A u \in Writers \ {t} : /\ pc'[u] = pc[u] /\ lvl'[u] = lvl[u] /\ x'[u] = x[u]
                                  /\ wkey'[u] = wkey[u] /\ lh'[u] = lh[u] /\ before'[u] = before[u]
                                  /\ prev'[u] = prev[u] /\ next'[u] = next[u]
  BY <1>2 DEF Return, NoSplice, WriterInv, TypeWriters
<1>4. /\ nodeState'[y] \in {"taken", "dropped"}
      /\ \A n \in Slots \ {y} : nodeState'[n] = nodeState[n] /\ nodeKey'[n] = nodeKey[n]
  BY <1>1, <1>2 DEF WriterInv, TypeShared
<1>5. TypeShared'
  BY <1>1, <1>2 DEF WriterInv, TypeShared
<1>6. TypeWriters'
  BY <1>2 DEF Return, NoSplice, WriterInv, TypeWriters, Ptr
<1>7. \A i \in Levels : y \notin Linked(i)
  BY <1>1 DEF Linked
<1>8. \A i \in Levels : Linked(i)' = Linked(i)
  <2> SUFFICES ASSUME NEW i \in Levels, NEW n \in Slots, n # Head
               PROVE  n \in Linked(i)' <=> n \in Linked(i)
    BY DEF Linked
  <2>1. CASE n = y
    BY <2>1, <1>1, <1>4, <1>7 DEF Linked
  <2>2. CASE n # y
    <3>1. (\A u \in Writers : x'[u] = n => i < lvl'[u]) <=> (\A u \in Writers : x[u] = n => i < lvl[u])
      BY <2>2, <1>3
    <3> QED
      BY <2>2, <3>1, <1>2, <1>4 DEF Linked
  <2> QED
    BY <2>1, <2>2
<1>9. \A i \in Levels : \A n \in Linked(i) :
         /\ n \in Slots \ {y} /\ nodeKey'[n] = nodeKey[n] /\ nodeState'[n] = nodeState[n]
  <2>1. \A i \in Levels : \A n \in Linked(i) : n \in Slots \ {y}
    BY <1>7, LinkedBasics
  <2> QED
    BY <2>1, <1>4
<1>10. ArenaInv'
  BY <1>1, <1>2, <1>4 DEF ArenaInv, WriterInv
<1>11. OwnerInv'
  <2> SUFFICES ASSUME NEW u \in Writers PROVE OwnerInv!(u)'
    BY DEF OwnerInv
  <2>1. CASE u = t
    BY <2>1, <1>3 DEF Linking
  <2>2. CASE u # t
    <3>1. x[u] # Null => x[u] \in Slots \ {y}
      BY <1>1, <2>2 DEF WriterInv, TypeWriters, Ptr
    <3>2. x[u] # Null => \A w \in Writers : x'[w] = x[u] => w = u
      BY <3>1, <1>3 DEF OwnerInv, WriterInv
    <3>3. /\ pc'[u] = pc[u] /\ x'[u] = x[u] /\ lvl'[u] = lvl[u] /\ wkey'[u] = wkey[u]
          /\ x[u] # Null => /\ nodeState'[x[u]] = nodeState[x[u]] /\ nodeKey'[x[u]] = nodeKey[x[u]]
                            /\ nodeHeight'[x[u]] = nodeHeight[x[u]]
      BY <2>2, <3>1, <1>2, <1>3, <1>4
    <3> QED
      BY <3>2, <3>3 DEF OwnerInv, Linking, WriterInv
  <2> QED
    BY <2>1, <2>2
<1>12. SpliceInv'
  <2> SUFFICES ASSUME NEW u \in Writers PROVE SpliceInv!(u)'
    BY DEF SpliceInv
  <2>1. CASE u = t
    BY <2>1, <1>3
  <2>2. CASE u # t
    BY <2>2, <1>3, <1>8, <1>9 DEF SpliceInv, WriterInv
  <2> QED
    BY <2>1, <2>2
<1>13. ProgressInv'
  <2> SUFFICES ASSUME NEW u \in Writers PROVE ProgressInv!(u)'
    BY DEF ProgressInv
  <2>1. CASE u = t
    BY <2>1, <1>2, <1>3 DEF Linking, WriterInv, TypeShared
  <2>2. CASE u # t
    BY <2>2, <1>2, <1>3 DEF ProgressInv, Linking, WriterInv
  <2> QED
    BY <2>1, <2>2
<1>14. DropInv'
  BY <1>1, <1>2, <1>4 DEF DropInv, WriterInv
<1>15. ListWellFormed'
  <2>1. \A i \in Levels : \A n \in Linked(i) : tower[n][i] # Null => tower[n][i] \in Linked(i)
    BY DEF WriterInv, ListWellFormed, ChainSorted
  <2> QED
    BY <2>1, <1>2, <1>8, <1>9 DEF ListWellFormed, ChainSorted, ChainComplete, WriterInv
<1> QED
  BY <1>5, <1>6, <1>10, <1>11, <1>12, <1>13, <1>14, <1>15 DEF WriterInv

(* The compare-exchange that links node x of writer t at its level: what it   *)
(* knew before, and what the levels hold afterwards.                         *)
LEMMA CasLinkFacts ==
  ASSUME WriterInv, NEW t \in Writers, pc[t] = "cas"
  PROVE  LET i == lvl[t]
             y == x[t]
             p == prev[t][i]
             s == next[t][i]
         IN  /\ i \in Levels /\ y # Null /\ y \in Slots /\ y # Head
             /\ nodeState[y] = "live" /\ nodeKey[y] = wkey[t] /\ wkey[t] \in Keys
             /\ i <= nodeHeight[y] /\ nodeHeight[y] \in Levels /\ nodeHeight[y] <= height
             /\ \A u \in Writers : x[u] = y => u = t
             /\ p \in Linked(i) /\ p \in Slots /\ p # y /\ nodeKey[p] < wkey[t]
             /\ s # Null => s \in Linked(i) /\ s # Head /\ wkey[t] < nodeKey[s]
             /\ tower[y][i] = s /\ y \notin Linked(i) /\ phase = "open"
<1> USE Bounds
<1> DEFINE i == lvl[t]
           y == x[t]
           p == prev[t][i]
           s == next[t][i]
<1>1. /\ y # Null /\ y # Head /\ nodeState[y] = "live" /\ nodeKey[y] = wkey[t]
      /\ i <= nodeHeight[y] /\ \A u \in Writers : x[u] = y => u = t
  BY DEF WriterInv, OwnerInv, Linking
<1>2. i \in Levels /\ y \in Slots
  BY <1>1 DEF WriterInv, TypeWriters, Ptr
<1>3. nodeHeight[y] \in Levels
  BY <1>2 DEF WriterInv, TypeShared
<1>4. nodeHeight[y] <= height /\ p # Null /\ tower[y][i] = s
  BY DEF WriterInv, ProgressInv
<1>5. /\ wkey[t] \in Keys /\ p \in Linked(i) /\ nodeKey[p] < wkey[t]
      /\ s # Null => s \in Linked(i) /\ wkey[t] < nodeKey[s]
  BY <1>2, <1>4 DEF WriterInv, SpliceInv
<1>6. y \notin Linked(i)
  BY <1>1, <1>2 DEF Linked
<1>7. p \in Slots /\ p # y
  BY <1>2, <1>5, <1>6, LinkedBasics
<1>8. s # Head
  BY <1>1, <1>4, <1>5 DEF WriterInv, ArenaInv, EmptyKey, Head, Null
<1>9. phase = "open"
  BY DEF WriterInv, DropInv
<1> QED
  BY <1>1, <1>2, <1>3, <1>4, <1>5, <1>6, <1>7, <1>8, <1>9

(* What the successful compare-exchange changes.                             *)
LEMMA CasLinkEffect ==
  ASSUME WriterInv, NEW t \in Writers, CasLink(t)
  PROVE  LET i == lvl[t]
             y == x[t]
         IN  /\ UNCHANGED <<arenaLen, nodeKey, nodeHeight, nodeState, height, phase, dropAt>>
             /\ tower'[prev[t][i]][i] = y /\ tower[prev[t][i]][i] = next[t][i]
             /\ \A n \in Slots, j \in Levels : n # prev[t][i] \/ j # i => tower'[n][j] = tower[n][j]
             /\ \A u \in Writers \ {t} :
                  /\ pc'[u] = pc[u] /\ lvl'[u] = lvl[u] /\ x'[u] = x[u]
                  /\ wkey'[u] = wkey[u] /\ lh'[u] = lh[u] /\ before'[u] = before[u]
                  /\ prev'[u] = prev[u] /\ next'[u] = next[u]
             /\ \/ /\ i < nodeHeight[y] /\ lvl'[t] = i + 1 /\ pc'[t] = "link"
                   /\ UNCHANGED <<x, wkey, lh, before, prev, next>>
                \/ /\ i = nodeHeight[y] /\ lvl'[t] = 0 /\ pc'[t] = "idle" /\ x'[t] = Null /\ lh'[t] = 0
                   /\ \A j \in Arrays : prev'[t][j] = Null /\ next'[t][j] = Null
<1> USE Bounds
<1>1. lvl[t] \in Levels /\ prev[t][lvl[t]] \in Slots
  BY CasLinkFacts DEF CasLink, LinkNode
<1>2. tower' = [tower EXCEPT ![prev[t][lvl[t]]][lvl[t]] = x[t]]
  BY DEF CasLink, LinkNode
<1>3. /\ tower'[prev[t][lvl[t]]][lvl[t]] = x[t]
      /\ \A n \in Slots, j \in Levels :
            n # prev[t][lvl[t]] \/ j # lvl[t] => tower'[n][j] = tower[n][j]
  BY <1>1, <1>2 DEF WriterInv, TypeShared
<1>4. CASE lvl[t] < nodeHeight[x[t]] /\ lvl' = [lvl EXCEPT ![t] = lvl[t] + 1]
  BY <1>3, <1>4 DEF CasLink, LinkNode, Return, closing, WriterInv, TypeWriters, NoSplice
<1>5. CASE lvl[t] = nodeHeight[x[t]] /\ Return(t, "idle", "None")
  BY <1>3, <1>5 DEF CasLink, LinkNode, Return, closing, WriterInv, TypeWriters, NoSplice
<1> QED
  BY <1>4, <1>5 DEF CasLink, LinkNode

(* It links the new node at its level and nothing else anywhere.             *)
LEMMA CasLinkLinks ==
  ASSUME WriterInv, NEW t \in Writers, CasLink(t)
  PROVE  \A j \in Levels : Linked(j)' = IF j = lvl[t] THEN Linked(j) \cup {x[t]} ELSE Linked(j)
<1> USE Bounds
<1> DEFINE i == lvl[t]
           y == x[t]
<1>1. /\ i \in Levels /\ y \in Slots /\ y # Head /\ y # Null /\ nodeState[y] = "live"
      /\ i <= nodeHeight[y] /\ nodeHeight[y] \in Levels
      /\ \A u \in Writers : x[u] = y => u = t
  BY CasLinkFacts DEF CasLink, LinkNode
<1>2. /\ UNCHANGED <<nodeHeight, nodeState>>
      /\ \A u \in Writers \ {t} : lvl'[u] = lvl[u] /\ x'[u] = x[u]
      /\ \/ i < nodeHeight[y] /\ lvl'[t] = i + 1 /\ x'[t] = y
         \/ i = nodeHeight[y] /\ x'[t] = Null
  BY CasLinkEffect
<1> SUFFICES ASSUME NEW j \in Levels, NEW n \in Slots, n # Head
             PROVE  n \in Linked(j)' <=> n \in Linked(j) \/ (j = i /\ n = y)
  BY <1>1 DEF Linked
<1>3. CASE n = y
  <2>1. n \in Linked(j) <=> j <= nodeHeight[y] /\ j < i
    BY <1>1, <1>3 DEF Linked
  <2>2. n \in Linked(j)' <=> j <= nodeHeight[y] /\ j <= i
    BY <1>1, <1>2, <1>3 DEF Linked
  <2> QED
    BY <2>1, <2>2, <1>1, <1>3
<1>4. CASE n # y
  <2>1. (\A u \in Writers : x'[u] = n => j < lvl'[u]) <=> (\A u \in Writers : x[u] = n => j < lvl[u])
    BY <1>1, <1>2, <1>4
  <2> QED
    BY <2>1, <1>2, <1>4 DEF Linked
<1> QED
  BY <1>3, <1>4

(* The levels are sorted, complete chains afterwards.                        *)
LEMMA CasLinkChains ==
  ASSUME WriterInv, NEW t \in Writers, CasLink(t)
  PROVE  ListWellFormed'
<1> USE Bounds
<1> DEFINE i == lvl[t]
           y == x[t]
           p == prev[t][i]
           s == next[t][i]
<1>1. /\ i \in Levels /\ y # Null /\ y \in Slots /\ y # Head
      /\ nodeKey[y] = wkey[t] /\ wkey[t] \in Nat
      /\ i <= nodeHeight[y] /\ nodeHeight[y] \in Levels /\ nodeHeight[y] <= height
      /\ p \in Linked(i) /\ p \in Slots /\ p # y /\ nodeKey[p] < wkey[t]
      /\ s # Null => s \in Linked(i) /\ s # Head /\ wkey[t] < nodeKey[s]
      /\ tower[y][i] = s /\ y \notin Linked(i)
  BY CasLinkFacts DEF CasLink, LinkNode
<1>2. /\ UNCHANGED <<nodeKey, height>>
      /\ tower'[p][i] = y /\ tower[p][i] = s
      /\ \A n \in Slots, j \in Levels : n # p \/ j # i => tower'[n][j] = tower[n][j]
  BY CasLinkEffect
<1>3. \A j \in Levels : Linked(j)' = IF j = i THEN Linked(j) \cup {y} ELSE Linked(j)
  BY CasLinkLinks
<1>4. \A j \in Levels : \A n \in Linked(j) : n \in Slots /\ nodeKey[n] \in Nat
  BY LinkedBasics
<1>5. \A j \in Levels : ChainSorted(j) /\ ChainComplete(j) /\ (Linked(j) # {Head} => j <= height)
  BY DEF WriterInv, ListWellFormed
<1>6. SUFFICES ASSUME NEW j \in Levels
               PROVE  ChainSorted(j)' /\ ChainComplete(j)' /\ (Linked(j)' # {Head} => j <= height')
  BY DEF ListWellFormed
<1>7. CASE j # i
  <2>1. \A n \in Linked(j) : tower'[n][j] = tower[n][j]
    BY <1>2, <1>4, <1>7
  <2> QED
    BY <2>1, <1>2, <1>3, <1>5, <1>7 DEF ChainSorted, ChainComplete
<1>8. CASE j = i
  <2>1. /\ Linked(j)' = Linked(j) \cup {y} /\ y \notin Linked(j)
        /\ p \in Linked(j) /\ tower'[p][j] = y /\ tower[p][j] = s /\ tower'[y][j] = s
        /\ \A n \in Linked(j) \ {p} : tower'[n][j] = tower[n][j]
    BY <1>1, <1>2, <1>3, <1>4, <1>8
  <2>2. /\ s # Null => s \in Linked(j) /\ s # Head /\ nodeKey[y] < nodeKey[s] /\ nodeKey[s] \in Nat
        /\ nodeKey[p] < nodeKey[y] /\ nodeKey[y] \in Nat /\ nodeKey[p] \in Nat
        /\ nodeKey' = nodeKey
    BY <1>1, <1>2, <1>4, <1>8
  <2>3. \A n \in Linked(j) : nodeKey[n] \in Nat /\ nodeKey[n] # nodeKey[y]
    BY <2>1, <2>2, <1>4, <1>5 DEF ChainComplete
  <2>4. \A n \in Linked(j) \ {p} : nodeKey[n] < nodeKey[y] => nodeKey[n] < nodeKey[p]
    BY <2>1, <2>2, <2>3, <1>5 DEF ChainComplete
  <2>5. ChainSorted(j)'
    <3> SUFFICES ASSUME NEW n \in Linked(j)', tower'[n][j] # Null
                 PROVE  tower'[n][j] \in Linked(j)' \ {Head} /\ nodeKey'[n] < nodeKey'[tower'[n][j]]
      BY DEF ChainSorted
    <3>1. CASE n = y
      BY <3>1, <2>1, <2>2
    <3>2. CASE n = p
      BY <3>2, <2>1, <2>2, <1>1
    <3>3. CASE n # y /\ n # p
      BY <3>3, <2>1, <2>2, <1>5 DEF ChainSorted
    <3> QED
      BY <3>1, <3>2, <3>3
  <2>6. ChainComplete(j)'
    <3> SUFFICES ASSUME NEW n \in Linked(j)', NEW z \in Linked(j)'
                 PROVE  /\ n # z => nodeKey'[n] # nodeKey'[z]
                        /\ nodeKey'[n] < nodeKey'[z] =>
                             tower'[n][j] # Null /\ nodeKey'[tower'[n][j]] <= nodeKey'[z]
      BY DEF ChainComplete
    <3>1. n # z => nodeKey[n] # nodeKey[z]
      BY <2>1, <2>3, <1>5 DEF ChainComplete
    <3>2. ASSUME nodeKey[n] < nodeKey[z]
          PROVE  tower'[n][j] # Null /\ nodeKey[tower'[n][j]] <= nodeKey[z]
      <4>1. CASE n = y
        <5>1. z \in Linked(j) /\ nodeKey[p] < nodeKey[z]
          BY <3>2, <4>1, <2>1, <2>2, <2>3
        <5> QED
          BY <4>1, <5>1, <2>1, <1>5 DEF ChainComplete
      <4>2. CASE n = p /\ z = y
        BY <4>2, <2>1, <2>2, <1>1
      <4>3. CASE n = p /\ z # y
        <5>1. z \in Linked(j) /\ s # Null /\ nodeKey[s] <= nodeKey[z]
          BY <3>2, <4>3, <2>1, <1>5 DEF ChainComplete
        <5> QED
          BY <4>3, <5>1, <2>1, <2>2, <2>3, <1>1
      <4>4. CASE n \notin {y, p} /\ z = y
        <5>1. n \in Linked(j) \ {p} /\ nodeKey[n] < nodeKey[p]
          BY <3>2, <4>4, <2>1, <2>4
        <5>2. tower[n][j] # Null /\ nodeKey[tower[n][j]] <= nodeKey[p]
          BY <5>1, <2>1, <1>5 DEF ChainComplete
        <5>3. tower[n][j] \in Linked(j)
          BY <5>1, <5>2, <1>5 DEF ChainSorted
        <5> QED
          BY <4>4, <5>1, <5>2, <5>3, <2>1, <2>2, <2>3
      <4>5. CASE n \notin {y, p} /\ z # y
        BY <3>2, <4>5, <2>1, <1>5 DEF ChainComplete
      <4> QED
        BY <4>1, <4>2, <4>3, <4>4, <4>5
    <3> QED
      BY <3>1, <3>2, <2>2
  <2>7. j <= height'
    BY <1>1, <1>2, <1>8 DEF WriterInv, TypeShared
  <2> QED
    BY <2>5, <2>6, <2>7
<1> QED
  BY <1>7, <1>8

(* The successful compare-exchange keeps the invariant.                      *)
LEMMA CasLinkStep ==
  ASSUME WriterInv, NEW t \in Writers, CasLink(t)
  PROVE  WriterInv'
<1> USE Bounds
<1> DEFINE i == lvl[t]
           y == x[t]
           p == prev[t][i]
<1>1. /\ pc[t] = "cas" /\ i \in Levels /\ y # Null /\ y \in Slots /\ y # Head
      /\ nodeState[y] = "live" /\ nodeKey[y] = wkey[t] /\ wkey[t] \in Keys
      /\ nodeHeight[y] \in Levels /\ nodeHeight[y] <= height
      /\ \A u \in Writers : x[u] = y => u = t
      /\ p \in Linked(i) /\ p \in Slots /\ phase = "open"
  BY CasLinkFacts DEF CasLink, LinkNode
<1>2. /\ UNCHANGED <<arenaLen, nodeKey, nodeHeight, nodeState, height, phase, dropAt>>
      /\ \A n \in Slots, j \in Levels : n # p \/ j # i => tower'[n][j] = tower[n][j]
      /\ \A u \in Writers \ {t} :
           /\ pc'[u] = pc[u] /\ lvl'[u] = lvl[u] /\ x'[u] = x[u]
           /\ wkey'[u] = wkey[u] /\ lh'[u] = lh[u] /\ before'[u] = before[u]
           /\ prev'[u] = prev[u] /\ next'[u] = next[u]
  BY CasLinkEffect
<1>3. \/ /\ i < nodeHeight[y] /\ lvl'[t] = i + 1 /\ pc'[t] = "link"
         /\ UNCHANGED <<x, wkey, lh, before, prev, next>>
      \/ /\ pc'[t] = "idle" /\ x'[t] = Null /\ lh'[t] = 0
         /\ \A j \in Arrays : prev'[t][j] = Null /\ next'[t][j] = Null
  BY CasLinkEffect
<1>4. \A j \in Levels : Linked(j) \subseteq Linked(j)'
  BY CasLinkLinks
<1>5. TypeShared'
  BY <1>1 DEF CasLink, LinkNode, closing, WriterInv, TypeShared, Ptr
<1>6. TypeWriters'
  <2>1. CASE i < nodeHeight[y] /\ lvl' = [lvl EXCEPT ![t] = i + 1]
    <3>1. i + 1 \in Levels
      BY <1>1, <2>1 DEF Levels
    <3>2. /\ pc' = [pc EXCEPT ![t] = "link"] /\ resp' = [resp EXCEPT ![t] = "None"]
          /\ UNCHANGED <<wkey, wval, lh, before, prev, next, x>>
      BY <2>1, <1>1 DEF CasLink, LinkNode
    <3> QED
      BY <2>1, <3>1, <3>2 DEF WriterInv, TypeWriters
  <2>2. CASE i = nodeHeight[y] /\ Return(t, "idle", "None")
    BY <2>2 DEF Return, NoSplice, WriterInv, TypeWriters, Ptr
  <2> QED
    BY <2>1, <2>2 DEF CasLink, LinkNode
<1>7. ArenaInv'
  BY <1>2 DEF ArenaInv, WriterInv
<1>8. OwnerInv'
  <2> SUFFICES ASSUME NEW u \in Writers PROVE OwnerInv!(u)'
    BY DEF OwnerInv
  <2>1. CASE u = t
    BY <2>1, <1>1, <1>2, <1>3 DEF Linking
  <2>2. CASE u # t
    <3>1. x[u] # Null => \A w \in Writers : x'[w] = x[u] => w = u
      BY <2>2, <1>1, <1>2, <1>3 DEF OwnerInv, WriterInv
    <3> QED
      BY <2>2, <3>1, <1>2 DEF OwnerInv, Linking, WriterInv
  <2> QED
    BY <2>1, <2>2
<1>9. SpliceInv'
  <2> SUFFICES ASSUME NEW u \in Writers PROVE SpliceInv!(u)'
    BY DEF SpliceInv
  <2>1. CASE u = t
    BY <2>1, <1>1, <1>2, <1>3, <1>4 DEF SpliceInv, WriterInv
  <2>2. CASE u # t
    BY <2>2, <1>2, <1>4 DEF SpliceInv, WriterInv
  <2> QED
    BY <2>1, <2>2
<1>10. ProgressInv'
  <2> SUFFICES ASSUME NEW u \in Writers PROVE ProgressInv!(u)'
    BY DEF ProgressInv
  <2>1. CASE u = t
    <3>1. CASE pc'[t] = "link" /\ UNCHANGED <<x, lh, prev>>
      BY <2>1, <3>1, <1>1, <1>2 DEF ProgressInv, Linking, WriterInv
    <3>2. CASE pc'[t] = "idle" /\ lh'[t] = 0
      BY <2>1, <3>2, <1>2 DEF Linking, WriterInv, TypeShared
    <3> QED
      BY <3>1, <3>2, <1>3
  <2>2. CASE u # t
    <3>1. pc[u] = "cas" => /\ x[u] \in Slots /\ lvl[u] \in Levels
                           /\ x[u] = p => lvl[u] # i
      <4> SUFFICES ASSUME pc[u] = "cas"
                   PROVE  x[u] \in Slots /\ lvl[u] \in Levels /\ (x[u] = p => lvl[u] # i)
        OBVIOUS
      <4>1. x[u] \in Slots /\ lvl[u] \in Levels /\ x[u] # Head
        BY DEF WriterInv, OwnerInv, TypeWriters, Linking, Ptr
      <4> QED
        BY <4>1, <1>1 DEF Linked
    <3>2. pc[u] = "cas" => tower'[x[u]][lvl[u]] = tower[x[u]][lvl[u]]
      BY <3>1, <1>2
    <3> QED
      BY <2>2, <3>2, <1>2 DEF ProgressInv, Linking, WriterInv
  <2> QED
    BY <2>1, <2>2
<1>11. DropInv'
  BY <1>1, <1>2 DEF DropInv, WriterInv
<1> QED
  BY <1>5, <1>6, <1>7, <1>8, <1>9, <1>10, <1>11, CasLinkChains DEF WriterInv

(* SkiplistCore::drop starts at the head with nothing released.              *)
LEMMA DropCallStep ==
  ASSUME WriterInv, DropCall
  PROVE  WriterInv'
<1> USE Bounds
<1>1. /\ phase = "open" /\ phase' = "dropping" /\ dropAt' = Head
      /\ \A t \in Writers : pc[t] \in {"idle", "panicked"}
      /\ UNCHANGED <<shared, writers>>
  BY DEF DropCall
<1>2. TypeShared' /\ TypeWriters'
  BY <1>1 DEF WriterInv, TypeShared, TypeWriters, Ptr, shared, writers
<1>3. \A i \in Levels : Linked(i)' = Linked(i)
  BY <1>1 DEF Linked, shared, writers
<1>4. ArenaInv' /\ OwnerInv'
  BY <1>1 DEF ArenaInv, OwnerInv, Linking, WriterInv, shared, writers
<1>5. SpliceInv' /\ ProgressInv'
  BY <1>1, <1>3 DEF SpliceInv, ProgressInv, Linking, WriterInv, shared, writers
<1>6. DropInv'
  <2>1. nodeKey[Head] = 0 /\ \A n \in Linked(0) : nodeKey[n] >= 0 /\ nodeState[n] = "live"
    <3>1. \A n \in Linked(0) : nodeState[n] \in {"live", "released"} /\ n \in Slots
      BY DEF Linked, WriterInv, ArenaInv
    <3>2. \A n \in Linked(0) : nodeKey[n] \in Nat
      BY LinkedBasics
    <3>3. \A n \in Slots : nodeState[n] # "released"
      BY <1>1 DEF WriterInv, DropInv
    <3>4. nodeKey[Head] = 0
      BY DEF WriterInv, ArenaInv, EmptyKey
    <3>5. \A n \in Linked(0) : nodeState[n] = "live"
      BY <3>1, <3>3
    <3>6. \A n \in Linked(0) : nodeKey[n] >= 0
      BY <3>2
    <3> QED
      BY <3>4, <3>5, <3>6
  <2>2. Head \in Linked(0) /\ Linked(0)' = Linked(0)
    BY <1>3, LinkedBasics
  <2>3. /\ dropAt' \in Linked(0)'
        /\ \A n \in Linked(0)' : nodeState'[n] = "live" <=> nodeKey'[dropAt'] <= nodeKey'[n]
    <3>1. dropAt' = Head /\ nodeKey' = nodeKey /\ nodeState' = nodeState
      BY <1>1 DEF shared
    <3> QED
      BY <3>1, <2>1, <2>2
  <2> QED
    BY <1>1, <2>3 DEF DropInv, WriterInv, shared, writers
<1>7. ListWellFormed'
  BY <1>1, <1>3 DEF ListWellFormed, ChainSorted, ChainComplete, WriterInv, shared, writers
<1> QED
  BY <1>2, <1>4, <1>5, <1>6, <1>7 DEF WriterInv

(* Each turn of the loop of drop releases the node under the cursor, once.   *)
LEMMA DropStepStep ==
  ASSUME WriterInv, DropStep
  PROVE  WriterInv'
<1> USE Bounds
<1> DEFINE d == dropAt
           m == tower[dropAt][0]
<1>1. /\ d \in Linked(0) /\ d \in Slots
      /\ \A n \in Linked(0) : nodeState[n] = "live" <=> nodeKey[d] <= nodeKey[n]
      /\ \A n \in Linked(0) : nodeKey[n] \in Nat /\ n \in Slots
      /\ phase = "dropping"
  BY LinkedBasics DEF DropStep, WriterInv, DropInv
<1>2. nodeState[d] = "live"
  BY <1>1
<1>3. /\ nodeState'[d] = "released" /\ dropAt' = m
      /\ nodeState' = [nodeState EXCEPT ![d] = "released"]
      /\ phase' = IF m = Null THEN "closed" ELSE "dropping"
      /\ \A n \in Slots \ {d} : nodeState'[n] = nodeState[n]
      /\ UNCHANGED <<arenaLen, nodeKey, nodeVal, nodeHeight, tower, height, writers>>
  BY <1>1, <1>2 DEF DropStep, WriterInv, TypeShared
<1>4. \A t \in Writers : pc[t] \in {"idle", "panicked"} /\ x[t] = Null
  BY <1>1 DEF WriterInv, DropInv, OwnerInv, Linking
<1>5. /\ m \in Ptr
      /\ m # Null => m \in Linked(0) /\ nodeKey[d] < nodeKey[m]
      /\ \A n \in Linked(0) : nodeKey[d] < nodeKey[n] => m # Null /\ nodeKey[m] <= nodeKey[n]
      /\ \A n \in Linked(0) : n # d => nodeKey[n] # nodeKey[d]
  <2>1. m \in Ptr
    BY <1>1 DEF WriterInv, TypeShared
  <2>2. ChainSorted(0) /\ ChainComplete(0)
    BY DEF WriterInv, ListWellFormed
  <2> QED
    BY <2>1, <2>2, <1>1 DEF ChainSorted, ChainComplete
<1>6. TypeShared' /\ TypeWriters'
  <2>1. TypeWriters'
    BY <1>3 DEF writers, WriterInv, TypeWriters
  <2> QED
    BY <2>1, <1>1, <1>3, <1>5 DEF WriterInv, TypeShared
<1>7. \A i \in Levels : Linked(i)' = Linked(i)
  <2> SUFFICES ASSUME NEW i \in Levels, NEW n \in Slots, n # Head
               PROVE  n \in Linked(i)' <=> n \in Linked(i)
    BY DEF Linked
  <2>1. nodeState'[n] \in {"live", "released"} <=> nodeState[n] \in {"live", "released"}
    BY <1>2, <1>3
  <2> QED
    BY <2>1, <1>3 DEF Linked, writers
<1>8. ArenaInv'
  BY <1>1, <1>2, <1>3 DEF WriterInv, ArenaInv
<1>9. OwnerInv' /\ ProgressInv' /\ SpliceInv'
  <2>1. OwnerInv'
    BY <1>3, <1>4 DEF OwnerInv, Linking, writers
  <2>2. ProgressInv'
    BY <1>3, <1>4 DEF WriterInv, ProgressInv, Linking, writers
  <2>3. SpliceInv'
    BY <1>3, <1>4, <1>7 DEF WriterInv, SpliceInv, writers
  <2> QED
    BY <2>1, <2>2, <2>3
<1>10. DropInv'
  <2>1. Linked(0)' = Linked(0)
    BY <1>7
  <2>2. phase' = "dropping" => \A n \in Linked(0) : nodeState'[n] = "live" <=> nodeKey[m] <= nodeKey[n]
    <3> SUFFICES ASSUME m # Null, NEW n \in Linked(0)
                 PROVE  nodeState'[n] = "live" <=> nodeKey[m] <= nodeKey[n]
      BY <1>3
    <3>1. nodeKey[m] \in Nat /\ nodeKey[n] \in Nat /\ nodeKey[d] \in Nat /\ nodeKey[d] < nodeKey[m]
      BY <1>1, <1>5
    <3>2. CASE n = d
      BY <3>1, <3>2, <1>3
    <3>3. CASE n # d
      <4>1. nodeState'[n] = nodeState[n] /\ nodeKey[n] # nodeKey[d]
        BY <3>3, <1>1, <1>3, <1>5
      <4>2. nodeState[n] = "live" <=> nodeKey[d] <= nodeKey[n]
        BY <1>1
      <4>3. nodeKey[d] < nodeKey[n] => nodeKey[m] <= nodeKey[n]
        BY <1>5
      <4> QED
        BY <3>1, <4>1, <4>2, <4>3
    <3> QED
      BY <3>2, <3>3
  <2>3. phase' = "closed" => \A n \in Linked(0) : nodeState'[n] = "released"
    <3> SUFFICES ASSUME m = Null, NEW n \in Linked(0), n # d PROVE nodeState[n] = "released"
      BY <1>1, <1>3
    <3>1. nodeState[n] \in {"live", "released"}
      BY DEF Linked, WriterInv, ArenaInv
    <3> QED
      BY <3>1, <1>1, <1>5
  <2>4. \A n \in Slots : nodeState'[n] # "dropped_twice"
    BY <1>1, <1>3 DEF WriterInv, DropInv
  <2>5. \A t \in Writers : pc'[t] \in {"idle", "panicked"}
    BY <1>3, <1>4 DEF writers
  <2>6. phase' # "open"
    BY <1>3
  <2>7. phase' = "dropping" => dropAt' \in Linked(0)
    BY <1>3, <1>5
  <2>8. dropAt' = m /\ nodeKey' = nodeKey
    BY <1>3
  <2> QED
    BY <2>1, <2>2, <2>3, <2>4, <2>5, <2>6, <2>7, <2>8 DEF DropInv
<1>11. ListWellFormed'
  BY <1>3, <1>7 DEF ListWellFormed, ChainSorted, ChainComplete, WriterInv
<1> QED
  BY <1>6, <1>8, <1>9, <1>10, <1>11 DEF WriterInv

(* The arena bounds the number of keys.                                      *)
LEMMA MembersFinite ==
  ASSUME WriterInv PROVE Cardinality(Members) \in Nat
<1>1. IsFiniteSet(Slots)
  BY ArenaAssumption, FS_Interval DEF Slots
<1>2. Members \subseteq Slots
  BY LinkedBasics, Bounds DEF Members
<1> QED
  BY <1>1, <1>2, FS_Subset, FS_CardinalityType

(* The call of a read operation keeps the invariant.                         *)
LEMMA StartReadStep ==
  ASSUME IInv, NEW r \in Readers, StartRead(r)
  PROVE  IInv'
<1> USE Bounds
<1>1. PICK op \in {"len", "is_empty", "next", "seek_to_first", "seek_to_last"} \cup FindNear,
           k \in Keys \cup {EmptyKey} :
           ReadCall(r, op, k) /\ (op = "next" => iter[r] # Null)
  <2>1. CASE \E op \in KeyedOps, k \in Keys : ReadCall(r, op, k)
    BY <2>1 DEF KeyedOps, FindNear
  <2>2. CASE \E op \in {"len", "is_empty", "seek_to_first", "seek_to_last"} : ReadCall(r, op, EmptyKey)
    BY <2>2
  <2>3. CASE iter[r] # Null /\ ReadCall(r, "prev", nodeKey[iter[r]])
    <3>1. iter[r] \in Slots
      BY <2>3 DEF IInv, TypeReaders, Ptr
    <3>2. nodeKey[iter[r]] \in Keys \cup {EmptyKey}
      BY <3>1 DEF IInv, WriterInv, TypeShared
    <3> QED
      BY <2>3, <3>2 DEF FindNear
  <2>4. CASE iter[r] # Null /\ ReadCall(r, "next", EmptyKey)
    BY <2>4
  <2> QED
    BY <2>1, <2>2, <2>3, <2>4 DEF StartRead
<1>2. WriterInv'
  BY <1>1, ReadKeepsWriterInv DEF ReadCall, IInv
<1>3. Cardinality(Members) \in Nat /\ height \in Levels
  BY MembersFinite DEF IInv, WriterInv, TypeShared
<1>4. TypeReaders'
  BY <1>1, <1>3 DEF ReadCall, IInv, TypeReaders, Ptr
<1>5. ReaderInv'
  BY <1>1 DEF ReadCall, IInv, TypeReaders, ReaderInv, Head, Null
<1> QED
  BY <1>2, <1>4, <1>5 DEF IInv

(* A read that ends leaves its reader well typed and at rest.                *)
LEMMA ReadReturnStep ==
  ASSUME IInv, NEW r \in Readers, NEW a \in Nat, ReadReturn(r, a),
         \E n \in Ptr : iter' = [iter EXCEPT ![r] = n]
  PROVE  TypeReaders' /\ ReaderInv'
<1> USE Bounds
<1>1. TypeReaders'
  BY DEF ReadReturn, IInv, TypeReaders, Ptr
<1>2. ReaderInv'
  BY DEF ReadReturn, IInv, TypeReaders, ReaderInv
<1> QED
  BY <1>1, <1>2

(* So does the end of a search.                                              *)
LEMMA FoundStep ==
  ASSUME IInv, NEW r \in Readers, NEW n \in Ptr, Found(r, n)
  PROVE  TypeReaders' /\ ReaderInv'
<1> USE Bounds
<1>1. KeyAt(n) \in Nat /\ EmptyKey \in Nat
  BY DEF KeyAt, EmptyKey, Ptr, IInv, WriterInv, TypeShared
<1>2. iter = [iter EXCEPT ![r] = iter[r]] /\ iter[r] \in Ptr
  BY DEF IInv, TypeReaders
<1>3. PICK a \in Nat : ReadReturn(r, a) /\ \E m \in Ptr : iter' = [iter EXCEPT ![r] = m]
  BY <1>1, <1>2 DEF Found
<1> QED
  BY <1>3, ReadReturnStep

(* So does every step of a read operation.                                   *)
LEMMA ReadStepStep ==
  ASSUME IInv, NEW r \in Readers, ReadStep(r)
  PROVE  IInv'
<1> USE Bounds
<1>1. WriterInv'
  BY ReadKeepsWriterInv DEF ReadStep, FindNearStep, LoadNext, FindLastStep, LenStep, IsEmptyStep, IInv
<1>2. rpc[r] # "idle"
  BY DEF ReadStep, FindNearStep, LoadNext, FindLastStep, LenStep, IsEmptyStep, FindNear, KeyedOps
<1>3. cur[r] \in Slots /\ rlvl[r] \in Levels /\ Loaded(r) \in Ptr /\ NotHead(cur[r]) \in Ptr
  <2>1. cur[r] \in Slots /\ rlvl[r] \in Levels
    BY <1>2 DEF IInv, TypeReaders, ReaderInv, Ptr
  <2> QED
    BY <2>1 DEF IInv, WriterInv, TypeShared, Loaded, NotHead, Ptr
<1>4. iter = [iter EXCEPT ![r] = iter[r]] /\ iter[r] \in Ptr /\ out[r] \in Nat
  BY DEF IInv, TypeReaders
<1>5. CASE FindNearStep(r)
  <2> DEFINE n == Loaded(r)
  <2>1. \/ /\ n # Null /\ cur' = [cur EXCEPT ![r] = n]
           /\ UNCHANGED <<rpc, rkey, rlvl, iter, out, sizeAt>>
        \/ \E m \in Ptr : Found(r, m)
        \/ /\ n # Null
           /\ rpc' = [rpc EXCEPT ![r] = "find_after_equal"]
           /\ rlvl' = [rlvl EXCEPT ![r] = 0]
           /\ cur'  = [cur EXCEPT ![r] = n]
           /\ UNCHANGED <<rkey, iter, out, sizeAt>>
        \/ /\ rlvl[r] > 0 /\ rlvl' = [rlvl EXCEPT ![r] = @ - 1]
           /\ UNCHANGED <<rpc, rkey, cur, iter, out, sizeAt>>
    BY <1>3, <1>5 DEF FindNearStep
  <2>2. CASE n # Null /\ cur' = [cur EXCEPT ![r] = n] /\ UNCHANGED <<rpc, rkey, rlvl, iter, out, sizeAt>>
    BY <2>2, <1>1, <1>3 DEF IInv, TypeReaders, ReaderInv
  <2>3. CASE \E m \in Ptr : Found(r, m)
    BY <2>3, <1>1, FoundStep DEF IInv
  <2>4. CASE /\ n # Null
             /\ rpc' = [rpc EXCEPT ![r] = "find_after_equal"]
             /\ rlvl' = [rlvl EXCEPT ![r] = 0]
             /\ cur'  = [cur EXCEPT ![r] = n]
             /\ UNCHANGED <<rkey, iter, out, sizeAt>>
    BY <2>4, <1>1, <1>3 DEF IInv, TypeReaders, ReaderInv
  <2>5. CASE /\ rlvl[r] > 0 /\ rlvl' = [rlvl EXCEPT ![r] = @ - 1]
             /\ UNCHANGED <<rpc, rkey, cur, iter, out, sizeAt>>
    BY <2>5, <1>1, <1>3 DEF IInv, TypeReaders, ReaderInv
  <2> QED
    BY <2>1, <2>2, <2>3, <2>4, <2>5
<1>6. CASE LoadNext(r)
  BY <1>1, <1>3, <1>6, FoundStep DEF LoadNext, IInv
<1>7. CASE FindLastStep(r)
  <2>1. CASE Loaded(r) # Null
    BY <2>1, <1>1, <1>3, <1>7 DEF FindLastStep, IInv, TypeReaders, ReaderInv
  <2>2. CASE Loaded(r) = Null /\ rlvl[r] > 0
    BY <2>2, <1>1, <1>3, <1>7 DEF FindLastStep, IInv, TypeReaders, ReaderInv
  <2>3. CASE Loaded(r) = Null /\ rlvl[r] = 0
    BY <2>3, <1>1, <1>3, <1>7, FoundStep DEF FindLastStep, IInv
  <2> QED
    BY <2>1, <2>2, <2>3, <1>3
<1>8. CASE LenStep(r)
  <2>1. CASE Loaded(r) # Null
    BY <2>1, <1>1, <1>3, <1>4, <1>8 DEF LenStep, IInv, TypeReaders, ReaderInv
  <2>2. CASE Loaded(r) = Null
    BY <2>2, <1>1, <1>4, <1>8, ReadReturnStep DEF LenStep, IInv
  <2> QED
    BY <2>1, <2>2
<1>9. CASE IsEmptyStep(r)
  BY <1>1, <1>4, <1>9, ReadReturnStep DEF IsEmptyStep, IInv
<1> QED
  BY <1>5, <1>6, <1>7, <1>8, <1>9 DEF ReadStep

(* A step that leaves the readers' locals alone keeps what is known of them.  *)
LEMMA WriteKeepsReaders ==
  ASSUME IInv, WriterInv', UNCHANGED readers PROVE IInv'
BY DEF readers, IInv, TypeReaders, ReaderInv

(* Every step of the list keeps the invariant.                               *)
LEMMA NextIInv ==
  ASSUME IInv, [Next]_vars PROVE IInv'
<1>0. WriterInv
  BY DEF IInv
<1>1. ASSUME NEW t \in Writers, NEW k \in Keys, NEW v \in Vals, PutCall(t, k, v) PROVE IInv'
  BY <1>0, <1>1, PutCallStep, WriteKeepsReaders DEF PutCall
<1>2. ASSUME NEW t \in Writers, PutStep(t) PROVE IInv'
  <2>1. CASE SpliceAdvance(t)
    BY <1>0, <2>1, SpliceAdvanceStep, WriteKeepsReaders DEF SpliceAdvance
  <2>2. CASE DescendFound(t)
    BY <1>0, <2>2, DescendFoundStep, WriteKeepsReaders DEF DescendFound
  <2>3. CASE DescendEnd(t)
    BY <1>0, <2>3, DescendEndStep, WriteKeepsReaders DEF DescendEnd
  <2>4. ASSUME NEW h \in Levels, Alloc(t, h) PROVE IInv'
    BY <1>0, <2>4, AllocStep, WriteKeepsReaders DEF Alloc
  <2>5. CASE AllocPanic(t)
    BY <1>0, <2>5, AllocPanicStep, WriteKeepsReaders DEF AllocPanic
  <2>6. CASE RaiseHeight(t)
    BY <1>0, <2>6, RaiseHeightStep, WriteKeepsReaders DEF RaiseHeight
  <2>7. CASE FreshSplice(t)
    BY <1>0, <2>7, FreshSpliceStep, WriteKeepsReaders DEF FreshSplice
  <2>8. CASE LinkSplice(t)
    BY <1>0, <2>8, LinkSpliceStep, WriteKeepsReaders DEF LinkSplice
  <2>9. CASE LinkFound(t)
    BY <1>0, <2>9, LinkFoundStep, WriteKeepsReaders DEF LinkFound
  <2>10. CASE StoreNext(t)
    BY <1>0, <2>10, StoreNextStep, WriteKeepsReaders DEF StoreNext
  <2>11. CASE CasLink(t)
    BY <1>0, <2>11, CasLinkStep, WriteKeepsReaders DEF CasLink, LinkNode
  <2>12. CASE CasFail(t)
    BY <1>0, <2>12, CasFailStep, WriteKeepsReaders DEF CasFail
  <2> QED
    BY <1>2, <2>1, <2>2, <2>3, <2>4, <2>5, <2>6, <2>7, <2>8, <2>9, <2>10, <2>11, <2>12 DEF PutStep
<1>3. ASSUME NEW r \in Readers, StartRead(r) PROVE IInv'
  BY <1>3, StartReadStep
<1>4. ASSUME NEW r \in Readers, ReadStep(r) PROVE IInv'
  BY <1>4, ReadStepStep
<1>5. CASE DropCall
  <2>1. WriterInv'
    BY <1>0, <1>5, DropCallStep
  <2> QED
    BY <1>5, <2>1 DEF DropCall, IInv, TypeReaders, ReaderInv, Ptr
<1>6. CASE DropStep
  BY <1>0, <1>6, DropStepStep, WriteKeepsReaders DEF DropStep
<1>7. CASE UNCHANGED vars
  <2>1. UNCHANGED <<shared, writers, closing>> /\ UNCHANGED readers
    BY <1>7 DEF vars
  <2> QED
    BY <1>0, <2>1, ReadKeepsWriterInv, WriteKeepsReaders
<1> QED
  BY <1>1, <1>2, <1>3, <1>4, <1>5, <1>6, <1>7 DEF Next

(* However puts, reads and the final drop interleave, every level of the     *)
(* list is a sorted chain of exactly the nodes linked at it, every put holds *)
(* splices around its key, and every node not fully linked belongs to one    *)
(* writer: the inductive invariant the theorems below rest on.               *)
THEOREM SkiplistInvariant == Spec => []IInv
BY InitIInv, NextIInv, PTL DEF Spec

(* Every variable of put, of the readers and of the arena keeps its type.     *)
THEOREM TypeCorrect == Spec => []TypeOK
<1>1. IInv => TypeOK
  BY DEF IInv, WriterInv, TypeOK
<1> QED
  BY <1>1, SkiplistInvariant, PTL

(* The assertions of Skiplist::put never fail, for any number of writers,    *)
(* any keys, any MAX_HEIGHT and any arena.                                   *)
THEOREM PutNeverAsserts == Spec => []AssertionsHold
<1>1. IInv => AssertionsHold
  BY DEF IInv, WriterInv, ProgressInv, AssertionsHold
<1> QED
  BY <1>1, SkiplistInvariant, PTL

(* Every level of the list is at all times a sorted chain of all the nodes   *)
(* linked there, below the published height.                                 *)
THEOREM ListStaysWellFormed == Spec => []ListWellFormed
<1>1. IInv => ListWellFormed
  BY DEF IInv, WriterInv
<1> QED
  BY <1>1, SkiplistInvariant, PTL

(* No Bytes are dropped twice or leaked by put and SkiplistCore::drop.       *)
THEOREM BytesDroppedOnce == Spec => []DroppedOnce
<1>1. IInv => DroppedOnce
  <2> SUFFICES ASSUME IInv PROVE DroppedOnce
    OBVIOUS
  <2>1. \A n \in Slots : nodeState[n] # "dropped_twice"
    BY DEF IInv, WriterInv, DropInv
  <2>2. ASSUME phase = "closed", NEW n \in Slots PROVE nodeState[n] # "live"
    <3>1. \A t \in Writers : x[t] = Null
      BY <2>2 DEF IInv, WriterInv, DropInv, OwnerInv, Linking
    <3>2. nodeState[n] = "live" => n \in Linked(0)
      BY <3>1, Bounds DEF Linked, IInv, WriterInv, TypeShared
    <3> QED
      BY <2>2, <3>2 DEF IInv, WriterInv, DropInv
  <2> QED
    BY <2>1, <2>2 DEF DroppedOnce
<1> QED
  BY <1>1, SkiplistInvariant, PTL

-----------------------------------------------------------------------------
(* What one step does to the nodes linked before it.                         *)
Grows ==
  \A i \in Levels : \A n \in Linked(i) :
     /\ n \in Linked(i)'
     /\ nodeKey'[n] = nodeKey[n] /\ nodeVal'[n] = nodeVal[n]
     /\ tower'[n][i] # tower[n][i] =>
          /\ tower'[n][i] \in Linked(i)' \ Linked(i)
          /\ tower'[tower'[n][i]][i] = tower[n][i]

(* No node is linked by it.                                                  *)
Same == \A i \in Levels : Linked(i)' = Linked(i)

(* A step that touches no node in the list.                                  *)
LEMMA QuietGrows ==
  ASSUME Same, UNCHANGED <<nodeKey, nodeVal, tower>>
  PROVE  Grows
BY DEF Grows, Same

(* put before it has a node, and while its node gets no new pointer.         *)
LEMMA LocalGrows ==
  ASSUME WriterInv, NEW t \in Writers,
         \/ \E k \in Keys, v \in Vals : PutCall(t, k, v)
         \/ SpliceAdvance(t) \/ DescendFound(t) \/ DescendEnd(t) \/ AllocPanic(t)
         \/ RaiseHeight(t) \/ FreshSplice(t) \/ LinkSplice(t) \/ CasFail(t)
  PROVE  Grows /\ Same
<1> USE DEF shared
<1>1. CASE UNCHANGED <<nodeState, nodeHeight, x, lvl, nodeKey, nodeVal, tower>>
  <2>1. Same
    BY <1>1 DEF Linked, Same
  <2> QED
    BY <1>1, <2>1, QuietGrows
<1>2. CASE \/ \E k \in Keys, v \in Vals : PutCall(t, k, v)
           \/ DescendFound(t) \/ DescendEnd(t) \/ AllocPanic(t)
  <2>1. UNCHANGED <<nodeState, nodeHeight, nodeKey, nodeVal, tower>>
    BY <1>2 DEF PutCall, DescendFound, DescendEnd, AllocPanic
  <2>2. pc[t] \in {"idle", "descend", "alloc"}
    BY <1>2 DEF PutCall, DescendFound, DescendEnd, AllocPanic
  <2>3. x[t] = Null
    BY <2>2 DEF WriterInv, OwnerInv, Linking
  <2>4. x'[t] = Null /\ \A u \in Writers \ {t} : x'[u] = x[u] /\ lvl'[u] = lvl[u]
    <3>1. x' = x \/ x' = [x EXCEPT ![t] = Null]
      BY <1>2 DEF PutCall, DescendFound, DescendEnd, AllocPanic, Return
    <3>2. \E l : lvl' = [lvl EXCEPT ![t] = l]
      <4>1. lvl \in [Writers -> Levels]
        BY DEF WriterInv, TypeWriters
      <4>2. CASE DescendEnd(t)
        <5>1. lvl' = [lvl EXCEPT ![t] = lvl[t] - 1] \/ lvl' = [lvl EXCEPT ![t] = lvl[t]]
          BY <4>1, <4>2 DEF DescendEnd
        <5> QED
          BY <5>1
      <4>3. CASE ~DescendEnd(t)
        <5>1. lvl' = [lvl EXCEPT ![t] = height] \/ lvl' = [lvl EXCEPT ![t] = 0]
          BY <1>2, <4>3 DEF PutCall, DescendFound, AllocPanic, Return
        <5> QED
          BY <5>1
      <4> QED
        BY <4>2, <4>3
    <3> QED
      BY <2>3, <3>1, <3>2 DEF WriterInv, TypeWriters
  <2>5. Same
    BY <2>1, <2>3, <2>4, LinkedSame DEF Same
  <2> QED
    BY <2>1, <2>5, QuietGrows
<1>3. CASE SpliceAdvance(t) \/ RaiseHeight(t) \/ FreshSplice(t) \/ LinkSplice(t) \/ CasFail(t)
  BY <1>1, <1>3 DEF SpliceAdvance, RaiseHeight, FreshSplice, LinkSplice, CasFail
<1> QED
  BY <1>2, <1>3

(* A new node is linked nowhere.                                             *)
LEMMA AllocGrows ==
  ASSUME WriterInv, NEW t \in Writers, NEW h \in Levels, Alloc(t, h)
  PROVE  Grows /\ Same
<1> USE Bounds
<1> DEFINE y == arenaLen + 1
<1>1. y \in Slots /\ y # Head /\ nodeState[y] = "free" /\ x[t] = Null
  <2>1. arenaLen \in Nat /\ arenaLen >= 1 /\ arenaLen < ArenaCap /\ pc[t] = "alloc"
    BY DEF Alloc, WriterInv, TypeShared, ArenaInv
  <2>2. y \in Slots /\ y # Head /\ y > arenaLen
    BY <2>1, ArenaAssumption DEF Slots, Head
  <2> QED
    BY <2>1, <2>2 DEF WriterInv, ArenaInv, OwnerInv, Linking
<1> HIDE DEF y
<1>2. \A i \in Levels : y \notin Linked(i)
  BY <1>1 DEF Linked
<1>3. /\ \A n \in Slots : n # y => /\ nodeKey'[n] = nodeKey[n] /\ nodeVal'[n] = nodeVal[n]
                                   /\ nodeHeight'[n] = nodeHeight[n] /\ nodeState'[n] = nodeState[n]
                                   /\ tower'[n] = tower[n]
      /\ x'[t] = y /\ lvl' = lvl /\ \A u \in Writers \ {t} : x'[u] = x[u]
  BY <1>1 DEF Alloc, WriterInv, TypeShared, TypeWriters, y
<1>4. ASSUME NEW i \in Levels, NEW n \in Linked(i) PROVE n \in Linked(i)' /\ n \in Slots /\ n # y
  <2>1. n \in Slots /\ n # y
    BY <1>2, LinkedBasics
  <2>2. \A u \in Writers : x'[u] = n => x[u] = n
    BY <1>3, <2>1
  <2> QED
    BY <1>3, <2>1, <2>2 DEF Linked
<1>5. ASSUME NEW i \in Levels, NEW n \in Linked(i)' PROVE n \in Linked(i)
  <2>1. lvl[t] = 0
    BY DEF Alloc, WriterInv, ProgressInv
  <2>2. n \in Slots /\ (n # Head => n # y)
    BY <1>1, <1>3, <2>1 DEF Linked
  <2>3. CASE n # Head
    <3>1. \A u \in Writers : x[u] = n => x'[u] = n
      BY <1>1, <1>3, <2>2
    <3> QED
      BY <1>3, <2>2, <2>3, <3>1 DEF Linked
  <2> QED
    BY <2>3 DEF Linked
<1> QED
  BY <1>3, <1>4, <1>5, ZenonT(60) DEF Grows, Same

(* The node that put gives up was linked nowhere.                            *)
LEMMA LinkFoundGrows ==
  ASSUME WriterInv, NEW t \in Writers, LinkFound(t)
  PROVE  Grows /\ Same
<1> USE Bounds
<1> DEFINE y == x[t]
<1>1. lvl[t] = 0 /\ y # Null /\ y \in Slots /\ y # Head
  <2>1. lvl[t] = 0
    BY FoundAtBottom DEF LinkFound
  <2>2. y # Null /\ y # Head
    BY DEF LinkFound, WriterInv, OwnerInv, Linking
  <2> QED
    BY <2>1, <2>2 DEF WriterInv, TypeWriters, Ptr
<1>2. /\ \E a \in {"Some", "None"} : Return(t, "idle", a)
      /\ \E s \in {"taken", "dropped"} : nodeState' = [nodeState EXCEPT ![y] = s]
      /\ nodeKey' = [nodeKey EXCEPT ![y] = EmptyKey] \/ UNCHANGED nodeKey
      /\ nodeVal' = [nodeVal EXCEPT ![y] = NoVal] \/ UNCHANGED nodeVal
      /\ UNCHANGED <<nodeHeight, tower>>
  BY <1>1 DEF LinkFound
<1>3. /\ x'[t] = Null /\ \A u \in Writers \ {t} : x'[u] = x[u] /\ lvl'[u] = lvl[u]
      /\ \A n \in Slots : n # y => /\ nodeKey'[n] = nodeKey[n] /\ nodeVal'[n] = nodeVal[n]
                                   /\ nodeState'[n] = nodeState[n]
  BY <1>2 DEF Return, WriterInv, TypeShared, TypeWriters
<1> HIDE DEF y
<1>4. \A i \in Levels : y \notin Linked(i)
  BY <1>1 DEF Linked, y
<1>5. ASSUME NEW i \in Levels, NEW n \in Linked(i) PROVE n \in Linked(i)' /\ n \in Slots /\ n # y
  <2>1. n \in Slots /\ n # y
    BY <1>4, LinkedBasics
  <2>2. \A u \in Writers : x'[u] = n => x[u] = n /\ lvl'[u] = lvl[u]
    BY <1>3, <2>1
  <2> QED
    BY <1>2, <1>3, <2>1, <2>2 DEF Linked
<1>6. ASSUME NEW i \in Levels, NEW n \in Linked(i)' PROVE n \in Linked(i)
  <2>1. n \in Slots /\ (n # Head => n # y)
    <3>1. nodeState'[y] \notin {"live", "released"}
      BY <1>1, <1>2 DEF WriterInv, TypeShared
    <3> QED
      BY <3>1 DEF Linked
  <2>2. CASE n # Head
    <3>1. \A u \in Writers : x[u] = n => x'[u] = n /\ lvl'[u] = lvl[u]
      BY <1>3, <2>1, <2>2 DEF y
    <3> QED
      BY <1>2, <1>3, <2>1, <2>2, <3>1 DEF Linked
  <2> QED
    BY <2>2 DEF Linked
<1> QED
  BY <1>2, <1>3, <1>5, <1>6 DEF Grows, Same

(* The pointer of a node that is not linked at that level yet.               *)
LEMMA StoreNextGrows ==
  ASSUME WriterInv, NEW t \in Writers, StoreNext(t)
  PROVE  Grows /\ Same
<1> USE Bounds
<1> DEFINE i == lvl[t]
           y == x[t]
<1>1. y # Null /\ y \in Slots /\ y # Head /\ i \in Levels
  BY DEF StoreNext, WriterInv, TypeWriters, OwnerInv, Linking, Ptr
<1>2. y \notin Linked(i)
  BY <1>1 DEF Linked
<1>3. /\ UNCHANGED <<nodeKey, nodeVal, nodeHeight, nodeState, lvl, x>>
      /\ \A n \in Slots, j \in Levels : n # y \/ j # i => tower'[n][j] = tower[n][j]
  BY <1>1 DEF StoreNext, WriterInv, TypeShared
<1>4. \A j \in Levels : Linked(j)' = Linked(j)
  BY <1>3 DEF Linked
<1>5. \A j \in Levels : \A n \in Linked(j) : tower'[n][j] = tower[n][j]
  BY <1>2, <1>3, LinkedBasics
<1> QED
  BY <1>3, <1>4, <1>5 DEF Grows, Same

(* The compare-exchange puts the new node in front of the old successor.     *)
LEMMA CasLinkGrows ==
  ASSUME WriterInv, NEW t \in Writers, CasLink(t)
  PROVE  Grows
<1> USE Bounds
<1> DEFINE i == lvl[t]
           y == x[t]
           p == prev[t][i]
<1>1. /\ i \in Levels /\ y \in Slots /\ p # y /\ p \in Slots /\ tower[y][i] = next[t][i]
      /\ y \notin Linked(i)
  BY CasLinkFacts DEF CasLink
<1>2. /\ UNCHANGED nodeKey /\ tower'[p][i] = y /\ tower[p][i] = next[t][i]
      /\ \A n \in Slots, j \in Levels : n # p \/ j # i => tower'[n][j] = tower[n][j]
  BY CasLinkEffect
<1>3. UNCHANGED nodeVal
  BY DEF CasLink, LinkNode
<1>4. \A j \in Levels : Linked(j)' = IF j = i THEN Linked(j) \cup {y} ELSE Linked(j)
  BY CasLinkLinks
<1> HIDE DEF i, y, p
<1>5. \A j \in Levels : Linked(j) \subseteq Slots
  BY LinkedBasics
<1>6. ASSUME NEW j \in Levels, NEW n \in Linked(j), tower'[n][j] # tower[n][j]
      PROVE  tower'[n][j] \in Linked(j)' \ Linked(j) /\ tower'[tower'[n][j]][j] = tower[n][j]
  <2>1. n = p /\ j = i
    BY <1>2, <1>5, <1>6
  <2>2. tower'[y][i] = next[t][i]
    BY <1>1, <1>2
  <2> QED
    BY <1>1, <1>2, <1>4, <2>1, <2>2
<1> QED
  BY <1>2, <1>3, <1>4, <1>6 DEF Grows

(* Dropping the list leaves its pointers and keys alone.                     *)
LEMMA DropGrows ==
  ASSUME WriterInv, DropStep
  PROVE  Grows /\ Same
<1>1. nodeState[dropAt] = "live"
  <2>1. dropAt \in Linked(0) /\ nodeKey[dropAt] \in Nat
    BY Bounds, LinkedBasics DEF DropStep, WriterInv, DropInv
  <2> QED
    BY <2>1 DEF DropStep, WriterInv, DropInv
<1>2. /\ \A n \in Slots : \/ nodeState'[n] = nodeState[n]
                          \/ nodeState[n] = "live" /\ nodeState'[n] = "released"
      /\ UNCHANGED <<nodeKey, nodeVal, nodeHeight, tower, x, lvl>>
  BY <1>1 DEF DropStep, WriterInv, TypeShared, writers
<1>3. Same
  BY <1>2 DEF Linked, Same
<1> QED
  BY <1>2, <1>3, QuietGrows

(* Every step but a compare-exchange links nothing.                          *)
LEMMA StepGrows ==
  ASSUME IInv, Next
  PROVE  Grows /\ (Same \/ \E t \in Writers : CasLink(t))
<1>0. WriterInv
  BY DEF IInv
<1> DEFINE Goal == Grows /\ (Same \/ \E t \in Writers : CasLink(t))
<1>1. ASSUME NEW t \in Writers, NEW k \in Keys, NEW v \in Vals, PutCall(t, k, v) PROVE Goal
  BY <1>0, <1>1, LocalGrows
<1>2. ASSUME NEW t \in Writers, PutStep(t) PROVE Goal
  <2>1. CASE \E h \in Levels : Alloc(t, h)
    BY <1>0, <2>1, AllocGrows
  <2> QED
    BY <1>0, <1>2, <2>1, LocalGrows, LinkFoundGrows, StoreNextGrows, CasLinkGrows DEF PutStep
<1>3. CASE UNCHANGED <<shared, writers>>
  <2>1. Same
    BY <1>3 DEF shared, writers, Linked, Same
  <2> QED
    BY <1>3, <2>1, QuietGrows DEF shared
<1>4. ASSUME NEW r \in Readers, StartRead(r) \/ ReadStep(r) PROVE Goal
  <2>1. UNCHANGED <<shared, writers>>
    BY <1>4 DEF StartRead, ReadCall, ReadStep, FindNearStep, LoadNext, FindLastStep, LenStep, IsEmptyStep
  <2> QED
    BY <1>3, <2>1
<1>5. CASE DropCall
  BY <1>3, <1>5 DEF DropCall
<1>6. CASE DropStep
  BY <1>0, <1>6, DropGrows
<1> QED
  BY <1>1, <1>2, <1>4, <1>5, <1>6 DEF Next

(* Whatever the writers, the readers and the final drop do, a linked node    *)
(* stays linked with its key and value, and its next pointers only ever move *)
(* to a node just linked in front of the old successor.                      *)
THEOREM NodesStayLinked == Spec => InsertOnly
<1>1. IInv /\ [Next]_vars => [Grows]_vars
  BY StepGrows
<1> QED
  BY <1>1, SkiplistInvariant, PTL DEF Spec, InsertOnly, Grows

-----------------------------------------------------------------------------
(* The least and the greatest key of a set are what Least and Greatest pick.  *)
LEMMA LeastIs ==
  ASSUME NEW S, S \subseteq Nat, NEW k \in S, \A m \in S : k <= m
  PROVE  Map!Least(S) = k
<1>1. \A j \in S : (\A m \in S : j <= m) => j = k
  OBVIOUS
<1> QED
  BY <1>1 DEF Map!Least

LEMMA GreatestIs ==
  ASSUME NEW S, S \subseteq Nat, NEW k \in S, \A m \in S : k >= m
  PROVE  Map!Greatest(S) = k
<1>1. \A j \in S : (\A m \in S : j >= m) => j = k
  OBVIOUS
<1> QED
  BY <1>1 DEF Map!Greatest

(* The keys of the abstract map are those of the nodes linked at level 0.    *)
LEMMA PresentKeys ==
  ASSUME WriterInv
  PROVE  /\ Map!Present = {nodeKey[n] : n \in Members}
         /\ Members \subseteq Slots /\ Members \subseteq Linked(0) /\ Linked(0) = Members \cup {Head}
         /\ \A n \in Members : nodeKey[n] \in Keys /\ nodeKey[n] \in Nat /\ nodeKey[n] > 0
         /\ nodeKey[Head] = 0
<1>1. Map!Present = {nodeKey[n] : n \in Members}
  <2>1. \A n \in Members : <<nodeKey[n], nodeVal[n]>>[1] = nodeKey[n]
    OBVIOUS
  <2>2. \A k : k \in Map!Present <=> \E e \in Content : k = e[1]
    BY Zenon DEF Map!Present
  <2>3. \A e : e \in Content <=> \E n \in Members : e = <<nodeKey[n], nodeVal[n]>>
    BY Zenon DEF Content
  <2>4. \A k : k \in Map!Present <=> \E n \in Members : k = nodeKey[n]
    <3> TAKE k
    <3>1. ASSUME NEW n \in Members, k = nodeKey[n] PROVE k \in Map!Present
      BY <3>1, <2>1, <2>2, <2>3, Zenon
    <3>2. ASSUME NEW e \in Content, k = e[1] PROVE \E n \in Members : k = nodeKey[n]
      <4>1. PICK n \in Members : e = <<nodeKey[n], nodeVal[n]>>
        BY <2>3
      <4>2. k = nodeKey[n]
        BY <3>2, <4>1
      <4> QED
        BY <4>2
    <3> QED
      BY <3>1, <3>2, <2>2, Zenon
  <2> QED
    BY <2>4, Zenon
<1>2. Members \subseteq Slots /\ Members \subseteq Linked(0) /\ Linked(0) = Members \cup {Head}
  BY LinkedBasics, Bounds DEF Members
<1>3. \A n \in Members : nodeKey[n] \in Keys
  BY LinkedBasics, Bounds DEF Members
<1> QED
  BY <1>1, <1>2, <1>3, Bounds DEF WriterInv, ArenaInv, EmptyKey

(* What a reader sees when it loads the next pointer of a node at level 0:   *)
(* no key of the map lies between the two.                                   *)
LEMMA NoKeyBetween ==
  ASSUME WriterInv, NEW n \in Linked(0)
  PROVE  /\ nodeKey[n] \in Nat
         /\ tower[n][0] = Null => \A m \in Members : nodeKey[m] <= nodeKey[n]
         /\ tower[n][0] # Null =>
              /\ tower[n][0] \in Members
              /\ nodeKey[n] < nodeKey[tower[n][0]]
              /\ \A m \in Members : nodeKey[m] <= nodeKey[n] \/ nodeKey[tower[n][0]] <= nodeKey[m]
<1>1. ChainSorted(0) /\ ChainComplete(0) /\ nodeKey[n] \in Nat
  BY LinkedBasics, Bounds DEF WriterInv, ListWellFormed
<1>2. \A m \in Members : m \in Linked(0) /\ nodeKey[m] \in Nat
  BY PresentKeys
<1> QED
  BY <1>1, <1>2 DEF ChainSorted, ChainComplete, Members

(* So the pointer answers find_after, seek and next ...                      *)
LEMMA SeesAfter ==
  ASSUME WriterInv, NEW n \in Linked(0), NEW k \in Nat, nodeKey[n] <= k,
         tower[n][0] # Null => k < nodeKey[tower[n][0]]
  PROVE  Map!After(k) = KeyAt(tower[n][0])
<1> DEFINE S == {m \in Map!Present : m > k}
<1>1. S \subseteq Nat
  BY PresentKeys
<1>2. CASE tower[n][0] = Null
  <2>1. S = {}
    BY <1>2, PresentKeys, NoKeyBetween
  <2> QED
    BY <2>1, <1>2 DEF Map!After, Map!Least, KeyAt, EmptyKey
<1>3. CASE tower[n][0] # Null
  <2>1. nodeKey[tower[n][0]] \in S /\ \A m \in S : nodeKey[tower[n][0]] <= m
    BY <1>3, PresentKeys, NoKeyBetween
  <2> HIDE DEF S
  <2>2. Map!Least(S) = nodeKey[tower[n][0]]
    BY <1>1, <2>1, LeastIs
  <2> QED
    BY <2>2, <1>3 DEF Map!After, KeyAt, S
<1> QED
  BY <1>2, <1>3

LEMMA SeesAtOrAfter ==
  ASSUME WriterInv, NEW n \in Linked(0), NEW k \in Nat, nodeKey[n] < k,
         tower[n][0] # Null => k <= nodeKey[tower[n][0]]
  PROVE  Map!AtOrAfter(k) = KeyAt(tower[n][0])
<1> DEFINE S == {m \in Map!Present : m >= k}
<1>1. S \subseteq Nat
  BY PresentKeys
<1>2. CASE tower[n][0] = Null
  <2>1. S = {}
    BY <1>2, PresentKeys, NoKeyBetween
  <2> QED
    BY <2>1, <1>2 DEF Map!AtOrAfter, Map!Least, KeyAt, EmptyKey
<1>3. CASE tower[n][0] # Null
  <2>1. nodeKey[tower[n][0]] \in S /\ \A m \in S : nodeKey[tower[n][0]] <= m
    BY <1>3, PresentKeys, NoKeyBetween
  <2> HIDE DEF S
  <2>2. Map!Least(S) = nodeKey[tower[n][0]]
    BY <1>1, <2>1, LeastIs
  <2> QED
    BY <2>2, <1>3 DEF Map!AtOrAfter, KeyAt, S
<1> QED
  BY <1>2, <1>3

(* ... and the node it was loaded from answers seek_for_prev and prev.       *)
LEMMA SeesAtOrBefore ==
  ASSUME WriterInv, NEW n \in Linked(0), NEW k \in Nat, nodeKey[n] <= k,
         tower[n][0] # Null => k < nodeKey[tower[n][0]]
  PROVE  Map!AtOrBefore(k) = KeyAt(NotHead(n))
<1> DEFINE S == {m \in Map!Present : m <= k}
<1>1. S \subseteq Nat /\ \A m \in S : m <= nodeKey[n]
  BY PresentKeys, NoKeyBetween
<1>2. CASE n = Head
  <2>1. S = {}
    BY <1>1, <1>2, PresentKeys
  <2> QED
    BY <2>1, <1>2 DEF Map!AtOrBefore, Map!Greatest, KeyAt, EmptyKey, NotHead
<1>3. CASE n # Head
  <2>1. nodeKey[n] \in S /\ \A m \in S : nodeKey[n] >= m
    BY <1>1, <1>3, PresentKeys
  <2>2. n # Null
    BY LinkedBasics, Bounds
  <2> HIDE DEF S
  <2>3. Map!Greatest(S) = nodeKey[n]
    BY <1>1, <2>1, GreatestIs
  <2> QED
    BY <2>2, <2>3, <1>3 DEF Map!AtOrBefore, KeyAt, S, NotHead
<1> QED
  BY <1>2, <1>3

LEMMA SeesBefore ==
  ASSUME WriterInv, NEW n \in Linked(0), NEW k \in Nat, nodeKey[n] < k,
         tower[n][0] # Null => k <= nodeKey[tower[n][0]]
  PROVE  Map!Before(k) = KeyAt(NotHead(n))
<1> DEFINE S == {m \in Map!Present : m < k}
<1>1. S \subseteq Nat /\ \A m \in S : m <= nodeKey[n]
  BY PresentKeys, NoKeyBetween
<1>2. CASE n = Head
  <2>1. S = {}
    BY <1>1, <1>2, PresentKeys
  <2> QED
    BY <2>1, <1>2 DEF Map!Before, Map!Greatest, KeyAt, EmptyKey, NotHead
<1>3. CASE n # Head
  <2>1. nodeKey[n] \in S /\ \A m \in S : nodeKey[n] >= m
    BY <1>1, <1>3, PresentKeys
  <2>2. n # Null
    BY LinkedBasics, Bounds
  <2> HIDE DEF S
  <2>3. Map!Greatest(S) = nodeKey[n]
    BY <1>1, <2>1, GreatestIs
  <2> QED
    BY <2>2, <2>3, <1>3 DEF Map!Before, KeyAt, S, NotHead
<1> QED
  BY <1>2, <1>3

(* A node that holds the wanted key answers seek, get and seek_for_prev.     *)
LEMMA SeesEqual ==
  ASSUME WriterInv, NEW n \in Members
  PROVE  Map!AtOrAfter(nodeKey[n]) = nodeKey[n] /\ Map!AtOrBefore(nodeKey[n]) = nodeKey[n]
<1> DEFINE k == nodeKey[n]
           A == {m \in Map!Present : m >= k}
           B == {m \in Map!Present : m <= k}
<1>1. A \subseteq Nat /\ B \subseteq Nat /\ k \in A /\ k \in B
  BY PresentKeys
<1>2. (\A m \in A : k <= m) /\ (\A m \in B : k >= m)
  OBVIOUS
<1> HIDE DEF A, B, k
<1>3. Map!Least(A) = k /\ Map!Greatest(B) = k
  BY <1>1, <1>2, LeastIs, GreatestIs
<1> QED
  BY <1>3 DEF Map!AtOrAfter, Map!AtOrBefore, A, B, k

(* The ends of the list are the ends of the map.                             *)
LEMMA SeesFirst ==
  ASSUME WriterInv
  PROVE  /\ Map!Least(Map!Present) = KeyAt(tower[Head][0])
         /\ tower[Head][0] = Null <=> Content = {}
<1>1. Head \in Linked(0) /\ nodeKey[Head] = 0
  BY PresentKeys
<1>2. Map!After(0) = KeyAt(tower[Head][0])
  BY <1>1, SeesAfter, NoKeyBetween
<1>3. {m \in Map!Present : m > 0} = Map!Present
  BY PresentKeys
<1>4. tower[Head][0] = Null <=> Members = {}
  BY <1>1, NoKeyBetween, PresentKeys
<1> QED
  BY <1>2, <1>3, <1>4 DEF Map!After, Content

LEMMA SeesLast ==
  ASSUME WriterInv, NEW n \in Linked(0), tower[n][0] = Null
  PROVE  Map!Greatest(Map!Present) = KeyAt(NotHead(n))
<1>1. nodeKey[n] \in Nat
  BY NoKeyBetween
<1>2. Map!AtOrBefore(nodeKey[n]) = KeyAt(NotHead(n))
  BY <1>1, SeesAtOrBefore
<1>3. {m \in Map!Present : m <= nodeKey[n]} = Map!Present
  BY PresentKeys, NoKeyBetween
<1> QED
  BY <1>2, <1>3 DEF Map!AtOrBefore

(* The map has as many entries as the list has nodes.                        *)
LEMMA ContentSize ==
  ASSUME WriterInv
  PROVE  Cardinality(Content) = Cardinality(Members) /\ IsFiniteSet(Members)
<1>1. IsFiniteSet(Members)
  <2>1. IsFiniteSet(Slots)
    BY ArenaAssumption, FS_Interval DEF Slots
  <2> QED
    BY <2>1, FS_Subset, PresentKeys
<1> DEFINE f == [n \in Members |-> <<nodeKey[n], nodeVal[n]>>]
<1>2. f \in Bijection(Members, Content)
  <2>1. f \in [Members -> Content] /\ \A c \in Content : \E n \in Members : f[n] = c
    BY DEF Content
  <2>2. \A n, m \in Members : nodeKey[n] = nodeKey[m] => n = m
    BY PresentKeys, Bounds DEF WriterInv, ListWellFormed, ChainComplete
  <2>3. \A n, m \in Members : f[n] = f[m] => n = m
    BY <2>2
  <2> HIDE DEF f
  <2> QED
    BY <2>1, <2>3 DEF Bijection, Injection, Surjection, IsInjective
<1> QED
  BY <1>1, <1>2, FS_Bijection DEF ExistsBijection
-----------------------------------------------------------------------------
(* The nodes a walk along level 0 has passed when it stands on n, and the    *)
(* ones before it.                                                           *)
UpTo(n)   == {m \in Members : nodeKey[m] <= nodeKey[n]}
Beyond(n) == {m \in Members : nodeKey[m] > nodeKey[n]}

(* Where a reader stands.  What find_near has seen is smaller than its key,  *)
(* and len has counted no more than it passed, while what it has still to    *)
(* pass makes up for what there was when it began.                           *)
Standing(r) ==
  /\ iter[r] # Null => iter[r] \in Members
  /\ rpc[r] # "idle" => cur[r] \in Linked(rlvl[r])
  /\ rpc[r] \in FindNear => rkey[r] \in Keys /\ nodeKey[cur[r]] < rkey[r]
  /\ rpc[r] = "prev" => iter[r] # Null /\ rkey[r] = nodeKey[iter[r]]
  /\ rpc[r] = "find_after_equal" => rlvl[r] = 0 /\ rkey[r] \in Keys /\ nodeKey[cur[r]] = rkey[r]
  /\ rpc[r] = "next" => rlvl[r] = 0 /\ iter[r] # Null /\ cur[r] = iter[r]
  /\ rpc[r] \in {"seek_to_first", "is_empty"} => rlvl[r] = 0 /\ cur[r] = Head
  /\ rpc[r] = "len" => /\ rlvl[r] = 0
                       /\ out[r] <= Cardinality(UpTo(cur[r]))
                       /\ sizeAt[r] <= out[r] + Cardinality(Beyond(cur[r]))

(* How far the answer of a put is fixed, and that its node holds its value.  *)
Answered(t) ==
  /\ pc[t] = "idle" => resp[t] # "panicked"
  /\ pc[t] \in {"descend", "alloc"} => resp[t] = "none"
  /\ Linking(t) => resp[t] = (IF lvl[t] = 0 THEN "none" ELSE "None") /\ nodeVal[x[t]] = wval[t]

MapInv == IInv /\ (\A r \in Readers : Standing(r)) /\ (\A t \in Writers : Answered(t))

LEMMA InitMapInv == Init => MapInv
<1> SUFFICES ASSUME Init PROVE MapInv
  OBVIOUS
<1>1. \A r \in Readers : Standing(r)
  BY DEF Init, Standing, FindNear, KeyedOps
<1>2. \A t \in Writers : Answered(t)
  BY DEF Init, Answered, Linking
<1> QED
  BY <1>1, <1>2, InitIInv DEF MapInv

(* Counting along level 0.                                                   *)
LEMMA CountsFinite ==
  ASSUME WriterInv, NEW n
  PROVE  /\ IsFiniteSet(UpTo(n)) /\ IsFiniteSet(Beyond(n))
         /\ Cardinality(UpTo(n)) \in Nat /\ Cardinality(Beyond(n)) \in Nat
         /\ Cardinality(UpTo(n)) <= Cardinality(Members)
<1>1. IsFiniteSet(Members) /\ UpTo(n) \subseteq Members /\ Beyond(n) \subseteq Members
  BY ContentSize DEF UpTo, Beyond
<1> QED
  BY <1>1, FS_Subset, FS_CardinalityType

LEMMA WalkCounts ==
  ASSUME WriterInv, NEW n \in Linked(0), tower[n][0] # Null
  PROVE  /\ Cardinality(UpTo(tower[n][0])) = Cardinality(UpTo(n)) + 1
         /\ Cardinality(Beyond(n)) = Cardinality(Beyond(tower[n][0])) + 1
<1> DEFINE s == tower[n][0]
<1>1. /\ s \in Members /\ nodeKey[n] < nodeKey[s] /\ nodeKey[n] \in Nat
      /\ \A m \in Members : nodeKey[m] <= nodeKey[n] \/ nodeKey[s] <= nodeKey[m]
  BY NoKeyBetween
<1>2. \A m \in Members : nodeKey[m] \in Nat /\ (nodeKey[m] = nodeKey[s] => m = s)
  BY <1>1, PresentKeys, Bounds DEF WriterInv, ListWellFormed, ChainComplete
<1> HIDE DEF s
<1>3. UpTo(s) = UpTo(n) \cup {s} /\ s \notin UpTo(n)
  BY <1>1, <1>2 DEF UpTo
<1>4. Beyond(n) = Beyond(s) \cup {s} /\ s \notin Beyond(s)
  BY <1>1, <1>2 DEF Beyond
<1>5. IsFiniteSet(UpTo(n)) /\ IsFiniteSet(Beyond(s))
  BY CountsFinite
<1>6. Cardinality(UpTo(n) \cup {s}) = Cardinality(UpTo(n)) + 1
  BY <1>3, <1>5, FS_AddElement
<1>7. Cardinality(Beyond(s) \cup {s}) = Cardinality(Beyond(s)) + 1
  BY <1>4, <1>5, FS_AddElement
<1> QED
  BY <1>3, <1>4, <1>6, <1>7 DEF s

(* What the next load of a reader under way can return.                      *)
LEMMA LoadedFacts ==
  ASSUME IInv, NEW r \in Readers, Standing(r), rpc[r] # "idle"
  PROVE  /\ rlvl[r] \in Levels /\ cur[r] \in Linked(rlvl[r]) /\ cur[r] \in Linked(0)
         /\ nodeKey[cur[r]] \in Nat
         /\ Loaded(r) # Null => /\ Loaded(r) \in Linked(rlvl[r]) /\ Loaded(r) \in Members
                                /\ nodeKey[cur[r]] < nodeKey[Loaded(r)]
         /\ NotHead(cur[r]) # Null => NotHead(cur[r]) \in Members
<1>1. rlvl[r] \in Levels /\ cur[r] \in Linked(rlvl[r]) /\ WriterInv
  BY DEF IInv, TypeReaders, Standing
<1>2. Linked(rlvl[r]) \subseteq Linked(0) /\ nodeKey[cur[r]] \in Nat
  BY <1>1, LinkedBasics, Bounds
<1>3. Loaded(r) # Null => /\ Loaded(r) \in Linked(rlvl[r]) \ {Head}
                          /\ nodeKey[cur[r]] < nodeKey[Loaded(r)]
  BY <1>1 DEF WriterInv, ListWellFormed, ChainSorted, Loaded
<1> QED
  BY <1>1, <1>2, <1>3 DEF Members, NotHead

(* A writer's step, or the drop's, leaves every reader where it stands.      *)
LEMMA WriteKeepsStanding ==
  ASSUME IInv, WriterInv', Grows, UNCHANGED readers, NEW r \in Readers, Standing(r)
  PROVE  Standing(r)'
<1> USE DEF readers
<1>0. WriterInv /\ rlvl[r] \in Levels
  BY DEF IInv, TypeReaders
<1>1. \A n \in Members : n \in Members' /\ nodeKey'[n] = nodeKey[n]
  BY Bounds DEF Grows, Members
<1>2. rpc[r] # "idle" => cur[r] \in Linked(rlvl[r])' /\ nodeKey'[cur[r]] = nodeKey[cur[r]]
  BY <1>0 DEF Standing, Grows
<1>3. ASSUME rpc[r] = "len"
      PROVE  /\ out[r] <= Cardinality(UpTo(cur[r])')
             /\ sizeAt[r] <= out[r] + Cardinality(Beyond(cur[r])')
  <2>1. UpTo(cur[r]) \subseteq UpTo(cur[r])' /\ Beyond(cur[r]) \subseteq Beyond(cur[r])'
    BY <1>1, <1>2, <1>3 DEF UpTo, Beyond
  <2>2. IsFiniteSet(UpTo(cur[r])') /\ IsFiniteSet(Beyond(cur[r])')
    <3>1. IsFiniteSet(Slots)
      BY ArenaAssumption, FS_Interval DEF Slots
    <3>2. UpTo(cur[r])' \subseteq Slots /\ Beyond(cur[r])' \subseteq Slots
      BY Bounds DEF UpTo, Beyond, Members, Linked
    <3> QED
      BY <3>1, <3>2, FS_Subset
  <2>3. /\ Cardinality(UpTo(cur[r])) <= Cardinality(UpTo(cur[r])')
        /\ Cardinality(Beyond(cur[r])) <= Cardinality(Beyond(cur[r])')
        /\ Cardinality(UpTo(cur[r])') \in Nat /\ Cardinality(Beyond(cur[r])') \in Nat
    BY <2>1, <2>2, FS_Subset, FS_CardinalityType
  <2>4. Cardinality(UpTo(cur[r])) \in Nat /\ Cardinality(Beyond(cur[r])) \in Nat
    BY <1>0, CountsFinite
  <2>5. out[r] \in Nat /\ sizeAt[r] \in Nat
    BY DEF IInv, TypeReaders
  <2> QED
    BY <1>3, <2>3, <2>4, <2>5 DEF Standing
<1>4. iter[r] # Null => iter[r] \in Members' /\ nodeKey'[iter[r]] = nodeKey[iter[r]]
  BY <1>1 DEF Standing
<1> QED
  BY <1>2, <1>3, <1>4 DEF Standing, FindNear, KeyedOps

(* While only readers step, the list stays as it is.                         *)
LEMMA ReadSame ==
  ASSUME UNCHANGED <<shared, writers>>
  PROVE  /\ \A i : Linked(i)' = Linked(i)
         /\ Members' = Members /\ nodeKey' = nodeKey /\ nodeVal' = nodeVal /\ tower' = tower
         /\ \A n : UpTo(n)' = UpTo(n) /\ Beyond(n)' = Beyond(n)
BY DEF shared, writers, Linked, Members, UpTo, Beyond

(* Its own call puts a reader in place,                                      *)
LEMMA StartStands ==
  ASSUME IInv, NEW r \in Readers, Standing(r), StartRead(r)
  PROVE  Standing(r)'
<1>1. PICK op, k :
           /\ op \in {"len", "is_empty", "next", "seek_to_first", "seek_to_last"} \cup FindNear
           /\ ReadCall(r, op, k)
           /\ op \in {"next", "prev"} => iter[r] # Null
           /\ op \in KeyedOps => k \in Keys
           /\ op = "prev" => k = nodeKey[iter[r]]
  BY DEF StartRead, FindNear, KeyedOps
<1>2. /\ \A i : Linked(i)' = Linked(i)
      /\ Members' = Members /\ nodeKey' = nodeKey
      /\ \A n : UpTo(n)' = UpTo(n) /\ Beyond(n)' = Beyond(n)
  BY <1>1, ReadSame DEF ReadCall
<1>3. /\ rpc'[r] = op /\ rkey'[r] = k /\ iter' = iter /\ out'[r] = 0
      /\ rlvl'[r] = IF op \in FindNear \cup {"seek_to_last"} THEN height ELSE 0
      /\ cur'[r] = IF op = "next" THEN iter[r] ELSE Head
      /\ op = "len" => sizeAt'[r] = Cardinality(Members)
  BY <1>1 DEF ReadCall, IInv, TypeReaders
<1>4. WriterInv /\ height \in Levels /\ (iter[r] # Null => iter[r] \in Members)
  BY DEF IInv, WriterInv, TypeShared, Standing
<1>5. /\ Members \subseteq Linked(0) /\ nodeKey[Head] = 0
      /\ \A n \in Members : nodeKey[n] \in Keys /\ nodeKey[n] \in Nat /\ nodeKey[n] > 0
  BY PresentKeys DEF IInv
<1>6. \A i \in Levels : Head \in Linked(i)
  BY LinkedBasics DEF IInv
<1>7. op \in FindNear => k \in Keys /\ nodeKey[Head] < k
  BY <1>1, <1>4, <1>5, Bounds DEF FindNear, EmptyKey, IInv
<1>8. op = "len" => /\ 0 <= Cardinality(UpTo(Head))
                    /\ Cardinality(Members) <= 0 + Cardinality(Beyond(Head))
  <2>1. Beyond(Head) = Members
    BY <1>5 DEF Beyond
  <2>2. Cardinality(UpTo(Head)) \in Nat /\ Cardinality(Beyond(Head)) \in Nat
    BY CountsFinite DEF IInv
  <2> QED
    BY <2>1, <2>2
<1>9. cur'[r] \in Linked(rlvl'[r])
  BY <1>1, <1>3, <1>4, <1>5, <1>6, Bounds DEF FindNear, KeyedOps
<1>10. op # "idle" /\ op # "find_after_equal"
  BY <1>1 DEF FindNear, KeyedOps
<1> QED
  BY <1>1, <1>2, <1>3, <1>4, <1>7, <1>8, <1>9, <1>10 DEF Standing, FindNear, KeyedOps

(* the end of a search moves its iterator to a linked node or nowhere,       *)
LEMMA FoundStands ==
  ASSUME IInv, NEW r \in Readers, Standing(r), NEW m, m # Null => m \in Members,
         Found(r, m), UNCHANGED <<shared, writers>>
  PROVE  Standing(r)'
<1>1. rpc'[r] = "idle" /\ (iter'[r] = iter[r] \/ iter'[r] = m)
  BY DEF Found, ReadReturn, IInv, TypeReaders
<1>2. iter[r] # Null => iter[r] \in Members
  BY DEF Standing
<1>3. Members' = Members
  BY ReadSame
<1> QED
  BY <1>1, <1>2, <1>3 DEF Standing, FindNear, KeyedOps

(* and every load in between leaves it on a linked node.                     *)
LEMMA ReadStands ==
  ASSUME IInv, NEW r \in Readers, Standing(r), ReadStep(r)
  PROVE  Standing(r)'
<1>0. UNCHANGED <<shared, writers>> /\ rpc[r] # "idle"
  BY DEF ReadStep, FindNearStep, LoadNext, FindLastStep, LenStep, IsEmptyStep, FindNear, KeyedOps
<1>1. /\ \A i : Linked(i)' = Linked(i)
      /\ Members' = Members /\ nodeKey' = nodeKey
      /\ \A n : UpTo(n)' = UpTo(n) /\ Beyond(n)' = Beyond(n)
  BY <1>0, ReadSame
<1>2. /\ rlvl[r] \in Levels /\ cur[r] \in Linked(rlvl[r]) /\ cur[r] \in Linked(0)
      /\ nodeKey[cur[r]] \in Nat
      /\ Loaded(r) # Null => Loaded(r) \in Linked(rlvl[r]) /\ Loaded(r) \in Members
      /\ NotHead(cur[r]) # Null => NotHead(cur[r]) \in Members
  BY <1>0, LoadedFacts
<1>3. \A i \in Levels : i > 0 => i - 1 \in Levels /\ Linked(i) \subseteq Linked(i - 1)
  BY LinkedBasics, Bounds DEF IInv
<1>4. ASSUME NEW m, m # Null => m \in Members, Found(r, m) PROVE Standing(r)'
  BY <1>0, <1>4, FoundStands
<1>5. rlvl[r] > 0 => cur[r] \in Linked(rlvl[r] - 1)
  BY <1>2, <1>3
<1>6. /\ rpc \in [Readers -> {"idle", "find_after_equal", "len", "is_empty", "next",
                               "seek_to_first", "seek_to_last"} \cup FindNear]
      /\ rlvl \in [Readers -> Levels] /\ cur \in [Readers -> Ptr] /\ iter \in [Readers -> Ptr]
      /\ out \in [Readers -> Nat]
  BY DEF IInv, TypeReaders
<1>7. CASE FindNearStep(r)
  <2> DEFINE n == Loaded(r)
  <2>1. CASE /\ n # Null /\ nodeKey[n] < rkey[r]
             /\ cur' = [cur EXCEPT ![r] = n]
             /\ UNCHANGED <<rpc, rkey, rlvl, iter, out, sizeAt>>
    BY <1>1, <1>2, <1>6, <1>7, <2>1 DEF Standing, FindNearStep, FindNear, KeyedOps
  <2>2. CASE /\ n # Null /\ nodeKey[n] = rkey[r]
             /\ rpc'  = [rpc EXCEPT ![r] = "find_after_equal"]
             /\ rlvl' = [rlvl EXCEPT ![r] = 0]
             /\ cur'  = [cur EXCEPT ![r] = n]
             /\ UNCHANGED <<rkey, iter, out, sizeAt>>
    <3>1. n \in Linked(0) /\ rkey[r] \in Keys
      BY <1>2, <1>7, <2>2 DEF Members, Standing, FindNearStep
    <3> QED
      BY <1>1, <1>6, <2>2, <3>1 DEF Standing, FindNear, KeyedOps
  <2>3. CASE /\ rlvl[r] > 0 /\ rlvl' = [rlvl EXCEPT ![r] = @ - 1]
             /\ UNCHANGED <<rpc, rkey, cur, iter, out, sizeAt>>
    BY <1>1, <1>5, <1>6, <1>7, <2>3 DEF Standing, FindNearStep, FindNear, KeyedOps
  <2>4. CASE Found(r, n) \/ Found(r, NotHead(cur[r]))
    BY <1>2, <1>4, <2>4
  <2> QED
    BY <1>7, <2>1, <2>2, <2>3, <2>4 DEF FindNearStep
<1>8. CASE LoadNext(r)
  BY <1>2, <1>4, <1>8 DEF LoadNext
<1>9. CASE FindLastStep(r)
  <2>1. CASE /\ Loaded(r) # Null /\ cur' = [cur EXCEPT ![r] = Loaded(r)]
             /\ UNCHANGED <<rpc, rkey, rlvl, iter, out, sizeAt>>
    BY <1>1, <1>2, <1>6, <1>9, <2>1 DEF Standing, FindLastStep, FindNear, KeyedOps
  <2>2. CASE /\ rlvl[r] > 0 /\ rlvl' = [rlvl EXCEPT ![r] = @ - 1]
             /\ UNCHANGED <<rpc, rkey, cur, iter, out, sizeAt>>
    BY <1>1, <1>5, <1>6, <1>9, <2>2 DEF Standing, FindLastStep, FindNear, KeyedOps
  <2>3. CASE Found(r, NotHead(cur[r]))
    BY <1>2, <1>4, <2>3
  <2> QED
    BY <1>9, <2>1, <2>2, <2>3 DEF FindLastStep
<1>10. CASE LenStep(r)
  <2>1. CASE ReadReturn(r, out[r])
    BY <1>1, <1>6, <1>10, <2>1 DEF Standing, LenStep, ReadReturn, FindNear, KeyedOps
  <2>2. CASE /\ Loaded(r) # Null /\ out' = [out EXCEPT ![r] = @ + 1]
             /\ cur' = [cur EXCEPT ![r] = Loaded(r)]
             /\ UNCHANGED <<rpc, rkey, rlvl, sizeAt>>
    <3>1. rlvl[r] = 0 /\ Loaded(r) = tower[cur[r]][0] /\ iter' = iter /\ rpc[r] = "len"
      BY <1>10 DEF Standing, LenStep, Loaded
    <3>2. /\ Cardinality(UpTo(Loaded(r))) = Cardinality(UpTo(cur[r])) + 1
          /\ Cardinality(Beyond(cur[r])) = Cardinality(Beyond(Loaded(r))) + 1
      BY <1>2, <2>2, <3>1, WalkCounts DEF IInv
    <3>3. /\ Cardinality(UpTo(cur[r])) \in Nat /\ Cardinality(Beyond(Loaded(r))) \in Nat
          /\ out[r] \in Nat /\ sizeAt[r] \in Nat
      BY CountsFinite DEF IInv, TypeReaders
    <3>4. /\ out[r] + 1 <= Cardinality(UpTo(Loaded(r)))
          /\ sizeAt[r] <= (out[r] + 1) + Cardinality(Beyond(Loaded(r)))
      BY <3>1, <3>2, <3>3 DEF Standing
    <3>5. out'[r] = out[r] + 1 /\ cur'[r] = Loaded(r)
      BY <1>6, <2>2
    <3> QED
      BY <1>1, <1>2, <2>2, <3>1, <3>4, <3>5 DEF Standing, FindNear, KeyedOps
  <2> QED
    BY <1>10, <2>1, <2>2 DEF LenStep
<1>11. CASE IsEmptyStep(r)
  BY <1>1, <1>6, <1>11 DEF Standing, IsEmptyStep, ReadReturn, FindNear, KeyedOps
<1> QED
  BY <1>7, <1>8, <1>9, <1>10, <1>11 DEF ReadStep

(* The others stay where they are.                                           *)
LEMMA OthersRest ==
  ASSUME IInv, NEW r \in Readers, StartRead(r) \/ ReadStep(r), NEW q \in Readers, q # r
  PROVE  /\ rpc'[q] = rpc[q] /\ rkey'[q] = rkey[q] /\ rlvl'[q] = rlvl[q] /\ cur'[q] = cur[q]
         /\ iter'[q] = iter[q] /\ out'[q] = out[q] /\ sizeAt'[q] = sizeAt[q]
BY DEF StartRead, ReadCall, ReadStep, FindNearStep, LoadNext, FindLastStep, LenStep, IsEmptyStep,
       Found, ReadReturn, IInv, TypeReaders

LEMMA OthersStand ==
  ASSUME IInv, NEW r \in Readers, StartRead(r) \/ ReadStep(r),
         NEW q \in Readers, q # r, Standing(q)
  PROVE  Standing(q)'
<1>0. UNCHANGED <<shared, writers>>
  BY DEF StartRead, ReadCall, ReadStep, FindNearStep, LoadNext, FindLastStep, LenStep, IsEmptyStep
<1>1. /\ \A i : Linked(i)' = Linked(i)
      /\ Members' = Members /\ nodeKey' = nodeKey
      /\ \A n : UpTo(n)' = UpTo(n) /\ Beyond(n)' = Beyond(n)
  BY <1>0, ReadSame
<1>2. /\ rpc'[q] = rpc[q] /\ rkey'[q] = rkey[q] /\ rlvl'[q] = rlvl[q] /\ cur'[q] = cur[q]
      /\ iter'[q] = iter[q] /\ out'[q] = out[q] /\ sizeAt'[q] = sizeAt[q]
  BY OthersRest
<1> QED
  BY <1>1, <1>2 DEF Standing

(* The answer of a put is fixed when its node is linked at level 0, or when   *)
(* it returns.                                                               *)
LEMMA PutAnswers ==
  ASSUME WriterInv, NEW t \in Writers, Answered(t),
         PutStep(t) \/ \E k \in Keys, v \in Vals : PutCall(t, k, v)
  PROVE  Answered(t)'
<1>0. /\ pc \in [Writers -> {"idle", "descend", "alloc", "raise", "link", "fresh", "cas",
                             "retry", "panicked", "assert_failed"}]
      /\ lvl \in [Writers -> Levels] /\ x \in [Writers -> Ptr] /\ wval \in [Writers -> Vals \cup {NoVal}]
      /\ resp \in [Writers -> {"none", "None", "Some", "panicked"}]
  BY DEF WriterInv, TypeWriters
<1>1. CASE \E k \in Keys, v \in Vals : PutCall(t, k, v)
  <2>1. pc'[t] = "descend" /\ resp'[t] = "none"
    BY <1>0, <1>1 DEF PutCall
  <2> QED
    BY <2>1 DEF Answered, Linking
<1>2. ASSUME NEW a \in {"Some", "None"}, Return(t, "idle", a) PROVE Answered(t)'
  <2>1. pc'[t] = "idle" /\ resp'[t] = a
    BY <1>0, <1>2 DEF Return
  <2> QED
    BY <2>1 DEF Answered, Linking
<1>3. CASE AllocPanic(t)
  <2>1. pc'[t] = "panicked"
    BY <1>0, <1>3 DEF AllocPanic, Return
  <2> QED
    BY <2>1 DEF Answered, Linking
<1>4. CASE SpliceAdvance(t) \/ FreshSplice(t) \/ LinkSplice(t) \/ CasFail(t) \/ StoreNext(t) \/ RaiseHeight(t)
  <2>1. UNCHANGED <<nodeVal, lvl, x, wval, resp>>
    BY <1>4 DEF SpliceAdvance, FreshSplice, LinkSplice, CasFail, StoreNext, RaiseHeight, shared
  <2>2. \/ pc' = pc
        \/ Linking(t) /\ (pc'[t] = "assert_failed" \/ Linking(t)')
    BY <1>0, <1>4 DEF SpliceAdvance, FreshSplice, LinkSplice, CasFail, StoreNext, RaiseHeight, Linking
  <2> QED
    BY <2>1, <2>2 DEF Answered, Linking
<1>5. CASE DescendFound(t)
  BY <1>2, <1>5 DEF DescendFound
<1>6. CASE DescendEnd(t)
  <2>1. pc[t] = "descend" /\ pc'[t] \in {"descend", "alloc"} /\ resp' = resp
    BY <1>0, <1>6 DEF DescendEnd
  <2> QED
    BY <2>1 DEF Answered, Linking
<1>7. ASSUME NEW h \in Levels, Alloc(t, h) PROVE Answered(t)'
  <2> DEFINE y == arenaLen + 1
  <2>1. y \in Slots
    BY <1>7, ArenaAssumption DEF Alloc, WriterInv, TypeShared, Slots
  <2>2. /\ pc'[t] \in {"raise", "link"} /\ x'[t] = y /\ nodeVal'[y] = wval[t] /\ resp' = resp
        /\ lvl' = lvl /\ wval' = wval
    BY <1>0, <1>7, <2>1 DEF Alloc, WriterInv, TypeShared
  <2>3. pc[t] = "alloc" /\ lvl[t] = 0
    BY <1>7 DEF Alloc, WriterInv, ProgressInv
  <2> QED
    BY <2>2, <2>3 DEF Answered, Linking
<1>8. CASE LinkFound(t)
  <2>1. lvl[t] = 0
    BY <1>8, FoundAtBottom DEF LinkFound
  <2>2. \E a \in {"Some", "None"} : Return(t, "idle", a)
    BY <1>8, <2>1 DEF LinkFound
  <2> QED
    BY <1>2, <2>2
<1>9. CASE CasLink(t)
  <2>1. CASE Return(t, "idle", "None")
    BY <1>2, <2>1
  <2>2. CASE /\ lvl'  = [lvl EXCEPT ![t] = lvl[t] + 1]
             /\ pc'   = [pc EXCEPT ![t] = "link"]
             /\ resp' = [resp EXCEPT ![t] = "None"]
             /\ UNCHANGED <<wval, x, nodeVal>>
    <3>1. lvl[t] \in Nat
      BY <1>0, Bounds
    <3>2. lvl'[t] = lvl[t] + 1 /\ pc'[t] = "link" /\ resp'[t] = "None"
      BY <1>0, <2>2
    <3>3. Linking(t)
      BY <1>9 DEF CasLink, Linking
    <3> QED
      BY <2>2, <3>1, <3>2, <3>3 DEF Answered, Linking
  <2> QED
    BY <1>9, <2>1, <2>2 DEF CasLink, LinkNode
<1> QED
  BY <1>1, <1>3, <1>4, <1>5, <1>6, <1>7, <1>8, <1>9 DEF PutStep

(* It does not depend on what the other threads do.                          *)
LEMMA OthersAnswered ==
  ASSUME WriterInv, NEW t \in Writers, NEW u \in Writers, u # t, Answered(u),
         PutStep(t) \/ \E k \in Keys, v \in Vals : PutCall(t, k, v)
  PROVE  Answered(u)'
<1>1. pc'[u] = pc[u] /\ lvl'[u] = lvl[u] /\ x'[u] = x[u] /\ wval'[u] = wval[u] /\ resp'[u] = resp[u]
  BY DEF PutStep, PutCall, SpliceAdvance, DescendFound, DescendEnd, Alloc, AllocPanic, RaiseHeight,
         FreshSplice, LinkSplice, LinkFound, StoreNext, CasLink, CasFail, LinkNode, Return,
         WriterInv, TypeWriters
<1>2. ASSUME Linking(u) PROVE nodeVal'[x[u]] = nodeVal[x[u]]
  <2>1. x[u] # Null /\ x[u] \in Slots /\ nodeState[x[u]] = "live" /\ x[t] # x[u]
    BY <1>2 DEF WriterInv, OwnerInv, TypeWriters, Ptr
  <2>2. CASE UNCHANGED nodeVal
    BY <2>2
  <2>3. ASSUME NEW h \in Levels, Alloc(t, h) PROVE nodeVal'[x[u]] = nodeVal[x[u]]
    <3>1. x[u] # arenaLen + 1
      BY <2>1 DEF WriterInv, ArenaInv, TypeShared, Slots
    <3> QED
      BY <2>1, <2>3, <3>1 DEF Alloc, WriterInv, TypeShared
  <2>4. CASE LinkFound(t)
    BY <2>1, <2>4 DEF LinkFound, WriterInv, TypeShared, shared
  <2> QED
    BY <2>2, <2>3, <2>4
    DEF PutStep, PutCall, SpliceAdvance, DescendFound, DescendEnd, AllocPanic, RaiseHeight,
        FreshSplice, LinkSplice, StoreNext, CasLink, CasFail, LinkNode, shared
<1> QED
  BY <1>1, <1>2 DEF Answered, Linking

(* The invariant of the refinement.                                          *)
LEMMA NextMapInv ==
  ASSUME MapInv, [Next]_vars PROVE MapInv'
<1>0. IInv /\ WriterInv /\ IInv' /\ WriterInv'
  BY NextIInv DEF MapInv, IInv
<1> DEFINE Goal == (\A r \in Readers : Standing(r)') /\ (\A t \in Writers : Answered(t)')
<1> SUFFICES Goal
  BY <1>0 DEF MapInv
<1>1. ASSUME Next, UNCHANGED readers PROVE \A r \in Readers : Standing(r)'
  BY <1>0, <1>1, StepGrows, WriteKeepsStanding DEF MapInv
<1>2. ASSUME UNCHANGED <<nodeVal, writers>> PROVE \A t \in Writers : Answered(t)'
  BY <1>2 DEF MapInv, Answered, Linking, writers
<1>3. ASSUME NEW t \in Writers, PutStep(t) \/ \E k \in Keys, v \in Vals : PutCall(t, k, v) PROVE Goal
  <2>1. UNCHANGED readers
    BY <1>3 DEF PutStep, PutCall, SpliceAdvance, DescendFound, DescendEnd, Alloc, AllocPanic, RaiseHeight,
         FreshSplice, LinkSplice, LinkFound, StoreNext, CasLink, CasFail, LinkNode
  <2>2. Next
    BY <1>3 DEF Next
  <2>3. \A u \in Writers : Answered(u)'
    BY <1>0, <1>3, PutAnswers, OthersAnswered DEF MapInv
  <2> QED
    BY <1>1, <2>1, <2>2, <2>3
<1>4. ASSUME NEW r \in Readers, StartRead(r) \/ ReadStep(r) PROVE Goal
  <2>1. UNCHANGED <<shared, writers>>
    BY <1>4 DEF StartRead, ReadCall, ReadStep, FindNearStep, LoadNext, FindLastStep, LenStep, IsEmptyStep
  <2>2. \A t \in Writers : Answered(t)'
    BY <1>2, <2>1 DEF shared
  <2>3. \A q \in Readers : Standing(q)'
    BY <1>0, <1>4, StartStands, ReadStands, OthersStand DEF MapInv
  <2> QED
    BY <2>2, <2>3
<1>5. CASE DropCall
  <2>1. \A r \in Readers : Standing(r)'
    BY <1>0, <1>5 DEF DropCall, Standing, FindNear, KeyedOps, IInv, TypeReaders
  <2>2. \A t \in Writers : Answered(t)'
    BY <1>2, <1>5 DEF DropCall, shared
  <2> QED
    BY <2>1, <2>2
<1>6. CASE DropStep
  <2>1. \A r \in Readers : Standing(r)'
    BY <1>1, <1>6 DEF DropStep, Next
  <2>2. \A t \in Writers : Answered(t)'
    BY <1>2, <1>6 DEF DropStep
  <2> QED
    BY <2>1, <2>2
<1>7. CASE UNCHANGED vars
  <2>1. UNCHANGED <<shared, writers, readers>>
    BY <1>7 DEF vars
  <2>2. \A t \in Writers : Answered(t)'
    BY <1>2, <2>1 DEF shared
  <2>3. \A i : Linked(i)' = Linked(i)
    BY <2>1, ReadSame
  <2>4. Members' = Members /\ nodeKey' = nodeKey /\ \A n : UpTo(n)' = UpTo(n) /\ Beyond(n)' = Beyond(n)
    BY <2>1, ReadSame
  <2>5. \A r \in Readers : Standing(r)'
    BY <2>1, <2>3, <2>4 DEF MapInv, Standing, readers
  <2> QED
    BY <2>2, <2>5
<1> QED
  BY <1>3, <1>4, <1>5, <1>6, <1>7 DEF Next

-----------------------------------------------------------------------------
(* A reader's step as the map sees it: only the reader's own request, answer *)
(* and position change.                                                      *)
LEMMA ReaderView ==
  ASSUME IInv, NEW r \in Readers, StartRead(r) \/ ReadStep(r)
  PROVE  /\ Content' = Content /\ resp' = resp
         /\ Requests' = [Requests EXCEPT ![r] = Pending(r)']
         /\ Answers' = [Answers EXCEPT ![r] = IF rpc'[r] = "idle" THEN out'[r] ELSE 0]
         /\ Positions' = [Positions EXCEPT ![r] = KeyAt(iter[r])']
<1>0. UNCHANGED <<shared, writers>>
  BY DEF StartRead, ReadCall, ReadStep, FindNearStep, LoadNext, FindLastStep, LenStep, IsEmptyStep
<1>1. Members' = Members /\ nodeKey' = nodeKey /\ nodeVal' = nodeVal
  BY <1>0, ReadSame
<1>2. \A q \in Readers \ {r} :
         rpc'[q] = rpc[q] /\ rkey'[q] = rkey[q] /\ iter'[q] = iter[q] /\ out'[q] = out[q]
  BY OthersRest
<1>3. Content' = Content /\ resp' = resp
  BY <1>0, <1>1 DEF Content, writers
<1>4. ASSUME NEW t \in Writers \cup Readers, t # r PROVE Pending(t)' = Pending(t)
  BY <1>0, <1>2, <1>4 DEF Pending, OpName, writers
<1>5. Requests' = [Requests EXCEPT ![r] = Pending(r)']
  BY <1>4 DEF Requests
<1>6. Answers' = [Answers EXCEPT ![r] = IF rpc'[r] = "idle" THEN out'[r] ELSE 0]
  BY <1>2 DEF Answers
<1>7. Positions' = [Positions EXCEPT ![r] = KeyAt(iter[r])']
  BY <1>1, <1>2 DEF Positions, KeyAt
<1> QED
  BY <1>3, <1>5, <1>6, <1>7

(* What the map knows of a reader under way.                                 *)
LEMMA ReaderRequest ==
  ASSUME NEW r \in Readers
  PROVE  /\ Requests[r] = Pending(r)
         /\ rpc[r] = "idle" => Pending(r) = Map!Idle
         /\ rpc[r] # "idle" => /\ Requests[r].op = OpName(r)
                               /\ rpc[r] # "prev" => Requests[r].key = rkey[r]
         /\ Answers[r] = IF rpc[r] = "idle" THEN out[r] ELSE 0
         /\ Positions[r] = KeyAt(iter[r])
<1>1. r \notin Writers
  BY ThreadsAssumption
<1> QED
  BY <1>1 DEF Requests, Pending, Map!Idle, Answers, Positions

(* The last load of a read is the instant the map answers it.                *)
LEMMA ReturnObserves ==
  ASSUME IInv, NEW r \in Readers, ReadStep(r), NEW a, ReadReturn(r, a)
  PROVE  /\ Map!Observe(r, OpName(r), a)
         /\ iter' = iter => Positions' = Positions
         /\ \A n : iter' = [iter EXCEPT ![r] = n] => Positions' = [Positions EXCEPT ![r] = KeyAt(n)]
<1>0. UNCHANGED <<shared, writers>> /\ rpc[r] # "idle"
  BY DEF ReadStep, FindNearStep, LoadNext, FindLastStep, LenStep, IsEmptyStep, FindNear, KeyedOps
<1>1. /\ Content' = Content /\ resp' = resp
      /\ Requests' = [Requests EXCEPT ![r] = Pending(r)']
      /\ Answers' = [Answers EXCEPT ![r] = IF rpc'[r] = "idle" THEN out'[r] ELSE 0]
      /\ Positions' = [Positions EXCEPT ![r] = KeyAt(iter[r])']
  BY ReaderView
<1>2. rpc'[r] = "idle" /\ out'[r] = a /\ sizeAt' = [sizeAt EXCEPT ![r] = 0]
  BY DEF ReadReturn, IInv, TypeReaders
<1>3. Pending(r)' = Map!Idle
  BY <1>2, ThreadsAssumption DEF Pending, Map!Idle
<1>4. Requests[r].op = OpName(r)
  BY <1>0, ReaderRequest
<1>5. Map!Observe(r, OpName(r), a)
  BY <1>1, <1>2, <1>3, <1>4 DEF Map!Observe
<1>6. nodeKey' = nodeKey
  BY <1>0 DEF shared
<1>7. iter' = iter => Positions' = Positions
  BY <1>6 DEF Positions, KeyAt
<1>8. ASSUME NEW n, iter' = [iter EXCEPT ![r] = n] PROVE Positions' = [Positions EXCEPT ![r] = KeyAt(n)]
  <2>1. iter'[r] = n
    BY <1>8 DEF IInv, TypeReaders
  <2>2. KeyAt(iter[r])' = KeyAt(n)
    BY <1>6, <2>1 DEF KeyAt
  <2> QED
    BY <1>1, <2>2
<1> QED
  BY <1>5, <1>7, <1>8

(* A load in between is not visible.                                         *)
LEMMA LoadUnseen ==
  ASSUME IInv, NEW r \in Readers, ReadStep(r), rpc'[r] # "idle", OpName(r)' = OpName(r),
         rpc[r] = "prev" <=> rpc'[r] = "prev",
         rkey' = rkey, iter' = iter, sizeAt' = sizeAt
  PROVE  UNCHANGED Map!vars
<1>0. UNCHANGED <<shared, writers>> /\ rpc[r] # "idle"
  BY DEF ReadStep, FindNearStep, LoadNext, FindLastStep, LenStep, IsEmptyStep, FindNear, KeyedOps
<1>1. /\ Content' = Content /\ resp' = resp
      /\ Requests' = [Requests EXCEPT ![r] = Pending(r)']
      /\ Answers' = [Answers EXCEPT ![r] = IF rpc'[r] = "idle" THEN out'[r] ELSE 0]
  BY ReaderView
<1>2. nodeKey' = nodeKey
  BY <1>0 DEF shared
<1>3. Positions' = Positions
  BY <1>2 DEF Positions, KeyAt
<1>4. Pending(r)' = Pending(r)
  BY <1>0, ThreadsAssumption DEF Pending
<1>5. Requests' = Requests
  BY <1>1, <1>4 DEF Requests
<1>6. Answers' = Answers
  BY <1>0, <1>1 DEF Answers
<1> QED
  BY <1>1, <1>3, <1>5, <1>6 DEF Map!vars

(* A search that ends at node n returns the map's answer when n's key is the *)
(* one the map would give.                                                   *)
LEMMA FoundRefines ==
  ASSUME IInv, NEW r \in Readers, Standing(r), ReadStep(r), NEW n, Found(r, n),
         n # Null => n \in Members,
         rpc[r] \in {"get", "seek"} => KeyAt(n) = Map!AtOrAfter(rkey[r]),
         rpc[r] \in {"find_after", "find_after_equal"} => KeyAt(n) = Map!After(rkey[r]),
         rpc[r] = "seek_for_prev" => KeyAt(n) = Map!AtOrBefore(rkey[r]),
         rpc[r] = "prev" => KeyAt(n) = Map!Before(Positions[r]),
         rpc[r] = "next" => KeyAt(n) = Map!After(Positions[r]),
         rpc[r] = "seek_to_first" => KeyAt(n) = Map!Least(Map!Present),
         rpc[r] = "seek_to_last" => KeyAt(n) = Map!Greatest(Map!Present),
         rpc[r] \in {"find_after_equal", "next", "seek_to_first", "seek_to_last"} \cup FindNear
  PROVE  Map!Get(r) \/ Map!FindAfter(r) \/ Map!Iterate(r)
<1>1. rpc[r] # "idle" /\ (rpc[r] # "prev" => Requests[r].key = rkey[r])
  BY ReaderRequest DEF FindNear, KeyedOps
<1>2. CASE rpc[r] = "get"
  <2> DEFINE a == IF n # Null /\ UserKey[nodeKey[n]] # UserKey[rkey[r]] THEN EmptyKey ELSE KeyAt(n)
  <2>1. ReadReturn(r, a) /\ iter' = iter
    BY <1>2 DEF Found
  <2>2. a = Map!Lookup(Requests[r].key)
    <3>1. Map!Lookup(rkey[r]) =
            IF KeyAt(n) # 0 /\ UserKey[KeyAt(n)] = UserKey[rkey[r]] THEN KeyAt(n) ELSE 0
      BY <1>2 DEF Map!Lookup
    <3>2. n # Null => KeyAt(n) = nodeKey[n] /\ KeyAt(n) # 0
      BY PresentKeys DEF KeyAt, IInv
    <3>3. n = Null => KeyAt(n) = 0
      BY DEF KeyAt, EmptyKey
    <3> QED
      BY <1>1, <1>2, <3>1, <3>2, <3>3 DEF EmptyKey
  <2>3. Map!Observe(r, OpName(r), a) /\ Positions' = Positions
    BY <2>1, ReturnObserves
  <2> HIDE DEF a
  <2> QED
    BY <1>2, <2>2, <2>3 DEF Map!Get, OpName
<1>3. CASE rpc[r] \in {"find_after", "find_after_equal"}
  <2>1. ReadReturn(r, KeyAt(n)) /\ iter' = iter
    BY <1>3 DEF Found
  <2>2. Map!Observe(r, OpName(r), KeyAt(n)) /\ Positions' = Positions
    BY <2>1, ReturnObserves
  <2> QED
    BY <1>1, <1>3, <2>2 DEF Map!FindAfter, OpName
<1>4. CASE rpc[r] \notin {"get", "find_after", "find_after_equal"}
  <2>1. ReadReturn(r, KeyAt(n)) /\ iter' = [iter EXCEPT ![r] = n]
    BY <1>4 DEF Found
  <2>2. Map!Observe(r, rpc[r], KeyAt(n)) /\ Positions' = [Positions EXCEPT ![r] = KeyAt(n)]
    BY <1>4, <2>1, ReturnObserves DEF OpName
  <2>3. Map!Move(r, rpc[r], KeyAt(n))
    BY <2>2 DEF Map!Move
  <2> QED
    BY <1>1, <1>4, <2>3 DEF Map!Iterate, FindNear, KeyedOps
<1> QED
  BY <1>2, <1>3, <1>4

(* One turn of find_near is a stutter of the map or its answer.              *)
LEMMA FindNearRefines ==
  ASSUME IInv, NEW r \in Readers, Standing(r), FindNearStep(r)
  PROVE  Map!Get(r) \/ Map!FindAfter(r) \/ Map!Iterate(r) \/ UNCHANGED Map!vars
<1> DEFINE n == Loaded(r)
<1>0. ReadStep(r) /\ rpc[r] \in FindNear /\ rpc[r] # "idle" /\ WriterInv
  BY DEF ReadStep, FindNearStep, FindNear, KeyedOps, IInv
<1>1. /\ cur[r] \in Linked(0) /\ nodeKey[cur[r]] \in Nat
      /\ n # Null => n \in Members /\ n \in Linked(rlvl[r])
      /\ NotHead(cur[r]) # Null => NotHead(cur[r]) \in Members
  BY <1>0, LoadedFacts
<1>2. n # Null => nodeKey[n] \in Nat
  BY <1>0, <1>1, PresentKeys
<1>3. rkey[r] \in Nat /\ nodeKey[cur[r]] < rkey[r]
  BY <1>0, Bounds DEF Standing
<1>4. rpc[r] = "prev" => Positions[r] = rkey[r]
  BY ReaderRequest DEF Standing, KeyAt
<1>5. CASE rlvl[r] = 0 /\ (n # Null => rkey[r] < nodeKey[n])
  <2>1. n = tower[cur[r]][0]
    BY <1>5 DEF Loaded
  <2>2. Map!AtOrAfter(rkey[r]) = KeyAt(n)
    BY <1>0, <1>1, <1>2, <1>3, <1>5, <2>1, SeesAtOrAfter
  <2>3. Map!After(rkey[r]) = KeyAt(n)
    BY <1>0, <1>1, <1>2, <1>3, <1>5, <2>1, SeesAfter
  <2>4. Map!AtOrBefore(rkey[r]) = KeyAt(NotHead(cur[r]))
    BY <1>0, <1>1, <1>2, <1>3, <1>5, <2>1, SeesAtOrBefore
  <2>5. Map!Before(rkey[r]) = KeyAt(NotHead(cur[r]))
    BY <1>0, <1>1, <1>2, <1>3, <1>5, <2>1, SeesBefore
  <2>6. rpc[r] \notin {"find_after_equal", "next", "seek_to_first", "seek_to_last"}
    BY <1>0 DEF FindNear, KeyedOps
  <2>7. IF rpc[r] \in {"seek_for_prev", "prev"} THEN Found(r, NotHead(cur[r])) ELSE Found(r, n)
    BY <1>1, <1>2, <1>3, <1>5 DEF FindNearStep, Less
  <2>8. CASE rpc[r] \in {"seek_for_prev", "prev"}
    BY <1>0, <1>1, <1>4, <2>4, <2>5, <2>6, <2>7, <2>8, FoundRefines
  <2>9. CASE rpc[r] \notin {"seek_for_prev", "prev"}
    BY <1>0, <1>1, <2>2, <2>3, <2>6, <2>7, <2>9, FoundRefines
  <2> QED
    BY <2>8, <2>9
<1>6. CASE n # Null /\ nodeKey[n] = rkey[r] /\ rpc[r] \in AllowEqual
  <2>1. Found(r, n)
    BY <1>3, <1>6 DEF FindNearStep
  <2>2. KeyAt(n) = rkey[r] /\ Map!AtOrAfter(rkey[r]) = rkey[r] /\ Map!AtOrBefore(rkey[r]) = rkey[r]
    BY <1>0, <1>1, <1>6, SeesEqual DEF KeyAt
  <2> QED
    BY <1>0, <1>1, <1>6, <2>1, <2>2, FoundRefines DEF AllowEqual
<1>7. CASE n # Null /\ nodeKey[n] = rkey[r] /\ rpc[r] = "prev" /\ rlvl[r] = 0
  <2>1. Found(r, NotHead(cur[r]))
    BY <1>3, <1>7 DEF FindNearStep, Less, AllowEqual
  <2>2. n = tower[cur[r]][0]
    BY <1>7 DEF Loaded
  <2>3. Map!Before(rkey[r]) = KeyAt(NotHead(cur[r]))
    BY <1>0, <1>1, <1>3, <1>7, <2>2, SeesBefore
  <2> QED
    BY <1>0, <1>1, <1>4, <1>7, <2>1, <2>3, FoundRefines
<1>8. CASE /\ cur' = [cur EXCEPT ![r] = n]
           /\ UNCHANGED <<rpc, rkey, rlvl, iter, out, sizeAt>>
  BY <1>0, <1>8, LoadUnseen DEF OpName
<1>9. CASE /\ rpc[r] = "find_after"
           /\ rpc'  = [rpc EXCEPT ![r] = "find_after_equal"]
           /\ UNCHANGED <<rkey, iter, out, sizeAt>>
  <2>1. rpc'[r] = "find_after_equal"
    BY <1>9 DEF IInv, TypeReaders
  <2> QED
    BY <1>0, <1>9, <2>1, LoadUnseen DEF OpName
<1>10. CASE /\ rlvl' = [rlvl EXCEPT ![r] = @ - 1]
            /\ UNCHANGED <<rpc, rkey, cur, iter, out, sizeAt>>
  BY <1>0, <1>10, LoadUnseen DEF OpName
<1>11. rlvl[r] \in Nat
  BY Bounds DEF IInv, TypeReaders
<1>12. /\ rpc[r] \in Less /\ rpc[r] \notin AllowEqual => rpc[r] = "prev"
       /\ rpc[r] \notin Less /\ rpc[r] \notin AllowEqual => rpc[r] = "find_after"
  BY <1>0 DEF FindNear, KeyedOps, AllowEqual, Less
<1> HIDE DEF n
<1> QED
  <2>1. CASE n # Null /\ nodeKey[n] < rkey[r]
    BY <1>3, <1>8, <1>2, <2>1 DEF FindNearStep, n
  <2>2. CASE n # Null /\ nodeKey[n] = rkey[r]
    BY <1>3, <1>6, <1>7, <1>9, <1>10, <1>11, <1>12, <2>2 DEF FindNearStep, n
  <2>3. CASE n # Null => rkey[r] < nodeKey[n]
    BY <1>3, <1>5, <1>10, <1>2, <1>11, <2>3 DEF FindNearStep, n
  <2> QED
    BY <1>3, <1>2, <2>1, <2>2, <2>3

(* So is every other step of a read.                                         *)
LEMMA ReadRefines ==
  ASSUME IInv, NEW r \in Readers, Standing(r), ReadStep(r)
  PROVE  \/ Map!Get(r) \/ Map!FindAfter(r) \/ Map!IsEmpty(r) \/ Map!Len(r) \/ Map!Iterate(r)
         \/ UNCHANGED Map!vars
<1>0. rpc[r] # "idle" /\ WriterInv
  BY DEF ReadStep, FindNearStep, LoadNext, FindLastStep, LenStep, IsEmptyStep, FindNear, KeyedOps, IInv
<1>1. /\ cur[r] \in Linked(0) /\ nodeKey[cur[r]] \in Nat
      /\ Loaded(r) # Null => Loaded(r) \in Members /\ nodeKey[cur[r]] < nodeKey[Loaded(r)]
      /\ NotHead(cur[r]) # Null => NotHead(cur[r]) \in Members
  BY <1>0, LoadedFacts
<1>2. CASE FindNearStep(r)
  BY <1>2, FindNearRefines
<1>3. CASE LoadNext(r)
  <2>1. Found(r, Loaded(r)) /\ rpc[r] \in {"find_after_equal", "next", "seek_to_first"} /\ rlvl[r] = 0
    BY <1>3 DEF LoadNext, Standing
  <2>2. Loaded(r) = tower[cur[r]][0]
    BY <2>1 DEF Loaded
  <2>3. Map!After(nodeKey[cur[r]]) = KeyAt(Loaded(r))
    BY <1>0, <1>1, <2>2, SeesAfter
  <2>4. rpc[r] = "find_after_equal" => nodeKey[cur[r]] = rkey[r]
    BY DEF Standing
  <2>5. rpc[r] = "next" => nodeKey[cur[r]] = Positions[r]
    BY ReaderRequest DEF Standing, KeyAt
  <2>6. rpc[r] = "seek_to_first" => KeyAt(Loaded(r)) = Map!Least(Map!Present)
    BY <1>0, <2>2, SeesFirst DEF Standing
  <2> QED
    BY <1>1, <2>1, <2>3, <2>4, <2>5, <2>6, FoundRefines
<1>4. CASE FindLastStep(r)
  <2>1. CASE Loaded(r) = Null /\ rlvl[r] = 0 /\ Found(r, NotHead(cur[r]))
    <3>1. tower[cur[r]][0] = Null
      BY <2>1 DEF Loaded
    <3>2. Map!Greatest(Map!Present) = KeyAt(NotHead(cur[r]))
      BY <1>0, <1>1, <3>1, SeesLast
    <3> QED
      BY <1>1, <1>4, <2>1, <3>2, FoundRefines DEF FindLastStep
  <2>2. CASE UNCHANGED <<rpc, rkey, iter, out, sizeAt>>
    BY <1>0, <2>2, LoadUnseen DEF OpName
  <2> QED
    BY <1>4, <2>1, <2>2 DEF FindLastStep
<1>5. CASE LenStep(r)
  <2>1. CASE UNCHANGED <<rpc, rkey, rlvl, sizeAt>>
    BY <1>0, <1>5, <2>1, LoadUnseen DEF OpName, LenStep
  <2>2. CASE Loaded(r) = Null /\ ReadReturn(r, out[r])
    <3>1. rpc[r] = "len" /\ tower[cur[r]][0] = Null /\ iter' = iter
      BY <1>5, <2>2 DEF LenStep, Loaded, Standing
    <3>2. Beyond(cur[r]) = {}
      BY <1>0, <1>1, <3>1, NoKeyBetween, PresentKeys DEF Beyond
    <3>3. out[r] \in Nat /\ sizeAt[r] \in Nat /\ Cardinality(UpTo(cur[r])) \in Nat
      BY <1>0, CountsFinite DEF IInv, TypeReaders
    <3>4. Cardinality(Beyond(cur[r])) = 0
      BY <3>2, FS_EmptySet
    <3>5. sizeAt[r] <= out[r] /\ out[r] <= Cardinality(UpTo(cur[r]))
      BY <3>1, <3>3, <3>4 DEF Standing
    <3>6. /\ Cardinality(UpTo(cur[r])) <= Cardinality(Members) /\ Cardinality(Members) \in Nat
          /\ Cardinality(Content) = Cardinality(Members)
      BY <1>0, CountsFinite, ContentSize, MembersFinite
    <3>7. out[r] \in sizeAt[r]..Cardinality(Content)
      BY <3>3, <3>5, <3>6
    <3>8. Map!Observe(r, "len", out[r]) /\ Positions' = Positions
      BY <2>2, <3>1, ReturnObserves DEF OpName
    <3>9. Map!Len(r)
      <4>1. \E n \in sizeAt[r]..Cardinality(Content) : Map!Observe(r, "len", n)
        BY <3>7, <3>8
      <4>2. Map!Cardinality(Content) = Cardinality(Content)
        BY DEF Map!Cardinality, Cardinality
      <4> QED
        BY <3>8, <4>1, <4>2 DEF Map!Len
    <3> QED
      BY <3>9
  <2> QED
    BY <1>5, <2>1, <2>2 DEF LenStep
<1>6. CASE IsEmptyStep(r)
  <2> DEFINE a == IF Loaded(r) = Null THEN 1 ELSE 0
  <2>1. rpc[r] = "is_empty" /\ ReadReturn(r, a) /\ iter' = iter
    BY <1>6 DEF IsEmptyStep
  <2>2. Loaded(r) = Null <=> Content = {}
    BY <1>0, <2>1, SeesFirst DEF Loaded, Standing
  <2>3. a = IF Content = {} THEN 1 ELSE 0
    BY <2>2
  <2> HIDE DEF a
  <2>4. Map!Observe(r, "is_empty", a) /\ Positions' = Positions
    BY <2>1, ReturnObserves DEF OpName
  <2> QED
    BY <2>3, <2>4 DEF Map!IsEmpty
<1> QED
  BY <1>2, <1>3, <1>4, <1>5, <1>6 DEF ReadStep

(* The call of a read is the map's.                                          *)
LEMMA StartRefines ==
  ASSUME IInv, NEW r \in Readers, Standing(r), StartRead(r)
  PROVE  \/ \E k \in Keys, o \in {"get", "find_after", "seek", "seek_for_prev"} : Map!CallRead(r, o, k)
         \/ \E o \in {"len", "is_empty", "seek_to_first", "seek_to_last"} : Map!CallRead(r, o, 0)
         \/ \E o \in {"prev", "next"} : Positions[r] # 0 /\ Map!CallRead(r, o, 0)
<1>1. ASSUME NEW op \in {"len", "is_empty", "next", "seek_to_first", "seek_to_last"} \cup FindNear,
             NEW k, NEW j, ReadCall(r, op, k), j = (IF op = "prev" THEN 0 ELSE k)
      PROVE  Map!CallRead(r, op, j)
  <2>1. /\ Content' = Content /\ resp' = resp
        /\ Requests' = [Requests EXCEPT ![r] = Pending(r)']
        /\ Answers' = [Answers EXCEPT ![r] = IF rpc'[r] = "idle" THEN out'[r] ELSE 0]
    BY ReaderView
  <2>2. /\ rpc[r] = "idle" /\ rpc'[r] = op /\ rkey'[r] = k /\ out'[r] = 0 /\ op # "idle"
        /\ op # "find_after_equal" /\ iter' = iter /\ UNCHANGED <<shared, writers>>
    BY <1>1 DEF ReadCall, IInv, TypeReaders, FindNear, KeyedOps
  <2>3. Requests[r] = Map!Idle
    BY <2>2, ReaderRequest
  <2>4. Pending(r)' = Map!Request(op, j, NoVal)
    BY <1>1, <2>2, ThreadsAssumption DEF Pending, OpName, Map!Request
  <2>5. Positions' = Positions
    BY <2>2 DEF Positions, KeyAt, shared
  <2>6. Answers' = [Answers EXCEPT ![r] = 0]
    BY <2>1, <2>2
  <2>7. sizeAt' = [sizeAt EXCEPT ![r] = IF op = "len" THEN Map!Cardinality(Content) ELSE 0]
    <3>1. Map!Cardinality(Content) = Cardinality(Content)
      BY DEF Map!Cardinality, Cardinality
    <3>2. Cardinality(Content) = Cardinality(Members)
      BY ContentSize DEF IInv
    <3> QED
      BY <1>1, <3>1, <3>2 DEF ReadCall
  <2> QED
    BY <2>1, <2>3, <2>4, <2>5, <2>6, <2>7 DEF Map!CallRead, Map!Call
<1>2. iter[r] # Null => Positions[r] # 0
  BY ReaderRequest, PresentKeys DEF KeyAt, Standing, IInv
<1>3. CASE \E op \in KeyedOps, k \in Keys : ReadCall(r, op, k)
  <2>1. PICK op \in KeyedOps, k \in Keys : ReadCall(r, op, k)
    BY <1>3
  <2>2. op \in {"get", "find_after", "seek", "seek_for_prev"} /\ op \in FindNear
    BY DEF KeyedOps, FindNear
  <2>3. Map!CallRead(r, op, k)
    BY <1>1, <2>1, <2>2
  <2> QED
    BY <2>2, <2>3
<1>4. CASE \E op \in {"len", "is_empty", "seek_to_first", "seek_to_last"} : ReadCall(r, op, EmptyKey)
  <2>1. PICK op \in {"len", "is_empty", "seek_to_first", "seek_to_last"} : ReadCall(r, op, 0)
    BY <1>4 DEF EmptyKey
  <2>2. Map!CallRead(r, op, 0)
    BY <1>1, <2>1
  <2> QED
    BY <2>2
<1>5. CASE iter[r] # Null /\ ReadCall(r, "prev", nodeKey[iter[r]])
  <2>1. Map!CallRead(r, "prev", 0)
    BY <1>1, <1>5 DEF FindNear
  <2> QED
    BY <1>2, <1>5, <2>1
<1>6. CASE iter[r] # Null /\ ReadCall(r, "next", EmptyKey)
  <2>1. Map!CallRead(r, "next", 0)
    BY <1>1, <1>6 DEF EmptyKey
  <2> QED
    BY <1>2, <1>6, <2>1
<1> QED
  BY <1>3, <1>4, <1>5, <1>6 DEF StartRead

(* A writer's step as the map sees it: only its own request and answer can   *)
(* change, and the content.                                                  *)
LEMMA WriterView ==
  ASSUME IInv, \A r \in Readers : Standing(r), NEW t \in Writers,
         PutStep(t) \/ \E k \in Keys, v \in Vals : PutCall(t, k, v)
  PROVE  /\ Requests' = [Requests EXCEPT ![t] = Pending(t)']
         /\ resp' = [resp EXCEPT ![t] = resp'[t]]
         /\ Answers' = Answers /\ Positions' = Positions /\ sizeAt' = sizeAt
         /\ ~CasLink(t) => Content' = Content
<1>0. UNCHANGED readers
  BY DEF PutStep, PutCall, SpliceAdvance, DescendFound, DescendEnd, Alloc, AllocPanic, RaiseHeight,
         FreshSplice, LinkSplice, LinkFound, StoreNext, CasLink, CasFail, LinkNode
<1>1. /\ \A u \in Writers \ {t} : /\ pc'[u] = pc[u] /\ wkey'[u] = wkey[u] /\ wval'[u] = wval[u]
                                  /\ resp'[u] = resp[u]
      /\ resp' \in [Writers -> {"none", "None", "Some", "panicked"}]
      /\ resp \in [Writers -> {"none", "None", "Some", "panicked"}]
  BY ZenonT(60) DEF PutStep, PutCall, SpliceAdvance, DescendFound, DescendEnd, Alloc, AllocPanic, RaiseHeight,
         FreshSplice, LinkSplice, LinkFound, StoreNext, CasLink, CasFail, LinkNode, Return,
         IInv, WriterInv, TypeWriters
<1>2. resp' = [resp EXCEPT ![t] = resp'[t]]
  BY <1>1
<1>3. ASSUME NEW u \in Writers \cup Readers, u # t PROVE Pending(u)' = Pending(u)
  BY <1>0, <1>1, <1>3 DEF Pending, OpName, readers
<1>4. Requests' = [Requests EXCEPT ![t] = Pending(t)']
  BY <1>3 DEF Requests
<1>5. Grows
  BY StepGrows DEF Next
<1>6. \A n \in Members : nodeKey'[n] = nodeKey[n] /\ nodeVal'[n] = nodeVal[n]
  BY <1>5, Bounds DEF Grows, Members
<1>7. Positions' = Positions
  BY <1>0, <1>6 DEF Positions, KeyAt, Standing, readers
<1>8. ASSUME ~CasLink(t) PROVE Content' = Content
  <2>1. Same
    <3>1. CASE \E h \in Levels : Alloc(t, h)
      BY <3>1, AllocGrows DEF IInv
    <3> QED
      BY <1>8, <3>1, LocalGrows, LinkFoundGrows, StoreNextGrows DEF PutStep, IInv
  <2>2. Members' = Members
    BY <2>1, Bounds DEF Same, Members
  <2> QED
    BY <1>6, <2>2 DEF Content
<1> QED
  BY <1>0, <1>2, <1>4, <1>7, <1>8 DEF Answers, readers

(* What the map knows of a writer.                                           *)
LEMMA WriterRequest ==
  ASSUME NEW t \in Writers
  PROVE  /\ Requests[t] = Pending(t)
         /\ pc[t] \in {"idle", "panicked"} \/ resp[t] = "None" => Requests[t] = Map!Idle
         /\ pc[t] \notin {"idle", "panicked"} /\ resp[t] # "None" =>
              /\ Requests[t] = [op |-> "put", key |-> wkey[t], val |-> wval[t]]
              /\ Requests[t].op = "put" /\ Requests[t].key = wkey[t] /\ Requests[t].val = wval[t]
BY DEF Requests, Pending, Map!Idle

(* put returns.                                                              *)
LEMMA ReturnView ==
  ASSUME IInv, NEW t \in Writers, NEW p \in {"idle", "panicked"}, NEW a, Return(t, p, a)
  PROVE  Pending(t)' = Map!Idle /\ resp' = [resp EXCEPT ![t] = a]
<1>1. pc'[t] = p
  BY DEF Return, IInv, WriterInv, TypeWriters
<1> QED
  BY <1>1 DEF Pending, Map!Idle, Return

(* A put that meets its key leaves the map alone and says whether the value  *)
(* is the one it has.                                                        *)
LEMMA FoundPuts ==
  ASSUME IInv, NEW t \in Writers, NEW a \in Members, nodeKey[a] = wkey[t],
         Requests[t].op = "put", Requests[t].key = wkey[t], Requests[t].val = wval[t],
         Content' = Content, Requests' = [Requests EXCEPT ![t] = Map!Idle],
         resp' = [resp EXCEPT ![t] = IF nodeVal[a] # wval[t] THEN "Some" ELSE "None"],
         UNCHANGED <<Answers, Positions, sizeAt>>
  PROVE  Map!Put(t)
<1> DEFINE e == <<Requests[t].key, Requests[t].val>>
<1>0. WriterInv
  BY DEF IInv
<1>1. e = <<wkey[t], wval[t]>> /\ e[1] = wkey[t]
  OBVIOUS
<1>2. e[1] \in Map!Present
  BY <1>0, <1>1, PresentKeys
<1>3. e \in Content <=> nodeVal[a] = wval[t]
  <2>1. ASSUME e \in Content PROVE nodeVal[a] = wval[t]
    <3>1. PICK n \in Members : e = <<nodeKey[n], nodeVal[n]>>
      BY <2>1 DEF Content
    <3>2. nodeKey[n] = nodeKey[a] /\ nodeVal[n] = wval[t]
      BY <1>1, <3>1
    <3>3. n = a
      BY <1>0, <3>2, PresentKeys, Bounds DEF WriterInv, ListWellFormed, ChainComplete
    <3> QED
      BY <3>2, <3>3
  <2>2. ASSUME nodeVal[a] = wval[t] PROVE e \in Content
    BY <1>1, <2>2 DEF Content
  <2> QED
    BY <2>1, <2>2
<1>4. Map!Answer(t, IF e \in Content THEN "None" ELSE "Some")
  BY <1>3 DEF Map!Answer
<1> QED
  BY <1>2, <1>4 DEF Map!Put

(* Every step of a put is a stutter of the map, but for the three that fix   *)
(* its answer: meeting the key, linking the node at level 0 and panicking.   *)
LEMMA PutRefines ==
  ASSUME MapInv, NEW t \in Writers, PutStep(t)
  PROVE  Map!Put(t) \/ Map!PutPanics(t) \/ UNCHANGED Map!vars
<1>0. IInv /\ WriterInv /\ Answered(t) /\ \A r \in Readers : Standing(r)
  BY DEF MapInv, IInv
<1>1. /\ Requests' = [Requests EXCEPT ![t] = Pending(t)']
      /\ resp' = [resp EXCEPT ![t] = resp'[t]]
      /\ Answers' = Answers /\ Positions' = Positions /\ sizeAt' = sizeAt
      /\ ~CasLink(t) => Content' = Content
  BY <1>0, WriterView
<1>2. pc[t] \notin {"idle", "panicked"}
  BY DEF PutStep, SpliceAdvance, DescendFound, DescendEnd, Alloc, AllocPanic, RaiseHeight,
         FreshSplice, LinkSplice, LinkFound, StoreNext, CasLink, CasFail
<1>3. ASSUME Content' = Content, resp' = resp, Pending(t)' = Pending(t) PROVE UNCHANGED Map!vars
  <2>1. Requests' = Requests
    BY <1>1, <1>3 DEF Requests
  <2> QED
    BY <1>1, <1>3, <2>1 DEF Map!vars
<1>4. CASE \/ SpliceAdvance(t) \/ DescendEnd(t) \/ RaiseHeight(t) \/ FreshSplice(t) \/ LinkSplice(t)
           \/ StoreNext(t) \/ CasFail(t) \/ \E h \in Levels : Alloc(t, h)
  <2>1. UNCHANGED <<wkey, wval, resp>> /\ pc'[t] \notin {"idle", "panicked"} /\ ~CasLink(t)
    <3>1. UNCHANGED <<wkey, wval, resp>>
      BY <1>4 DEF SpliceAdvance, DescendEnd, RaiseHeight, FreshSplice, LinkSplice, StoreNext, CasFail, Alloc
    <3>2. pc'[t] \notin {"idle", "panicked"}
      BY <1>0, <1>2, <1>4 DEF SpliceAdvance, DescendEnd, RaiseHeight, FreshSplice, LinkSplice, StoreNext,
                CasFail, Alloc, WriterInv, TypeWriters
    <3>3. ~CasLink(t)
      BY <1>4 DEF SpliceAdvance, DescendEnd, RaiseHeight, FreshSplice, LinkSplice, StoreNext, CasFail,
                  Alloc, CasLink
    <3> QED
      BY <3>1, <3>2, <3>3
  <2>2. Pending(t)' = Pending(t)
    BY <1>2, <2>1 DEF Pending
  <2> QED
    BY <1>1, <1>3, <2>1, <2>2
<1>5. CASE DescendFound(t)
  <2>1. pc[t] = "descend" /\ resp[t] = "none" /\ ~CasLink(t)
    BY <1>0, <1>5 DEF DescendFound, Answered, CasLink
  <2>2. /\ Ahead(t) \in Linked(lvl[t]) /\ Ahead(t) # Head /\ lvl[t] \in Levels
        /\ nodeKey[Ahead(t)] = wkey[t]
    BY <1>0, <1>5, <2>1, AheadLinked DEF DescendFound, SpliceEqual
  <2>3. Ahead(t) \in Members
    BY <1>0, <2>2, LinkedBasics, Bounds DEF Members
  <2>4. /\ Pending(t)' = Map!Idle
        /\ resp' = [resp EXCEPT ![t] = IF nodeVal[Ahead(t)] # wval[t] THEN "Some" ELSE "None"]
    BY <1>0, <1>5, ReturnView DEF DescendFound
  <2>5. Requests[t].op = "put" /\ Requests[t].key = wkey[t] /\ Requests[t].val = wval[t]
    BY <2>1, WriterRequest
  <2>6. Requests' = [Requests EXCEPT ![t] = Map!Idle]
    BY <1>1, <2>4
  <2> QED
    BY <1>0, <1>1, <2>1, <2>2, <2>3, <2>4, <2>5, <2>6, FoundPuts
<1>6. CASE LinkFound(t)
  <2>1. pc[t] \in {"fresh", "retry"} /\ SpliceEqual(t) /\ lvl[t] = 0
    BY <1>0, <1>6, FoundAtBottom DEF LinkFound
  <2>2. resp[t] = "none" /\ nodeVal[x[t]] = wval[t] /\ ~CasLink(t)
    BY <1>0, <2>1 DEF Answered, Linking, CasLink
  <2>3. Ahead(t) \in Members /\ nodeKey[Ahead(t)] = wkey[t]
    BY <1>0, <2>1, AheadLinked DEF SpliceEqual, Members
  <2>4. Return(t, "idle", IF nodeVal[Ahead(t)] # wval[t] THEN "Some" ELSE "None")
    BY <1>6, <2>1, <2>2 DEF LinkFound
  <2>5. /\ Pending(t)' = Map!Idle
        /\ resp' = [resp EXCEPT ![t] = IF nodeVal[Ahead(t)] # wval[t] THEN "Some" ELSE "None"]
    BY <1>0, <2>4, ReturnView
  <2>6. Requests[t].op = "put" /\ Requests[t].key = wkey[t] /\ Requests[t].val = wval[t]
    BY <1>2, <2>2, WriterRequest
  <2>7. Requests' = [Requests EXCEPT ![t] = Map!Idle]
    BY <1>1, <2>5
  <2> QED
    BY <1>0, <1>1, <2>2, <2>3, <2>5, <2>6, <2>7, FoundPuts
<1>7. CASE AllocPanic(t)
  <2>1. Pending(t)' = Map!Idle /\ resp' = [resp EXCEPT ![t] = "panicked"]
    BY <1>0, <1>7, ReturnView DEF AllocPanic
  <2>2. pc[t] = "alloc" /\ resp[t] = "none" /\ ~CasLink(t)
    BY <1>0, <1>7 DEF AllocPanic, Answered, CasLink
  <2>3. Requests[t].op = "put"
    BY <2>2, WriterRequest
  <2> QED
    BY <1>1, <2>1, <2>2, <2>3 DEF Map!PutPanics, Map!Answer
<1>8. CASE CasLink(t)
  <2>1. Pending(t)' = Map!Idle /\ resp' = [resp EXCEPT ![t] = "None"]
    <3>1. CASE Return(t, "idle", "None")
      BY <1>0, <3>1, ReturnView
    <3>2. CASE resp' = [resp EXCEPT ![t] = "None"]
      <4>1. resp'[t] = "None"
        BY <1>0, <3>2 DEF WriterInv, TypeWriters
      <4> QED
        BY <3>2, <4>1 DEF Pending, Map!Idle
    <3> QED
      BY <1>8, <3>1, <3>2 DEF CasLink, LinkNode
  <2>2. \A j \in Levels : Linked(j)' = IF j = lvl[t] THEN Linked(j) \cup {x[t]} ELSE Linked(j)
    BY <1>0, <1>8, CasLinkLinks
  <2>3. /\ lvl[t] \in Levels /\ x[t] # Head /\ nodeKey[x[t]] = wkey[t] /\ x[t] \in Slots
        /\ x[t] \notin Linked(lvl[t])
    BY <1>0, <1>8, CasLinkFacts DEF CasLink
  <2>4. pc[t] = "cas" /\ Linking(t) /\ UNCHANGED <<nodeKey, nodeVal>>
    BY <1>8 DEF CasLink, LinkNode, Linking
  <2>5. resp[t] = (IF lvl[t] = 0 THEN "none" ELSE "None") /\ nodeVal[x[t]] = wval[t]
    BY <1>0, <2>4 DEF Answered
  <2>6. CASE lvl[t] # 0
    <3>1. Members' = Members
      BY <2>2, <2>6, Bounds DEF Members
    <3>2. Content' = Content
      BY <2>4, <3>1 DEF Content
    <3>3. resp' = resp
      BY <1>0, <2>1, <2>5, <2>6 DEF WriterInv, TypeWriters
    <3>4. Pending(t) = Map!Idle
      BY <2>5, <2>6, WriterRequest
    <3> QED
      BY <1>3, <2>1, <3>2, <3>3, <3>4
  <2>7. CASE lvl[t] = 0
    <3> DEFINE e == <<Requests[t].key, Requests[t].val>>
    <3>1. Members' = Members \cup {x[t]}
      BY <2>2, <2>3, <2>7, Bounds DEF Members
    <3>2. Requests[t].op = "put" /\ Requests[t].key = wkey[t] /\ Requests[t].val = wval[t]
      BY <2>4, <2>5, <2>7, WriterRequest
    <3>3. e = <<nodeKey[x[t]], nodeVal[x[t]]>> /\ e[1] = wkey[t]
      BY <2>3, <2>5, <3>2
    <3>4. Content' = Content \cup {e}
      BY <2>4, <3>1, <3>3 DEF Content
    <3>5. e[1] \notin Map!Present
      <4>1. ASSUME NEW n \in Members, nodeKey[n] = wkey[t] PROVE FALSE
        <5>1. x[t] \in Linked(0)' /\ n \in Linked(0)' /\ n # x[t] /\ nodeKey'[n] = nodeKey'[x[t]]
          BY <2>2, <2>3, <2>4, <2>7, <4>1, Bounds DEF Members
        <5>2. ListWellFormed'
          BY <1>0, <1>8, CasLinkChains
        <5> QED
          BY <5>1, <5>2, Bounds DEF ListWellFormed, ChainComplete
      <4> QED
        BY <1>0, <3>3, <4>1, PresentKeys
    <3>6. Map!Answer(t, "None")
      BY <1>1, <2>1 DEF Map!Answer
    <3>7. Map!Put(t)
      BY <3>2, <3>4, <3>5, <3>6 DEF Map!Put
    <3> QED
      BY <3>7
  <2> QED
    BY <2>6, <2>7
<1> QED
  BY <1>4, <1>5, <1>6, <1>7, <1>8 DEF PutStep

(* The initial states and the steps of the list are those of the map.        *)
LEMMA InitRefines == Init => Map!Init
<1> SUFFICES ASSUME Init PROVE Map!Init
  OBVIOUS
<1>1. Linked(0) = {Head}
  BY Bounds DEF Init, Linked
<1>2. Content = {}
  BY <1>1 DEF Content, Members
<1>3. Requests = [t \in Map!Threads |-> Map!Idle]
  BY ThreadsAssumption DEF Init, Requests, Pending, Map!Threads, Map!Idle
<1>4. Answers = [r \in Readers |-> 0] /\ Positions = [r \in Readers |-> 0]
  BY DEF Init, Answers, Positions, KeyAt, EmptyKey
<1> QED
  BY <1>2, <1>3, <1>4 DEF Map!Init, Init

LEMMA NextRefines ==
  ASSUME MapInv, [Next]_vars PROVE [Map!Next]_Map!vars
<1>0. IInv /\ WriterInv /\ \A r \in Readers : Standing(r)
  BY DEF MapInv, IInv
<1>1. ASSUME NEW t \in Writers, NEW k \in Keys, NEW v \in Vals, PutCall(t, k, v) PROVE Map!Next
  <2>1. /\ Requests' = [Requests EXCEPT ![t] = Pending(t)']
        /\ Answers' = Answers /\ Positions' = Positions /\ sizeAt' = sizeAt
        /\ ~CasLink(t) => Content' = Content
    BY <1>0, <1>1, WriterView
  <2>2. pc[t] = "idle" /\ resp[t] # "panicked" /\ ~CasLink(t)
    BY <1>1 DEF PutCall, MapInv, Answered, CasLink
  <2>3. /\ pc'[t] = "descend" /\ wkey'[t] = k /\ wval'[t] = v /\ resp'[t] = "none"
        /\ resp' = [resp EXCEPT ![t] = "none"]
    BY <1>0, <1>1 DEF PutCall, WriterInv, TypeWriters
  <2>4. Pending(t)' = Map!Request("put", k, v)
    BY <2>3 DEF Pending, Map!Request
  <2>5. Requests[t] = Map!Idle
    BY <2>2, WriterRequest
  <2>6. Map!CallPut(t, k, v)
    BY <2>1, <2>2, <2>3, <2>4, <2>5 DEF Map!CallPut, Map!Call
  <2> QED
    BY <2>6 DEF Map!Next
<1>2. ASSUME NEW t \in Writers, PutStep(t) PROVE [Map!Next]_Map!vars
  BY <1>2, PutRefines DEF Map!Next
<1>3. ASSUME NEW r \in Readers, StartRead(r) PROVE Map!Next
  BY <1>0, <1>3, StartRefines DEF Map!Next
<1>4. ASSUME NEW r \in Readers, ReadStep(r) PROVE [Map!Next]_Map!vars
  BY <1>0, <1>4, ReadRefines DEF Map!Next
<1>5. CASE DropCall
  <2>1. \A t \in Map!Threads : Requests[t] = Map!Idle
    BY <1>5, WriterRequest, ReaderRequest DEF DropCall, Map!Threads
  <2>2. UNCHANGED <<shared, writers>> /\ UNCHANGED <<rpc, rkey, out, sizeAt>>
    BY <1>5 DEF DropCall
  <2>3. Content' = Content
    BY <2>2, ReadSame DEF Content
  <2>4. Requests' = Requests /\ Answers' = Answers
    BY <2>2 DEF Requests, Pending, OpName, Answers, writers
  <2>5. Positions' = [r \in Readers |-> 0]
    BY <1>5 DEF DropCall, Positions, KeyAt, EmptyKey
  <2>6. Map!Drop
    BY <2>1, <2>2, <2>3, <2>4, <2>5 DEF Map!Drop, writers
  <2> QED
    BY <2>6 DEF Map!Next
<1>6. CASE DropStep
  <2>1. Grows /\ Same
    BY <1>0, <1>6, DropGrows
  <2>2. UNCHANGED <<nodeKey, nodeVal, writers, readers>>
    BY <1>6 DEF DropStep
  <2>3. Members' = Members
    BY <2>1, Bounds DEF Same, Members
  <2> QED
    BY <2>2, <2>3 DEF Map!vars, Content, Requests, Pending, OpName, Answers, Positions, KeyAt, writers, readers
<1>7. CASE UNCHANGED vars
  <2>1. UNCHANGED <<shared, writers, readers>>
    BY <1>7 DEF vars
  <2>2. Content' = Content
    BY <2>1, ReadSame DEF Content
  <2> QED
    BY <2>1, <2>2 DEF Map!vars, Requests, Pending, OpName, Answers, Positions, KeyAt, shared, writers, readers
<1> QED
  BY <1>1, <1>2, <1>3, <1>4, <1>5, <1>6, <1>7 DEF Next

(* The skiplist is a linearizable insert-only ordered map for any number of  *)
(* writers and readers: each get, iterator move, is_empty and len answers    *)
(* with what the map held at one instant of the call, and each put takes     *)
(* effect once, at the compare-exchange of level 0 or where it meets its key. *)
THEOREM ListIsLinearizable == Spec => Linearizable
<1>1. Spec => []MapInv
  BY InitMapInv, NextMapInv, PTL DEF Spec
<1> QED
  BY <1>1, InitRefines, NextRefines, PTL DEF Spec, Linearizable, Map!Spec
=============================================================================
