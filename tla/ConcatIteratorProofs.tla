------------------------ MODULE ConcatIteratorProofs ------------------------
(* What ConcatIterator promises, for levels of any number of tables of any   *)
(* size, and every sequence of calls.                                        *)
EXTENDS ConcatIterator, TableLemmas, TLAPS

-----------------------------------------------------------------------------
(* One table of the level.                                                   *)

Sorted(t, es) == IsTable(t, es) /\ Ordered(es)

(* Iterator i stands on entry p of the table t of es.                        *)
On(i, t, es, p) ==
  /\ p \in 1..Len(es) /\ i.err = "none" /\ i.bi.key = es[p].key
  /\ \E start : Layout(t, es, start) /\ AtPos(i, t, es, start, p)

LEMMA OnIt ==
  ASSUME NEW t, NEW es, NEW start, Layout(t, es, start), NEW i, NEW p, AtPos(i, t, es, start, p)
  PROVE  On(i, t, es, p)
<1>1. PICK e : OnEntry(i.bi, t, es, start, i.bpos, e, p)
  BY DEF AtPos
<1>2. i.bi.key = es[p].key /\ p \in 1..Len(es)
  BY <1>1 DEF OnEntry, Holding
<1> QED
  BY <1>2 DEF On, AtPos

LEMMA SortedIs ==
  ASSUME NEW t, NEW es, Sorted(t, es)
  PROVE  /\ \E start : Layout(t, es, start)
         /\ es \in Seq(Additions) /\ Ordered(es) /\ Len(es) \in Nat \ {0}
         /\ Loose(NewIterator, t, es)
         /\ SmallestKey(t) = es[1].key /\ BiggestKey(t) = es[Len(es)].key
<1>1. PICK start : Layout(t, es, start)
  BY DEF Sorted, IsTable, Layout
<1>2. es \in Seq(Additions) /\ Ordered(es)
  BY <1>1 DEF Sorted, Layout
<1>3. NumBlocks(t) \in Nat \ {0} /\ Len(es) \in Nat \ {0} /\ start[0] = 0
  BY <1>1, Blocks
<1>4. Loose(NewIterator, t, es)
  BY <1>1, NewIsLoose
<1>5. SmallestKey(t) = es[1].key
  <2>1. 0 \in 0..(NumBlocks(t) - 1)
    BY <1>3
  <2>2. BaseKey(t, 0) = es[start[0] + 1].key
    BY <1>1, <2>1, LayoutBlock
  <2> QED
    BY <1>3, <2>2 DEF SmallestKey
<1>6. BiggestKey(t) = es[Len(es)].key
  <2>1. PICK r : r = SeekToLast(t, NewIterator, {})
    OBVIOUS
  <2>2. AtPos(r, t, es, start, Len(es))
    BY <1>1, <1>4, <2>1, SeekToEnds
  <2>3. On(r, t, es, Len(es))
    BY <1>1, <2>2, OnIt
  <2>4. BiggestKey(t) = r.bi.key
    BY <2>1 DEF BiggestKey, IterRewind
  <2> QED
    BY <2>3, <2>4 DEF On
<1> QED
  BY <1>1, <1>2, <1>3, <1>4, <1>5, <1>6

(* No operation of a table's iterator, with whichever blocks failing, leaves *)
(* it in a state the others cannot go on from.                               *)
LEMMA StaysLoose ==
  ASSUME NEW t, NEW es, Sorted(t, es), NEW i, Loose(i, t, es), NEW back \in BOOLEAN, NEW bad
  PROVE  /\ Loose(IterRewind(t, i, back, bad), t, es)
         /\ Loose(IterNext(t, i, back, bad), t, es)
         /\ \A k \in Keys : Loose(IterSeek(t, i, k, back, bad), t, es)
<1>1. PICK start : Layout(t, es, start)
  BY SortedIs
<1>2. Ordered(es)
  BY SortedIs
<1>3. /\ Loose(SeekToFirst(t, i, bad), t, es) /\ Loose(SeekToLast(t, i, bad), t, es)
      /\ Loose(NextInner(t, i, bad), t, es) /\ Loose(PrevInner(t, i, bad), t, es)
  BY <1>1, SeekToEnds, NextLoose, PrevLoose
<1>4. \A k \in Keys : /\ Loose(SeekInner(t, i, k, bad), t, es)
                      /\ Loose(SeekForPrev(t, i, k, bad), t, es)
  BY <1>1, <1>2, SeekForPrevLoose
<1>5. CASE back
  BY <1>3, <1>4, <1>5 DEF IterRewind, IterNext, IterSeek
<1>6. CASE ~back
  BY <1>3, <1>4, <1>6 DEF IterRewind, IterNext, IterSeek
<1> QED
  BY <1>5, <1>6

(* The first entry in the direction of the iterator, and the last.           *)
LEMMA RewindLeads ==
  ASSUME NEW t, NEW es, Sorted(t, es), NEW i, Loose(i, t, es), NEW back \in BOOLEAN, NEW bad,
         NEW r, r = IterRewind(t, i, back, bad)
  PROVE  r.err = "Error" \/ On(r, t, es, IF back THEN Len(es) ELSE 1)
<1>1. PICK start : Layout(t, es, start)
  BY SortedIs
<1>2. /\ SeekToFirst(t, i, bad).err = "Error" \/ On(SeekToFirst(t, i, bad), t, es, 1)
      /\ SeekToLast(t, i, bad).err = "Error" \/ On(SeekToLast(t, i, bad), t, es, Len(es))
  BY <1>1, SeekToEnds, OnIt
<1>3. CASE back
  BY <1>2, <1>3 DEF IterRewind
<1>4. CASE ~back
  BY <1>2, <1>4 DEF IterRewind
<1> QED
  BY <1>3, <1>4

(* The neighbouring entry, or the end of the table.                          *)
LEMMA NextLeads ==
  ASSUME NEW t, NEW es, Sorted(t, es), NEW i, Loose(i, t, es), NEW p, On(i, t, es, p)
  PROVE  /\ \/ p < Len(es) /\ On(IterNext(t, i, FALSE, {}), t, es, p + 1)
            \/ p = Len(es) /\ IterNext(t, i, FALSE, {}).err = "EOF"
         /\ \/ p > 1 /\ On(IterNext(t, i, TRUE, {}), t, es, p - 1)
            \/ p = 1 /\ IterNext(t, i, TRUE, {}).err = "EOF"
<1>1. PICK start : Layout(t, es, start) /\ AtPos(i, t, es, start, p)
  BY DEF On
<1>2. PICK f, b : f = NextInner(t, i, {}) /\ b = PrevInner(t, i, {})
  OBVIOUS
<1>3. \/ p < Len(es) /\ AtPos(f, t, es, start, p + 1)
      \/ p = Len(es) /\ AtEnd(f, t, es)
  BY <1>1, <1>2, NextFromEntry
<1>4. \/ p > 1 /\ AtPos(b, t, es, start, p - 1)
      \/ p = 1 /\ AtBegin(b)
  BY <1>1, <1>2, PrevFromEntry
<1>5. \/ p < Len(es) /\ On(f, t, es, p + 1)
      \/ p = Len(es) /\ f.err = "EOF"
  BY <1>1, <1>3, OnIt DEF AtEnd, AtLast
<1>6. \/ p > 1 /\ On(b, t, es, p - 1)
      \/ p = 1 /\ b.err = "EOF"
  BY <1>1, <1>4, OnIt DEF AtBegin
<1> QED
  BY <1>2, <1>5, <1>6 DEF IterNext

(* The entry sought for, in a table that has one.                            *)
LEMMA SeekLeadsTo ==
  ASSUME NEW t, NEW es, Sorted(t, es), NEW i, Loose(i, t, es), NEW k \in Keys
  PROVE  /\ \A bad : ~KeyLess(es[Len(es)].key, k) =>
               \/ IterSeek(t, i, k, FALSE, bad).err = "Error"
               \/ \E p : FirstFrom(es, k, p) /\ On(IterSeek(t, i, k, FALSE, bad), t, es, p)
         /\ ~KeyLess(k, es[1].key) =>
               \E p : LastUpto(es, k, p) /\ On(IterSeek(t, i, k, TRUE, {}), t, es, p)
<1>1. PICK start : Layout(t, es, start)
  BY SortedIs
<1>2. Ordered(es)
  BY SortedIs
<1>3. ASSUME NEW bad, ~KeyLess(es[Len(es)].key, k)
      PROVE  \/ IterSeek(t, i, k, FALSE, bad).err = "Error"
             \/ \E p : FirstFrom(es, k, p) /\ On(IterSeek(t, i, k, FALSE, bad), t, es, p)
  <2>1. PICK r : r = SeekInner(t, i, k, bad)
    OBVIOUS
  <2>2. SeekLeads(r, t, es, start, k, bad)
    BY <1>1, <1>2, <2>1, SeekInnerLeads
  <2>3. r.err = "Error" \/ \E p : FirstFrom(es, k, p) /\ On(r, t, es, p)
    BY <1>1, <1>3, <2>2, OnIt DEF SeekLeads
  <2> QED
    BY <2>1, <2>3 DEF IterSeek
<1>4. ASSUME ~KeyLess(k, es[1].key)
      PROVE  \E p : LastUpto(es, k, p) /\ On(IterSeek(t, i, k, TRUE, {}), t, es, p)
  <2>1. PICK r : r = SeekForPrev(t, i, k, {})
    OBVIOUS
  <2>2. \E p : LastUpto(es, k, p) /\ AtPos(r, t, es, start, p)
    BY <1>1, <1>2, <1>4, <2>1, SeekForPrevLeads
  <2>3. \E p : LastUpto(es, k, p) /\ On(r, t, es, p)
    BY <1>1, <2>2, OnIt
  <2> QED
    BY <2>1, <2>3 DEF IterSeek
<1> QED
  BY <1>3, <1>4

-----------------------------------------------------------------------------
(* The level, and the iterators over its tables, whatever fails.             *)

Stored == /\ level \in Levels /\ N = Len(level)
          /\ \A i \in 1..N : Sorted(tables[i], level[i])

LEMMA LevelIs ==
  ASSUME NEW l \in Levels
  PROVE  /\ Len(l) \in Nat /\ DOMAIN l = 1..Len(l)
         /\ \A i \in 1..Len(l) : /\ l[i] \in Seq(Additions) /\ Ordered(l[i]) /\ l[i] # <<>>
                                 /\ KeysIn(l[i]) = KeysOf(l[i]) /\ KeysOf(l[i]) \subseteq Keys
         /\ \A i, j \in 1..Len(l) :
               i < j => \A k \in KeysOf(l[i]), m \in KeysOf(l[j]) : KeyLess(k, m)
<1>1. l \in Seq(Seq(Additions))
  BY LevelsAssumption DEF Additions
<1>2. Len(l) \in Nat /\ DOMAIN l = 1..Len(l)
  BY <1>1, LenProperties
<1>3. ASSUME NEW i \in 1..Len(l)
      PROVE  /\ l[i] \in Seq(Additions) /\ Ordered(l[i]) /\ l[i] # <<>>
             /\ KeysIn(l[i]) = KeysOf(l[i]) /\ KeysOf(l[i]) \subseteq Keys
  <2>1. l[i] \in Seq(Additions)
    BY <1>1, ElementOfSeq
  <2>2. DOMAIN l[i] = 1..Len(l[i])
    BY <2>1, LenProperties
  <2>3. KeysIn(l[i]) = KeysOf(l[i])
    BY <2>2 DEF KeysIn, KeysOf
  <2>4. l[i] # <<>> /\ \A p, q \in DOMAIN l[i] : p < q => KeyLess(l[i][p].key, l[i][q].key)
    BY <1>2, LevelsAssumption
  <2> QED
    BY <2>1, <2>2, <2>3, <2>4, AdditionKeys DEF Ordered
<1>4. ASSUME NEW i \in 1..Len(l), NEW j \in 1..Len(l), i < j
      PROVE  \A k \in KeysOf(l[i]), m \in KeysOf(l[j]) : KeyLess(k, m)
  <2>1. \A k \in KeysIn(l[i]), m \in KeysIn(l[j]) : KeyLess(k, m)
    BY <1>2, <1>4, LevelsAssumption
  <2> QED
    BY <1>3, <2>1, Zenon
<1> QED
  BY <1>2, <1>3, <1>4

LEMMA StoredAtFirst == Init => Stored
<1> SUFFICES ASSUME Init PROVE Stored
  OBVIOUS
<1>1. level \in Levels /\ tables = [i \in DOMAIN level |-> BuildTable(level[i]).blocks]
  BY DEF Init
<1>2. PICK n \in Nat : n = Len(level) /\ DOMAIN level = 1..n
  BY <1>1, LevelIs
<1>3. N = n
  <2>1. tables = [i \in 1..n |-> BuildTable(level[i]).blocks]
    BY <1>1, <1>2
  <2>2. DOMAIN tables = 1..n
    BY <2>1
  <2>3. Len(tables) = n
    BY <2>1, <2>2
  <2> QED
    BY <2>3 DEF N
<1>4. ASSUME NEW i \in 1..n PROVE Sorted(tables[i], level[i])
  <2>1. level[i] \in Seq(Additions) /\ Ordered(level[i]) /\ level[i] # <<>>
    BY <1>1, <1>2, LevelIs
  <2>2. tables[i] = BuildTable(level[i]).blocks
    BY <1>1, <1>2
  <2> QED
    BY <2>1, <2>2, BuiltAtOnce DEF Sorted
<1> QED
  BY <1>1, <1>2, <1>3, <1>4 DEF Stored

LEMMA CountIs ==
  ASSUME Stored
  PROVE  /\ N \in Nat /\ DOMAIN level = 1..N
         /\ \A i \in 1..N : KeysIn(level[i]) = KeysOf(level[i]) /\ KeysOf(level[i]) \subseteq AllKeys
<1>1. N \in Nat /\ DOMAIN level = 1..N
  BY LevelIs DEF Stored
<1>2. ASSUME NEW i \in 1..N PROVE KeysIn(level[i]) = KeysOf(level[i])
  BY LevelIs DEF Stored
<1>3. \A i \in 1..N : KeysIn(level[i]) \subseteq AllKeys
  BY <1>1 DEF AllKeys
<1> QED
  BY <1>1, <1>2, <1>3

AllLoose(its) == DOMAIN its = 1..N /\ \A i \in 1..N : Loose(its[i], tables[i], level[i])

States == {"unset", "eof", "bof", "error", "at"}

Kept ==
  /\ Stored
  /\ cur \in 0..N /\ from \in 0..N /\ rev \in BOOLEAN
  /\ AllLoose(iters)
  /\ held.state \in States /\ held.key \in AllKeys \cup {NoKey}

LEMMA LooseKey ==
  ASSUME NEW i, NEW t, NEW es, Loose(i, t, es)
  PROVE  i.bi.key \in KeysOf(es) \cup {NoKey}
<1>1. NoBlock.key = NoKey
  BY DEF NoBlock
<1> QED
  BY <1>1 DEF Loose, Tracked, Tracks

LEMMA PlaceTyped ==
  ASSUME Kept, NEW c \in 0..N, NEW its, AllLoose(its), NEW op
  PROVE  PlaceOf(c, its, op).state \in States /\ PlaceOf(c, its, op).key \in AllKeys \cup {NoKey}
<1>1. CASE op = "new" \/ c = None \/ its[c].err = "EOF" \/ its[c].err = "Error"
  BY <1>1 DEF PlaceOf, States
<1>2. CASE ~(op = "new" \/ c = None \/ its[c].err = "EOF" \/ its[c].err = "Error")
  <2>1. PlaceOf(c, its, op) = [state |-> "at", key |-> its[c].bi.key]
    BY <1>2 DEF PlaceOf
  <2>2. c \in 1..N
    BY <1>2, CountIs DEF None, Kept
  <2>3. its[c].bi.key \in KeysOf(level[c]) \cup {NoKey}
    BY <2>2, LooseKey DEF AllLoose
  <2>4. KeysOf(level[c]) \subseteq AllKeys
    BY <2>2, CountIs DEF Kept
  <2> QED
    BY <2>1, <2>3, <2>4 DEF States
<1> QED
  BY <1>1, <1>2

LEMMA ReturnKeeps ==
  ASSUME Kept, NEW op, NEW k, NEW c \in 0..N, NEW its, AllLoose(its), Return(op, k, c, its)
  PROVE  Kept'
<1>1. /\ cur' = c /\ iters' = its /\ from' = None /\ held' = PlaceOf(c, its, op)
      /\ level' = level /\ tables' = tables /\ rev' = rev
  BY DEF Return
<1>2. N' = N /\ AllKeys' = AllKeys
  BY <1>1 DEF N, AllKeys
<1>3. Stored' /\ AllLoose(iters)'
  BY <1>1, <1>2 DEF Kept, Stored, AllLoose
<1>4. None \in 0..N
  BY CountIs DEF Kept, None
<1>5. held'.state \in States /\ held'.key \in AllKeys' \cup {NoKey}
  BY <1>1, <1>2, PlaceTyped
<1> QED
  BY <1>1, <1>2, <1>3, <1>4, <1>5 DEF Kept

LEMMA LooseWith ==
  ASSUME NEW its, AllLoose(its), NEW i \in 1..N, NEW x, Loose(x, tables[i], level[i])
  PROVE  AllLoose([its EXCEPT ![i] = x]) /\ [its EXCEPT ![i] = x][i] = x
BY DEF AllLoose

LEMMA NeighbourIs ==
  ASSUME Kept, NEW c \in 1..N
  PROVE  /\ Neighbour(c) \in 0..N
         /\ rev => Neighbour(c) = c - 1
         /\ ~rev => Neighbour(c) = IF c = N THEN None ELSE c + 1
<1>1. N \in Nat
  BY CountIs DEF Kept
<1>2. CASE rev
  BY <1>1, <1>2 DEF Neighbour
<1>3. CASE ~rev
  BY <1>1, <1>3 DEF Neighbour, None
<1> QED
  BY <1>2, <1>3

(* The ways a turn of the loop of next can end.                              *)
Entered(i, its, bad) == [its EXCEPT ![i] = IterRewind(tables[i], its[i], rev, bad)]

LEMMA EnterSteps ==
  ASSUME Kept, NEW c \in 1..N, NEW its, AllLoose(its), NEW bad, EnterNeighbour(c, its, bad),
         NEW i, i = Neighbour(c)
  PROVE  /\ i # None => i \in 1..N /\ AllLoose(Entered(i, its, bad))
         /\ \/ i = None /\ Return(NextOp, NoKey, None, its)
            \/ /\ i # None /\ Valid(Entered(i, its, bad)[i])
               /\ Return(NextOp, NoKey, i, Entered(i, its, bad))
            \/ /\ i # None /\ ~Valid(Entered(i, its, bad)[i])
               /\ cur' = i /\ iters' = Entered(i, its, bad) /\ from' = c
               /\ UNCHANGED <<level, tables, rev, call, held>>
<1>1. ASSUME i # None PROVE i \in 1..N /\ AllLoose(Entered(i, its, bad))
  <2>1. i \in 1..N
    BY <1>1, NeighbourIs, CountIs DEF None, Kept
  <2>2. Sorted(tables[i], level[i]) /\ Loose(its[i], tables[i], level[i]) /\ rev \in BOOLEAN
    BY <2>1 DEF Kept, Stored, AllLoose
  <2>3. PICK x : x = IterRewind(tables[i], its[i], rev, bad)
    OBVIOUS
  <2>4. Loose(x, tables[i], level[i])
    BY <2>2, <2>3, StaysLoose
  <2> QED
    BY <2>1, <2>3, <2>4, LooseWith DEF Entered
<1>2. \/ i = None /\ Return(NextOp, NoKey, None, its)
      \/ /\ i # None /\ Valid(Entered(i, its, bad)[i])
         /\ Return(NextOp, NoKey, i, Entered(i, its, bad))
      \/ /\ i # None /\ ~Valid(Entered(i, its, bad)[i])
         /\ cur' = i /\ iters' = Entered(i, its, bad) /\ from' = c
         /\ UNCHANGED <<level, tables, rev, call, held>>
  BY Zenon DEF EnterNeighbour, Entered
<1> QED
  BY <1>1, <1>2

LEMMA EnterKeeps ==
  ASSUME Kept, NEW c \in 1..N, NEW its, AllLoose(its), NEW bad, EnterNeighbour(c, its, bad)
  PROVE  Kept'
<1>1. PICK i : i = Neighbour(c)
  OBVIOUS
<1>2. None \in 0..N /\ N \in Nat
  BY CountIs DEF Kept, None
<1>3. CASE i = None /\ Return(NextOp, NoKey, None, its)
  BY <1>2, <1>3, ReturnKeeps
<1>4. PICK new : new = Entered(i, its, bad)
  OBVIOUS
<1>5. i # None => i \in 0..N /\ AllLoose(new)
  BY <1>1, <1>2, <1>4, EnterSteps
<1>6. CASE i # None /\ Return(NextOp, NoKey, i, new)
  BY <1>5, <1>6, ReturnKeeps
<1>7. CASE /\ i # None /\ cur' = i /\ iters' = new /\ from' = c
           /\ UNCHANGED <<level, tables, rev, call, held>>
  <2>1. N' = N /\ AllKeys' = AllKeys
    BY <1>7 DEF N, AllKeys
  <2>2. Stored' /\ AllLoose(iters)'
    BY <1>5, <1>7, <2>1 DEF Kept, Stored, AllLoose
  <2>3. c \in 0..N
    BY <1>2
  <2> QED
    BY <1>5, <1>7, <2>1, <2>2, <2>3 DEF Kept
<1> QED
  BY <1>1, <1>3, <1>4, <1>6, <1>7, EnterSteps

EndOp    == IF rev THEN "seek_to_last" ELSE "seek_to_first"
SeekOp   == IF rev THEN "seek_for_prev" ELSE "seek"
EndTable == IF rev THEN N ELSE 1

SoughtIn(i, k, bad) == [iters EXCEPT ![i] = IterSeek(tables[i], iters[i], k, rev, bad)]
Stepped(bad)        == [iters EXCEPT ![cur] = IterNext(tables[cur], iters[cur], rev, bad)]

(* The ways a call can go.                                                   *)
Rewinds == \/ N = 0 /\ Return(EndOp, NoKey, cur, iters)
           \/ N # 0 /\ \E bad : Return(EndOp, NoKey, EndTable, Entered(EndTable, iters, bad))

Seeks(k) ==
  \/ SeekTable(k) = None /\ Return(SeekOp, k, None, iters)
  \/ /\ SeekTable(k) # None
     /\ \E bad \in BadBlocks(SeekOp, SeekTable(k)) :
           Return(SeekOp, k, SeekTable(k), SoughtIn(SeekTable(k), k, bad))

Goes(bad) == \/ Valid(Stepped(bad)[cur]) /\ Return(NextOp, NoKey, cur, Stepped(bad))
             \/ ~Valid(Stepped(bad)[cur]) /\ \E fail : EnterNeighbour(cur, Stepped(bad), fail)

LEMMA NextSteps ==
  ASSUME Next
  PROVE  \/ from = None /\ Rewinds
         \/ from = None /\ \E k \in Wanted : Seeks(k)
         \/ from = None /\ ConcatValid /\ \E bad \in BadBlocks("next", cur) : Goes(bad)
         \/ from # None /\ \E bad : EnterNeighbour(from, iters, bad)
<1>1. ASSUME Rewind PROVE from = None /\ Rewinds
  <2>1. from = None /\ IF N = 0 THEN Return(EndOp, NoKey, cur, iters)
                       ELSE \E bad \in BadBlocks("rewind", EndTable) :
                              Return(EndOp, NoKey, EndTable, Entered(EndTable, iters, bad))
    BY <1>1, Zenon DEF Rewind, EndOp, EndTable, Entered
  <2> QED
    BY <2>1, Zenon DEF Rewinds
<1>2. ASSUME NEW k \in Wanted, Seek(k) PROVE from = None /\ Seeks(k)
  <2>1. from = None /\ IF SeekTable(k) = None THEN Return(SeekOp, k, None, iters)
                       ELSE \E bad \in BadBlocks(SeekOp, SeekTable(k)) :
                              Return(SeekOp, k, SeekTable(k), SoughtIn(SeekTable(k), k, bad))
    BY <1>2, Zenon DEF Seek, SeekOp, SoughtIn
  <2> QED
    BY <2>1, Zenon DEF Seeks
<1>3. ASSUME NextCall
      PROVE  from = None /\ ConcatValid /\ \E bad \in BadBlocks("next", cur) : Goes(bad)
  <2>1. from = None /\ ConcatValid
    BY <1>3 DEF NextCall
  <2>2. PICK bad \in BadBlocks("next", cur) :
           IF Valid(Stepped(bad)[cur]) THEN Return(NextOp, NoKey, cur, Stepped(bad))
           ELSE \E fail \in BadBlocks("rewind", Neighbour(cur)) : EnterNeighbour(cur, Stepped(bad), fail)
    BY <1>3, Zenon DEF NextCall, Stepped
  <2>3. Goes(bad)
    BY <2>2, Zenon DEF Goes
  <2> QED
    BY <2>1, <2>3
<1>4. ASSUME NextLoop PROVE from # None /\ \E bad : EnterNeighbour(from, iters, bad)
  BY <1>4, Zenon DEF NextLoop
<1> QED
  BY <1>1, <1>2, <1>3, <1>4, Zenon DEF Next

(* The table that seek enters.                                               *)
LEMMA SeekTableIs ==
  ASSUME Kept, NEW k \in Wanted, NEW i, i = SeekTable(k)
  PROVE  /\ i \in 0..N
         /\ ~rev => /\ i # None => ~KeyLess(BiggestKey(tables[i]), k)
                    /\ i # None /\ i > 1 => KeyLess(BiggestKey(tables[i - 1]), k)
                    /\ i = None /\ N > 0 => KeyLess(BiggestKey(tables[N]), k)
         /\ rev => /\ i # None => ~KeyLess(k, SmallestKey(tables[i]))
                   /\ i < N => KeyLess(k, SmallestKey(tables[i + 1]))
<1>1. N \in Nat
  BY CountIs DEF Kept
<1>2. CASE ~rev
  <2>1. PICK H : H = {n \in 0..(N - 1) : KeyLeq(k, BiggestKey(tables[n + 1]))}
    OBVIOUS
  <2>2. PICK j : j = Search(N, H)
    OBVIOUS
  <2>3. j \in 0..N /\ (j > 0 => j - 1 \notin H) /\ (j < N => j \in H)
    BY <1>1, <2>2, SearchFinds
  <2>4. i = IF j >= N THEN None ELSE j + 1
    BY <1>2, <2>1, <2>2, Zenon DEF SeekTable
  <2>5. j < N => ~KeyLess(BiggestKey(tables[j + 1]), k)
    BY <2>1, <2>3 DEF KeyLeq
  <2>6. j > 0 => KeyLess(BiggestKey(tables[j]), k)
    <3> SUFFICES ASSUME j > 0 PROVE KeyLess(BiggestKey(tables[j]), k)
      OBVIOUS
    <3>1. PICK n : n = j - 1 /\ n \in 0..(N - 1) /\ n + 1 = j
      BY <1>1, <2>3
    <3>2. n \notin H
      BY <2>3, <3>1
    <3>3. ~KeyLeq(k, BiggestKey(tables[n + 1]))
      BY <2>1, <3>1, <3>2
    <3> QED
      BY <3>1, <3>3 DEF KeyLeq
  <2>7. CASE j < N
    <3>1. i = j + 1 /\ i \in 1..N /\ i # None /\ i - 1 = j
      BY <1>1, <2>3, <2>4, <2>7 DEF None
    <3>2. i > 1 => j > 0
      BY <2>3, <3>1
    <3>3. i \in 0..N
      BY <1>1, <3>1
    <3> QED
      BY <1>2, <2>5, <2>6, <2>7, <3>1, <3>2, <3>3
  <2>8. CASE ~(j < N)
    <3>1. i = None /\ j = N /\ i \in 0..N
      BY <1>1, <2>3, <2>4, <2>8 DEF None
    <3> QED
      BY <1>2, <2>6, <3>1
  <2> QED
    BY <2>7, <2>8
<1>3. CASE rev
  <2>1. PICK H : H = {n \in 0..(N - 1) : KeyLeq(SmallestKey(tables[N - n]), k)}
    OBVIOUS
  <2>2. PICK j : j = Search(N, H)
    OBVIOUS
  <2>3. j \in 0..N /\ (j > 0 => j - 1 \notin H) /\ (j < N => j \in H)
    BY <1>1, <2>2, SearchFinds
  <2>4. i = N - j
    BY <1>3, <2>1, <2>2, Zenon DEF SeekTable
  <2>5. i \in 0..N /\ j = N - i
    BY <1>1, <2>3, <2>4
  <2>6. ASSUME i # None PROVE ~KeyLess(k, SmallestKey(tables[i]))
    <3>1. j < N
      BY <1>1, <2>5, <2>6 DEF None
    <3>2. KeyLeq(SmallestKey(tables[N - j]), k)
      BY <2>1, <2>3, <3>1
    <3> QED
      BY <2>4, <3>2 DEF KeyLeq
  <2>7. ASSUME i < N PROVE KeyLess(k, SmallestKey(tables[i + 1]))
    <3>1. PICK n : n = j - 1 /\ n \in 0..(N - 1) /\ N - n = i + 1 /\ j > 0
      BY <1>1, <2>3, <2>5, <2>7
    <3>2. n \notin H
      BY <2>3, <3>1
    <3>3. ~KeyLeq(SmallestKey(tables[N - n]), k)
      BY <2>1, <3>1, <3>2
    <3> QED
      BY <3>1, <3>3 DEF KeyLeq
  <2> QED
    BY <1>3, <2>5, <2>6, <2>7
<1> QED
  BY <1>2, <1>3

LEMMA CallsLoose ==
  ASSUME Kept, NEW i \in 1..N, NEW bad
  PROVE  /\ AllLoose(Entered(i, iters, bad))
         /\ \A k \in Wanted : AllLoose(SoughtIn(i, k, bad))
         /\ i = cur => AllLoose(Stepped(bad))
<1>1. Sorted(tables[i], level[i]) /\ Loose(iters[i], tables[i], level[i]) /\ rev \in BOOLEAN
  BY DEF Kept, Stored, AllLoose
<1>2. AllLoose(iters) /\ \A k \in Wanted : k \in Keys
  BY WantedAssumption DEF Kept
<1>3. ASSUME NEW x, Loose(x, tables[i], level[i]) PROVE AllLoose([iters EXCEPT ![i] = x])
  BY <1>2, <1>3, LooseWith
<1>4. /\ Loose(IterRewind(tables[i], iters[i], rev, bad), tables[i], level[i])
      /\ Loose(IterNext(tables[i], iters[i], rev, bad), tables[i], level[i])
      /\ \A k \in Wanted : Loose(IterSeek(tables[i], iters[i], k, rev, bad), tables[i], level[i])
  BY <1>1, <1>2, StaysLoose
<1> QED
  BY <1>3, <1>4, Zenon DEF Entered, SoughtIn, Stepped

LEMMA EndTableIs ==
  ASSUME Kept, N # 0
  PROVE  EndTable \in 1..N /\ EndTable \in 0..N
<1>1. N \in Nat
  BY CountIs DEF Kept
<1> QED
  BY <1>1 DEF EndTable

(* No call, with whichever blocks failing, leaves the iterator of a table in *)
(* a state the others cannot go on from.                                     *)
THEOREM KeptAlways == Spec => []Kept
<1>1. Init => Kept
  <2> SUFFICES ASSUME Init PROVE Kept
    OBVIOUS
  <2>1. Stored
    BY StoredAtFirst
  <2>2. /\ cur = None /\ from = None /\ rev \in BOOLEAN /\ iters = [i \in 1..N |-> NewIterator]
        /\ held = [state |-> "unset", key |-> NoKey]
    BY DEF Init, N
  <2>3. \A i \in 1..N : Loose(NewIterator, tables[i], level[i])
    BY <2>1, SortedIs DEF Stored
  <2>4. None \in 0..N
    BY <2>1, CountIs DEF None
  <2> QED
    BY <2>1, <2>2, <2>3, <2>4 DEF Kept, AllLoose, States
<1>2. Kept /\ [Next]_vars => Kept'
  <2> SUFFICES ASSUME Kept, [Next]_vars PROVE Kept'
    OBVIOUS
  <2>1. CASE UNCHANGED vars
    BY <2>1 DEF vars, Kept, Stored, AllLoose, N, AllKeys
  <2>2. N \in Nat /\ None \in 0..N /\ cur \in 0..N /\ from \in 0..N /\ AllLoose(iters)
    BY CountIs DEF Kept, None
  <2>3. CASE Rewinds
    <3>1. CASE Return(EndOp, NoKey, cur, iters)
      BY <2>2, <3>1, ReturnKeeps
    <3>2. ASSUME N # 0, NEW bad, Return(EndOp, NoKey, EndTable, Entered(EndTable, iters, bad))
          PROVE  Kept'
      <4>1. PICK i \in 1..N : i = EndTable /\ i \in 0..N
        BY <3>2, EndTableIs
      <4>2. AllLoose(Entered(i, iters, bad))
        BY CallsLoose
      <4> QED
        BY <3>2, <4>1, <4>2, ReturnKeeps
    <3> QED
      BY <2>3, <3>1, <3>2 DEF Rewinds
  <2>4. ASSUME NEW k \in Wanted, Seeks(k) PROVE Kept'
    <3>1. CASE Return(SeekOp, k, None, iters)
      BY <2>2, <3>1, ReturnKeeps
    <3>2. PICK i : i = SeekTable(k)
      OBVIOUS
    <3>3. ASSUME i # None, NEW bad, Return(SeekOp, k, i, SoughtIn(i, k, bad)) PROVE Kept'
      <4>1. i \in 0..N /\ i \in 1..N
        BY <2>2, <3>2, <3>3, SeekTableIs DEF None
      <4>2. AllLoose(SoughtIn(i, k, bad))
        BY <4>1, CallsLoose
      <4> QED
        BY <3>3, <4>1, <4>2, ReturnKeeps
    <3> QED
      BY <2>4, <3>1, <3>2, <3>3 DEF Seeks
  <2>5. ASSUME ConcatValid, NEW bad, Goes(bad) PROVE Kept'
    <3>1. cur \in 1..N
      BY <2>2, <2>5 DEF ConcatValid, None
    <3>2. AllLoose(Stepped(bad))
      BY <3>1, CallsLoose
    <3>3. CASE Return(NextOp, NoKey, cur, Stepped(bad))
      BY <2>2, <3>2, <3>3, ReturnKeeps
    <3>4. ASSUME NEW fail, EnterNeighbour(cur, Stepped(bad), fail) PROVE Kept'
      BY <3>1, <3>2, <3>4, EnterKeeps
    <3> QED
      BY <2>5, <3>3, <3>4 DEF Goes
  <2>6. ASSUME from # None, NEW bad, EnterNeighbour(from, iters, bad) PROVE Kept'
    <3>1. from \in 1..N
      BY <2>2, <2>6 DEF None
    <3> QED
      BY <2>2, <2>6, <3>1, EnterKeeps
  <2> QED
    BY <2>1, <2>3, <2>4, <2>5, <2>6, NextSteps
<1> QED
  BY <1>1, <1>2, PTL DEF Spec

(* The iterator of every table shows a key of that table or none, and the    *)
(* level's iterator a key of the level, whatever is called and fails.        *)
THEOREM TypeCorrect == Spec => []TypeOK
<1>1. Kept => TypeOK
  <2> SUFFICES ASSUME Kept PROVE TypeOK
    OBVIOUS
  <2>1. DOMAIN iters = 1..N /\ \A i \in 1..N : Loose(iters[i], tables[i], level[i])
    BY DEF Kept, AllLoose
  <2>2. \A i \in 1..N : iters[i].bi.key \in KeysIn(level[i]) \cup {NoKey}
    BY <2>1, LooseKey, CountIs DEF Kept
  <2> QED
    BY <2>1, <2>2 DEF TypeOK, Kept, States
<1> QED
  BY <1>1, KeptAlways, PTL

-----------------------------------------------------------------------------
(* The keys of the level in their order: by table, then by entry.            *)

Spot(i, p)  == i \in 1..N /\ p \in 1..Len(level[i])
KeyAt(i, p) == level[i][p].key
EndOf(i)    == Len(level[i])

Before(i, p, j, q) == i < j \/ (i = j /\ p < q)

LEMMA SpotOrder ==
  ASSUME Stored
  PROVE  /\ AllKeys \subseteq Keys
         /\ \A m \in AllKeys : \E i, p : Spot(i, p) /\ m = KeyAt(i, p)
         /\ \A i, p : Spot(i, p) => KeyAt(i, p) \in AllKeys
         /\ \A i, p, j, q : Spot(i, p) /\ Spot(j, q) =>
               (KeyLess(KeyAt(i, p), KeyAt(j, q)) <=> Before(i, p, j, q))
<1>1. N \in Nat /\ DOMAIN level = 1..N /\ level \in Levels /\ N = Len(level)
  BY CountIs DEF Stored
<1>2. \A i \in 1..N : /\ level[i] \in Seq(Additions) /\ Ordered(level[i])
                      /\ KeysIn(level[i]) = KeysOf(level[i]) /\ KeysOf(level[i]) \subseteq Keys
  BY <1>1, LevelIs
<1>3. AllKeys = UNION {KeysOf(level[i]) : i \in 1..N}
  BY <1>1, <1>2 DEF AllKeys
<1>4. AllKeys \subseteq Keys
  BY <1>2, <1>3
<1>5. ASSUME NEW m \in AllKeys PROVE \E i, p : Spot(i, p) /\ m = KeyAt(i, p)
  <2>1. PICK i \in 1..N : m \in KeysOf(level[i])
    BY <1>3
  <2>2. PICK p \in 1..Len(level[i]) : m = level[i][p].key
    BY <2>1 DEF KeysOf
  <2> QED
    BY <2>2 DEF Spot, KeyAt
<1>6. ASSUME NEW i, NEW p, Spot(i, p) PROVE KeyAt(i, p) \in KeysOf(level[i]) /\ KeyAt(i, p) \in AllKeys
  BY <1>3, <1>6 DEF Spot, KeyAt, KeysOf
<1>7. ASSUME NEW i, NEW p, NEW j, NEW q, Spot(i, p), Spot(j, q)
      PROVE  KeyLess(KeyAt(i, p), KeyAt(j, q)) <=> Before(i, p, j, q)
  <2>1. PICK a \in Keys, b \in Keys : a = KeyAt(i, p) /\ b = KeyAt(j, q)
    BY <1>4, <1>6, <1>7
  <2>2. ~KeyLess(a, a) /\ ~(KeyLess(a, b) /\ KeyLess(b, a))
    BY KeyOrder
  <2>3. i \in 1..N /\ j \in 1..N
    BY <1>7 DEF Spot
  <2>4. CASE i < j
    <3>1. KeyLess(a, b)
      BY <1>1, <1>6, <1>7, <2>1, <2>3, <2>4, LevelIs
    <3> QED
      BY <2>1, <2>4, <3>1 DEF Before
  <2>5. CASE j < i
    <3>1. KeyLess(b, a)
      BY <1>1, <1>6, <1>7, <2>1, <2>3, <2>5, LevelIs
    <3>2. ~Before(i, p, j, q)
      BY <2>3, <2>5 DEF Before
    <3> QED
      BY <2>1, <2>2, <3>1, <3>2
  <2>6. CASE i = j
    <3>1. KeyLess(level[i][p].key, level[i][q].key) <=> p < q
      BY <1>2, <1>7, <2>3, <2>6, EntryOrder DEF Spot
    <3>2. Before(i, p, j, q) <=> p < q
      BY <2>3, <2>6 DEF Before
    <3> QED
      BY <2>6, <3>1, <3>2 DEF KeyAt
  <2> QED
    BY <1>1, <2>3, <2>4, <2>5, <2>6
<1> QED
  BY <1>4, <1>5, <1>6, <1>7

LEMMA SpotsAre ==
  ASSUME Stored
  PROVE  \A i \in 1..N : EndOf(i) \in Nat \ {0} /\ Spot(i, 1) /\ Spot(i, EndOf(i))
BY SortedIs DEF Stored, Spot, EndOf

(* The least and the greatest key of a set of keys.                          *)
LEMMA LowestIs ==
  ASSUME NEW S \in SUBSET Keys
  PROVE  /\ S = {} => Cursor!Lowest(S) = Cursor!Eof /\ Cursor!Highest(S) = Cursor!Bof
         /\ \A k \in S : (\A m \in S : ~KeyLess(m, k)) => Cursor!Lowest(S) = Cursor!At(k)
         /\ \A k \in S : (\A m \in S : ~KeyLess(k, m)) => Cursor!Highest(S) = Cursor!At(k)
<1>0. \A a, b \in S : a = b \/ KeyLess(a, b) \/ KeyLess(b, a)
  BY KeyOrder
<1>1. S = {} => Cursor!Lowest(S) = Cursor!Eof /\ Cursor!Highest(S) = Cursor!Bof
  BY DEF Cursor!Lowest, Cursor!Highest
<1>2. ASSUME NEW k \in S, \A m \in S : ~KeyLess(m, k) PROVE Cursor!Lowest(S) = Cursor!At(k)
  <2>1. (CHOOSE x \in S : \A m \in S : ~KeyLess(m, x)) = k
    BY <1>0, <1>2
  <2> QED
    BY <2>1 DEF Cursor!Lowest, Cursor!At
<1>3. ASSUME NEW k \in S, \A m \in S : ~KeyLess(k, m) PROVE Cursor!Highest(S) = Cursor!At(k)
  <2>1. (CHOOSE x \in S : \A m \in S : ~KeyLess(x, m)) = k
    BY <1>0, <1>3
  <2> QED
    BY <2>1 DEF Cursor!Highest, Cursor!At
<1> QED
  BY <1>1, <1>2, <1>3

LEMMA LeastSpot ==
  ASSUME Stored, NEW S \in SUBSET AllKeys
  PROVE  /\ (\A j, q : Spot(j, q) => KeyAt(j, q) \notin S) =>
               Cursor!Lowest(S) = Cursor!Eof /\ Cursor!Highest(S) = Cursor!Bof
         /\ \A i, p : Spot(i, p) /\ KeyAt(i, p) \in S =>
               /\ (\A j, q : Spot(j, q) /\ Before(j, q, i, p) => KeyAt(j, q) \notin S) =>
                     Cursor!Lowest(S) = Cursor!At(KeyAt(i, p))
               /\ (\A j, q : Spot(j, q) /\ Before(i, p, j, q) => KeyAt(j, q) \notin S) =>
                     Cursor!Highest(S) = Cursor!At(KeyAt(i, p))
<1>1. S \in SUBSET Keys
  BY SpotOrder
<1>2. \A m \in S : \E j, q : Spot(j, q) /\ m = KeyAt(j, q)
  BY SpotOrder
<1>3. ASSUME \A j, q : Spot(j, q) => KeyAt(j, q) \notin S PROVE S = {}
  BY <1>2, <1>3
<1>4. ASSUME NEW i, NEW p, Spot(i, p), KeyAt(i, p) \in S,
             \A j, q : Spot(j, q) /\ Before(j, q, i, p) => KeyAt(j, q) \notin S
      PROVE  \A m \in S : ~KeyLess(m, KeyAt(i, p))
  BY <1>2, <1>4, SpotOrder
<1>5. ASSUME NEW i, NEW p, Spot(i, p), KeyAt(i, p) \in S,
             \A j, q : Spot(j, q) /\ Before(i, p, j, q) => KeyAt(j, q) \notin S
      PROVE  \A m \in S : ~KeyLess(KeyAt(i, p), m)
  BY <1>2, <1>5, SpotOrder
<1> QED
  BY <1>1, <1>3, <1>4, <1>5, LowestIs

(* What rewind is to find.                                                   *)
LEMMA EndGoals ==
  ASSUME Stored
  PROVE  /\ N = 0 => Cursor!Lowest(AllKeys) = Cursor!Eof /\ Cursor!Highest(AllKeys) = Cursor!Bof
         /\ N # 0 => /\ Cursor!Lowest(AllKeys) = Cursor!At(KeyAt(1, 1))
                     /\ Cursor!Highest(AllKeys) = Cursor!At(KeyAt(N, EndOf(N)))
<1>1. N \in Nat /\ AllKeys \in SUBSET AllKeys
  BY CountIs
<1>2. ASSUME N = 0 PROVE \A j, q : Spot(j, q) => KeyAt(j, q) \notin AllKeys
  BY <1>2 DEF Spot
<1>3. ASSUME N # 0
      PROVE  /\ Cursor!Lowest(AllKeys) = Cursor!At(KeyAt(1, 1))
             /\ Cursor!Highest(AllKeys) = Cursor!At(KeyAt(N, EndOf(N)))
  <2>1. 1 \in 1..N /\ N \in 1..N
    BY <1>1, <1>3
  <2>2. Spot(1, 1) /\ Spot(N, EndOf(N)) /\ EndOf(N) \in Nat
    BY <2>1, SpotsAre
  <2>3. KeyAt(1, 1) \in AllKeys /\ KeyAt(N, EndOf(N)) \in AllKeys
    BY <2>2, SpotOrder
  <2>4. ASSUME NEW j, NEW q, Spot(j, q) PROVE ~Before(j, q, 1, 1) /\ ~Before(N, EndOf(N), j, q)
    <3>1. EndOf(j) \in Nat /\ j \in 1..N /\ q \in 1..EndOf(j)
      BY <2>4, SpotsAre DEF Spot, EndOf
    <3> QED
      BY <1>1, <3>1 DEF Before
  <2> QED
    BY <1>1, <2>2, <2>3, <2>4, LeastSpot
<1> QED
  BY <1>1, <1>2, <1>3, LeastSpot

(* What next is to find.                                                     *)
LEMMA NextGoals ==
  ASSUME Stored, NEW i, NEW p, Spot(i, p), NEW S, S = {m \in AllKeys : KeyLess(KeyAt(i, p), m)}
  PROVE  /\ p < EndOf(i) => Cursor!Lowest(S) = Cursor!At(KeyAt(i, p + 1))
         /\ p = EndOf(i) /\ i < N => Cursor!Lowest(S) = Cursor!At(KeyAt(i + 1, 1))
         /\ p = EndOf(i) /\ i = N => Cursor!Lowest(S) = Cursor!Eof
<1>1. /\ N \in Nat /\ i \in 1..N /\ EndOf(i) \in Nat /\ p \in 1..EndOf(i)
  BY CountIs, SpotsAre DEF Spot, EndOf
<1>2. S \in SUBSET AllKeys
  OBVIOUS
<1>3. \A j, q : Spot(j, q) => (KeyAt(j, q) \in S <=> Before(i, p, j, q))
  BY SpotOrder
<1>4. \A j, q : Spot(j, q) => j \in 1..N /\ q \in 1..EndOf(j) /\ EndOf(j) \in Nat
  BY SpotsAre DEF Spot, EndOf
<1>5. ASSUME p < EndOf(i) PROVE Cursor!Lowest(S) = Cursor!At(KeyAt(i, p + 1))
  <2>1. PICK n : n = p + 1
    OBVIOUS
  <2>2. Spot(i, n) /\ Before(i, p, i, n)
    BY <1>1, <1>5, <2>1 DEF Spot, EndOf, Before
  <2>3. \A j, q : Spot(j, q) /\ Before(j, q, i, n) => ~Before(i, p, j, q)
    BY <1>1, <1>4, <2>1 DEF Before
  <2>4. Cursor!Lowest(S) = Cursor!At(KeyAt(i, n))
    BY <1>2, <1>3, <2>2, <2>3, LeastSpot
  <2> QED
    BY <2>1, <2>4
<1>6. ASSUME p = EndOf(i), i < N PROVE Cursor!Lowest(S) = Cursor!At(KeyAt(i + 1, 1))
  <2>1. PICK n \in 1..N : n = i + 1
    BY <1>1, <1>6
  <2>2. Spot(n, 1) /\ Before(i, p, n, 1)
    BY <1>1, <2>1, SpotsAre DEF Before
  <2>3. \A j, q : Spot(j, q) /\ Before(j, q, n, 1) => ~Before(i, p, j, q)
    BY <1>1, <1>4, <1>6, <2>1 DEF Before
  <2>4. Cursor!Lowest(S) = Cursor!At(KeyAt(n, 1))
    BY <1>2, <1>3, <2>2, <2>3, LeastSpot
  <2> QED
    BY <2>1, <2>4
<1>7. ASSUME p = EndOf(i), i = N PROVE Cursor!Lowest(S) = Cursor!Eof
  <2>1. \A j, q : Spot(j, q) => ~Before(i, p, j, q)
    BY <1>1, <1>4, <1>7 DEF Before
  <2> QED
    BY <1>2, <1>3, <2>1, LeastSpot
<1> QED
  BY <1>5, <1>6, <1>7

LEMMA PrevGoals ==
  ASSUME Stored, NEW i, NEW p, Spot(i, p), NEW S, S = {m \in AllKeys : KeyLess(m, KeyAt(i, p))}
  PROVE  /\ p > 1 => Cursor!Highest(S) = Cursor!At(KeyAt(i, p - 1))
         /\ p = 1 /\ i > 1 => Cursor!Highest(S) = Cursor!At(KeyAt(i - 1, EndOf(i - 1)))
         /\ p = 1 /\ i = 1 => Cursor!Highest(S) = Cursor!Bof
<1>1. /\ N \in Nat /\ i \in 1..N /\ EndOf(i) \in Nat /\ p \in 1..EndOf(i)
  BY CountIs, SpotsAre DEF Spot, EndOf
<1>2. S \in SUBSET AllKeys
  OBVIOUS
<1>3. \A j, q : Spot(j, q) => (KeyAt(j, q) \in S <=> Before(j, q, i, p))
  BY SpotOrder
<1>4. \A j, q : Spot(j, q) => j \in 1..N /\ q \in 1..EndOf(j) /\ EndOf(j) \in Nat
  BY SpotsAre DEF Spot, EndOf
<1>5. ASSUME p > 1 PROVE Cursor!Highest(S) = Cursor!At(KeyAt(i, p - 1))
  <2>1. PICK n : n = p - 1
    OBVIOUS
  <2>2. Spot(i, n) /\ Before(i, n, i, p)
    BY <1>1, <1>5, <2>1 DEF Spot, EndOf, Before
  <2>3. \A j, q : Spot(j, q) /\ Before(i, n, j, q) => ~Before(j, q, i, p)
    BY <1>1, <1>4, <2>1 DEF Before
  <2>4. Cursor!Highest(S) = Cursor!At(KeyAt(i, n))
    BY <1>2, <1>3, <2>2, <2>3, LeastSpot
  <2> QED
    BY <2>1, <2>4
<1>6. ASSUME p = 1, i > 1 PROVE Cursor!Highest(S) = Cursor!At(KeyAt(i - 1, EndOf(i - 1)))
  <2>1. PICK n \in 1..N : n = i - 1
    BY <1>1, <1>6
  <2>2. Spot(n, EndOf(n)) /\ EndOf(n) \in Nat /\ Before(n, EndOf(n), i, p)
    BY <1>1, <2>1, SpotsAre DEF Before
  <2>3. \A j, q : Spot(j, q) /\ Before(n, EndOf(n), j, q) => ~Before(j, q, i, p)
    <3> SUFFICES ASSUME NEW j, NEW q, Spot(j, q), Before(n, EndOf(n), j, q), Before(j, q, i, p) PROVE FALSE
      OBVIOUS
    <3>1. j \in 1..N /\ q \in 1..EndOf(j) /\ EndOf(j) \in Nat
      BY <1>4
    <3>2. j = n \/ j = i
      BY <1>1, <2>1, <3>1 DEF Before
    <3> QED
      BY <1>1, <1>6, <2>1, <2>2, <3>1, <3>2 DEF Before
  <2>4. Cursor!Highest(S) = Cursor!At(KeyAt(n, EndOf(n)))
    BY <1>2, <1>3, <2>2, <2>3, LeastSpot
  <2> QED
    BY <2>1, <2>4
<1>7. ASSUME p = 1, i = 1 PROVE Cursor!Highest(S) = Cursor!Bof
  <2>1. \A j, q : Spot(j, q) => ~Before(j, q, i, p)
    BY <1>1, <1>4, <1>7 DEF Before
  <2> QED
    BY <1>2, <1>3, <2>1, LeastSpot
<1> QED
  BY <1>5, <1>6, <1>7

(* A key is after everything before one that it is after.                    *)
LEMMA SpotUpto ==
  ASSUME Stored, NEW i, NEW p, Spot(i, p), NEW j, NEW q, Spot(j, q), NEW k \in Keys,
         Before(i, p, j, q) \/ (i = j /\ p = q)
  PROVE  /\ KeyLess(KeyAt(j, q), k) => KeyLess(KeyAt(i, p), k)
         /\ KeyLess(k, KeyAt(i, p)) => KeyLess(k, KeyAt(j, q))
<1>1. PICK a \in Keys, b \in Keys : a = KeyAt(i, p) /\ b = KeyAt(j, q)
  BY SpotOrder
<1>2. KeyLess(a, b) \/ a = b
  BY <1>1, SpotOrder
<1>3. \A x, y, z \in Keys : KeyLess(x, y) /\ KeyLess(y, z) => KeyLess(x, z)
  BY KeyOrder
<1> QED
  BY <1>1, <1>2, <1>3

(* What seek is to find.                                                     *)
LEMMA SeekGoals ==
  ASSUME Stored, NEW k \in Keys, NEW S, S = {m \in AllKeys : ~KeyLess(m, k)}
  PROVE  /\ (N > 0 => KeyLess(KeyAt(N, EndOf(N)), k)) => Cursor!Lowest(S) = Cursor!Eof
         /\ \A i \in 1..N : \A p :
               FirstFrom(level[i], k, p) /\ (i > 1 => KeyLess(KeyAt(i - 1, EndOf(i - 1)), k)) =>
                  Cursor!Lowest(S) = Cursor!At(KeyAt(i, p))
<1>1. N \in Nat
  BY CountIs
<1>2. S \in SUBSET AllKeys
  OBVIOUS
<1>3. \A j, q : Spot(j, q) => (KeyAt(j, q) \in S <=> ~KeyLess(KeyAt(j, q), k))
  BY SpotOrder
<1>4. \A j, q : Spot(j, q) => j \in 1..N /\ q \in 1..EndOf(j) /\ EndOf(j) \in Nat
  BY SpotsAre DEF Spot, EndOf
<1>5. ASSUME N > 0 => KeyLess(KeyAt(N, EndOf(N)), k) PROVE Cursor!Lowest(S) = Cursor!Eof
  <2>1. ASSUME NEW j, NEW q, Spot(j, q) PROVE KeyLess(KeyAt(j, q), k)
    <3>1. j \in 1..N /\ q \in 1..EndOf(j) /\ EndOf(j) \in Nat
      BY <1>4, <2>1
    <3>2. N > 0 /\ N \in 1..N
      BY <1>1, <3>1
    <3>3. PICK n, e : n = N /\ e = EndOf(N) /\ Spot(n, e) /\ KeyLess(KeyAt(n, e), k)
      BY <1>5, <3>2, SpotsAre
    <3>4. Before(j, q, n, e) \/ (j = n /\ q = e)
      BY <1>1, <3>1, <3>3 DEF Before
    <3> QED
      BY <2>1, <3>3, <3>4, SpotUpto
  <2> QED
    BY <1>2, <1>3, <2>1, LeastSpot
<1>6. ASSUME NEW i \in 1..N, NEW p, FirstFrom(level[i], k, p),
             i > 1 => KeyLess(KeyAt(i - 1, EndOf(i - 1)), k)
      PROVE  Cursor!Lowest(S) = Cursor!At(KeyAt(i, p))
  <2>1. /\ Spot(i, p) /\ ~KeyLess(KeyAt(i, p), k)
        /\ p > 1 => KeyLess(KeyAt(i, p - 1), k)
    BY <1>6 DEF FirstFrom, Spot, KeyAt
  <2>2. p \in 1..EndOf(i) /\ EndOf(i) \in Nat
    BY <1>4, <2>1
  <2>3. ASSUME NEW j, NEW q, Spot(j, q), Before(j, q, i, p) PROVE KeyLess(KeyAt(j, q), k)
    <3>1. j \in 1..N /\ q \in 1..EndOf(j) /\ EndOf(j) \in Nat
      BY <1>4, <2>3
    <3>2. CASE j = i
      <4>1. PICK n : n = p - 1 /\ p > 1 /\ q <= n
        BY <2>2, <2>3, <3>1, <3>2 DEF Before
      <4>2. Spot(i, n) /\ KeyLess(KeyAt(i, n), k)
        BY <2>1, <2>2, <4>1 DEF Spot, EndOf
      <4>3. Before(j, q, i, n) \/ (j = i /\ q = n)
        BY <2>2, <3>1, <3>2, <4>1 DEF Before
      <4> QED
        BY <2>3, <4>2, <4>3, SpotUpto
    <3>3. CASE j # i
      <4>1. PICK n \in 1..N : n = i - 1 /\ i > 1 /\ j <= n
        BY <1>1, <2>3, <3>1, <3>3 DEF Before
      <4>2. PICK e : e = EndOf(n) /\ Spot(n, e) /\ KeyLess(KeyAt(n, e), k)
        BY <1>6, <4>1, SpotsAre
      <4>3. Before(j, q, n, e) \/ (j = n /\ q = e)
        BY <1>1, <3>1, <4>1, <4>2 DEF Before
      <4> QED
        BY <2>3, <4>2, <4>3, SpotUpto
    <3> QED
      BY <3>2, <3>3
  <2> QED
    BY <1>2, <1>3, <2>1, <2>3, LeastSpot
<1> QED
  BY <1>5, <1>6

LEMMA SeekForPrevGoals ==
  ASSUME Stored, NEW k \in Keys, NEW S, S = {m \in AllKeys : ~KeyLess(k, m)}
  PROVE  /\ (N > 0 => KeyLess(k, KeyAt(1, 1))) => Cursor!Highest(S) = Cursor!Bof
         /\ \A i \in 1..N : \A p :
               LastUpto(level[i], k, p) /\ (i < N => KeyLess(k, KeyAt(i + 1, 1))) =>
                  Cursor!Highest(S) = Cursor!At(KeyAt(i, p))
<1>1. N \in Nat
  BY CountIs
<1>2. S \in SUBSET AllKeys
  OBVIOUS
<1>3. \A j, q : Spot(j, q) => (KeyAt(j, q) \in S <=> ~KeyLess(k, KeyAt(j, q)))
  BY SpotOrder
<1>4. \A j, q : Spot(j, q) => j \in 1..N /\ q \in 1..EndOf(j) /\ EndOf(j) \in Nat
  BY SpotsAre DEF Spot, EndOf
<1>5. ASSUME N > 0 => KeyLess(k, KeyAt(1, 1)) PROVE Cursor!Highest(S) = Cursor!Bof
  <2>1. ASSUME NEW j, NEW q, Spot(j, q) PROVE KeyLess(k, KeyAt(j, q))
    <3>1. j \in 1..N /\ q \in 1..EndOf(j) /\ EndOf(j) \in Nat
      BY <1>4, <2>1
    <3>2. N > 0 /\ 1 \in 1..N
      BY <1>1, <3>1
    <3>3. Spot(1, 1) /\ KeyLess(k, KeyAt(1, 1))
      BY <1>5, <3>2, SpotsAre
    <3>4. Before(1, 1, j, q) \/ (1 = j /\ 1 = q)
      BY <1>1, <3>1 DEF Before
    <3> QED
      BY <2>1, <3>3, <3>4, SpotUpto
  <2> QED
    BY <1>2, <1>3, <2>1, LeastSpot
<1>6. ASSUME NEW i \in 1..N, NEW p, LastUpto(level[i], k, p),
             i < N => KeyLess(k, KeyAt(i + 1, 1))
      PROVE  Cursor!Highest(S) = Cursor!At(KeyAt(i, p))
  <2>1. /\ Spot(i, p) /\ ~KeyLess(k, KeyAt(i, p))
        /\ p < EndOf(i) => KeyLess(k, KeyAt(i, p + 1))
    BY <1>6 DEF LastUpto, Spot, KeyAt, EndOf
  <2>2. p \in 1..EndOf(i) /\ EndOf(i) \in Nat
    BY <1>4, <2>1
  <2>3. ASSUME NEW j, NEW q, Spot(j, q), Before(i, p, j, q) PROVE KeyLess(k, KeyAt(j, q))
    <3>1. j \in 1..N /\ q \in 1..EndOf(j) /\ EndOf(j) \in Nat
      BY <1>4, <2>3
    <3>2. CASE j = i
      <4>1. PICK n : n = p + 1 /\ p < EndOf(i) /\ n <= q
        BY <2>2, <2>3, <3>1, <3>2 DEF Before
      <4>2. Spot(i, n) /\ KeyLess(k, KeyAt(i, n))
        BY <2>1, <2>2, <4>1 DEF Spot, EndOf
      <4>3. Before(i, n, j, q) \/ (i = j /\ n = q)
        BY <2>2, <3>1, <3>2, <4>1 DEF Before
      <4> QED
        BY <2>3, <4>2, <4>3, SpotUpto
    <3>3. CASE j # i
      <4>1. PICK n \in 1..N : n = i + 1 /\ i < N /\ n <= j
        BY <1>1, <2>3, <3>1, <3>3 DEF Before
      <4>2. Spot(n, 1) /\ KeyLess(k, KeyAt(n, 1))
        BY <1>6, <4>1, SpotsAre
      <4>3. Before(n, 1, j, q) \/ (n = j /\ 1 = q)
        BY <1>1, <3>1, <4>1 DEF Before
      <4> QED
        BY <2>3, <4>2, <4>3, SpotUpto
    <3> QED
      BY <3>2, <3>3
  <2> QED
    BY <1>2, <1>3, <2>1, <2>3, LeastSpot
<1> QED
  BY <1>5, <1>6

-----------------------------------------------------------------------------
(* The iterator implements the cursor that SortedCursor describes.           *)

(* Where each call of the cursor may lead.                                   *)
LEMMA GoalsAre ==
  ASSUME NEW k
  PROVE  /\ Cursor!Goals([op |-> "seek_to_first", key |-> k], held) = {Cursor!Lowest(AllKeys)}
         /\ Cursor!Goals([op |-> "seek_to_last", key |-> k], held) = {Cursor!Highest(AllKeys)}
         /\ Cursor!Goals([op |-> "seek", key |-> k], held) =
               {Cursor!Lowest({m \in AllKeys : ~KeyLess(m, k)})}
         /\ Cursor!Goals([op |-> "seek_for_prev", key |-> k], held) =
               {Cursor!Highest({m \in AllKeys : ~KeyLess(k, m)})}
         /\ held.state = "at" =>
               /\ Cursor!Goals([op |-> "next", key |-> k], held) =
                    {Cursor!Lowest({m \in AllKeys : KeyLess(held.key, m)})}
               /\ Cursor!Goals([op |-> "prev", key |-> k], held) =
                    {Cursor!Highest({m \in AllKeys : KeyLess(m, held.key)})}
<1>1. /\ Cursor!Goals([op |-> "seek_to_first", key |-> k], held) = {Cursor!Lowest(AllKeys)}
      /\ Cursor!Goals([op |-> "seek_to_last", key |-> k], held) = {Cursor!Highest(AllKeys)}
  BY DEF Cursor!Goals
<1>2. /\ Cursor!Goals([op |-> "seek", key |-> k], held) =
            {Cursor!Lowest({m \in AllKeys : ~KeyLess(m, k)})}
      /\ Cursor!Goals([op |-> "seek_for_prev", key |-> k], held) =
            {Cursor!Highest({m \in AllKeys : ~KeyLess(k, m)})}
  BY DEF Cursor!Goals
<1>3. held.state = "at" =>
         /\ Cursor!Goals([op |-> "next", key |-> k], held) =
              {Cursor!Lowest({m \in AllKeys : KeyLess(held.key, m)})}
         /\ Cursor!Goals([op |-> "prev", key |-> k], held) =
              {Cursor!Highest({m \in AllKeys : KeyLess(m, held.key)})}
  BY DEF Cursor!Goals
<1> QED
  BY <1>1, <1>2, <1>3

(* Between calls, a valid iterator stands on the key it shows.  While next   *)
(* loops, that is still the far end of the table it is leaving.              *)
Edge(c) == KeyAt(c, IF rev THEN 1 ELSE EndOf(c))

Sure ==
  /\ from = None /\ cur # None /\ iters[cur].err = "none" =>
        \E p : On(iters[cur], tables[cur], level[cur], p) /\ held = Cursor!At(KeyAt(cur, p))
  /\ from # None => cur = Neighbour(from) /\ cur # None /\ held = Cursor!At(Edge(from))

(* The operation op with argument k leads c and its where the cursor may go. *)
Leads(op, k, c, its) ==
  /\ PlaceOf(c, its, op) \in Cursor!Goals([op |-> op, key |-> k], held) \cup {Cursor!Failed}
  /\ c # None /\ its[c].err = "none" => \E p : On(its[c], tables[c], level[c], p)

IsCall(op, k) == \/ op \in {"seek_to_first", "seek_to_last", "next", "prev"} /\ k = NoKey
                 \/ op \in {"seek", "seek_for_prev"} /\ k \in Wanted

LEMMA CallSteps ==
  ASSUME NEW op, NEW k, IsCall(op, k), NEW c, NEW its, Leads(op, k, c, its), Return(op, k, c, its)
  PROVE  Cursor!Next /\ Sure'
<1>1. /\ cur' = c /\ iters' = its /\ from' = None /\ call' = [op |-> op, key |-> k]
      /\ held' = PlaceOf(c, its, op) /\ level' = level /\ tables' = tables /\ rev' = rev
  BY DEF Return
<1>2. Sure'
  <2> SUFFICES ASSUME c # None, its[c].err = "none"
               PROVE  \E p : /\ On(its[c], tables[c], level[c], p)
                             /\ held' = Cursor!At(level[c][p].key)
    BY <1>1 DEF Sure, KeyAt
  <2>1. PICK p : On(its[c], tables[c], level[c], p)
    BY DEF Leads
  <2>2. op # "new"
    BY DEF IsCall
  <2>3. PlaceOf(c, its, op) = [state |-> "at", key |-> its[c].bi.key]
    BY <2>2 DEF PlaceOf
  <2>4. its[c].bi.key = level[c][p].key
    BY <2>1 DEF On
  <2> QED
    BY <1>1, <2>1, <2>3, <2>4 DEF Cursor!At
<1>3. PICK x : x = [op |-> op, key |-> k]
  OBVIOUS
<1>4. x \in Cursor!Calls
  BY <1>3 DEF Cursor!Calls, Cursor!Call, IsCall
<1>5. AllKeys' = AllKeys
  BY <1>1 DEF AllKeys
<1>6. held' \in Cursor!Goals(x, held) \cup {Cursor!Failed}
  BY <1>1, <1>3, Zenon DEF Leads
<1>7. Cursor!Step(x)
  BY <1>1, <1>3, <1>5, <1>6, Zenon DEF Cursor!Step
<1> QED
  BY <1>2, <1>4, <1>7, Zenon DEF Cursor!Next

LEMMA LeadsNowhere ==
  ASSUME NEW op, NEW k, op # "new", NEW its,
         Cursor!Goals([op |-> op, key |-> k], held) = {IF rev THEN Cursor!Bof ELSE Cursor!Eof}
  PROVE  Leads(op, k, None, its)
<1>1. PlaceOf(None, its, op) = IF rev THEN Cursor!Bof ELSE Cursor!Eof
  <2>1. PlaceOf(None, its, op) = [state |-> IF rev THEN "bof" ELSE "eof", key |-> NoKey]
    BY DEF PlaceOf
  <2>2. CASE rev
    BY <2>1, <2>2 DEF Cursor!Bof
  <2>3. CASE ~rev
    BY <2>1, <2>3 DEF Cursor!Eof
  <2> QED
    BY <2>2, <2>3
<1> QED
  BY <1>1 DEF Leads

LEMMA LeadsTo ==
  ASSUME NEW op, NEW k, op # "new", NEW c, c # None, NEW its,
         \/ its[c].err = "Error"
         \/ \E p : /\ On(its[c], tables[c], level[c], p)
                   /\ Cursor!Goals([op |-> op, key |-> k], held) = {Cursor!At(KeyAt(c, p))}
  PROVE  Leads(op, k, c, its)
<1>1. CASE its[c].err = "Error"
  <2>1. PlaceOf(c, its, op) = [state |-> "error", key |-> NoKey]
    BY <1>1 DEF PlaceOf
  <2> QED
    BY <1>1, <2>1 DEF Leads, Cursor!Failed
<1>2. ASSUME NEW p, On(its[c], tables[c], level[c], p),
             Cursor!Goals([op |-> op, key |-> k], held) = {Cursor!At(KeyAt(c, p))}
      PROVE  Leads(op, k, c, its)
  <2>1. its[c].err = "none" /\ its[c].bi.key = KeyAt(c, p)
    BY <1>2 DEF On, KeyAt
  <2>2. PlaceOf(c, its, op) = Cursor!At(KeyAt(c, p))
    BY <2>1 DEF PlaceOf, Cursor!At
  <2> QED
    BY <1>2, <2>2 DEF Leads
<1> QED
  BY <1>1, <1>2

LEMMA RewindsLead ==
  ASSUME Kept, Rewinds
  PROVE  Cursor!Next /\ Sure'
<1>0. N \in Nat /\ Stored /\ rev \in BOOLEAN
  BY CountIs DEF Kept
<1>1. IsCall(EndOp, NoKey) /\ EndOp # "new"
  BY DEF IsCall, EndOp
<1>2. PICK G : G = Cursor!Goals([op |-> EndOp, key |-> NoKey], held)
  OBVIOUS
<1>3. G = {IF rev THEN Cursor!Highest(AllKeys) ELSE Cursor!Lowest(AllKeys)}
  <2>1. CASE rev
    BY <1>2, <2>1, GoalsAre DEF EndOp
  <2>2. CASE ~rev
    BY <1>2, <2>2, GoalsAre DEF EndOp
  <2> QED
    BY <2>1, <2>2
<1>4. ASSUME N = 0, Return(EndOp, NoKey, cur, iters) PROVE Cursor!Next /\ Sure'
  <2>1. cur = None
    BY <1>4 DEF Kept, None
  <2>2. G = {IF rev THEN Cursor!Bof ELSE Cursor!Eof}
    <3>1. Cursor!Lowest(AllKeys) = Cursor!Eof /\ Cursor!Highest(AllKeys) = Cursor!Bof
      BY <1>0, <1>4, EndGoals
    <3> QED
      BY <1>3, <3>1
  <2>3. Leads(EndOp, NoKey, None, iters)
    BY <1>1, <1>2, <2>2, LeadsNowhere
  <2> QED
    BY <1>1, <1>4, <2>1, <2>3, CallSteps
<1>5. ASSUME N # 0, NEW bad, Return(EndOp, NoKey, EndTable, Entered(EndTable, iters, bad))
      PROVE  Cursor!Next /\ Sure'
  <2>1. PICK i \in 1..N : i = EndTable /\ i # None
    <3>1. EndTable \in 1..N
      BY <1>5, EndTableIs
    <3> QED
      BY <3>1 DEF None
  <2>2. PICK x : x = IterRewind(tables[i], iters[i], rev, bad)
    OBVIOUS
  <2>3. x.err = "Error" \/ On(x, tables[i], level[i], IF rev THEN EndOf(i) ELSE 1)
    BY <1>0, <2>2, RewindLeads DEF Kept, Stored, AllLoose, EndOf
  <2>4. Entered(i, iters, bad)[i] = x
    BY <2>2 DEF Entered, Kept, AllLoose
  <2>5. G = {Cursor!At(KeyAt(i, IF rev THEN EndOf(i) ELSE 1))}
    <3>1. /\ Cursor!Lowest(AllKeys) = Cursor!At(KeyAt(1, 1))
          /\ Cursor!Highest(AllKeys) = Cursor!At(KeyAt(N, EndOf(N)))
      BY <1>0, <1>5, EndGoals
    <3>2. CASE rev
      BY <1>3, <2>1, <3>1, <3>2 DEF EndTable
    <3>3. CASE ~rev
      BY <1>3, <2>1, <3>1, <3>3 DEF EndTable
    <3> QED
      BY <3>2, <3>3
  <2>6. Leads(EndOp, NoKey, i, Entered(i, iters, bad))
    BY <1>1, <1>2, <2>1, <2>3, <2>4, <2>5, LeadsTo
  <2> QED
    BY <1>1, <1>5, <2>1, <2>6, CallSteps
<1> QED
  BY <1>4, <1>5 DEF Rewinds

LEMMA SeeksLead ==
  ASSUME Kept, NEW k \in Wanted, Seeks(k)
  PROVE  Cursor!Next /\ Sure'
<1>0. N \in Nat /\ Stored /\ rev \in BOOLEAN /\ k \in Keys
  BY CountIs, WantedAssumption DEF Kept
<1>1. IsCall(SeekOp, k) /\ SeekOp # "new"
  BY DEF IsCall, SeekOp
<1>2. PICK G : G = Cursor!Goals([op |-> SeekOp, key |-> k], held)
  OBVIOUS
<1>3. PICK F, B : F = {m \in AllKeys : ~KeyLess(m, k)} /\ B = {m \in AllKeys : ~KeyLess(k, m)}
  OBVIOUS
<1>4. G = {IF rev THEN Cursor!Highest(B) ELSE Cursor!Lowest(F)}
  <2>1. CASE rev
    BY <1>2, <1>3, <2>1, GoalsAre DEF SeekOp
  <2>2. CASE ~rev
    BY <1>2, <1>3, <2>2, GoalsAre DEF SeekOp
  <2> QED
    BY <2>1, <2>2
<1>5. PICK i : i = SeekTable(k)
  OBVIOUS
<1>6. \A j \in 1..N : /\ BiggestKey(tables[j]) = KeyAt(j, EndOf(j))
                      /\ SmallestKey(tables[j]) = KeyAt(j, 1)
  BY SortedIs DEF Kept, Stored, KeyAt, EndOf
<1>7. /\ i \in 0..N
      /\ ~rev => /\ i # None => ~KeyLess(BiggestKey(tables[i]), k)
                 /\ i # None /\ i > 1 => KeyLess(BiggestKey(tables[i - 1]), k)
                 /\ i = None /\ N > 0 => KeyLess(BiggestKey(tables[N]), k)
      /\ rev => /\ i # None => ~KeyLess(k, SmallestKey(tables[i]))
                /\ i < N => KeyLess(k, SmallestKey(tables[i + 1]))
  BY <1>5, SeekTableIs
<1>8. ASSUME i = None, Return(SeekOp, k, None, iters) PROVE Cursor!Next /\ Sure'
  <2>1. ASSUME rev PROVE Cursor!Highest(B) = Cursor!Bof
    <3>1. N > 0 => KeyLess(k, KeyAt(1, 1))
      <4> SUFFICES ASSUME N > 0 PROVE KeyLess(k, KeyAt(1, 1))
        OBVIOUS
      <4>1. i < N /\ i + 1 = 1 /\ 1 \in 1..N
        BY <1>0, <1>8 DEF None
      <4> QED
        BY <1>6, <1>7, <2>1, <4>1
    <3> QED
      BY <1>0, <1>3, <3>1, SeekForPrevGoals
  <2>2. ASSUME ~rev PROVE Cursor!Lowest(F) = Cursor!Eof
    <3>1. N > 0 => KeyLess(KeyAt(N, EndOf(N)), k)
      <4> SUFFICES ASSUME N > 0 PROVE KeyLess(KeyAt(N, EndOf(N)), k)
        OBVIOUS
      <4>1. N \in 1..N
        BY <1>0
      <4> QED
        BY <1>6, <1>7, <1>8, <2>2, <4>1
    <3> QED
      BY <1>0, <1>3, <3>1, SeekGoals
  <2>3. G = {IF rev THEN Cursor!Bof ELSE Cursor!Eof}
    BY <1>0, <1>4, <2>1, <2>2
  <2>4. Leads(SeekOp, k, None, iters)
    BY <1>1, <1>2, <2>3, LeadsNowhere
  <2> QED
    BY <1>1, <1>8, <2>4, CallSteps
<1>9. ASSUME i # None, NEW bad \in BadBlocks(SeekOp, i), Return(SeekOp, k, i, SoughtIn(i, k, bad))
      PROVE  Cursor!Next /\ Sure'
  <2>1. i \in 1..N
    BY <1>0, <1>7, <1>9 DEF None
  <2>2. PICK x : x = IterSeek(tables[i], iters[i], k, rev, bad)
    OBVIOUS
  <2>3. SoughtIn(i, k, bad)[i] = x
    BY <2>1, <2>2 DEF SoughtIn, Kept, AllLoose
  <2>4. Sorted(tables[i], level[i]) /\ Loose(iters[i], tables[i], level[i])
    BY <2>1 DEF Kept, Stored, AllLoose
  <2>5. CASE rev
    <3>1. bad = {}
      <4>1. "seek_for_prev" \notin Faults /\ SeekOp = "seek_for_prev"
        BY <2>5, FaultsAssumption DEF SeekOp
      <4> QED
        BY <1>9, <4>1 DEF BadBlocks
    <3>2. ~KeyLess(k, KeyAt(i, 1)) /\ (i < N => KeyLess(k, KeyAt(i + 1, 1)))
      <4>1. i < N => i + 1 \in 1..N
        BY <1>0, <2>1
      <4> QED
        BY <1>6, <1>7, <1>9, <2>1, <2>5, <4>1
    <3>3. x = IterSeek(tables[i], iters[i], k, TRUE, {})
      BY <2>2, <2>5, <3>1 DEF IterSeek
    <3>4. PICK p : LastUpto(level[i], k, p) /\ On(x, tables[i], level[i], p)
      BY <1>0, <2>4, <3>2, <3>3, SeekLeadsTo DEF KeyAt
    <3>5. Cursor!Highest(B) = Cursor!At(KeyAt(i, p))
      BY <1>0, <1>3, <2>1, <3>2, <3>4, SeekForPrevGoals
    <3>6. Leads(SeekOp, k, i, SoughtIn(i, k, bad))
      BY <1>1, <1>2, <1>4, <1>9, <2>3, <2>5, <3>4, <3>5, LeadsTo
    <3> QED
      BY <1>1, <1>9, <3>6, CallSteps
  <2>6. CASE ~rev
    <3>1. ~KeyLess(KeyAt(i, EndOf(i)), k) /\ (i > 1 => KeyLess(KeyAt(i - 1, EndOf(i - 1)), k))
      <4>1. i > 1 => i - 1 \in 1..N
        BY <1>0, <2>1
      <4> QED
        BY <1>6, <1>7, <1>9, <2>1, <2>6, <4>1
    <3>2. x = IterSeek(tables[i], iters[i], k, FALSE, bad)
      BY <2>2, <2>6 DEF IterSeek
    <3>3. \/ x.err = "Error"
          \/ \E p : FirstFrom(level[i], k, p) /\ On(x, tables[i], level[i], p)
      BY <1>0, <2>4, <3>1, <3>2, SeekLeadsTo DEF KeyAt, EndOf
    <3>4. \A p : FirstFrom(level[i], k, p) => Cursor!Lowest(F) = Cursor!At(KeyAt(i, p))
      BY <1>0, <1>3, <2>1, <3>1, SeekGoals
    <3>5. G = {Cursor!Lowest(F)}
      BY <1>4, <2>6
    <3>6. Leads(SeekOp, k, i, SoughtIn(i, k, bad))
      BY <1>1, <1>2, <1>9, <2>3, <3>3, <3>4, <3>5, LeadsTo
    <3> QED
      BY <1>1, <1>9, <3>6, CallSteps
  <2> QED
    BY <2>5, <2>6
<1> QED
  BY <1>5, <1>8, <1>9 DEF Seeks

(* Where next is to lead from the key of entry p of table i.                 *)
LEMMA NextOpGoals ==
  ASSUME Kept, NEW i, NEW p, Spot(i, p), held = Cursor!At(KeyAt(i, p)),
         NEW G, G = Cursor!Goals([op |-> NextOp, key |-> NoKey], held)
  PROVE  /\ ~rev => /\ p < EndOf(i) => G = {Cursor!At(KeyAt(i, p + 1))}
                    /\ p = EndOf(i) /\ i < N => G = {Cursor!At(KeyAt(i + 1, 1))}
                    /\ p = EndOf(i) /\ i = N => G = {Cursor!Eof}
         /\ rev => /\ p > 1 => G = {Cursor!At(KeyAt(i, p - 1))}
                   /\ p = 1 /\ i > 1 => G = {Cursor!At(KeyAt(i - 1, EndOf(i - 1)))}
                   /\ p = 1 /\ i = 1 => G = {Cursor!Bof}
<1>1. held.state = "at" /\ held.key = KeyAt(i, p) /\ Stored
  BY DEF Cursor!At, Kept
<1>2. PICK F, B : F = {m \in AllKeys : KeyLess(KeyAt(i, p), m)} /\ B = {m \in AllKeys : KeyLess(m, KeyAt(i, p))}
  OBVIOUS
<1>3. ASSUME ~rev PROVE G = {Cursor!Lowest(F)}
  <2>1. NextOp = "next"
    BY <1>3 DEF NextOp
  <2>2. G = Cursor!Goals([op |-> "next", key |-> NoKey], held)
    BY <2>1
  <2>3. Cursor!Goals([op |-> "next", key |-> NoKey], held) =
          {Cursor!Lowest({m \in AllKeys : KeyLess(held.key, m)})}
    BY <1>1, GoalsAre
  <2>4. {m \in AllKeys : KeyLess(held.key, m)} = F
    BY <1>1, <1>2, Zenon
  <2> QED
    BY <2>2, <2>3, <2>4, Zenon
<1>4. ASSUME rev PROVE G = {Cursor!Highest(B)}
  <2>1. NextOp = "prev"
    BY <1>4 DEF NextOp
  <2>2. G = Cursor!Goals([op |-> "prev", key |-> NoKey], held)
    BY <2>1
  <2>3. Cursor!Goals([op |-> "prev", key |-> NoKey], held) =
          {Cursor!Highest({m \in AllKeys : KeyLess(m, held.key)})}
    BY <1>1, GoalsAre
  <2>4. {m \in AllKeys : KeyLess(m, held.key)} = B
    BY <1>1, <1>2, Zenon
  <2> QED
    BY <2>2, <2>3, <2>4, Zenon
<1>5. /\ p < EndOf(i) => Cursor!Lowest(F) = Cursor!At(KeyAt(i, p + 1))
      /\ p = EndOf(i) /\ i < N => Cursor!Lowest(F) = Cursor!At(KeyAt(i + 1, 1))
      /\ p = EndOf(i) /\ i = N => Cursor!Lowest(F) = Cursor!Eof
  BY <1>1, <1>2, NextGoals
<1>6. /\ p > 1 => Cursor!Highest(B) = Cursor!At(KeyAt(i, p - 1))
      /\ p = 1 /\ i > 1 => Cursor!Highest(B) = Cursor!At(KeyAt(i - 1, EndOf(i - 1)))
      /\ p = 1 /\ i = 1 => Cursor!Highest(B) = Cursor!Bof
  BY <1>1, <1>2, PrevGoals
<1> QED
  BY <1>3, <1>4, <1>5, <1>6

(* A turn of the loop of next, from the far end of the table c: it goes on   *)
(* to the near end of the neighbour, or leaves everything as it is.          *)
LEMMA EnterLeads ==
  ASSUME Kept, NEW c \in 1..N, NEW its, AllLoose(its), NEW bad, EnterNeighbour(c, its, bad),
         held = Cursor!At(Edge(c))
  PROVE  Sure' /\ (Cursor!Next \/ UNCHANGED Cursor!vars)
<1>0. N \in Nat /\ Stored /\ rev \in BOOLEAN
  BY CountIs DEF Kept
<1>1. IsCall(NextOp, NoKey) /\ NextOp # "new"
  BY DEF IsCall, NextOp
<1>2. PICK G : G = Cursor!Goals([op |-> NextOp, key |-> NoKey], held)
  OBVIOUS
<1>3. PICK i : i = Neighbour(c)
  OBVIOUS
<1>4. PICK e : e = (IF rev THEN 1 ELSE EndOf(c)) /\ Spot(c, e) /\ held = Cursor!At(KeyAt(c, e))
  BY <1>0, SpotsAre DEF Edge
<1>5. /\ ~rev => /\ c < N => G = {Cursor!At(KeyAt(c + 1, 1))}
                 /\ c = N => G = {Cursor!Eof}
      /\ rev => /\ c > 1 => G = {Cursor!At(KeyAt(c - 1, EndOf(c - 1)))}
                /\ c = 1 => G = {Cursor!Bof}
  <2>1. /\ ~rev => /\ e = EndOf(c) /\ c < N => G = {Cursor!At(KeyAt(c + 1, 1))}
                   /\ e = EndOf(c) /\ c = N => G = {Cursor!Eof}
        /\ rev => /\ e = 1 /\ c > 1 => G = {Cursor!At(KeyAt(c - 1, EndOf(c - 1)))}
                  /\ e = 1 /\ c = 1 => G = {Cursor!Bof}
    BY <1>2, <1>4, NextOpGoals
  <2> QED
    BY <1>4, <2>1
<1>6. /\ i \in 0..N /\ (rev => i = c - 1)
      /\ ~rev => i = IF c = N THEN None ELSE c + 1
  BY <1>3, NeighbourIs
<1>7. CASE i = None /\ Return(NextOp, NoKey, None, its)
  <2>1. G = {IF rev THEN Cursor!Bof ELSE Cursor!Eof}
    <3>1. CASE rev
      <4>1. c = 1
        BY <1>6, <1>7, <3>1 DEF None
      <4> QED
        BY <1>5, <3>1, <4>1
    <3>2. CASE ~rev
      <4>1. c = N
        BY <1>0, <1>6, <1>7, <3>2 DEF None
      <4> QED
        BY <1>5, <3>2, <4>1
    <3> QED
      BY <3>1, <3>2
  <2>2. Leads(NextOp, NoKey, None, its)
    BY <1>1, <1>2, <2>1, LeadsNowhere
  <2> QED
    BY <1>1, <1>7, <2>2, CallSteps
<1>8. PICK new : new = Entered(i, its, bad)
  OBVIOUS
<1>9. ASSUME i # None, Valid(new[i]), Return(NextOp, NoKey, i, new)
      PROVE  Sure' /\ Cursor!Next
  <2>1. i \in 1..N
    BY <1>0, <1>6, <1>9 DEF None
  <2>2. PICK x : x = IterRewind(tables[i], its[i], rev, bad)
    OBVIOUS
  <2>3. new[i] = x
    BY <1>8, <2>1, <2>2 DEF Entered, AllLoose
  <2>4. x.err = "Error" \/ On(x, tables[i], level[i], IF rev THEN EndOf(i) ELSE 1)
    BY <1>0, <2>1, <2>2, RewindLeads DEF Stored, AllLoose, EndOf
  <2>5. G = {Cursor!At(KeyAt(i, IF rev THEN EndOf(i) ELSE 1))}
    <3>1. CASE rev
      <4>1. i = c - 1 /\ c > 1
        BY <1>6, <2>1, <3>1
      <4> QED
        BY <1>5, <3>1, <4>1
    <3>2. CASE ~rev
      <4>1. i = c + 1 /\ c < N
        BY <1>0, <1>6, <1>9, <3>2
      <4> QED
        BY <1>5, <3>2, <4>1
    <3> QED
      BY <3>1, <3>2
  <2>6. Leads(NextOp, NoKey, i, new)
    BY <1>1, <1>2, <1>9, <2>3, <2>4, <2>5, LeadsTo
  <2> QED
    BY <1>1, <1>9, <2>6, CallSteps
<1>10. CASE /\ i # None /\ cur' = i /\ iters' = new /\ from' = c
            /\ UNCHANGED <<level, tables, rev, call, held>>
  <2>1. UNCHANGED Cursor!vars
    BY <1>10 DEF Cursor!vars, AllKeys
  <2>2. c # None
    BY DEF None
  <2>3. Neighbour(c)' = Neighbour(c) /\ Edge(c)' = Edge(c)
    BY <1>10 DEF Neighbour, Edge, KeyAt, EndOf, N
  <2>4. Neighbour(from)' = i /\ held' = Cursor!At(Edge(from)')
    BY <1>3, <1>10, <2>3 DEF Neighbour, Edge, KeyAt, EndOf, N
  <2>5. Sure'
    BY <1>10, <2>2, <2>4 DEF Sure, Cursor!At
  <2> QED
    BY <2>1, <2>5
<1> QED
  BY <1>3, <1>7, <1>8, <1>9, <1>10, EnterSteps

LEMMA GoesOn ==
  ASSUME Kept, Sure, "next" \notin Faults, from = None, ConcatValid,
         NEW bad \in BadBlocks("next", cur), Goes(bad)
  PROVE  Sure' /\ (Cursor!Next \/ UNCHANGED Cursor!vars)
<1>0. N \in Nat /\ Stored /\ rev \in BOOLEAN
  BY CountIs DEF Kept
<1>1. IsCall(NextOp, NoKey) /\ NextOp # "new"
  BY DEF IsCall, NextOp
<1>2. bad = {}
  BY DEF BadBlocks
<1>3. cur \in 1..N /\ cur # None /\ iters[cur].err = "none"
  BY <1>0 DEF ConcatValid, Valid, Kept, None
<1>4. PICK p : On(iters[cur], tables[cur], level[cur], p) /\ held = Cursor!At(KeyAt(cur, p))
  BY <1>3 DEF Sure
<1>5. Spot(cur, p) /\ p \in 1..EndOf(cur) /\ EndOf(cur) \in Nat
  BY <1>0, <1>3, <1>4, SpotsAre DEF On, Spot, EndOf
<1>6. PICK G : G = Cursor!Goals([op |-> NextOp, key |-> NoKey], held)
  OBVIOUS
<1>7. PICK x : x = IterNext(tables[cur], iters[cur], rev, bad)
  OBVIOUS
<1>8. Stepped(bad)[cur] = x
  BY <1>3, <1>7 DEF Stepped, Kept, AllLoose
<1>9. AllLoose(Stepped(bad))
  BY <1>3, CallsLoose
<1>10. Sorted(tables[cur], level[cur]) /\ Loose(iters[cur], tables[cur], level[cur])
  BY <1>3 DEF Kept, Stored, AllLoose
<1>11. On(iters[cur], tables[cur], level[cur], p)
  BY <1>4
<1>12. /\ \/ p < EndOf(cur) /\ On(IterNext(tables[cur], iters[cur], FALSE, {}), tables[cur], level[cur], p + 1)
          \/ p = EndOf(cur) /\ IterNext(tables[cur], iters[cur], FALSE, {}).err = "EOF"
       /\ \/ p > 1 /\ On(IterNext(tables[cur], iters[cur], TRUE, {}), tables[cur], level[cur], p - 1)
          \/ p = 1 /\ IterNext(tables[cur], iters[cur], TRUE, {}).err = "EOF"
  BY <1>10, <1>11, NextLeads, Zenon DEF EndOf
<1>13. \/ \E q : On(x, tables[cur], level[cur], q) /\ G = {Cursor!At(KeyAt(cur, q))}
       \/ x.err = "EOF" /\ held = Cursor!At(Edge(cur))
  <2>1. CASE ~rev
    <3>1. x = IterNext(tables[cur], iters[cur], FALSE, {})
      BY <1>2, <1>7, <2>1 DEF IterNext
    <3>2. \/ p < EndOf(cur) /\ On(x, tables[cur], level[cur], p + 1)
          \/ p = EndOf(cur) /\ x.err = "EOF"
      BY <1>12, <3>1, Zenon
    <3>3. p < EndOf(cur) => G = {Cursor!At(KeyAt(cur, p + 1))}
      BY <1>4, <1>5, <1>6, <2>1, NextOpGoals
    <3> QED
      BY <1>4, <2>1, <3>2, <3>3 DEF Edge
  <2>2. CASE rev
    <3>1. x = IterNext(tables[cur], iters[cur], TRUE, {})
      BY <1>2, <1>7, <2>2 DEF IterNext
    <3>2. \/ p > 1 /\ On(x, tables[cur], level[cur], p - 1)
          \/ p = 1 /\ x.err = "EOF"
      BY <1>12, <3>1, Zenon
    <3>3. p > 1 => G = {Cursor!At(KeyAt(cur, p - 1))}
      BY <1>4, <1>5, <1>6, <2>2, NextOpGoals
    <3> QED
      BY <1>4, <2>2, <3>2, <3>3 DEF Edge
  <2> QED
    BY <2>1, <2>2
<1>14. ASSUME Valid(x), Return(NextOp, NoKey, cur, Stepped(bad)) PROVE Cursor!Next /\ Sure'
  <2>1. \E q : On(x, tables[cur], level[cur], q) /\ G = {Cursor!At(KeyAt(cur, q))}
    BY <1>13, <1>14 DEF Valid
  <2>2. Leads(NextOp, NoKey, cur, Stepped(bad))
    BY <1>1, <1>3, <1>6, <1>8, <2>1, LeadsTo
  <2> QED
    BY <1>1, <1>14, <2>2, CallSteps
<1>15. ASSUME ~Valid(x), NEW fail, EnterNeighbour(cur, Stepped(bad), fail)
       PROVE  Sure' /\ (Cursor!Next \/ UNCHANGED Cursor!vars)
  <2>1. held = Cursor!At(Edge(cur))
    BY <1>13, <1>15 DEF Valid, On
  <2> QED
    BY <1>3, <1>9, <1>15, <2>1, EnterLeads
<1> QED
  BY <1>8, <1>14, <1>15 DEF Goes

(* Every step of the iterator is a step of the cursor, or none.              *)
LEMMA StepMoves ==
  ASSUME "next" \notin Faults, Kept, Sure, Next
  PROVE  Sure' /\ (Cursor!Next \/ UNCHANGED Cursor!vars)
<1>1. CASE from = None /\ Rewinds
  BY <1>1, RewindsLead
<1>2. ASSUME NEW k \in Wanted, Seeks(k) PROVE Cursor!Next /\ Sure'
  BY <1>2, SeeksLead
<1>3. ASSUME from = None, ConcatValid, NEW bad \in BadBlocks("next", cur), Goes(bad)
      PROVE  Sure' /\ (Cursor!Next \/ UNCHANGED Cursor!vars)
  BY <1>3, GoesOn
<1>4. ASSUME from # None, NEW bad, EnterNeighbour(from, iters, bad)
      PROVE  Sure' /\ (Cursor!Next \/ UNCHANGED Cursor!vars)
  <2>1. from \in 1..N /\ AllLoose(iters)
    BY <1>4, CountIs DEF Kept, None
  <2>2. held = Cursor!At(Edge(from))
    BY <1>4 DEF Sure
  <2> QED
    BY <1>4, <2>1, <2>2, EnterLeads
<1> QED
  BY <1>1, <1>2, <1>3, <1>4, NextSteps

(* A valid iterator stands on the entry whose key it shows, and while next   *)
(* tries to enter the neighbouring table the key shown is still the last one *)
(* of the table it leaves, whichever reads of the neighbour fail.            *)
THEOREM SureAlways ==
  ASSUME "next" \notin Faults
  PROVE  Spec => []Sure
<1>1. Init => Sure
  BY DEF Init, Sure
<1>2. Kept /\ Sure /\ [Next]_vars => Sure'
  <2>1. Sure /\ UNCHANGED vars => Sure'
    BY DEF vars, Sure, KeyAt, EndOf, Edge, Neighbour, N, Cursor!At
  <2> QED
    BY <2>1, StepMoves
<1> QED
  BY <1>1, <1>2, KeptAlways, PTL DEF Spec

(* For every level, over the boundaries of blocks and of tables and in both  *)
(* directions, rewind, seek and next lead where they would in one sorted     *)
(* table, and entering a table may take any number of failed reads.  Only    *)
(* the reads within the table that next is in have to succeed: when one      *)
(* fails, the rest of that table is skipped.                                 *)
THEOREM Refinement ==
  ASSUME "next" \notin Faults
  PROVE  Spec => IsSortedCursor
<1>1. Init => Cursor!Init
  BY DEF Init, Cursor!Init, Cursor!Call, Cursor!Unset
<1>2. Kept /\ Sure /\ [Next]_vars => [Cursor!Next]_(Cursor!vars)
  <2>1. UNCHANGED vars => UNCHANGED Cursor!vars
    BY DEF vars, Cursor!vars, AllKeys
  <2> QED
    BY <2>1, StepMoves
<1> QED
  BY <1>1, <1>2, KeptAlways, SureAlways, PTL DEF Spec, IsSortedCursor, Cursor!Spec
=============================================================================
