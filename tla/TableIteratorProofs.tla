------------------------ MODULE TableIteratorProofs ------------------------
(* What TableIterator promises, for every universe of keys, every block size *)
(* and every table.                                                          *)
EXTENDS TableIterator, TableLemmas, TLAPS

-----------------------------------------------------------------------------
(* The table.                                                                *)

FilterOf(es) ==
  \E hs : /\ Len(hs) = Len(es) /\ DOMAIN hs = 1..Len(es)
          /\ \A i \in 1..Len(es) : hs[i] = KeyHash(es[i].key)
          /\ filter = IF BloomEnabled THEN BuildFilter(hs, BitsPerKey) ELSE NoFilter

(* The builder holds what was added, and later the table does; added is in   *)
(* key order.                                                                *)
Built ==
  /\ added \in Seq(Additions) /\ Ordered(added)
  /\ table = <<>> => Building(builder, added)
  /\ table # <<>> => /\ IsTable(table, added)
                     /\ \A i \in 1..Len(table) : BlockFits(table[i])
                     /\ FilterOf(added)

LEMMA BuiltAtFirst == Init => Built
<1> SUFFICES ASSUME Init PROVE Built
  OBVIOUS
<1>1. added = <<>> /\ table = <<>> /\ builder = NewBuilder
  BY DEF Init
<1>2. <<>> \in Seq(Additions) /\ Ordered(<<>>)
  BY DEF Ordered
<1> QED
  BY <1>1, <1>2, NothingBuilt DEF Built

LEMMA BuiltByAdd ==
  ASSUME Built, NEW k \in Universe, NEW v \in Values[k], DoAdd(k, v)
  PROVE  Built'
<1>1. PICK a : a = [key |-> k, value |-> v]
  OBVIOUS
<1>2. k \in Keys /\ v \in ValueFields
  BY KeysAssumption, ValuesAssumption
<1>3. a \in Additions /\ a.key = k
  BY <1>1, <1>2 DEF Additions
<1>4. table = <<>> /\ table' = <<>> /\ added' = Append(added, a) /\ builder' = Add(builder, k, v)
  BY <1>1 DEF DoAdd
<1>5. added' \in Seq(Additions)
  BY <1>3, <1>4, AppendProperties DEF Built
<1>6. Ordered(added')
  BY <1>3, <1>4, OrderedOn DEF Built, DoAdd
<1>7. Building(builder', added')
  BY <1>1, <1>2, <1>4, AddBuilds DEF Built
<1> QED
  BY <1>4, <1>5, <1>6, <1>7 DEF Built

LEMMA BuiltByFinish ==
  ASSUME Built, DoFinish
  PROVE  Built' /\ table' # <<>>
<1>1. /\ table = <<>> /\ added # <<>> /\ added' = added
      /\ table' = Finish(builder).blocks /\ filter' = Finish(builder).filter
  BY DEF DoFinish
<1>2. Building(builder, added)
  BY <1>1 DEF Built
<1>3. /\ IsTable(table', added)
      /\ \A i \in 1..Len(table') : BlockFits(table'[i])
      /\ filter' = IF BloomEnabled THEN BuildFilter(builder.hashes, BitsPerKey) ELSE NoFilter
  BY <1>1, <1>2, FinishBuilds
<1>4. FilterOf(added)'
  <2>1. builder.hashes \in Seq(Hashes) /\ Hashed(builder, added)
    BY <1>2 DEF Building, Builders
  <2>2. /\ Len(builder.hashes) = Len(added) /\ DOMAIN builder.hashes = 1..Len(added)
        /\ \A i \in 1..Len(added) : builder.hashes[i] = KeyHash(added[i].key)
    BY <2>1, LenProperties DEF Hashed
  <2> QED
    BY <1>1, <1>3, <2>2 DEF FilterOf
<1>5. table' # <<>>
  BY <1>3 DEF IsTable
<1> QED
  BY <1>1, <1>3, <1>4, <1>5 DEF Built

LEMMA BuiltOnwards ==
  ASSUME Built, UNCHANGED <<added, builder, table, filter>>
  PROVE  Built'
BY DEF Built, FilterOf

(* Only add and finish change the table.                                     *)
Moves == UNCHANGED <<added, builder, table, filter>>

LEMMA NextMoves ==
  ASSUME Next
  PROVE  \/ \E k \in Universe : \E v \in Values[k] : DoAdd(k, v)
         \/ DoFinish
         \/ table # <<>> /\ Moves
<1>1. CASE DoSeekToFirst
  BY <1>1 DEF DoSeekToFirst, Do, Moves
<1>2. CASE DoSeekToLast
  BY <1>2 DEF DoSeekToLast, Do, Moves
<1>3. CASE DoNext
  BY <1>3 DEF DoNext, Do, Moves
<1>4. CASE DoPrev
  BY <1>4 DEF DoPrev, Do, Moves
<1>5. ASSUME NEW k \in Wanted, DoSeek(k) PROVE table # <<>> /\ Moves
  BY <1>5 DEF DoSeek, Do, Moves
<1>6. ASSUME NEW k \in Wanted, DoSeekForPrev(k) PROVE table # <<>> /\ Moves
  BY <1>6 DEF DoSeekForPrev, Do, Moves
<1> QED
  BY <1>1, <1>2, <1>3, <1>4, <1>5, <1>6 DEF Next

(* The builder lays out what it was given, whatever happens to the iterator. *)
THEOREM BuiltAlways == Spec => []Built
<1>1. Init => Built
  BY BuiltAtFirst
<1>2. Built /\ [Next]_vars => Built'
  <2> SUFFICES ASSUME Built, [Next]_vars PROVE Built'
    OBVIOUS
  <2>1. CASE UNCHANGED vars
    BY <2>1, BuiltOnwards DEF vars
  <2>2. CASE Next
    <3>1. ASSUME NEW k \in Universe, NEW v \in Values[k], DoAdd(k, v) PROVE Built'
      BY <3>1, BuiltByAdd
    <3>2. CASE DoFinish
      BY <3>2, BuiltByFinish
    <3>3. CASE Moves
      BY <3>3, BuiltOnwards DEF Moves
    <3> QED
      BY <2>2, <3>1, <3>2, <3>3, NextMoves
  <2> QED
    BY <2>1, <2>2
<1> QED
  BY <1>1, <1>2, PTL DEF Spec

(* should_finish_block's estimate is never too small: a block that holds     *)
(* more than one entry is not larger than block_size, for every key length,  *)
(* value, checksum and block size.                                           *)
THEOREM BlocksStayWithinSize == Spec => []BlocksFit
<1>1. Built => BlocksFit
  <2> SUFFICES ASSUME Built, NEW b \in DOMAIN table
               PROVE  Len(table[b].entries) > 1 => table[b].len <= BlockSize
    BY DEF BlocksFit
  <2>1. CASE table = <<>>
    BY <2>1
  <2>2. CASE table # <<>>
    <3>1. DOMAIN table = 1..Len(table)
      BY <2>2, LenProperties DEF Built, IsTable
    <3> QED
      BY <2>2, <3>1 DEF Built, BlockFits
  <2> QED
    BY <2>1, <2>2
<1> QED
  BY <1>1, BuiltAlways, PTL

(* A filter says "may be there" of every hash it was built from, if its      *)
(* number of bits is a u32.                                                  *)
LEMMA BuiltMayContain ==
  ASSUME NEW hs, NEW n \in Nat, n = Len(hs), NEW bpk \in Nat,
         NEW f, f = BuildFilter(hs, bpk), f.nbits < WordSize,
         NEW i \in DOMAIN hs
  PROVE  MayContain(f, hs[i])
<1>1. PICK k, nbits : k = NumProbes(bpk) /\ nbits = NumBits(n, bpk)
  OBVIOUS
<1>2. /\ f.k = k /\ f.nbits = nbits
      /\ f.bits = UNION {{Hash(hs[j], p) % nbits : p \in 0..(k - 1)} : j \in DOMAIN hs}
  BY <1>1 DEF BuildFilter
<1>3. nbits \in Nat
  <2>1. PICK m \in Nat : m = n * bpk
    OBVIOUS
  <2>2. PICK bits \in Nat : bits = IF m > MinBits THEN m ELSE MinBits
    BY WordAssumption
  <2>3. nbits = 8 * ((bits + 7) \div 8)
    BY <1>1, <2>1, <2>2, Zenon DEF NumBits
  <2> QED
    BY <2>3
<1>4. nbits % WordSize = nbits
  <2>1. WordSize \in Nat /\ nbits < WordSize
    BY <1>2, WordAssumption
  <2> QED
    BY <1>3, <2>1
<1>5. ASSUME NEW p \in 0..(k - 1) PROVE Hash(hs[i], p) % (f.nbits % WordSize) \in f.bits
  <2>1. Hash(hs[i], p) % nbits \in {Hash(hs[i], q) % nbits : q \in 0..(k - 1)}
    OBVIOUS
  <2>2. PICK x, S : x = Hash(hs[i], p) % nbits /\ S = {Hash(hs[i], q) % nbits : q \in 0..(k - 1)}
    OBVIOUS
  <2>3. S \in {{Hash(hs[j], q) % nbits : q \in 0..(k - 1)} : j \in DOMAIN hs}
    BY <2>2
  <2>4. x \in f.bits
    BY <1>2, <2>1, <2>2, <2>3, Zenon
  <2> QED
    BY <1>2, <1>4, <2>2, <2>4, Zenon
<1> QED
  BY <1>2, <1>5, Zenon DEF MayContain

(* The filter of a table denies no key of the table, whatever the hash       *)
(* function and the number of bits for a key, as long as the number of bits  *)
(* fits in the u32 may_contain casts it to.                                  *)
THEOREM FilterNeverDenies == Spec => [](filter.nbits < WordSize => NoFalseNegative)
<1>1. Built => (filter.nbits < WordSize => NoFalseNegative)
  <2> SUFFICES ASSUME Built, filter.nbits < WordSize, table # <<>>, NEW k \in KeysAdded,
                      DoesNotHave(filter, KeyHash(k))
               PROVE  FALSE
    BY DEF NoFalseNegative
  <2>1. FilterOf(added) /\ added \in Seq(Additions)
    BY DEF Built
  <2>2. PICK hs : /\ Len(hs) = Len(added) /\ DOMAIN hs = 1..Len(added)
                  /\ \A i \in 1..Len(added) : hs[i] = KeyHash(added[i].key)
                  /\ filter = IF BloomEnabled THEN BuildFilter(hs, BitsPerKey) ELSE NoFilter
    BY <2>1 DEF FilterOf
  <2>3. filter # NoFilter /\ ~MayContain(filter, KeyHash(k))
    BY DEF DoesNotHave
  <2>4. filter = BuildFilter(hs, BitsPerKey)
    <3>1. CASE BloomEnabled
      BY <2>2, <3>1, Zenon
    <3>2. CASE ~BloomEnabled
      BY <2>2, <2>3, <3>2, Zenon
    <3> QED
      BY <3>1, <3>2
  <2>5. DOMAIN added = 1..Len(added) /\ Len(added) \in Nat
    BY <2>1, LenProperties
  <2>6. PICK i \in 1..Len(added) : k = added[i].key
    BY <2>5 DEF KeysAdded
  <2>7. hs[i] = KeyHash(k) /\ i \in DOMAIN hs
    BY <2>2, <2>6
  <2>8. MayContain(filter, hs[i])
    BY <2>2, <2>4, <2>5, <2>7, SizesAssumption, BuiltMayContain
  <2> QED
    BY <2>3, <2>7, <2>8
<1> QED
  BY <1>1, BuiltAlways, PTL

-----------------------------------------------------------------------------
(* The iterator, whatever fails.                                             *)

Held ==
  /\ panicked \in BOOLEAN
  /\ table = <<>> => it = NewIterator /\ call = [op |-> "new", key |-> NoKey]
  /\ table # <<>> => Loose(it, table, added)

LEMMA LayoutOf ==
  ASSUME Built, table # <<>>
  PROVE  /\ \E start : Layout(table, added, start)
         /\ Ordered(added) /\ added \in Seq(Additions) /\ KeysAdded = KeysOf(added)
<1>1. IsTable(table, added) /\ Ordered(added) /\ added \in Seq(Additions)
  BY DEF Built
<1>2. \E start : Layout(table, added, start)
  BY <1>1 DEF IsTable, Layout
<1>3. DOMAIN added = 1..Len(added)
  BY <1>1, LenProperties
<1> QED
  BY <1>1, <1>2, <1>3 DEF KeysAdded, KeysOf

(* An operation on the iterator of a finished table makes new of it.         *)
Calls(op, k, new) ==
  /\ table # <<>> /\ Moves /\ it' = new /\ call' = [op |-> op, key |-> k]
  /\ panicked' \in BOOLEAN

LEMMA DoCalls ==
  ASSUME NEW op, NEW k, NEW new, Do(op, k, new), panicked \in BOOLEAN
  PROVE  Calls(op, k, new)
BY DEF Do, Calls, Moves

(* The steps of the iterator, and what they may read.                        *)
LEMMA NextCalls ==
  ASSUME Next, panicked \in BOOLEAN
  PROVE  \/ \E k \in Universe : \E v \in Values[k] : DoAdd(k, v)
         \/ DoFinish
         \/ \E bad : Calls("seek_to_first", NoKey, SeekToFirst(table, it, bad))
         \/ \E bad : Calls("seek_to_last", NoKey, SeekToLast(table, it, bad))
         \/ it.err # "Error" /\ \E bad : Calls("next", NoKey, NextInner(table, it, bad))
         \/ it.err # "Error" /\ \E bad : Calls("prev", NoKey, PrevInner(table, it, bad))
         \/ \E k \in Wanted : \E bad : Calls("seek", k, SeekInner(table, it, k, bad))
         \/ \E k \in Wanted : \E bad \in BadBlocks("seek_for_prev") :
               \/ ~SeekForPrevPanics(table, it, k, bad)
                  /\ Calls("seek_for_prev", k, SeekForPrev(table, it, k, bad))
               \/ SeekForPrevPanics(table, it, k, bad)
                  /\ Calls("seek_for_prev", k, SeekInner(table, it, k, bad))
<1>1. CASE DoSeekToFirst
  BY <1>1, DoCalls DEF DoSeekToFirst
<1>2. CASE DoSeekToLast
  BY <1>2, DoCalls DEF DoSeekToLast
<1>3. CASE DoNext
  BY <1>3, DoCalls DEF DoNext
<1>4. CASE DoPrev
  BY <1>4, DoCalls DEF DoPrev
<1>5. ASSUME NEW k \in Wanted, DoSeek(k)
      PROVE  \E bad : Calls("seek", k, SeekInner(table, it, k, bad))
  BY <1>5, DoCalls DEF DoSeek
<1>6. ASSUME NEW k \in Wanted, DoSeekForPrev(k)
      PROVE  \E bad \in BadBlocks("seek_for_prev") :
               \/ ~SeekForPrevPanics(table, it, k, bad)
                  /\ Calls("seek_for_prev", k, SeekForPrev(table, it, k, bad))
               \/ SeekForPrevPanics(table, it, k, bad)
                  /\ Calls("seek_for_prev", k, SeekInner(table, it, k, bad))
  <2>1. PICK bad \in BadBlocks("seek_for_prev") :
            IF SeekForPrevPanics(table, it, k, bad)
            THEN /\ ~panicked
                 /\ panicked' = TRUE
                 /\ call' = [op |-> "seek_for_prev", key |-> k]
                 /\ it' = SeekInner(table, it, k, bad)
                 /\ UNCHANGED <<added, builder, table, filter>>
            ELSE Do("seek_for_prev", k, SeekForPrev(table, it, k, bad))
    BY <1>6 DEF DoSeekForPrev
  <2>2. table # <<>>
    BY <1>6 DEF DoSeekForPrev
  <2>3. CASE SeekForPrevPanics(table, it, k, bad)
    <3>1. Calls("seek_for_prev", k, SeekInner(table, it, k, bad))
      BY <2>1, <2>2, <2>3 DEF Calls, Moves
    <3> QED
      BY <2>3, <3>1
  <2>4. CASE ~SeekForPrevPanics(table, it, k, bad)
    <3>1. Calls("seek_for_prev", k, SeekForPrev(table, it, k, bad))
      BY <2>1, <2>4, DoCalls
    <3> QED
      BY <2>4, <3>1
  <2> QED
    BY <2>3, <2>4
<1> QED
  BY <1>1, <1>2, <1>3, <1>4, <1>5, <1>6 DEF Next

(* No operation, with whichever blocks failing, leaves the iterator in a     *)
(* state the others cannot go on from.                                       *)
THEOREM HeldAlways == Spec => []Held
<1>1. Init => Held
  BY DEF Init, Held
<1>2. Built /\ Built' /\ Held /\ [Next]_vars => Held'
  <2> SUFFICES ASSUME Built, Built', Held, [Next]_vars PROVE Held'
    OBVIOUS
  <2>0. panicked \in BOOLEAN
    BY DEF Held
  <2>1. CASE UNCHANGED vars
    BY <2>1 DEF vars, Held
  <2>2. ASSUME NEW k \in Universe, NEW v \in Values[k], DoAdd(k, v) PROVE Held'
    BY <2>2 DEF DoAdd, Held
  <2>3. CASE DoFinish
    <3>1. table = <<>> /\ it' = it /\ call' = call /\ panicked' = panicked
      BY <2>3 DEF DoFinish
    <3>2. it' = NewIterator
      BY <3>1 DEF Held
    <3>3. table' # <<>>
      BY <2>3, BuiltByFinish
    <3>4. \E start : Layout(table', added', start)
      <4>1. IsTable(table', added')
        BY <3>3 DEF Built
      <4> QED
        BY <4>1 DEF IsTable, Layout
    <3>5. Loose(it', table', added')
      BY <3>2, <3>4, NewIsLoose
    <3> QED
      BY <2>0, <3>1, <3>3, <3>5 DEF Held
  <2>4. ASSUME NEW op, NEW k, NEW new, Calls(op, k, new), Loose(new, table, added) PROVE Held'
    <3>1. table' # <<>> /\ Loose(it', table', added') /\ panicked' \in BOOLEAN
      BY <2>4 DEF Calls, Moves
    <3> QED
      BY <3>1 DEF Held
  <2>5. ASSUME table # <<>>, NEW bad
        PROVE  /\ Loose(SeekToFirst(table, it, bad), table, added)
               /\ Loose(SeekToLast(table, it, bad), table, added)
               /\ Loose(NextInner(table, it, bad), table, added)
               /\ Loose(PrevInner(table, it, bad), table, added)
               /\ \A k \in Wanted : /\ Loose(SeekInner(table, it, k, bad), table, added)
                                    /\ Loose(SeekForPrev(table, it, k, bad), table, added)
    <3>1. PICK start : Layout(table, added, start)
      BY <2>5, LayoutOf
    <3>2. Ordered(added) /\ Loose(it, table, added)
      BY <2>5, LayoutOf DEF Held
    <3>3. \A k \in Wanted : k \in Keys
      BY KeysAssumption
    <3>4. Loose(SeekToFirst(table, it, bad), table, added) /\ Loose(SeekToLast(table, it, bad), table, added)
      BY <3>1, <3>2, SeekToEnds
    <3>5. Loose(NextInner(table, it, bad), table, added) /\ Loose(PrevInner(table, it, bad), table, added)
      BY <3>1, <3>2, NextLoose, PrevLoose
    <3>6. ASSUME NEW k \in Wanted
          PROVE  /\ Loose(SeekInner(table, it, k, bad), table, added)
                 /\ Loose(SeekForPrev(table, it, k, bad), table, added)
      BY <3>1, <3>2, <3>3, SeekForPrevLoose
    <3> QED
      BY <3>4, <3>5, <3>6
  <2>6. \A op, k, new : Calls(op, k, new) => table # <<>>
    BY DEF Calls
  <2>7. CASE Next
    BY <2>0, <2>2, <2>3, <2>4, <2>5, <2>6, <2>7, NextCalls
  <2> QED
    BY <2>1, <2>7
<1> QED
  BY <1>1, <1>2, BuiltAlways, PTL DEF Spec

(* bpos and idx never wrap around further than the usize::MAX that marks     *)
(* "before the first", and every key the iterator shows is one that was      *)
(* added, whichever blocks could not be read.                                *)
THEOREM TypeCorrect == Spec => []TypeOK
<1>1. Built /\ Held => TypeOK
  <2> SUFFICES ASSUME Built, Held PROVE TypeOK
    OBVIOUS
  <2>0. panicked \in BOOLEAN
    BY DEF Held
  <2>1. NoBlock.blk = UsizeMax /\ NoBlock.idx = 0 /\ NoBlock.key = NoKey /\ NoBlock.err = "none"
    BY DEF NoBlock
  <2>2. CASE table = <<>>
    <3>1. it.bpos = 0 /\ it.bi = NoBlock /\ it.err = "none"
      BY <2>2 DEF Held, NewIterator
    <3>2. NumBlocks(table) = 0
      BY <2>2 DEF NumBlocks
    <3>3. 0 \in UsizeMax..0 /\ UsizeMax \in UsizeMax..(0 - 1)
      BY DEF UsizeMax
    <3> QED
      BY <2>0, <2>1, <3>1, <3>2, <3>3 DEF TypeOK, Errs
  <2>3. CASE table # <<>>
    <3>1. Loose(it, table, added)
      BY <2>3 DEF Held
    <3>2. NumBlocks(table) \in Nat \ {0} /\ KeysAdded = KeysOf(added)
      BY <2>3, LayoutOf, Blocks
    <3>3. it.bpos \in UsizeMax..NumBlocks(table) /\ it.err \in Errs
      BY <3>1 DEF Loose, Errs
    <3>4. CASE it.bi = NoBlock
      <4>1. UsizeMax \in UsizeMax..(NumBlocks(table) - 1)
        BY <3>2 DEF UsizeMax
      <4> QED
        BY <2>0, <2>1, <3>3, <3>4, <4>1 DEF TypeOK, Errs
    <3>5. CASE it.bi # NoBlock
      <4>1. Tracked(it.bi, table, added) /\ it.bi.idx \in Nat \cup {UsizeMax}
        BY <3>1, <3>5 DEF Loose
      <4>2. it.bi.key \in KeysOf(added) \cup {NoKey} /\ it.bi.err \in {"none", "EOF"}
        BY <4>1 DEF Tracked, Tracks, BlockIters
      <4>3. it.bi.blk \in UsizeMax..(NumBlocks(table) - 1)
        BY <3>2, <4>1 DEF Tracked, UsizeMax
      <4> QED
        BY <2>0, <3>2, <3>3, <4>1, <4>2, <4>3 DEF TypeOK, Errs
    <3> QED
      BY <3>4, <3>5
  <2> QED
    BY <2>2, <2>3
<1> QED
  BY <1>1, BuiltAlways, HeldAlways, PTL

-----------------------------------------------------------------------------
(* Where the iterator stands, if seek_for_prev can read the blocks it needs. *)

(* Not positioned yet, failed, at either end, or on an entry.                *)
Stands(i, t, es, start) ==
  \/ i = NewIterator \/ i.err = "Error"
  \/ AtEnd(i, t, es) \/ AtBegin(i)
  \/ \E p : AtPos(i, t, es, start, p)

Sure ==
  /\ ~panicked
  /\ table # <<>> => \A start : Layout(table, added, start) => Stands(it, table, added, start)

(* The steps of the iterator again, if seek_for_prev does not fail.          *)
LEMMA NextReads ==
  ASSUME "seek_for_prev" \notin Faults, Next, Built, Held, ~panicked
  PROVE  \/ \E k \in Universe : \E v \in Values[k] : DoAdd(k, v)
         \/ DoFinish
         \/ /\ ~panicked'
            /\ \/ \E bad : Calls("seek_to_first", NoKey, SeekToFirst(table, it, bad))
               \/ \E bad : Calls("seek_to_last", NoKey, SeekToLast(table, it, bad))
               \/ it.err # "Error" /\ \E bad : Calls("next", NoKey, NextInner(table, it, bad))
               \/ it.err # "Error" /\ \E bad : Calls("prev", NoKey, PrevInner(table, it, bad))
               \/ \E k \in Wanted : \E bad : Calls("seek", k, SeekInner(table, it, k, bad))
               \/ \E k \in Wanted : Calls("seek_for_prev", k, SeekForPrev(table, it, k, {}))
<1>0. panicked \in BOOLEAN
  BY DEF Held
<1>1. ASSUME NEW op, NEW k, NEW new, Do(op, k, new) PROVE Calls(op, k, new) /\ ~panicked'
  BY <1>0, <1>1, DoCalls DEF Do
<1>2. CASE DoSeekToFirst
  BY <1>1, <1>2 DEF DoSeekToFirst
<1>3. CASE DoSeekToLast
  BY <1>1, <1>3 DEF DoSeekToLast
<1>4. CASE DoNext
  BY <1>1, <1>4 DEF DoNext
<1>5. CASE DoPrev
  BY <1>1, <1>5 DEF DoPrev
<1>6. ASSUME NEW k \in Wanted, DoSeek(k)
      PROVE  ~panicked' /\ \E bad : Calls("seek", k, SeekInner(table, it, k, bad))
  BY <1>1, <1>6 DEF DoSeek
<1>7. ASSUME NEW k \in Wanted, DoSeekForPrev(k)
      PROVE  ~panicked' /\ Calls("seek_for_prev", k, SeekForPrev(table, it, k, {}))
  <2>1. BadBlocks("seek_for_prev") = {{}}
    BY DEF BadBlocks
  <2>2. table # <<>>
    BY <1>7 DEF DoSeekForPrev
  <2>3. k \in Keys
    BY KeysAssumption
  <2>4. PICK start : Layout(table, added, start)
    BY <2>2, LayoutOf
  <2>5. Ordered(added) /\ Loose(it, table, added)
    BY <2>2 DEF Built, Held
  <2>6. ~SeekForPrevPanics(table, it, k, {})
    BY <2>3, <2>4, <2>5, SeekForPrevLeads
  <2>7. Do("seek_for_prev", k, SeekForPrev(table, it, k, {}))
    BY <1>7, <2>1, <2>6 DEF DoSeekForPrev
  <2> QED
    BY <1>1, <2>7
<1> QED
  BY <1>2, <1>3, <1>4, <1>5, <1>6, <1>7 DEF Next

(* Every operation leads to such a place.                                    *)
LEMMA StandsOnwards ==
  ASSUME Built, Held, table # <<>>, NEW start, Layout(table, added, start), Stands(it, table, added, start),
         NEW bad
  PROVE  /\ Stands(SeekToFirst(table, it, bad), table, added, start)
         /\ Stands(SeekToLast(table, it, bad), table, added, start)
         /\ it.err # "Error" => /\ Stands(NextInner(table, it, bad), table, added, start)
                                /\ Stands(PrevInner(table, it, bad), table, added, start)
         /\ \A k \in Wanted : /\ Stands(SeekInner(table, it, k, bad), table, added, start)
                              /\ Stands(SeekForPrev(table, it, k, {}), table, added, start)
<1>1. Ordered(added) /\ Loose(it, table, added)
  BY DEF Built, Held
<1>2. Stands(SeekToFirst(table, it, bad), table, added, start) /\ Stands(SeekToLast(table, it, bad), table, added, start)
  BY <1>1, SeekToEnds DEF Stands
<1>3. ASSUME it.err # "Error" PROVE Stands(NextInner(table, it, bad), table, added, start)
  <2>1. CASE \E p : AtPos(it, table, added, start, p)
    BY <1>1, <2>1, NextFromEntry DEF Stands
  <2>2. CASE it = NewIterator \/ AtEnd(it, table, added) \/ AtBegin(it)
    BY <1>1, <2>2, NextFromEnds DEF Stands
  <2> QED
    BY <1>3, <2>1, <2>2 DEF Stands
<1>4. ASSUME it.err # "Error" PROVE Stands(PrevInner(table, it, bad), table, added, start)
  <2>1. CASE \E p : AtPos(it, table, added, start, p)
    BY <1>1, <2>1, PrevFromEntry DEF Stands
  <2>2. CASE it = NewIterator \/ AtEnd(it, table, added) \/ AtBegin(it)
    BY <1>1, <2>2, PrevFromEnds DEF Stands
  <2> QED
    BY <1>4, <2>1, <2>2 DEF Stands
<1>5. ASSUME NEW k \in Wanted
      PROVE  /\ Stands(SeekInner(table, it, k, bad), table, added, start)
             /\ Stands(SeekForPrev(table, it, k, {}), table, added, start)
  <2>1. k \in Keys
    BY KeysAssumption
  <2>2. SeekLeads(SeekInner(table, it, k, bad), table, added, start, k, bad)
    BY <1>1, <2>1, SeekInnerLeads
  <2>3. Stands(SeekInner(table, it, k, bad), table, added, start)
    BY <2>2 DEF SeekLeads, Stands, AtEnd
  <2>4. Stands(SeekForPrev(table, it, k, {}), table, added, start)
    BY <1>1, <2>1, SeekForPrevLeads DEF Stands
  <2> QED
    BY <2>3, <2>4
<1> QED
  BY <1>2, <1>3, <1>4, <1>5

(* After any sequence of calls the iterator stands on an entry, at an end or *)
(* on an error, and key() never panics, if seek_for_prev reads its blocks.   *)
THEOREM SureAlways ==
  ASSUME "seek_for_prev" \notin Faults
  PROVE  Spec => []Sure
<1>1. Init => Sure
  BY DEF Init, Sure
<1>2. Built /\ Held /\ Sure /\ [Next]_vars => Sure'
  <2> SUFFICES ASSUME Built, Held, Sure, [Next]_vars PROVE Sure'
    OBVIOUS
  <2>1. CASE UNCHANGED vars
    BY <2>1 DEF vars, Sure
  <2>2. ASSUME NEW k \in Universe, NEW v \in Values[k], DoAdd(k, v) PROVE Sure'
    BY <2>2 DEF DoAdd, Sure
  <2>3. CASE DoFinish
    <3>1. table = <<>> /\ it' = it /\ ~panicked'
      BY <2>3 DEF DoFinish, Sure
    <3>2. it' = NewIterator
      BY <3>1 DEF Held
    <3> QED
      BY <3>1, <3>2 DEF Sure, Stands
  <2>4. ASSUME NEW op, NEW k, NEW new, Calls(op, k, new), ~panicked',
               \A start : Layout(table, added, start) => Stands(new, table, added, start)
        PROVE  Sure'
    <3>1. ~panicked' /\ table' = table /\ added' = added /\ it' = new
      BY <2>4 DEF Calls, Moves
    <3> QED
      BY <2>4, <3>1 DEF Sure
  <2>5. ASSUME table # <<>>, NEW start, Layout(table, added, start) PROVE Stands(it, table, added, start)
    BY <2>5 DEF Sure
  <2>6. \A op, k, new : Calls(op, k, new) => table # <<>>
    BY DEF Calls
  <2>7. CASE Next
    <3>0. ~panicked
      BY DEF Sure
    <3>1. ASSUME NEW bad, Calls("seek_to_first", NoKey, SeekToFirst(table, it, bad)), ~panicked' PROVE Sure'
      BY <2>4, <2>5, <2>6, <3>1, StandsOnwards
    <3>2. ASSUME NEW bad, Calls("seek_to_last", NoKey, SeekToLast(table, it, bad)), ~panicked' PROVE Sure'
      BY <2>4, <2>5, <2>6, <3>2, StandsOnwards
    <3>3. ASSUME NEW bad, it.err # "Error", Calls("next", NoKey, NextInner(table, it, bad)), ~panicked'
          PROVE  Sure'
      BY <2>4, <2>5, <2>6, <3>3, StandsOnwards
    <3>4. ASSUME NEW bad, it.err # "Error", Calls("prev", NoKey, PrevInner(table, it, bad)), ~panicked'
          PROVE  Sure'
      BY <2>4, <2>5, <2>6, <3>4, StandsOnwards
    <3>5. ASSUME NEW k \in Wanted, NEW bad, Calls("seek", k, SeekInner(table, it, k, bad)), ~panicked'
          PROVE  Sure'
      BY <2>4, <2>5, <2>6, <3>5, StandsOnwards
    <3>6. ASSUME NEW k \in Wanted, Calls("seek_for_prev", k, SeekForPrev(table, it, k, {})), ~panicked'
          PROVE  Sure'
      BY <2>4, <2>5, <2>6, <3>6, StandsOnwards
    <3> QED
      BY <2>2, <2>3, <2>7, <3>0, <3>1, <3>2, <3>3, <3>4, <3>5, <3>6, NextReads
  <2> QED
    BY <2>1, <2>7
<1> QED
  BY <1>1, <1>2, BuiltAlways, HeldAlways, PTL DEF Spec

-----------------------------------------------------------------------------
(* What it shows.                                                            *)

(* The entries before a block are counted from the start of the table.       *)
LEMMA EntriesCounted ==
  ASSUME NEW start, Layout(table, added, start), NEW b \in 0..NumBlocks(table)
  PROVE  EntriesBefore(b) = start[b]
<1>1. PICK n \in Nat : n = NumBlocks(table)
  BY Blocks
<1>2. PICK S : S = 0..NumBlocks(table)
  OBVIOUS
<1> DEFINE Counts(g) == g = [m \in 0..NumBlocks(table) |->
                              IF m = 0 THEN 0 ELSE g[m - 1] + NumEntries(table, m - 1)]
           sum == CHOOSE g : Counts(g)
<1>3. EntriesBefore(b) = sum[b]
  BY Zenon DEF EntriesBefore, sum, Counts
<1>4. /\ start \in [0..n -> Nat] /\ start[0] = 0
      /\ \A m \in 1..n : start[m] = start[m - 1] + NumEntries(table, m - 1)
  BY <1>1 DEF Layout, Starts, NumBlocks, NumEntries
<1>5. Counts(start)
  <2>1. ASSUME NEW m \in 0..n
        PROVE  start[m] = IF m = 0 THEN 0 ELSE start[m - 1] + NumEntries(table, m - 1)
    BY <1>4
  <2>2. start = [m \in 0..n |-> start[m]]
    BY <1>4
  <2> QED
    BY <1>1, <2>1, <2>2 DEF Counts
<1>6. Counts(sum)
  BY <1>5, Zenon DEF sum
<1> HIDE DEF sum
<1>7. \A m \in 0..n : sum[m] = IF m = 0 THEN 0 ELSE sum[m - 1] + NumEntries(table, m - 1)
  BY <1>1, <1>6 DEF Counts
<1> DEFINE Bad == {m \in 0..n : sum[m] # start[m]}
<1>8. ASSUME Bad # {} PROVE FALSE
  <2>0. Bad \in SUBSET Nat
    OBVIOUS
  <2>1. PICK m \in Bad : \A k \in Bad : m <= k
    BY <1>8, <2>0, NatMin
  <2>2. m \in 0..n /\ sum[m] # start[m]
    OBVIOUS
  <2>3. m # 0
    BY <1>4, <1>7, <2>2
  <2>4. m - 1 \in 0..n /\ m - 1 \notin Bad /\ m \in 1..n
    BY <2>1, <2>2, <2>3
  <2>5. sum[m - 1] = start[m - 1]
    BY <2>4
  <2> QED
    BY <1>4, <1>7, <2>2, <2>3, <2>4, <2>5
<1> QED
  BY <1>1, <1>3, <1>8

(* A valid iterator shows the key and the value that were added at its       *)
(* place, for every table, after every sequence of calls.                    *)
THEOREM ShowsWhatWasAdded ==
  ASSUME "seek_for_prev" \notin Faults
  PROVE  Spec => []ReadsWhatWasAdded
<1>1. Built /\ Held /\ Sure => ReadsWhatWasAdded
  <2> SUFFICES ASSUME Built, Held, Sure, it.err = "none", it.bi # NoBlock
               PROVE  /\ it.bi.blk = it.bpos /\ it.bi.hasData /\ it.bi.err = "none"
                      /\ it.bi.idx < NumEntries(table, it.bpos)
                      /\ it.bi.key = added[EntriesBefore(it.bpos) + it.bi.idx + 1].key
                      /\ added[EntriesBefore(it.bpos) + it.bi.idx + 1].value.expiresAt = 0 =>
                           /\ ~DecodePanics(it.bi.val)
                           /\ Decode(it.bi.val) = added[EntriesBefore(it.bpos) + it.bi.idx + 1].value
    BY Zenon DEF ReadsWhatWasAdded
  <2>1. it # NewIterator
    BY DEF NewIterator
  <2>2. table # <<>>
    BY <2>1 DEF Held
  <2>3. PICK start : Layout(table, added, start)
    BY <2>2, LayoutOf
  <2>4. PICK p : AtPos(it, table, added, start, p)
    BY <2>1, <2>2, <2>3 DEF Sure, Stands, AtEnd, AtLast, AtBegin
  <2>5. PICK i : OnEntry(it.bi, table, added, start, it.bpos, i, p)
    BY <2>4 DEF AtPos
  <2>6. /\ it.bi.blk = it.bpos /\ it.bi.hasData = TRUE /\ it.bi.err = "none" /\ it.bi.idx = i
        /\ it.bi.key = added[p].key /\ it.bi.val = Encode(added[p].value)
        /\ it.bpos \in 0..(NumBlocks(table) - 1) /\ i \in 0..(NumEntries(table, it.bpos) - 1)
        /\ p = start[it.bpos] + i + 1 /\ p \in 1..Len(added)
    BY <2>5 DEF OnEntry, Holding
  <2>7. NumBlocks(table) \in Nat /\ NumEntries(table, it.bpos) \in Nat
    BY <2>3, <2>6, Blocks, LayoutBlock
  <2>8. p = EntriesBefore(it.bpos) + it.bi.idx + 1
    <3>1. it.bpos \in 0..NumBlocks(table)
      BY <2>6, <2>7
    <3> QED
      BY <2>3, <2>6, <3>1, EntriesCounted
  <2>9. it.bi.idx < NumEntries(table, it.bpos)
    BY <2>6, <2>7
  <2>10. added[p].value \in ValueFields
    <3>1. added[p] \in Additions
      BY <2>6, ElementOfSeq DEF Built
    <3> QED
      BY <3>1 DEF Additions
  <2>11. added[p].value.expiresAt = 0 => ~DecodePanics(it.bi.val) /\ Decode(it.bi.val) = added[p].value
    BY <2>6, <2>10, Encoded
  <2> QED
    BY <2>6, <2>8, <2>9, <2>11, Zenon
<1> QED
  BY <1>1, BuiltAlways, HeldAlways, SureAlways, PTL

-----------------------------------------------------------------------------
(* The iterator implements the cursor that SortedCursor describes.           *)

(* Where iterator i stands, as its callers see it.                           *)
PlaceOf(i) ==
  IF i.err = "Error" THEN Cursor!Failed
  ELSE IF i.err = "EOF" THEN IF i.bpos = UsizeMax THEN Cursor!Bof ELSE Cursor!Eof
  ELSE IF i.bi = NoBlock THEN Cursor!Unset
  ELSE Cursor!At(i.bi.key)

LEMMA PlaceIs == Place = PlaceOf(it)
BY DEF Place, PlaceOf, Cursor!Unset, Cursor!Failed, Cursor!At, Cursor!Bof, Cursor!Eof

LEMMA PlacesAre ==
  ASSUME NEW t, NEW es, NEW start, Layout(t, es, start), NEW i
  PROVE  /\ i = NewIterator => PlaceOf(i) = Cursor!Unset
         /\ i.err = "Error" => PlaceOf(i) = Cursor!Failed
         /\ AtEnd(i, t, es) => PlaceOf(i) = Cursor!Eof
         /\ AtBegin(i) => PlaceOf(i) = Cursor!Bof
         /\ \A p : AtPos(i, t, es, start, p) => p \in 1..Len(es) /\ PlaceOf(i) = Cursor!At(es[p].key)
<1>1. i = NewIterator => PlaceOf(i) = Cursor!Unset
  <2>1. NewIterator.err = "none" /\ NewIterator.bi = NoBlock
    BY DEF NewIterator
  <2> QED
    BY <2>1 DEF PlaceOf
<1>2. ASSUME AtEnd(i, t, es) PROVE PlaceOf(i) = Cursor!Eof
  <2>1. NumBlocks(t) \in Nat \ {0}
    BY Blocks
  <2>2. i.err = "EOF" /\ (i.bpos = NumBlocks(t) \/ i.bpos = NumBlocks(t) - 1)
    BY <1>2 DEF AtEnd, AtLast
  <2>3. i.bpos # UsizeMax
    BY <2>1, <2>2 DEF UsizeMax
  <2> QED
    BY <2>2, <2>3 DEF PlaceOf
<1>3. ASSUME NEW p, AtPos(i, t, es, start, p) PROVE p \in 1..Len(es) /\ PlaceOf(i) = Cursor!At(es[p].key)
  <2>1. PICK e : OnEntry(i.bi, t, es, start, i.bpos, e, p)
    BY <1>3 DEF AtPos
  <2>2. i.bi.hasData = TRUE /\ i.bi.key = es[p].key /\ p \in 1..Len(es)
    BY <2>1 DEF OnEntry, Holding
  <2>3. NoBlock.hasData = FALSE
    BY DEF NoBlock
  <2>4. i.bi # NoBlock /\ i.err = "none"
    BY <1>3, <2>2, <2>3 DEF AtPos
  <2> QED
    BY <2>2, <2>4 DEF PlaceOf
<1> QED
  BY <1>1, <1>2, <1>3 DEF PlaceOf, AtBegin

(* The least and the greatest key of a set of keys.                          *)
LEMMA LowestIs ==
  ASSUME NEW S \in SUBSET Keys
  PROVE  /\ S = {} => Cursor!Lowest(S) = Cursor!Eof /\ Cursor!Highest(S) = Cursor!Bof
         /\ \A k \in S : (\A m \in S : ~KeyLess(m, k)) => Cursor!Lowest(S) = Cursor!At(k)
         /\ \A k \in S : (\A m \in S : ~KeyLess(k, m)) => Cursor!Highest(S) = Cursor!At(k)
<1>0. \A a, b \in S : a = b \/ KeyLess(a, b) \/ KeyLess(b, a)
  BY KeyOrder
<1>1. S = {} => Cursor!Lowest(S) = Cursor!Eof /\ Cursor!Highest(S) = Cursor!Bof
  BY DEF Cursor!Lowest, Cursor!Highest
<1>2. ASSUME NEW k \in S, \A m \in S : ~KeyLess(m, k) PROVE Cursor!Lowest(S) = Cursor!At(k)
  <2>1. (CHOOSE x \in S : \A m \in S : ~KeyLess(m, x)) = k
    BY <1>0, <1>2
  <2> QED
    BY <2>1 DEF Cursor!Lowest, Cursor!At
<1>3. ASSUME NEW k \in S, \A m \in S : ~KeyLess(k, m) PROVE Cursor!Highest(S) = Cursor!At(k)
  <2>1. (CHOOSE x \in S : \A m \in S : ~KeyLess(x, m)) = k
    BY <1>0, <1>3
  <2> QED
    BY <2>1 DEF Cursor!Highest, Cursor!At
<1> QED
  BY <1>1, <1>2, <1>3

(* A set of keys of the table that begins, or ends, with es[p].              *)
LEMMA LeastEntry ==
  ASSUME NEW es \in Seq(Additions), Ordered(es), NEW S \in SUBSET KeysOf(es),
         NEW p \in 1..Len(es), es[p].key \in S
  PROVE  /\ (\A j \in 1..Len(es) : es[j].key \in S => p <= j) => Cursor!Lowest(S) = Cursor!At(es[p].key)
         /\ (\A j \in 1..Len(es) : es[j].key \in S => j <= p) => Cursor!Highest(S) = Cursor!At(es[p].key)
<1>1. S \in SUBSET Keys
  BY EntryOrder DEF KeysOf
<1>2. \A m \in S : \E j \in 1..Len(es) : m = es[j].key
  BY DEF KeysOf
<1>3. ASSUME \A j \in 1..Len(es) : es[j].key \in S => p <= j PROVE \A m \in S : ~KeyLess(m, es[p].key)
  BY <1>2, <1>3, EntryOrder
<1>4. ASSUME \A j \in 1..Len(es) : es[j].key \in S => j <= p PROVE \A m \in S : ~KeyLess(es[p].key, m)
  BY <1>2, <1>4, EntryOrder
<1> QED
  BY <1>1, <1>3, <1>4, LowestIs

LEMMA EndGoals ==
  ASSUME NEW es \in Seq(Additions), Ordered(es), Len(es) > 0
  PROVE  /\ Cursor!Lowest(KeysOf(es)) = Cursor!At(es[1].key)
         /\ Cursor!Highest(KeysOf(es)) = Cursor!At(es[Len(es)].key)
<1>1. Len(es) \in Nat /\ 1 \in 1..Len(es) /\ Len(es) \in 1..Len(es)
  BY LenProperties
<1>2. es[1].key \in KeysOf(es) /\ es[Len(es)].key \in KeysOf(es)
  BY <1>1, AdditionKeys
<1>3. KeysOf(es) \in SUBSET KeysOf(es) /\ \A j \in 1..Len(es) : 1 <= j /\ j <= Len(es)
  BY <1>1
<1> QED
  BY <1>1, <1>2, <1>3, LeastEntry

LEMMA NextGoals ==
  ASSUME NEW es \in Seq(Additions), Ordered(es), NEW p \in 1..Len(es),
         NEW S, S = {k \in KeysOf(es) : KeyLess(es[p].key, k)}
  PROVE  Cursor!Lowest(S) = IF p = Len(es) THEN Cursor!Eof ELSE Cursor!At(es[p + 1].key)
<1>1. PICK L \in Nat : L = Len(es)
  BY LenProperties
<1>2. \A j \in 1..L : es[j].key \in S <=> p < j
  BY <1>1, AdditionKeys, EntryOrder
<1>3. CASE p = L
  <2>1. S = {}
    BY <1>1, <1>2, <1>3 DEF KeysOf
  <2> QED
    BY <1>1, <1>3, <2>1, LowestIs
<1>4. CASE p # L
  <2>1. PICK q \in 1..L : q = p + 1 /\ p < q /\ \A j \in 1..L : p < j => q <= j
    BY <1>1, <1>4
  <2>2. es[q].key \in S /\ S \in SUBSET KeysOf(es) /\ \A j \in 1..L : es[j].key \in S => q <= j
    BY <1>2, <2>1
  <2>3. Cursor!Lowest(S) = Cursor!At(es[q].key)
    BY <1>1, <2>2, LeastEntry
  <2> QED
    BY <1>1, <1>4, <2>1, <2>3
<1> QED
  BY <1>3, <1>4

LEMMA PrevGoals ==
  ASSUME NEW es \in Seq(Additions), Ordered(es), NEW p \in 1..Len(es),
         NEW S, S = {k \in KeysOf(es) : KeyLess(k, es[p].key)}
  PROVE  Cursor!Highest(S) = IF p = 1 THEN Cursor!Bof ELSE Cursor!At(es[p - 1].key)
<1>1. PICK L \in Nat : L = Len(es)
  BY LenProperties
<1>2. \A j \in 1..L : es[j].key \in S <=> j < p
  BY <1>1, AdditionKeys, EntryOrder
<1>3. CASE p = 1
  <2>1. S = {}
    BY <1>1, <1>2, <1>3 DEF KeysOf
  <2> QED
    BY <1>1, <1>3, <2>1, LowestIs
<1>4. CASE p # 1
  <2>1. PICK q \in 1..L : q = p - 1 /\ q < p /\ \A j \in 1..L : j < p => j <= q
    BY <1>1, <1>4
  <2>2. es[q].key \in S /\ S \in SUBSET KeysOf(es) /\ \A j \in 1..L : es[j].key \in S => j <= q
    BY <1>2, <2>1
  <2>3. Cursor!Highest(S) = Cursor!At(es[q].key)
    BY <1>1, <2>2, LeastEntry
  <2> QED
    BY <1>1, <1>4, <2>1, <2>3
<1> QED
  BY <1>3, <1>4

LEMMA SeekGoals ==
  ASSUME NEW es \in Seq(Additions), Ordered(es), Len(es) > 0, NEW k \in Keys,
         NEW S, S = {m \in KeysOf(es) : ~KeyLess(m, k)}
  PROVE  /\ \A p : FirstFrom(es, k, p) => Cursor!Lowest(S) = Cursor!At(es[p].key)
         /\ KeyLess(es[Len(es)].key, k) => Cursor!Lowest(S) = Cursor!Eof
<1>1. PICK L \in Nat : L = Len(es) /\ L \in 1..L
  BY LenProperties
<1>2. \A j \in 1..L : es[j].key \in S <=> ~KeyLess(es[j].key, k)
  BY <1>1, AdditionKeys
<1>3. ASSUME NEW p, FirstFrom(es, k, p) PROVE Cursor!Lowest(S) = Cursor!At(es[p].key)
  <2>1. p \in 1..L /\ es[p].key \in S
    BY <1>1, <1>2, <1>3 DEF FirstFrom
  <2>2. ASSUME NEW j \in 1..L, es[j].key \in S, ~(p <= j) PROVE FALSE
    <3>1. PICK q \in 1..L : q = p - 1 /\ j <= q /\ p > 1
      BY <1>1, <2>1, <2>2
    <3>2. KeyLess(es[q].key, k)
      BY <1>3, <3>1 DEF FirstFrom
    <3>3. KeyLess(es[j].key, k)
      BY <1>1, <3>1, <3>2, OrderedUpto
    <3> QED
      BY <1>2, <2>2, <3>3
  <2>3. S \in SUBSET KeysOf(es)
    OBVIOUS
  <2> QED
    BY <1>1, <2>1, <2>2, <2>3, LeastEntry
<1>4. ASSUME KeyLess(es[Len(es)].key, k) PROVE Cursor!Lowest(S) = Cursor!Eof
  <2>1. \A j \in 1..L : KeyLess(es[j].key, k)
    BY <1>1, <1>4, OrderedUpto
  <2>2. S = {}
    BY <1>1, <2>1 DEF KeysOf
  <2> QED
    BY <2>2, LowestIs
<1> QED
  BY <1>3, <1>4

LEMMA SeekForPrevGoals ==
  ASSUME NEW es \in Seq(Additions), Ordered(es), Len(es) > 0, NEW k \in Keys,
         NEW S, S = {m \in KeysOf(es) : ~KeyLess(k, m)}
  PROVE  /\ \A p : LastUpto(es, k, p) => Cursor!Highest(S) = Cursor!At(es[p].key)
         /\ KeyLess(k, es[1].key) => Cursor!Highest(S) = Cursor!Bof
<1>1. PICK L \in Nat : L = Len(es) /\ L \in 1..L /\ 1 \in 1..L
  BY LenProperties
<1>2. \A j \in 1..L : es[j].key \in S <=> ~KeyLess(k, es[j].key)
  BY <1>1, AdditionKeys
<1>3. ASSUME NEW p, LastUpto(es, k, p) PROVE Cursor!Highest(S) = Cursor!At(es[p].key)
  <2>1. p \in 1..L /\ es[p].key \in S
    BY <1>1, <1>2, <1>3 DEF LastUpto
  <2>2. ASSUME NEW j \in 1..L, es[j].key \in S, ~(j <= p) PROVE FALSE
    <3>1. PICK q \in 1..L : q = p + 1 /\ q <= j /\ p < L
      BY <1>1, <2>1, <2>2
    <3>2. KeyLess(k, es[q].key)
      BY <1>1, <1>3, <3>1 DEF LastUpto
    <3>3. KeyLess(k, es[j].key)
      BY <1>1, <3>1, <3>2, OrderedUpto
    <3> QED
      BY <1>2, <2>2, <3>3
  <2>3. S \in SUBSET KeysOf(es)
    OBVIOUS
  <2> QED
    BY <1>1, <2>1, <2>2, <2>3, LeastEntry
<1>4. ASSUME KeyLess(k, es[1].key) PROVE Cursor!Highest(S) = Cursor!Bof
  <2>1. \A j \in 1..L : KeyLess(k, es[j].key)
    BY <1>1, <1>4, OrderedUpto
  <2>2. S = {}
    BY <1>1, <2>1 DEF KeysOf
  <2> QED
    BY <2>2, LowestIs
<1> QED
  BY <1>3, <1>4

(* A call that leads where the cursor may go.                                *)
Leads(op, k, new) == PlaceOf(new) \in Cursor!Goals([op |-> op, key |-> k], Place) \cup {Cursor!Failed}

LEMMA CallSteps ==
  ASSUME NEW op, NEW k, NEW new, Calls(op, k, new), Leads(op, k, new),
         \/ op \in {"seek_to_first", "seek_to_last", "next", "prev"} /\ k = NoKey
         \/ op \in {"seek", "seek_for_prev"} /\ k \in Wanted
  PROVE  Cursor!Next
<1>1. KeysAdded' = KeysAdded
  BY DEF Calls, Moves, KeysAdded
<1>2. Place' = PlaceOf(new)
  BY DEF Calls, Place, PlaceOf, Cursor!Unset, Cursor!Failed, Cursor!At, Cursor!Bof, Cursor!Eof
<1>3. PICK c : c = [op |-> op, key |-> k]
  OBVIOUS
<1>4. call' = c
  BY <1>3 DEF Calls
<1>5. c \in Cursor!Calls
  BY <1>3 DEF Cursor!Calls, Cursor!Call
<1>6. Place' \in Cursor!Goals(c, Place) \cup {Cursor!Failed}
  BY <1>2, <1>3, Zenon DEF Leads
<1>7. Cursor!Step(c)
  BY <1>1, <1>4, <1>6, Zenon DEF Cursor!Step
<1> QED
  BY <1>5, <1>7, Zenon DEF Cursor!Next

(* Where each call of the cursor may lead.                                   *)
LEMMA GoalsAre ==
  ASSUME NEW k
  PROVE  /\ Cursor!Goals([op |-> "seek_to_first", key |-> k], Place) = {Cursor!Lowest(KeysAdded)}
         /\ Cursor!Goals([op |-> "seek_to_last", key |-> k], Place) = {Cursor!Highest(KeysAdded)}
         /\ Cursor!Goals([op |-> "seek", key |-> k], Place) =
               {Cursor!Lowest({m \in KeysAdded : ~KeyLess(m, k)})}
         /\ Cursor!Goals([op |-> "seek_for_prev", key |-> k], Place) =
               {Cursor!Highest({m \in KeysAdded : ~KeyLess(k, m)})}
         /\ Place.state = "at" =>
               /\ Cursor!Goals([op |-> "next", key |-> k], Place) =
                    {Cursor!Lowest({m \in KeysAdded : KeyLess(Place.key, m)})}
               /\ Cursor!Goals([op |-> "prev", key |-> k], Place) =
                    {Cursor!Highest({m \in KeysAdded : KeyLess(m, Place.key)})}
         /\ Place.state = "unset" =>
               /\ Cursor!Goals([op |-> "next", key |-> k], Place) = {Cursor!Lowest(KeysAdded)}
               /\ Cursor!Goals([op |-> "prev", key |-> k], Place) = Cursor!Places
         /\ Place.state = "eof" =>
               /\ Cursor!Goals([op |-> "next", key |-> k], Place) = {Place}
               /\ Cursor!Goals([op |-> "prev", key |-> k], Place) = Cursor!Places
         /\ Place.state = "bof" =>
               /\ Cursor!Goals([op |-> "next", key |-> k], Place) = {Place}
               /\ Cursor!Goals([op |-> "prev", key |-> k], Place) = {Place}
<1>1. /\ Cursor!Goals([op |-> "seek_to_first", key |-> k], Place) = {Cursor!Lowest(KeysAdded)}
      /\ Cursor!Goals([op |-> "seek_to_last", key |-> k], Place) = {Cursor!Highest(KeysAdded)}
  BY DEF Cursor!Goals
<1>2. /\ Cursor!Goals([op |-> "seek", key |-> k], Place) =
            {Cursor!Lowest({m \in KeysAdded : ~KeyLess(m, k)})}
      /\ Cursor!Goals([op |-> "seek_for_prev", key |-> k], Place) =
            {Cursor!Highest({m \in KeysAdded : ~KeyLess(k, m)})}
  BY DEF Cursor!Goals
<1>3. Place.state = "at" =>
         /\ Cursor!Goals([op |-> "next", key |-> k], Place) =
              {Cursor!Lowest({m \in KeysAdded : KeyLess(Place.key, m)})}
         /\ Cursor!Goals([op |-> "prev", key |-> k], Place) =
              {Cursor!Highest({m \in KeysAdded : KeyLess(m, Place.key)})}
  BY DEF Cursor!Goals
<1>4. Place.state = "unset" =>
         /\ Cursor!Goals([op |-> "next", key |-> k], Place) = {Cursor!Lowest(KeysAdded)}
         /\ Cursor!Goals([op |-> "prev", key |-> k], Place) = Cursor!Places
  BY DEF Cursor!Goals
<1>5. Place.state = "eof" =>
         /\ Cursor!Goals([op |-> "next", key |-> k], Place) = {Place}
         /\ Cursor!Goals([op |-> "prev", key |-> k], Place) = Cursor!Places
  BY DEF Cursor!Goals
<1>6. Place.state = "bof" =>
         /\ Cursor!Goals([op |-> "next", key |-> k], Place) = {Place}
         /\ Cursor!Goals([op |-> "prev", key |-> k], Place) = {Place}
  BY DEF Cursor!Goals
<1> QED
  BY <1>1, <1>2, <1>3, <1>4, <1>5, <1>6

(* What the steps below rest on: the table, and where the iterator stands.   *)
Standing(start) == /\ table # <<>> /\ Layout(table, added, start)
                   /\ added \in Seq(Additions) /\ Ordered(added) /\ Len(added) > 0
                   /\ KeysAdded = KeysOf(added)
                   /\ Loose(it, table, added) /\ Stands(it, table, added, start)

LEMMA SomewhereStanding ==
  ASSUME Built, Held, Sure, table # <<>>
  PROVE  \E start : Standing(start)
<1>1. PICK start : Layout(table, added, start)
  BY LayoutOf
<1>2. Len(added) > 0
  BY <1>1, Blocks
<1> QED
  BY <1>1, <1>2, LayoutOf DEF Standing, Sure, Held

LEMMA EndsLead ==
  ASSUME NEW start, Standing(start), NEW bad
  PROVE  /\ Leads("seek_to_first", NoKey, SeekToFirst(table, it, bad))
         /\ Leads("seek_to_last", NoKey, SeekToLast(table, it, bad))
<1>1. PICK f, l : f = SeekToFirst(table, it, bad) /\ l = SeekToLast(table, it, bad)
  OBVIOUS
<1>2. /\ f.err = "Error" \/ AtPos(f, table, added, start, 1)
      /\ l.err = "Error" \/ AtPos(l, table, added, start, Len(added))
  BY <1>1, SeekToEnds DEF Standing
<1>3. /\ PlaceOf(f) = Cursor!Failed \/ PlaceOf(f) = Cursor!At(added[1].key)
      /\ PlaceOf(l) = Cursor!Failed \/ PlaceOf(l) = Cursor!At(added[Len(added)].key)
  BY <1>2, PlacesAre DEF Standing
<1>4. /\ Cursor!Lowest(KeysAdded) = Cursor!At(added[1].key)
      /\ Cursor!Highest(KeysAdded) = Cursor!At(added[Len(added)].key)
  BY EndGoals DEF Standing
<1> QED
  BY <1>1, <1>3, <1>4, GoalsAre DEF Leads

LEMMA SeeksLead ==
  ASSUME NEW start, Standing(start), NEW bad, NEW k \in Wanted
  PROVE  /\ Leads("seek", k, SeekInner(table, it, k, bad))
         /\ Leads("seek_for_prev", k, SeekForPrev(table, it, k, {}))
<1>1. PICK s, r : s = SeekInner(table, it, k, bad) /\ r = SeekForPrev(table, it, k, {})
  OBVIOUS
<1>2. k \in Keys
  BY KeysAssumption
<1>3. PICK S : S = {m \in KeysAdded : ~KeyLess(m, k)}
  OBVIOUS
<1>4. PICK R : R = {m \in KeysAdded : ~KeyLess(k, m)}
  OBVIOUS
<1>5. PlaceOf(s) \in {Cursor!Lowest(S), Cursor!Failed}
  <2>1. SeekLeads(s, table, added, start, k, bad)
    BY <1>1, <1>2, SeekInnerLeads DEF Standing
  <2>2. CASE s.err = "Error"
    BY <2>2, PlacesAre DEF Standing
  <2>3. ASSUME NEW p, FirstFrom(added, k, p), AtPos(s, table, added, start, p)
        PROVE  PlaceOf(s) = Cursor!Lowest(S)
    BY <1>2, <1>3, <2>3, PlacesAre, SeekGoals DEF Standing
  <2>4. CASE AtLast(s, table, added) /\ KeyLess(added[Len(added)].key, k)
    <3>1. PlaceOf(s) = Cursor!Eof
      BY <2>4, PlacesAre DEF Standing, AtEnd
    <3>2. Cursor!Lowest(S) = Cursor!Eof
      BY <1>2, <1>3, <2>4, SeekGoals DEF Standing
    <3> QED
      BY <3>1, <3>2
  <2> QED
    BY <2>1, <2>2, <2>3, <2>4 DEF SeekLeads
<1>6. PlaceOf(r) = Cursor!Highest(R)
  <2>1. \/ \E p : LastUpto(added, k, p) /\ AtPos(r, table, added, start, p)
        \/ AtBegin(r) /\ KeyLess(k, added[1].key)
    BY <1>1, <1>2, SeekForPrevLeads DEF Standing
  <2>2. ASSUME NEW p, LastUpto(added, k, p), AtPos(r, table, added, start, p)
        PROVE  PlaceOf(r) = Cursor!Highest(R)
    BY <1>2, <1>4, <2>2, PlacesAre, SeekForPrevGoals DEF Standing
  <2>3. CASE AtBegin(r) /\ KeyLess(k, added[1].key)
    <3>1. PlaceOf(r) = Cursor!Bof
      BY <2>3, PlacesAre DEF Standing
    <3>2. Cursor!Highest(R) = Cursor!Bof
      BY <1>2, <1>4, <2>3, SeekForPrevGoals DEF Standing
    <3> QED
      BY <3>1, <3>2
  <2> QED
    BY <2>1, <2>2, <2>3
<1>7. /\ Cursor!Goals([op |-> "seek", key |-> k], Place) = {Cursor!Lowest(S)}
      /\ Cursor!Goals([op |-> "seek_for_prev", key |-> k], Place) = {Cursor!Highest(R)}
  BY <1>3, <1>4, GoalsAre
<1> QED
  BY <1>1, <1>5, <1>6, <1>7 DEF Leads

LEMMA NextLeads ==
  ASSUME NEW start, Standing(start), NEW bad, it.err # "Error"
  PROVE  Leads("next", NoKey, NextInner(table, it, bad))
<1>1. PICK r : r = NextInner(table, it, bad)
  OBVIOUS
<1>2. PICK G : G = Cursor!Goals([op |-> "next", key |-> NoKey], Place)
  OBVIOUS
<1>3. SUFFICES PlaceOf(r) \in G \cup {Cursor!Failed}
  BY <1>1, <1>2 DEF Leads
<1>4. r.err = "Error" => PlaceOf(r) = Cursor!Failed
  BY PlacesAre DEF Standing
<1>5. ASSUME NEW p, AtPos(it, table, added, start, p) PROVE PlaceOf(r) \in G \cup {Cursor!Failed}
  <2>1. p \in 1..Len(added) /\ Place = Cursor!At(added[p].key)
    BY <1>5, PlaceIs, PlacesAre DEF Standing
  <2>2. PICK S : S = {m \in KeysAdded : KeyLess(added[p].key, m)}
    OBVIOUS
  <2>3. G = {Cursor!Lowest(S)}
    BY <1>2, <2>1, <2>2, GoalsAre DEF Cursor!At
  <2>4. Cursor!Lowest(S) = IF p = Len(added) THEN Cursor!Eof ELSE Cursor!At(added[p + 1].key)
    BY <2>1, <2>2, NextGoals DEF Standing
  <2>5. \/ r.err = "Error"
        \/ p < Len(added) /\ AtPos(r, table, added, start, p + 1)
        \/ p = Len(added) /\ AtEnd(r, table, added)
    BY <1>1, <1>5, NextFromEntry DEF Standing
  <2>6. CASE p < Len(added) /\ AtPos(r, table, added, start, p + 1)
    <3>1. PlaceOf(r) = Cursor!At(added[p + 1].key)
      BY <2>6, PlacesAre DEF Standing
    <3>2. p # Len(added)
      BY <2>1, <2>6, LenProperties DEF Standing
    <3> QED
      BY <2>3, <2>4, <3>1, <3>2
  <2>7. CASE p = Len(added) /\ AtEnd(r, table, added)
    <3>1. PlaceOf(r) = Cursor!Eof
      BY <2>7, PlacesAre DEF Standing
    <3> QED
      BY <2>3, <2>4, <2>7, <3>1
  <2> QED
    BY <1>4, <2>5, <2>6, <2>7
<1>6. /\ AtEnd(it, table, added) => AtEnd(r, table, added)
      /\ AtBegin(it) => AtBegin(r)
      /\ it = NewIterator => r.err = "Error" \/ AtPos(r, table, added, start, 1)
  BY <1>1, NextFromEnds DEF Standing
<1>7. CASE AtEnd(it, table, added)
  <2>1. Place = Cursor!Eof /\ PlaceOf(r) = Cursor!Eof
    BY <1>6, <1>7, PlaceIs, PlacesAre DEF Standing
  <2>2. G = {Place}
    BY <1>2, <2>1, GoalsAre DEF Cursor!Eof
  <2> QED
    BY <2>1, <2>2
<1>8. CASE AtBegin(it)
  <2>1. Place = Cursor!Bof /\ PlaceOf(r) = Cursor!Bof
    BY <1>6, <1>8, PlaceIs, PlacesAre DEF Standing
  <2>2. G = {Place}
    BY <1>2, <2>1, GoalsAre DEF Cursor!Bof
  <2> QED
    BY <2>1, <2>2
<1>9. CASE it = NewIterator
  <2>1. Place = Cursor!Unset
    BY <1>9, PlaceIs, PlacesAre DEF Standing
  <2>2. G = {Cursor!Lowest(KeysAdded)}
    BY <1>2, <2>1, GoalsAre DEF Cursor!Unset
  <2>3. Cursor!Lowest(KeysAdded) = Cursor!At(added[1].key)
    BY EndGoals DEF Standing
  <2>4. AtPos(r, table, added, start, 1) => PlaceOf(r) = Cursor!At(added[1].key)
    BY PlacesAre DEF Standing
  <2> QED
    BY <1>4, <1>6, <1>9, <2>2, <2>3, <2>4
<1> QED
  BY <1>5, <1>7, <1>8, <1>9 DEF Standing, Stands

LEMMA PrevLeads ==
  ASSUME NEW start, Standing(start), NEW bad, it.err # "Error"
  PROVE  Leads("prev", NoKey, PrevInner(table, it, bad))
<1>1. PICK r : r = PrevInner(table, it, bad)
  OBVIOUS
<1>2. PICK G : G = Cursor!Goals([op |-> "prev", key |-> NoKey], Place)
  OBVIOUS
<1>3. SUFFICES PlaceOf(r) \in G \cup {Cursor!Failed}
  BY <1>1, <1>2 DEF Leads
<1>4. r.err = "Error" => PlaceOf(r) = Cursor!Failed
  BY PlacesAre DEF Standing
<1>5. ASSUME NEW p, AtPos(it, table, added, start, p) PROVE PlaceOf(r) \in G \cup {Cursor!Failed}
  <2>1. p \in 1..Len(added) /\ Place = Cursor!At(added[p].key)
    BY <1>5, PlaceIs, PlacesAre DEF Standing
  <2>2. PICK S : S = {m \in KeysAdded : KeyLess(m, added[p].key)}
    OBVIOUS
  <2>3. G = {Cursor!Highest(S)}
    BY <1>2, <2>1, <2>2, GoalsAre DEF Cursor!At
  <2>4. Cursor!Highest(S) = IF p = 1 THEN Cursor!Bof ELSE Cursor!At(added[p - 1].key)
    BY <2>1, <2>2, PrevGoals DEF Standing
  <2>5. \/ r.err = "Error"
        \/ p > 1 /\ AtPos(r, table, added, start, p - 1)
        \/ p = 1 /\ AtBegin(r)
    BY <1>1, <1>5, PrevFromEntry DEF Standing
  <2>6. CASE p > 1 /\ AtPos(r, table, added, start, p - 1)
    <3>1. PlaceOf(r) = Cursor!At(added[p - 1].key)
      BY <2>6, PlacesAre DEF Standing
    <3>2. p # 1
      BY <2>1, <2>6
    <3> QED
      BY <2>3, <2>4, <3>1, <3>2
  <2>7. CASE p = 1 /\ AtBegin(r)
    <3>1. PlaceOf(r) = Cursor!Bof
      BY <2>7, PlacesAre DEF Standing
    <3> QED
      BY <2>3, <2>4, <2>7, <3>1
  <2> QED
    BY <1>4, <2>5, <2>6, <2>7
<1>6. /\ AtBegin(it) => AtBegin(r)
      /\ AtEnd(it, table, added) \/ it = NewIterator =>
           r.err = "Error" \/ \E p : AtPos(r, table, added, start, p)
  BY <1>1, PrevFromEnds DEF Standing
<1>7. CASE AtEnd(it, table, added) \/ it = NewIterator
  <2>1. Place = Cursor!Eof \/ Place = Cursor!Unset
    BY <1>7, PlaceIs, PlacesAre DEF Standing
  <2>2. G = Cursor!Places
    <3>1. Place.state = "eof" \/ Place.state = "unset"
      BY <2>1 DEF Cursor!Eof, Cursor!Unset
    <3> QED
      BY <1>2, <3>1, GoalsAre, Zenon
  <2>3. ASSUME NEW p, AtPos(r, table, added, start, p) PROVE PlaceOf(r) \in Cursor!Places
    <3>1. p \in 1..Len(added) /\ PlaceOf(r) = Cursor!At(added[p].key)
      BY <2>3, PlacesAre DEF Standing
    <3>2. added[p].key \in KeysAdded
      BY <3>1 DEF Standing, KeysOf
    <3> QED
      BY <3>1, <3>2 DEF Cursor!Places
  <2> QED
    BY <1>4, <1>6, <1>7, <2>2, <2>3
<1>8. CASE AtBegin(it)
  <2>1. Place = Cursor!Bof /\ PlaceOf(r) = Cursor!Bof
    BY <1>6, <1>8, PlaceIs, PlacesAre DEF Standing
  <2>2. G = {Place}
    BY <1>2, <2>1, GoalsAre DEF Cursor!Bof
  <2> QED
    BY <2>1, <2>2
<1> QED
  BY <1>5, <1>7, <1>8 DEF Standing, Stands

(* Every step of the iterator is a step of the cursor, or none.              *)
LEMMA StepMoves ==
  ASSUME "seek_for_prev" \notin Faults, Built, Held, Sure, Next
  PROVE  Cursor!Next \/ UNCHANGED Cursor!vars
<1>1. ASSUME NEW k \in Universe, NEW v \in Values[k], DoAdd(k, v) PROVE Cursor!Next
  <2>1. PICK a : added' = Append(added, a) /\ it' = it /\ call' = call /\ table = <<>>
    BY <1>1 DEF DoAdd
  <2>2. call.op = "new"
    BY <2>1 DEF Held
  <2>3. Place' = Place
    BY <2>1 DEF Place
  <2>4. KeysAdded \subseteq KeysAdded'
    <3>1. DOMAIN added = 1..Len(added) /\ Len(added) \in Nat
      BY LenProperties DEF Built
    <3>2. Len(added') = Len(added) + 1 /\ \A i \in 1..Len(added) : added'[i] = added[i]
      BY <2>1, <3>1 DEF Built
    <3>3. DOMAIN added' = 1..(Len(added) + 1)
      BY <2>1, <3>1 DEF Built
    <3> QED
      BY <3>1, <3>2, <3>3 DEF KeysAdded
  <2> QED
    BY <2>1, <2>2, <2>3, <2>4 DEF Cursor!Next, Cursor!Collect
<1>2. CASE DoFinish
  BY <1>2 DEF DoFinish, Cursor!vars, Place, KeysAdded
<1>3. ASSUME NEW op, NEW k, NEW new, Calls(op, k, new) PROVE \E start : Standing(start)
  BY <1>3, SomewhereStanding DEF Calls
<1>4. ASSUME NEW bad, Calls("seek_to_first", NoKey, SeekToFirst(table, it, bad)) PROVE Cursor!Next
  BY <1>3, <1>4, EndsLead, CallSteps
<1>5. ASSUME NEW bad, Calls("seek_to_last", NoKey, SeekToLast(table, it, bad)) PROVE Cursor!Next
  BY <1>3, <1>5, EndsLead, CallSteps
<1>6. ASSUME NEW bad, it.err # "Error", Calls("next", NoKey, NextInner(table, it, bad)) PROVE Cursor!Next
  BY <1>3, <1>6, NextLeads, CallSteps
<1>7. ASSUME NEW bad, it.err # "Error", Calls("prev", NoKey, PrevInner(table, it, bad)) PROVE Cursor!Next
  BY <1>3, <1>7, PrevLeads, CallSteps
<1>8. ASSUME NEW k \in Wanted, NEW bad, Calls("seek", k, SeekInner(table, it, k, bad)) PROVE Cursor!Next
  BY <1>3, <1>8, SeeksLead, CallSteps
<1>9. ASSUME NEW k \in Wanted, Calls("seek_for_prev", k, SeekForPrev(table, it, k, {})) PROVE Cursor!Next
  BY <1>3, <1>9, SeeksLead, CallSteps
<1>10. ~panicked
  BY DEF Sure
<1> QED
  BY <1>1, <1>2, <1>4, <1>5, <1>6, <1>7, <1>8, <1>9, <1>10, NextReads

(* For every table and every sequence of calls, seek, seek_for_prev, next    *)
(* and prev lead to the neighbouring key, over block boundaries, and the end *)
(* is reported only at the end; a block that cannot be read is reported as   *)
(* an error.  Only seek_for_prev has to be able to read its blocks.          *)
THEOREM Refinement ==
  ASSUME "seek_for_prev" \notin Faults
  PROVE  Spec => IsSortedCursor
<1>1. Init => Cursor!Init
  BY DEF Init, Cursor!Init, Cursor!Call, Cursor!Unset, Place, NewIterator
<1>2. Built /\ Held /\ Sure /\ [Next]_vars => [Cursor!Next]_(Cursor!vars)
  <2>1. UNCHANGED vars => UNCHANGED Cursor!vars
    BY DEF vars, Cursor!vars, Place, KeysAdded
  <2> QED
    BY <2>1, StepMoves
<1> QED
  BY <1>1, <1>2, BuiltAlways, HeldAlways, SureAlways, PTL DEF Spec, IsSortedCursor, Cursor!Spec
=============================================================================
