---------------------------- MODULE TableCursor ----------------------------
(* An iterator over one SST (table/iterator.rs), as a value and the          *)
(* operations on it: TableRefIterator, with the BlockIterator of the block   *)
(* it is in.  A table is the sequence of blocks that TableBuilder made;      *)
(* blocks and entries are numbered from 0 as in the code.                    *)
EXTENDS Integers, Sequences, TableBuilder

UsizeMax == -1        \* std::usize::MAX, which is 0 - 1

NumBlocks(t)     == Len(t)
NumEntries(t, b) == Len(t[b + 1].entries)
Entry(t, b, i)   == t[b + 1].entries[i + 1]
BaseKey(t, b)    == t[b + 1].key        \* BlockOffset.key

(* util::search: the binary search of Go's sort.Search.  The predicate is    *)
(* given as the set of indices at which it holds; the turns of the loop      *)
(* after its end change nothing.                                             *)
Search(n, holds) ==
  LET turn[s \in 0..n] ==
        IF s = 0 THEN [i |-> 0, j |-> n]
        ELSE LET p == turn[s - 1]
                 h == (p.i + p.j) \div 2
             IN  IF p.i >= p.j THEN p
                 ELSE IF h \in holds THEN [i |-> p.i, j |-> h]
                 ELSE [i |-> h + 1, j |-> p.j]
  IN  turn[n].i

-----------------------------------------------------------------------------
(* BlockIterator.  hasData is FALSE after data.clear(); prev is perv_overlap; *)
(* err is "none", "EOF" or "Error".                                          *)
NoBlock == [blk |-> UsizeMax, idx |-> 0, base |-> NoKey, key |-> NoKey, prev |-> 0,
            val |-> <<>>, hasData |-> FALSE, err |-> "none"]

(* BlockIterator::new and set_block.                                         *)
FreshBlock(b) == [NoBlock EXCEPT !.blk = b, !.hasData = TRUE]

TruncateTo(s, n) == IF n < Len(s) THEN SubSeq(s, 1, n) ELSE s

(* Mutant: a prefix that is shared already is not made longer.               *)
MutRebuiltKey(bi, base, e) ==
  LET shared == IF e.overlap > bi.prev /\ bi.prev = 0
                THEN SubSeq(base, 1, e.overlap)
                ELSE bi.key
  IN  TruncateTo(shared, e.overlap) \o e.diff

(* The key of entry e from that of the entry before it, with which it shares *)
(* the first prev bytes of the base key.                                     *)
RebuiltKey(bi, base, e) ==
  LET shared == IF e.overlap > bi.prev
                THEN TruncateTo(bi.key, bi.prev) \o SubSeq(base, bi.prev + 1, e.overlap)
                ELSE bi.key
  IN  TruncateTo(shared, e.overlap) \o e.diff

(* set_idx: past the end the key of the last entry it looked at is kept.     *)
SetIdx(t, bi, i) ==
  IF i >= NumEntries(t, bi.blk)
  THEN [bi EXCEPT !.idx = i, !.err = "EOF"]
  ELSE LET e    == Entry(t, bi.blk, i)
           base == IF bi.base = NoKey THEN Entry(t, bi.blk, 0).diff ELSE bi.base
       IN  [bi EXCEPT !.idx = i, !.err = "none", !.base = base, !.prev = e.overlap,
                      !.key = RebuiltKey(bi, base, e), !.val = e.val]

(* seek: every turn of the search runs set_idx on the entry it compares.     *)
BlockSeek(t, bi, k) ==
  LET n == NumEntries(t, bi.blk)
      turn[s \in 0..n] ==
        IF s = 0 THEN [i |-> 0, j |-> n, bi |-> bi]
        ELSE LET p   == turn[s - 1]
                 h   == (p.i + p.j) \div 2
                 new == SetIdx(t, p.bi, h)
             IN  IF p.i >= p.j THEN p
                 ELSE IF KeyLess(new.key, k) THEN [i |-> h + 1, j |-> p.j, bi |-> new]
                 ELSE [i |-> p.i, j |-> h, bi |-> new]
  IN  SetIdx(t, turn[n].bi, turn[n].i)

BlockFirst(t, bi) == SetIdx(t, bi, 0)
BlockLast(t, bi)  == SetIdx(t, bi, NumEntries(t, bi.blk) - 1)
BlockNext(t, bi)  == SetIdx(t, bi, bi.idx + 1)
BlockPrev(t, bi)  == IF bi.idx = 0 THEN [bi EXCEPT !.idx = UsizeMax, !.err = "EOF"]
                     ELSE SetIdx(t, bi, bi.idx - 1)

-----------------------------------------------------------------------------
(* TableRefIterator *)
NewIterator == [bpos |-> 0, bi |-> NoBlock, err |-> "none"]

Valid(it) == it.err = "none"
IsReady(it) == ~it.bi.hasData          \* is_ready: there is no block to walk in

PastEnd(t, b) == b = UsizeMax \/ b >= NumBlocks(t)

(* Read block b and place the block iterator in it.  block() fails when b is *)
(* out of range, or when the read or the checksum fails: bad is the set of   *)
(* blocks for which it does during this operation.  placed is the block      *)
(* iterator over b once it has been placed.                                  *)
InBlock(t, it, b, bad, placed) ==
  IF PastEnd(t, b) \/ b \in bad
  THEN [it EXCEPT !.bpos = b, !.err = "Error"]
  ELSE [bpos |-> b, bi |-> placed, err |-> placed.err]

SeekToFirst(t, it, bad) ==
  IF NumBlocks(t) = 0 THEN [it EXCEPT !.err = "EOF"]
  ELSE InBlock(t, it, 0, bad, BlockFirst(t, FreshBlock(0)))

SeekToLast(t, it, bad) ==
  IF NumBlocks(t) = 0 THEN [it EXCEPT !.err = "EOF"]
  ELSE LET b == NumBlocks(t) - 1 IN InBlock(t, it, b, bad, BlockLast(t, FreshBlock(b)))

SeekHelper(t, it, b, k, bad) == InBlock(t, it, b, bad, BlockSeek(t, FreshBlock(b), k))

(* Mutant: the block after the one searched is not tried.                    *)
MutSeekInner(t, it, k, bad) ==
  LET idx == Search(NumBlocks(t), {b \in 0..(NumBlocks(t) - 1) : KeyLess(k, BaseKey(t, b))})
  IN  SeekHelper(t, it, IF idx = 0 THEN 0 ELSE idx - 1, k, bad)

(* seek_inner: seek_from the origin.  The key can be in the last block whose *)
(* base key is not greater, or be the base key of the one after.             *)
SeekInner(t, it, k, bad) ==
  LET n   == NumBlocks(t)
      idx == Search(n, {b \in 0..(n - 1) : KeyLess(k, BaseKey(t, b))})
      in  == SeekHelper(t, it, idx - 1, k, bad)
  IN  IF idx = 0 THEN SeekHelper(t, it, 0, k, bad)
      ELSE IF in.err = "EOF" /\ idx # n THEN SeekHelper(t, in, idx, k, bad)
      ELSE in

(* Mutant: bpos moves on at the end.                                         *)
MutNextReady(t, it, bad) ==
  IF PastEnd(t, it.bpos) THEN [it EXCEPT !.err = "EOF", !.bpos = it.bpos + 1]
  ELSE InBlock(t, [it EXCEPT !.err = "none"], it.bpos, bad,
               BlockFirst(t, FreshBlock(it.bpos)))

(* next_inner and prev_inner once there is no block to walk in.              *)
NextReady(t, it, bad) ==
  IF PastEnd(t, it.bpos) THEN [it EXCEPT !.err = "EOF"]
  ELSE InBlock(t, [it EXCEPT !.err = "none"], it.bpos, bad,
               BlockFirst(t, FreshBlock(it.bpos)))

PrevReady(t, it, bad) ==
  IF it.bpos = UsizeMax THEN [it EXCEPT !.err = "EOF"]
  ELSE InBlock(t, [it EXCEPT !.err = "none"], it.bpos, bad,
               BlockLast(t, FreshBlock(it.bpos)))

(* The block iterator moves; when it leaves its block the data is cleared    *)
(* and the operation is repeated for the neighbouring block.                 *)
NextInner(t, it, bad) ==
  IF PastEnd(t, it.bpos) \/ IsReady(it) THEN NextReady(t, it, bad)
  ELSE LET bi == BlockNext(t, it.bi)
       IN  IF bi.err = "none" THEN [it EXCEPT !.bi = bi, !.err = "none"]
           ELSE NextReady(t, [it EXCEPT !.bi = [bi EXCEPT !.hasData = FALSE],
                                        !.bpos = it.bpos + 1], bad)

PrevInner(t, it, bad) ==
  IF it.bpos = UsizeMax \/ IsReady(it) THEN PrevReady(t, it, bad)
  ELSE LET bi == BlockPrev(t, it.bi)
       IN  IF bi.err = "none" THEN [it EXCEPT !.bi = bi, !.err = "none"]
           ELSE PrevReady(t, [it EXCEPT !.bi = [bi EXCEPT !.hasData = FALSE],
                                        !.bpos = it.bpos - 1], bad)

(* seek_for_prev looks at key() whether or not the seek succeeded; key()     *)
(* panics when no block was ever loaded.                                     *)
SeekForPrevPanics(t, it, k, bad) == SeekInner(t, it, k, bad).bi = NoBlock

SeekForPrev(t, it, k, bad) ==
  LET s == SeekInner(t, it, k, bad)
  IN  IF s.bi.key # k THEN PrevInner(t, s, bad) ELSE s

-----------------------------------------------------------------------------
(* AgateIterator for TableRefIterator, by the ITERATOR_REVERSED option.      *)
IterRewind(t, it, rev, bad)  == IF rev THEN SeekToLast(t, it, bad) ELSE SeekToFirst(t, it, bad)
IterSeek(t, it, k, rev, bad) == IF rev THEN SeekForPrev(t, it, k, bad) ELSE SeekInner(t, it, k, bad)
IterNext(t, it, rev, bad)    == IF rev THEN PrevInner(t, it, bad) ELSE NextInner(t, it, bad)

(* Table::smallest and Table::biggest, as init_biggest_and_smallest finds    *)
(* them: the first base key, and the key of a reversed rewind.               *)
SmallestKey(t) == BaseKey(t, 0)
BiggestKey(t)  == IterRewind(t, NewIterator, TRUE, {}).bi.key
=============================================================================
