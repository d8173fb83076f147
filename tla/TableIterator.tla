--------------------------- MODULE TableIterator ---------------------------
(* An SST is built from any entries in key order, and one iterator moves     *)
(* over it under every sequence of calls.                                    *)
EXTENDS TableCursor, FiniteSets

CONSTANTS Universe,   \* the keys a table may hold
          Values,     \* Values[k]: the values key k may have
          Wanted,     \* keys to seek for
          Faults      \* operations during which reading a block may fail

ASSUME KeysAssumption == Universe \cup Wanted \subseteq Keys
ASSUME ValuesAssumption == \A k \in Universe : Values[k] \subseteq ValueFields

VARIABLES added,      \* history: the entries given to the builder
          builder,    \* the Builder
          table,      \* the blocks of the finished table, none before that
          filter,     \* its Bloom filter
          it,
          call,       \* the last operation and its argument
          panicked    \* key() was called without a block

vars == <<added, builder, table, filter, it, call, panicked>>

Init == /\ added = <<>> /\ builder = NewBuilder
        /\ table = <<>> /\ filter = NoFilter
        /\ it = NewIterator
        /\ call = [op |-> "new", key |-> NoKey]
        /\ panicked = FALSE

(* Builder::add, with a key after those added before.                        *)
DoAdd(k, v) ==
  /\ table = <<>>
  /\ added # <<>> => KeyLess(added[Len(added)].key, k)
  /\ added' = Append(added, [key |-> k, value |-> v])
  /\ builder' = Add(builder, k, v)
  /\ UNCHANGED <<table, filter, it, call, panicked>>

(* Builder::finish.  Nothing can be opened if nothing was added.             *)
DoFinish ==
  /\ table = <<>> /\ added # <<>>
  /\ table' = Finish(builder).blocks
  /\ filter' = Finish(builder).filter
  /\ builder' = NewBuilder
  /\ UNCHANGED <<added, it, call, panicked>>

(* The blocks that may fail during an operation; none reads more than two.   *)
BadBlocks(op) ==
  IF op \in Faults
  THEN {{}} \cup {{a, b} : a, b \in 0..(NumBlocks(table) - 1)}
  ELSE {{}}

Do(op, k, new) ==
  /\ table # <<>> /\ ~panicked
  /\ it' = new
  /\ call' = [op |-> op, key |-> k]
  /\ UNCHANGED <<added, builder, table, filter, panicked>>

DoSeekToFirst == \E bad \in BadBlocks("seek_to_first") :
                    Do("seek_to_first", NoKey, SeekToFirst(table, it, bad))
DoSeekToLast  == \E bad \in BadBlocks("seek_to_last") :
                    Do("seek_to_last", NoKey, SeekToLast(table, it, bad))
DoSeek(k)     == /\ table # <<>>
                 /\ \E bad \in BadBlocks("seek") : Do("seek", k, SeekInner(table, it, k, bad))

(* An iterator that reported an error has to be reset by rewind or seek      *)
(* first.  The tests do call next again at the end.                          *)
DoNext == /\ it.err # "Error"
          /\ \E bad \in BadBlocks("next") : Do("next", NoKey, NextInner(table, it, bad))
DoPrev == /\ it.err # "Error"
          /\ \E bad \in BadBlocks("prev") : Do("prev", NoKey, PrevInner(table, it, bad))

DoSeekForPrev(k) ==
  /\ table # <<>>
  /\ \E bad \in BadBlocks("seek_for_prev") :
        IF SeekForPrevPanics(table, it, k, bad)
        THEN /\ ~panicked
             /\ panicked' = TRUE
             /\ call' = [op |-> "seek_for_prev", key |-> k]
             /\ it' = SeekInner(table, it, k, bad)
             /\ UNCHANGED <<added, builder, table, filter>>
        ELSE Do("seek_for_prev", k, SeekForPrev(table, it, k, bad))

Next == \/ \E k \in Universe : \E v \in Values[k] : DoAdd(k, v)
        \/ DoFinish
        \/ DoSeekToFirst \/ DoSeekToLast \/ DoNext \/ DoPrev
        \/ \E k \in Wanted : DoSeek(k)
        \/ \E k \in Wanted : DoSeekForPrev(k)

Spec == Init /\ [][Next]_vars

-----------------------------------------------------------------------------
Errs == {"none", "EOF", "Error"}
KeysAdded == {added[i].key : i \in DOMAIN added}

(* Type invariant; in particular bpos and idx never wrap around further than *)
(* the usize::MAX that marks "before the first", and the key of the iterator *)
(* is always one that was added, however it was put together.                *)
TypeOK ==
  /\ it.bpos \in UsizeMax..NumBlocks(table)
  /\ it.bi.blk \in UsizeMax..(NumBlocks(table) - 1)
  /\ it.bi.idx \in Nat \cup {UsizeMax}
  /\ it.bi.key \in KeysAdded \cup {NoKey}
  /\ it.bi.err \in Errs /\ it.err \in Errs
  /\ panicked \in BOOLEAN

(* The entries of the blocks before b.                                       *)
EntriesBefore(b) ==
  LET sum[n \in 0..NumBlocks(table)] == IF n = 0 THEN 0 ELSE sum[n - 1] + NumEntries(table, n - 1)
  IN  sum[b]

(* A valid iterator stands where its block iterator stands, and key() and    *)
(* value() are what was added there: the key is put together again from the  *)
(* base key and the entries looked at before, after any jump within and      *)
(* between blocks; the value is decoded from what encode wrote.  Only values *)
(* that never expire: decode_var does not read what encode_var writes for    *)
(* the others.                                                               *)
ReadsWhatWasAdded ==
  it.err = "none" /\ it.bi # NoBlock =>
     /\ it.bi.blk = it.bpos /\ it.bi.hasData /\ it.bi.err = "none"
     /\ it.bi.idx < NumEntries(table, it.bpos)
     /\ LET e == added[EntriesBefore(it.bpos) + it.bi.idx + 1]
        IN  /\ it.bi.key = e.key
            /\ e.value.expiresAt = 0 => ~DecodePanics(it.bi.val) /\ Decode(it.bi.val) = e.value

(* A block that holds more than one entry is not larger than block_size,     *)
(* although should_finish_block decides with an estimate before the key is   *)
(* compressed and the checksum is known.                                     *)
BlocksFit ==
  \A b \in DOMAIN table : Len(table[b].entries) > 1 => table[b].len <= BlockSize

(* No key of the table is denied by its Bloom filter.                        *)
NoFalseNegative == table # <<>> => \A k \in KeysAdded : ~DoesNotHave(filter, KeyHash(k))

Place ==
  IF it.err = "Error" THEN [state |-> "error", key |-> NoKey]
  ELSE IF it.err = "EOF" THEN [state |-> IF it.bpos = UsizeMax THEN "bof" ELSE "eof", key |-> NoKey]
  ELSE IF it.bi = NoBlock THEN [state |-> "unset", key |-> NoKey]
  ELSE [state |-> "at", key |-> it.bi.key]

Cursor == INSTANCE SortedCursor WITH source <- KeysAdded, at <- Place, Less <- KeyLess

(* Whatever the calls before, seek leads to the first key at or after the    *)
(* wanted one, seek_for_prev to the last at or before it, next and prev to   *)
(* the neighbouring key over block boundaries, and the end is reported only  *)
(* at the end; a block that cannot be read is reported as an error.          *)
IsSortedCursor == Cursor!Spec

(* "seek_for_prev will reset iterator and seek to <= key": an iterator that  *)
(* is valid afterwards stands on a key that is not greater than the wanted   *)
(* one, even if a block could not be read on the way.                        *)
SeekForPrevLands ==
  call.op = "seek_for_prev" /\ it.err = "none" => KeyLeq(it.bi.key, call.key)
=============================================================================
