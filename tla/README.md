# agatedb in TLA+

agatedb is an embedded LSM key-value store in Rust (a port of Badger). At this
commit its data structures are complete and the database around them is still
`unimplemented!()`. The modules here model the parts that run: the concurrent
skiplist behind a memtable, the registry of running compactions, the builder of
SSTs, the life of their files, the iterators over them, and the write-ahead log. TLC checks them on small instances; TLAPS
proves the main invariants for every value of the constants.

## The system and its parts

| part | state | operations | hard parts |
|---|---|---|---|
| Skiplist, `skiplist/src/list.rs` | arena of nodes (key, value, tower of offsets), list height; per put a splice per level; per iterator a cursor | `put`, `get`, `len`, `is_empty`, iterator moves, `drop` | lock-free: every load, store and compare-exchange of several threads interleaves; readers never wait; nodes and their `Bytes` have to be dropped exactly once |
| Arena, `skiplist/src/arena.rs` | length (`fetch_add`), capacity | `alloc`, offset/pointer conversion | fills up in the middle of a put; length advances even when it panics |
| Keys, `src/format.rs`, `skiplist/src/key.rs` | - | append and strip the 8 byte inverted timestamp; two-part order | the versions of a key are neighbours, newest first |
| Compaction status, `src/levels/compaction.rs` | per level: claimed ranges and `del_size`; set of claimed tables | `compare_and_add`, `delete`, `KeyRange::{overlaps_with, extend}`, `get_key_range` | many compactions under way; asymmetric overlap with an empty range; a panic if claim and release do not match |
| SST iterator, `src/table/iterator.rs` | block position, block iterator (index, key, data), error | `seek`, `seek_for_prev`, `next`, `prev`, `rewind` | block boundaries, wrap-around of `bpos`, block reads that fail |
| Concat iterator, `src/table/concat_iterator.rs` | current table, one iterator per table | `seek`, `rewind`, `next` | end of a table against a read error in it; a loop around the neighbouring table |
| Merge iterator, `src/table/merge_iterator.rs` | two children with buffered keys, which is smaller, current key | `seek`, `rewind`, `next` | equal keys in both children, in both directions |
| WAL, `src/wal.rs` | mapped file, `write_at`, `size` | `open`, `write_entry`, `read`, `truncate`, `done_writing`, `iter` | no checksum: a process that dies inside a write; a file that is written a second time |
| SST builder, `src/table/builder.rs`, `src/value.rs` | buffer, base key and entries of the open block, index, key hashes | `add`, `finish` | prefix-compressed keys; the size of a block is estimated before it is known; values with an expiry in a variable number of bytes |
| Bloom filter, `src/bloom.rs` | bits, number of probes | `build_from_key_hashes`, `may_contain` | the two must probe the same bits |
| SST file, `src/table.rs` | path, mapping, index, `save_after_close`; handles (`Arc`) | `create`, `open`, `open_in_memory`, `block`, `mark_save`, `drop` | the last handle deletes the file; damage; failure half way; lengths used before they are verified |
| Level handler, `src/levels/handler.rs` | tables | `drop` | marks the tables while others hold them |
| Checksums, `src/checksum.rs` | - | pure functions | - |
| Memtable, database, transactions, oracle | handles | mostly `unimplemented!()` | - |

How they interact: a memtable holds a skiplist and a WAL; `put` is to go to the
WAL first (the call is not written yet). A compaction reads the SSTs of two
levels through concat and merge iterators, and is only started after
`compare_and_add` accepted its ranges. The iterators nest: merge over concat
over table over block, all behind the `AgateIterator` trait, whose contract is
the module `SortedCursor`. The builder turns sorted entries into the blocks that
the table iterator reads; a table iterator holds a handle of its table, and the
file lives as long as a handle or, once it was marked, for good. Keys everywhere are encoded by `format.rs` and
compared by `FixedLengthSuffixComparator`.

What makes each part correct: the skiplist is a linearizable map that never
loses or reorders a key; the registry never lets two compactions touch the same
user key on a level and always forgets what it was told; an iterator is a
cursor over the sorted keys and says so when it cannot be; an SST gives back the
entries it was built from or an error, and its file is neither lost while it is
needed nor left behind; the WAL gives back what was written.

## Modules

- `OrderedMap`: the abstract specification of the skiplist: a set of pairs, and
  operations that take effect at one instant between call and return. `len` may
  count keys that are added while it runs. A put of a key that is present
  changes nothing and answers `Some` when the value differs.
- `Skiplist`: one action per access to shared memory, with the thread-local code
  up to the next one. `pc` says where a `put` is: `descend` (first pass through
  the levels), `alloc`, `raise` (compare-exchange on the height), `link`
  (`fresh` without a splice), `cas`, `retry`. `lvl`, `before`, `prev`, `next` and
  `x` are put's locals. A reader's `rpc` is the operation it runs. `arenaLen`
  counts nodes instead of bytes; the head has slot 1 and offset 0 is null.
  `nodeState` records who owns a node's `Bytes`: `live` in the node, `taken` by
  the caller, `dropped` in place, `released` by `SkiplistCore::drop`. `Linked(i)`,
  the nodes reachable at level `i`, is computed from the owners' progress and not
  from the pointers, so that `ListWellFormed` can compare the two. `Map` is the
  refinement mapping to `OrderedMap`: a put takes effect when its node is linked
  at level 0, or with the load that finds its key; a read with its last load.
- `KeyRanges`: encoded keys as pairs (user key, inverted timestamp), `KeyRange`.
- `CompactStatus`: `compare_and_add` (accepting and refusing) and `delete` of any
  number of compactors; both take `&mut self`, so they are atomic.
  `LevelCompactStatus.ranges` is a `Vec` that no operation can tell from a set.
- `ByteKeys`: the same keys as sequences of bytes, for the modules below; the
  comparison splits the suffix off, so it is not the order of the whole bytes.
- `ValueCodec`: `Value::encode` and `decode` with their own variable-length
  integers, as they are. `Bloom`: the filter, over words of `WordSize` values
  rotated by `Rot`.
- `TableBuilder`: `Builder` as a record and `add`, `finish_block` and `finish` as
  functions of it. An entry keeps its overlap, the rest of its key and its encoded
  value; of the rest of a block only the length is kept. `bytes_diff` compares
  words of `WideWord` and `NarrowWord` bytes, 8 and 4 in the code.
- `TableCursor`: the SST iterator as a value and its operations as functions of
  a table (the blocks that `TableBuilder` made), the iterator and the set of
  blocks that cannot be read during the call. The block iterator puts each key
  together from the base key and the key it had, as `set_idx` does, at every turn
  of the binary search too. `TableIterator` composes the two: it builds a table by
  any sequence of `add` and runs the iterator's operations on it in any order.
- `ConcatIterator`: on top of `TableCursor`; each turn of the loop of `next` is a
  step, because the loop can go round.
- `MergeIterator`: one node of the merge tree, over children that are iterators
  by contract; since the merge meets the same contract (`IsSortedCursor`) it
  nests. A child may fail to read in any operation (`Failures`); `failed` records
  it, which the code does not.
- `SortedCursor`: the contract of `AgateIterator`.
- `Wal`: the file as cells, each a piece of an entry or zero. `WriteEntry`,
  `CopyCell`, `CopyDone` and `ZeroNextEntry` are `write_entry` cut at its stores;
  `Stop` ends the process at any of them. `Replay` is what iterating returns, with
  `LogRead` last where it ends in that error; `Read` what `read` returns for a
  pointer. `EmptyKey` and `LongKey` are the entries `write_entry` accepts and reading
  does not: an empty key is taken for the end of the log, a key of more than `1 << 16`
  bytes is an error. `acked` are the entries `write_entry` returned for, less those
  that a truncation has cut off entirely or a new log has replaced; `Returned` is what
  can come back of them. A file that was opened again is written from its beginning,
  so its first write replaces the log: `begun` marks the time from the start of such a
  write until one returns, in which the old entries are overwritten and no new one
  is there.
- `SstFile`: names (`dir`), files with what was written of them and what was
  damaged, and the `TableInner`s on them with the number of their handles.
  `Create`, `Write` and `Open` are `create` cut where it can fail or die. `Opened`
  gives the outcomes of the three stages of `open`; an error and a panic have the
  same effect, since unwinding drops the `TableInner`. A file that a table without
  a name keeps in memory is a file no name leads to. `fate` is what should have
  become of a file: `orphan` (created, no table yet, or its process died), `owned`,
  `shared` (two tables had it open), `saved`, `dropped`. A block is its two length
  fields, what they delimit and its checksum, each good or not.
- `MC*`: instances for TLC. `*Proofs`: the theorems about a module. `TableLemmas`:
  what the operators of `ByteKeys`, `ValueCodec`, `TableBuilder` and `TableCursor` do,
  for the proofs of the two iterators on top of them.

Definitions called `Mut...` are plausible bugs, each written next to the
definition it would replace; nothing refers to them. They show that the
properties can fail: with the mutant in place TLC finds the property violated.

## Runs and bounds

| run | checks | instance |
|---|---|---|
| `skiplist_writers` | `TypeOK`, `AssertionsHold`, `ListWellFormed`, `DroppedOnce`, `InsertOnly`, `PutReturns` | 2 writers, 2 keys, 2 values, 3 levels, room for 2 nodes |
| `skiplist_reader` | `Linearizable`, `ReadReturns` | 1 writer, 1 reader, 3 keys (two versions of one user key, one of another), 2 levels |
| `compact_status` | `TypeOK`, `NoPanic`, `RegistryExact`, `DelSizeExact`, `VersionsTogether`, `EmptyRangeLocksLevel` | 3 compactors, 3 levels, 6 tables, 3 user keys with 2 versions |
| `table_iterator` | `TypeOK`, `ReadsWhatWasAdded`, `BlocksFit`, `NoFalseNegative`, `IsSortedCursor` | every table of some of 6 keys of 2 to 4 bytes with short, long and expiring values, 1 to 6 blocks; every key and two others sought; reads fail in every operation but `seek_for_prev` |
| `table_iterator_faults` | `SeekForPrevLands`, violated | the same, with failing reads in `seek_for_prev` |
| `concat_iterator` | `TypeOK`, `IsSortedCursor` | levels of 0 to 3 tables of 1 to 3 entries in 1 to 3 blocks, reads that fail in `seek` and while a table is entered |
| `concat_iterator_faults` | `NextElement`, violated | the same, with failing reads in `next` |
| `concat_iterator_loop` | `NextReturns`, violated | the same, with failing reads while a table is entered |
| `merge_iterator` | `TypeOK`, `LeftWins`, `ChildrenNotMisused`, `IsSortedCursor`, `OthersGoOn` | all pairs of sets of up to 4 keys, both directions, either child failing |
| `wal` | `TypeOK`, `ReplayExact`, `AckedSurvive`, `RoomUntilFlush`, `PointersReadBack` | 4 entries of 1 to 3 cells, one with an empty key and one with a key that is too long, a file of 6, any number of lives |
| `wal_torn` | `StopsAtCorrupted`, violated | the same |
| `sst_file` | `TypeOK`, `DiskMatchesFate`, `DropFindsFile`, `NoGarbage` | 1 name, 2 files, 2 tables with up to 2 handles each, all 4 verification modes, 2 blocks, 6 kinds of damage |

Why the bounds are enough. Two writers are what a race on one pointer needs; two
keys give neighbours and equal keys, two values the difference between `Some` and
`None`; three levels are the least in which a level above `list_height + 1` has no
splice (the `i > 1` case of `put`); the arena is one node short of what the
writers may ask for, so it also runs full. Keys 1 and 2 share a user key so that
`get` can land on another version. The compaction tables overlap on level 0 and
share a user key on level 1, at the border of two ranges. Reads race a single
writer; that they are linearizable with any number of writers is proved
(`ListIsLinearizable`). A WAL of six cells has
its flush threshold in the middle, and an entry of two cells with its next header
just fits behind it. The keys of the tables are two versions of a user key, two of
one that goes on where the first has its timestamp, one that shares a byte and one
that shares none, so overlaps of 0 to 3 bytes follow each other in any order; a
long value closes a block, a short one does not. One name is enough for files that
are removed, made again and still mapped; two tables for every sharing. The kinds
of damage are a wrong body, a wrong checksum, no entries, too many entries, another
checksum length that fits and one that does not. The state spaces are finite
without further constraints. Compactors, files and tables are symmetric. The `VIEW` of `sst_file` leaves out what nothing reads:
the contents of unreachable files, and two flags where they have no effect.

`CHECK_DEADLOCK FALSE` is set for the skiplist, which is over when it was dropped
or all writers panicked, and for the WAL, which cannot be opened any more when it
was truncated to nothing or its creation was interrupted.

The violations. `seek_for_prev` does not look at the error of its seek, and
`prev_inner` clears it: after a failed block read the iterator can be valid on a
key greater than the wanted one. `ConcatIterator::next` takes a read error for the
end of a table and skips the rest of it. Its loop never advances from the table it
left, so a neighbour whose first block cannot be read is entered again and again and
`next` does not return. `WalIterator::next` returns an entry
whose header was written and whose body was not. Each contradicts a comment on
the operation, quoted in `PROJECT.json`.

`EmptyRangeLocksLevel` is a property that holds and should worry its user: a
compaction whose `next_range` was left empty, as `CompactDef::new` makes it, is
accepted, but `delete` does not take the empty range out again, and because an
empty range overlaps with everything the level is never compacted again.

Other things met while modelling, which the properties describe as they are:

- `decode_var` (`src/value.rs:68`) compares the wrong way round, so its loop never
  runs: decoding any value with an expiry panics, or drops the expiry and leaves
  its other bytes in front of the value if the low seven bits are 0. `encode_var`
  writes no continuation bits and stops at `0x128`. `ReadsWhatWasAdded` therefore
  speaks of values that do not expire.
- `Table::open` deletes the file when it fails for any reason after the mapping
  was made, a wrong verification mode for a damaged file included
  (`DiskMatchesFate`, fate `dropped`). A `create` whose write fails leaves its file.
- Damaged length fields make `block()` and `init_index` panic where
  `test_table_checksum` expects an error.
- Two tables on one path: the second drop panics in `remove_file(..).unwrap()`, or
  removes a file that was created under the name since (`DropFindsFile` excludes
  these).
- `write_entry` accepts keys that reading does not (`src/value.rs:173`,
  `src/entry.rs:26`): entries written behind an empty key or a key of more than
  `1 << 16` bytes are never replayed. `ReplayExact` says what is.
- `open` always writes from offset 0 (`src/wal.rs:120`). The first write to a file
  that was opened again goes on top of the entries of the earlier life; when it is
  cut off, all of them are lost, whatever `write_entry` had returned for.
  `AckedSurvive` and `PointersReadBack` leave out exactly the time between the
  start of such a write and the next one that returns (`begun`).
- A merge leaves out a child that cannot read, stays valid, and may then offer the
  older value of a key (`LeftWins`, `OthersGoOn`).
- The builder never sets `key_count`, so `Table::key_count` is always 0.

## Fairness

`FairSpec` of the skiplist assumes weak fairness of each running `put` and each
running read: a thread that has a step to take is scheduled eventually. Nothing
obliges a thread to start an operation. That is what the operating system gives;
the list takes no locks. `PutReturns` holds because each failed compare-exchange
is due to another node that was linked and the arena is finite; `ReadReturns`
because readers never go back. The `compare_exchange_weak` on the height may fail
spuriously; such a failure changes nothing and is a stuttering step, so it is
assumed not to fail for ever.

`FairSpec` of `ConcatIterator` assumes weak fairness of the loop of `next`: it is
not left alone. Nothing is assumed of the reads, each of which may fail, since a disk
error may stay and a wrong checksum in the mapping does. `turn` makes each turn of the
loop a step, also one that changes nothing else; without it weak fairness of the loop
would amount to a read that succeeds in the end. So `NextReturns` fails, by turns that
go on for ever and not by a loop that stands still.

## Proofs

All of them are for every value of the constants under the named assumptions of
the modules; the fairness of the specifications is not used.

`SkiplistProofs`. Assumptions: keys are ranks greater than 0 (the key of the
head), both sizes are positive, `NoVal` is not a value, no thread is a writer and
a reader. `Spec => []IInv`, and from it `TypeOK`, `AssertionsHold`,
`ListWellFormed` and `DroppedOnce`. `ListWellFormed` is not inductive. A put links
its node with splices it took earlier, so `SpliceInv` says that they still bracket
its key, which holds because nodes are never unlinked. `OwnerInv` says that a node
that is not linked on all its levels belongs to exactly one put, `ProgressInv`
which splices are known by then (`prev` at levels 0 and 1, hence the assertions)
and that a node is never higher than the list when it is linked, `DropInv` that
`drop` has released the nodes before its cursor. There is one lemma per action.
The heart is `CasLink`: the pointer still equals `next`, so nothing was inserted
between the splice and the new node goes in the only place where it keeps the
chain sorted and complete. `StepGrows` says of each action that levels only grow,
which is `InsertOnly`.

`ListIsLinearizable` shows that the list implements `OrderedMap`. `MapInv` adds to
`IInv` where each reader stands (`Standing`: what `find_near` has passed is smaller
than its key; what `len` has counted is no more than what it passed, and with what
it has still to pass no less than there was when it began) and how far the answer
of a put is fixed (`Answered`). Every step then is a step of the map or stutters
(`NextRefines`): a put takes effect with the compare-exchange at level 0
(`PutRefines`) or with the load that finds its key (`FoundPuts`), a read with the
load that ends it (`ReadRefines`); `FindNearRefines` needs that no key lies between
a node and its successor at level 0.

`CompactStatusProofs` proves `Spec => []IInv` for any compactors, tables, levels
and keys, and from it `NoPanic`, `RegistryExact`, `VersionsTogether` and
`EmptyRangeLocksLevel`. What has to be added to make the registry inductive is
`DisjointClaims`: the ranges of two running compactions on a level have no key in
common. So a finished compaction takes away no range but its own, although
`remove` deletes all that are equal, and no table is claimed twice. The range
of some tables reaches from the first version of a user key to the last version of
one, so disjoint ranges have disjoint user keys. `ExtendCovers` is about
`KeyRange::extend`: nothing that overlaps with a part is lost in the whole.
`SizeInv` is the invariant behind `DelSizeExact` and `TypeOK`: a sum over the
running compactions, of which there are finitely many whatever the set of
compactors, is a number that the size of one more is added to.

`SstFileProofs`: `IInv` says which names lead to which files and which tables are
on them. `OwnedByOne`: the table of an owned file is the only one on the file and
on its name, so the drop of another one does not remove it. `SavedAlone`: nobody
who could remove it is left at a saved file. `Verified`: what was verified when
the table was opened stays intact until something damages it.

`WalProofs` is about `Log`, the entries that the next write goes behind: `acked`, or
none while the log is begun anew. `Layout` says that they lie one behind the other and
begin within the file, whose end may cut the last one in two; `WritePoint` where the
writer is and what it has copied so far; `Terminated` that, unless a write was cut off,
no entry has been overwritten and replay finds nothing behind the last one, where
`zero_next_entry` has cleared a header or the file ends. What replay returns for such a
file, however long, follows from `Walk` (below): `ReplayPrefix` goes as far as the first
entry that cannot be read back, and `ReplayBegins` says what it does there. Assumed of
the constants: entries are not empty, the file has room for a header, no key is both
empty and too long, `Zero` is no cell of an entry, `Garbage` and `LogRead` are no entries.

`MergeIteratorProofs`: any finite set of keys greater than 0. `Covered` says of
each child that it stands on the first of its keys from the merge's position on, or
has failed; from that `fix` leaves the smaller child on the smallest key. `next`
and `prev` are one proof, over the direction. `Refinement` shows that the merge is
a `SortedCursor` over the union.

`TableLemmas` proves, operator by operator, what the builder and the iterator do with
any bytes. `KeyOrder`: `compare_key` is a strict total order. `Encoded`: the encoded
size is not underestimated, and a value that does not expire comes back. `DiffAgrees`:
whatever words `bytes_diff` compares, it leaves off a prefix that base and key share.
`AddBuilds` and `FinishBuilds`: the blocks hold what was added, entry by entry, and fit.
`SearchFinds`: the binary search ends at the first index, for any predicate that stays
true. `Rebuilt` and `SetIdxPlaces` are the core of the block iterator: its key is always
one whose first `prev` bytes are those of the base key (`Tracks`), so a jump to any
entry from any other, in the middle of a search too, gives exactly the key that was
added. From there upwards: `BlockSeekLands`, `SeekInnerLeads`, `NextFromEntry`,
`PrevFromEntry`, `SeekForPrevLeads` and their like, each saying where an operation leads
from each place.

`TableIteratorProofs` puts them together: for every set of keys, values, block size,
checksum length, words of `bytes_diff` and hash function. `Built` (what the builder, and
then the table, holds) gives `BlocksFit`, and `NoFalseNegative` while the filter has
fewer than `WordSize` bits: the builder takes bits modulo `nbits` as a `usize`,
`may_contain` casts it to `u32`. `Held` is what no operation breaks whichever reads fail:
`bpos` in range and a block iterator that `Tracks`; it gives `TypeOK`. `Sure` adds that
the iterator stands on an entry, at an end, on an error or is new, and gives
`ReadsWhatWasAdded` and the refinement of `SortedCursor`. These two assume that
`seek_for_prev` is not in `Faults`, and they need it: when the read of `seek` fails,
`seek_for_prev` ignores it, compares with a stale key and moves on (run
`table_iterator_faults`). The other operations may fail in any way. Assumed of the
constants: keys end in a timestamp, values have the fields of `Value`, block size and
bits for a key are natural numbers and a word has at least one byte.

`ConcatIteratorProofs`: levels of any number of tables of any size. `Stored` says that
each table holds its own entries, in key order (`BuiltAtOnce` of `TableLemmas`: a table
built in one go is as one built by `add`). `Kept` is what no call breaks, whichever reads
fail: the iterator of every table is one that table's operations can start from, so a
table that was left, or could not be entered, can be entered again; it gives `TypeOK`.
For the refinement it is not enough to know where the iterator stands between calls.
While `next` loops nothing has been returned, and `Sure` says what the loop relies on:
the table being entered is the neighbour of the one being left, and the key last shown
is that one's far end. So the near end of the neighbour is where `next` has to lead
(`EnterLeads`), and a turn whose read fails stutters. `SpotOrder` turns the order of the
keys into the order of table and entry, and with it `SearchFinds` shows that the binary
search over the tables' ends finds the one to seek in; it is also why the table found
holds a key to stop at, so that `seek` never has to go on to the next table. `Refinement`
and `Sure` assume that `next` is not in `Faults`, and they need it: a block that
cannot be read inside a table is taken for its end (run `concat_iterator_faults`). Reads
may fail in `seek`, `rewind` and whenever a table is entered. Assumed of the constants: what
`from_tables` asks for ("Tables must have been sorted and have no overlap keys",
`LevelsAssumption`), that keys sought end in a timestamp (`WantedAssumption`), and that
`seek_for_prev` can read (`FaultsAssumption`), which is the subject of `TableIterator`.

Where induction would be the way, the proofs take the least counterexample (`NatMin`):
`Iteration` and `Walk` show that functions given by recursion over `0..N` exist and are
what their equations say, `SumExists` the same of a sum over a finite set, so `EndOf`,
`Replay` and `MapThenSumSet` are proved for all inputs. These few lemmas about numbers
stand at the head of each module that uses them.

Only model-checked: liveness (`PutReturns`, `ReadReturns`), which the prover cannot
do. Every other property of a passing run is a theorem.

## What is not modelled

- Memory order: all atomics in the list are `SeqCst`, so interleaving is exact.
- Bytes: in the skiplist and the compactions keys are ranks or pairs, entries of
  the WAL are cells. The arithmetic of crc32c and xxhash is left out, as are keys of
  64 KiB and tables of 4 GiB, at which the builder asserts.
- The arena in bytes, with alignment and the `u32` length that wraps around after
  some 2^32 / 200 failed allocations.
- Power failure: `Wal` loses nothing that was stored in the mapping, as when the
  process dies. What `sync` and `sync_writes` add is not modelled.
- `Wal::set_size`, `set_len` and `data`: for a value log, without a caller. Writing
  to a WAL after `truncate`: its users stop with `done_writing`.
- Opening an SST while `create` is still writing it: names are unique ids.
- `Memtables::view`: copies handles under `&self`. Transactions collect writes in a
  map; `commit` does not exist, and nobody calls the oracle.
- Compactions within level 0 (`next_level_id = this_level_id`): no code makes one.
- Everything that is `unimplemented!()`.

## Plan

1. Done: skiplist, compaction status, builder, value codec, Bloom filter, SST
   files, iterators, WAL; the safety of all of them proved, and the refinements of
   `OrderedMap` by the list and of `SortedCursor` by the SST iterator, the concat
   iterator and the merge.
2. When the database is written: memtable over skiplist and WAL, a view over
   several lists, merge over concat iterators, the level handler's operations.
