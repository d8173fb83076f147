---------------------------- MODULE TableBuilder ----------------------------
(* Building an SST (table/builder.rs): entries with prefix-compressed keys   *)
(* go into blocks of a limited size.  A block keeps its entries; of the      *)
(* other bytes only how many they are.                                       *)
EXTENDS ByteKeys, ValueCodec, Bloom

CONSTANTS BlockSize,      \* options.block_size
          BloomEnabled,   \* options.bloom_false_positive > 0.0
          BitsPerKey,     \* what bloom_bits_per_key makes of it
          Fingerprint,    \* farmhash::fingerprint32
          WideWord, NarrowWord,   \* bytes_diff compares 8 and 4 bytes at a time
          ChecksumLen     \* bytes of a checksum proto

ASSUME SizesAssumption == BlockSize \in Nat /\ BitsPerKey \in Nat

ASSUME WordsAssumption == WideWord \in Nat \ {0} /\ NarrowWord \in Nat

(* A checksum proto is a tag and a varint of 32 bits, or nothing if it is 0. *)
ASSUME ChecksumLenAssumption == ChecksumLen \in 0..6

HeaderSize == 4

-----------------------------------------------------------------------------
Shorter(a, b) == IF Len(a) < Len(b) THEN Len(a) ELSE Len(b)

(* util::bytes_diff: what target has after the prefix it shares with base,   *)
(* found by comparing wide words, at most one narrow one, and bytes.         *)
BytesDiff(base, target) ==
  LET end == Shorter(base, target)
      same(i, n) == i + n <= end /\ SubSeq(base, i + 1, i + n) = SubSeq(target, i + 1, i + n)
      wide[i \in 0..end]  == IF same(i, WideWord) THEN wide[i + WideWord] ELSE i
      bytes[i \in 0..end] == IF i < end /\ same(i, 1) THEN bytes[i + 1] ELSE i
      words == IF same(wide[0], NarrowWord) THEN wide[0] + NarrowWord ELSE wide[0]
  IN  SubSeq(target, bytes[words] + 1, Len(target))

NewBuilder == [buf |-> 0, baseKey |-> NoKey, baseOffset |-> 0, entries |-> <<>>,
               offsets |-> <<>>, hashes |-> <<>>, estimatedSize |-> 0]

(* The hash of a key that goes into the filter, and that does_not_have is    *)
(* asked for.                                                                *)
KeyHash(k) == Fingerprint[UserKey(k)]

(* Mutant: the hash of the key with its timestamp.                           *)
MutHashAdded(k) == Fingerprint[k]

HashAdded(k) == KeyHash(k)

(* add_helper: the first key of a block is its base key, and is stored in    *)
(* full.                                                                     *)
AddHelper(b, key, v) ==
  LET base  == IF b.baseKey = NoKey THEN key ELSE b.baseKey
      diff  == IF b.baseKey = NoKey THEN key ELSE BytesDiff(base, key)
      entry == [overlap |-> Len(key) - Len(diff), diff |-> diff, val |-> Encode(v)]
  IN  [b EXCEPT !.hashes = Append(@, HashAdded(key)),
                !.baseKey = base,
                !.entries = Append(@, entry),
                !.buf = @ + HeaderSize + Len(diff) + Len(entry.val),
                !.estimatedSize = @ + EncodedSize(v) + Len(diff) + 4]

(* finish_block and add_block_to_index: entry offsets, their number, the     *)
(* checksum and its length follow the entries.                               *)
FinishBlock(b) ==
  IF b.entries = <<>> THEN b
  ELSE LET end == b.buf + 4 * Len(b.entries) + 4 + ChecksumLen + 4
       IN  [b EXCEPT !.buf = end,
                     !.offsets = Append(@, [key |-> b.baseKey, offset |-> b.baseOffset,
                                            len |-> end - b.baseOffset, entries |-> b.entries])]

(* Mutant: what follows the entries is forgotten.                            *)
MutShouldFinishBlock(b, key, v) ==
  /\ b.entries # <<>>
  /\ b.buf - b.baseOffset + 6 + Len(key) + EncodedSize(v) > BlockSize

(* should_finish_block: the entry would make the block too large.            *)
ShouldFinishBlock(b, key, v) ==
  /\ b.entries # <<>>
  /\ LET tail == 4 * (Len(b.entries) + 1) + 4 + 8 + 4
     IN  b.buf - b.baseOffset + 6 + Len(key) + EncodedSize(v) + tail > BlockSize

(* add *)
Add(b, key, v) ==
  LET f == FinishBlock(b)
  IN  AddHelper(IF ShouldFinishBlock(b, key, v)
                THEN [f EXCEPT !.baseKey = NoKey, !.baseOffset = f.buf, !.entries = <<>>]
                ELSE b, key, v)

(* finish: what the SST holds for its readers, the blocks and the filter.    *)
NoFilter == [k |-> 0, nbits |-> 0, bits |-> {}]

Finish(b) ==
  LET f == FinishBlock(b)
  IN  [blocks |-> f.offsets,
       filter |-> IF BloomEnabled THEN BuildFilter(f.hashes, BitsPerKey) ELSE NoFilter]

(* does_not_have *)
DoesNotHave(filter, h) == filter # NoFilter /\ ~MayContain(filter, h)

(* A table of the given entries, added one after the other.                  *)
BuildTable(added) ==
  LET after[n \in 0..Len(added)] ==
        IF n = 0 THEN NewBuilder ELSE Add(after[n - 1], added[n].key, added[n].value)
  IN  Finish(after[Len(added)])
=============================================================================
