------------------------------- MODULE Bloom -------------------------------
(* The Bloom filter of an SST (bloom.rs) over 32-bit hashes.                 *)
EXTENDS Naturals, Sequences

CONSTANTS WordSize,   \* 2^32: the hashes are 0..(WordSize - 1)
          Rot,        \* 2^17: the rotation of a hash is by 17 bits
          MinBits     \* 64: the least size of a filter

ASSUME WordAssumption == /\ Rot \in Nat \ {0} /\ MinBits \in Nat \ {0}
                         /\ WordSize \in Nat /\ WordSize % Rot = 0 /\ WordSize > Rot

(* (h >> 17) | (h << 15): the rotation of h.                                 *)
Delta(h) == h \div Rot + (h % Rot) * (WordSize \div Rot)

(* h after i turns of the loop; wrapping_add.                                *)
Hash(h, i) == (h + i * Delta(h)) % WordSize

(* 0.69 * bits_per_key, limited to [1, 30].                                  *)
NumProbes(bitsPerKey) ==
  LET k == (69 * bitsPerKey) \div 100 IN IF k > 30 THEN 30 ELSE IF k < 1 THEN 1 ELSE k

(* A whole number of bytes, and at least MinBits.                            *)
NumBits(n, bitsPerKey) ==
  LET bits == IF n * bitsPerKey > MinBits THEN n * bitsPerKey ELSE MinBits
  IN  8 * ((bits + 7) \div 8)

(* build_from_key_hashes: the filter is its size, the bits that are set, and *)
(* k in its last byte.                                                       *)
BuildFilter(hashes, bitsPerKey) ==
  LET k     == NumProbes(bitsPerKey)
      nbits == NumBits(Len(hashes), bitsPerKey)
  IN  [k |-> k, nbits |-> nbits,
       bits |-> UNION {{Hash(hashes[i], p) % nbits : p \in 0..(k - 1)} : i \in DOMAIN hashes}]

(* may_contain; nbits is cast to u32 here.                                   *)
MayContain(f, h) ==
  f.k > 30 \/ \A p \in 0..(f.k - 1) : Hash(h, p) % (f.nbits % WordSize) \in f.bits
=============================================================================
