------------------------------ MODULE ByteKeys ------------------------------
(* Keys as the bytes they are (format.rs, skiplist/src/key.rs): a user key   *)
(* followed by a timestamp of fixed length.                                  *)
EXTENDS Naturals, Sequences

CONSTANT SuffixLen    \* bytes of the timestamp: 8

ASSUME SuffixLenAssumption == SuffixLen \in Nat \ {0}

Bytes == Seq(0..255)

(* A key ends in a timestamp.                                                *)
Keys == {k \in Bytes : Len(k) >= SuffixLen}

NoKey == <<>>

UserKey(k)   == SubSeq(k, 1, Len(k) - SuffixLen)
KeySuffix(k) == SubSeq(k, Len(k) - SuffixLen + 1, Len(k))

(* Ord for byte slices: at the first difference, or the shorter one first.   *)
BytesLess(a, b) ==
  \E n \in 0..Len(a) : /\ n < Len(b)
                       /\ SubSeq(a, 1, n) = SubSeq(b, 1, n)
                       /\ n < Len(a) => a[n + 1] < b[n + 1]

(* compare_key(a, b) is Less: by user key, then by timestamp.                *)
KeyLess(a, b) ==
  IF UserKey(a) = UserKey(b) THEN BytesLess(KeySuffix(a), KeySuffix(b))
  ELSE BytesLess(UserKey(a), UserKey(b))

KeyLeq(a, b) == ~KeyLess(b, a)
=============================================================================
