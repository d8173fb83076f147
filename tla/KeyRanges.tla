----------------------------- MODULE KeyRanges -----------------------------
(* Versioned keys (format.rs) and ranges of them (levels/compaction.rs).     *)
EXTENDS Naturals

CONSTANTS MaxUserKey,   \* the user keys are 1..MaxUserKey: their ranks in byte order
          MaxTs         \* u64::MAX

ASSUME MaxUserKeyAssumption == MaxUserKey \in Nat
ASSUME MaxTsAssumption == MaxTs \in Nat

UserKeys   == 1..MaxUserKey
Timestamps == 0..MaxTs

(* An encoded key is the user key followed by the 8 bytes of u64::MAX - ts   *)
(* in big-endian order: the second component is that complement, and the    *)
(* newest version of a user key sorts first.                                *)
EncodedKeys == UserKeys \X Timestamps

KeyWithTs(u, ts)  == <<u, MaxTs - ts>>
KeyWithTsFirst(u) == KeyWithTs(u, MaxTs)
KeyWithTsLast(u)  == KeyWithTs(u, 0)
UserKeyOf(k)      == k[1]

(* compare_key(a, b) is Less: by prefix, then by the fixed-length suffix.   *)
KeyLess(a, b) == \/ a[1] < b[1]
                 \/ a[1] = b[1] /\ a[2] < b[2]

-----------------------------------------------------------------------------
(* KeyRange: Range { left, right }, Inf and Empty.                          *)
NoKey       == <<0, 0>>
Between(l, r) == [kind |-> "range", left |-> l,     right |-> r]
Inf         == [kind |-> "inf",   left |-> NoKey, right |-> NoKey]
Empty       == [kind |-> "empty", left |-> NoKey, right |-> NoKey]

IsEmpty(a) == a.kind = "empty"
IsInf(a)   == a.kind = "inf"

(* KeyRange::new asserts that the left end is not after the right one.      *)
KeyRanges ==
  {Inf, Empty} \cup
  {Between(k[1], k[2]) : k \in {p \in EncodedKeys \X EncodedKeys : ~KeyLess(p[2], p[1])}}

(* Mutant: an empty range overlaps with nothing.                            *)
MutOverlapsWith(a, b) ==
  /\ ~IsEmpty(a) /\ ~IsEmpty(b)
  /\ \/ IsInf(a)
     \/ IsInf(b)
     \/ ~KeyLess(b.right, a.left) /\ ~KeyLess(a.right, b.left)

(* a.overlaps_with(b) is not symmetric: an empty range overlaps with every  *)
(* range, and no other range overlaps with an empty one.                    *)
OverlapsWith(a, b) ==
  \/ IsEmpty(a)
  \/ /\ ~IsEmpty(b)
     /\ \/ IsInf(a)
        \/ IsInf(b)
        \/ ~KeyLess(b.right, a.left) /\ ~KeyLess(a.right, b.left)

(* a.extend(b) *)
Extend(a, b) ==
  IF IsEmpty(b) THEN a
  ELSE IF IsEmpty(a) THEN b
  ELSE IF IsInf(a) \/ IsInf(b) THEN Inf
  ELSE Between(IF KeyLess(b.left, a.left) THEN b.left ELSE a.left,
             IF KeyLess(a.right, b.right) THEN b.right ELSE a.right)
=============================================================================
