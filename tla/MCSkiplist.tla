----------------------------- MODULE MCSkiplist -----------------------------
(* Instances of the skiplist for TLC.                                        *)
EXTENDS Skiplist

(* Keys 1 and 2 are two versions of one user key, key 3 is another one.      *)
mcUserKey == [k \in Keys |-> (k + 1) \div 2]
=============================================================================
