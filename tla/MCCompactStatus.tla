-------------------------- MODULE MCCompactStatus --------------------------
(* Three levels of two tables.  Those of level 0 overlap, and on level 1 the *)
(* versions of user key 2 are spread over both tables.                      *)
EXTENDS CompactStatus, Integers, TLC

mcLevelOf  == [s \in 1..6 |-> (s - 1) \div 2]
mcSmallest == <<<<1, 1>>, <<2, 0>>, <<1, 0>>, <<2, 1>>, <<1, 0>>, <<3, 0>>>>
mcBiggest  == <<<<2, 1>>, <<3, 1>>, <<2, 0>>, <<3, 0>>, <<1, 1>>, <<3, 1>>>>

Symmetry == Permutations(Compactors)
=============================================================================
