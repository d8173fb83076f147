----------------------------- MODULE MCSstFile -----------------------------
(* SstFile with interchangeable files and tables.  The contents of a file    *)
(* that nobody can reach are overwritten before they are read.               *)
EXTENDS SstFile, TLC

(* No entries; more entries than fit; another length that fits; one that is  *)
(* longer than the block.                                                    *)
MCOtherFields == {<<SumLen, 0>>, <<SumLen, 2>>, <<2 * SumLen, Count>>, <<BlockLen + 1, Count>>}

(* Nor does it matter when damage came to a table that does not verify when  *)
(* it is opened, nor whether a table in memory is marked.                    *)
View ==
  <<dir, making, level, fate, amiss,
    [f \in Files |-> IF Unused(f) THEN Unwritten ELSE file[f]],
    [t \in Tables |-> [table[t] EXCEPT !.late = @ /\ table[t].mode = "OnTableRead",
                                      !.save = @ /\ table[t].path # None]]>>

Symmetry == Permutations(Files) \cup Permutations(Tables)
=============================================================================
