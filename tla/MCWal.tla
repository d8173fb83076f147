------------------------------- MODULE MCWal -------------------------------
(* Four entries: a short one, one that just fits the flush threshold, one    *)
(* that does not, with a key that is too long to be read, and a short one    *)
(* with an empty key.                                                        *)
EXTENDS Wal

CONSTANTS a, b, c, d

mcSize == [e \in Entries |-> CASE e = a -> 1 [] e = b -> 2 [] e = c -> 3 [] e = d -> 1]
=============================================================================
