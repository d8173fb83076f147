-------------------------- MODULE MCConcatIterator --------------------------
(* Levels of no, one, two and three tables with one or two blocks each; a    *)
(* Long value leaves no room for another entry in its block.                 *)
EXTENDS ConcatIterator

entry(k, v) == [key |-> k, value |-> [meta |-> 0, userMeta |-> 0, expiresAt |-> 0, value |-> v]]
short(k) == entry(k, <<>>)
long(k)  == entry(k, [i \in 1..28 |-> i])

A == <<1, 1, 5>>
B == <<1, 1, 7>>
C == <<1, 1, 5, 3>>
D == <<1, 2, 5>>
E == <<2, 5>>

mcLevels == {<<>>,
             << <<short(A), short(B)>> >>,
             << <<short(A), short(B), long(C)>>, <<long(D), short(E)>> >>,
             << <<long(A), short(B)>>, <<short(C)>>, <<short(D), short(E)>> >>,
             << <<long(A), long(B), long(C)>>, <<long(D), long(E)>> >>}

mcWanted == {A, B, C, D, E, <<1, 9>>, <<1, 1, 6>>, <<1, 1, 6, 0>>, <<1, 3, 1>>, <<3, 0>>}

mcFingerprint == [s \in {A, B, C, D, E} \cup {UserKey(k) : k \in {A, B, C, D, E}} |-> 0]
=============================================================================
