-------------------------- MODULE MCTableIterator --------------------------
(* Tables of up to six keys: two versions of a user key, two of one that     *)
(* goes on where the first has its timestamp, one that shares a byte and one *)
(* that shares none.  Timestamps have one byte; a Long value fills a block.  *)
EXTENDS TableIterator, TLC

val(meta, exp, v) == [meta |-> meta, userMeta |-> 0, expiresAt |-> exp, value |-> v]
Short == val(1, 0, <<>>)
Long  == val(0, 0, [i \in 1..28 |-> i])
Expiring == val(0, 384, <<7>>)

mcValues == (<<1, 1, 5>>    :> {Short, Long} @@ <<1, 1, 7>>    :> {Short, Long} @@
             <<1, 1, 5, 3>> :> {Short}       @@ <<1, 1, 5, 9>> :> {Short, Long} @@
             <<1, 2, 5>>    :> {Expiring}    @@ <<2, 5>>       :> {Short})

mcUniverse == DOMAIN mcValues
mcWanted   == mcUniverse \cup {<<1, 9>>, <<3, 0>>}

mcFingerprint == [s \in mcUniverse \cup {UserKey(k) : k \in mcUniverse} |->
                    (s[1] * 89 + s[Len(s)] * 37 + Len(s) * 151) % WordSize]
=============================================================================
