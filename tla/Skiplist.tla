------------------------------ MODULE Skiplist ------------------------------
(* The concurrent skiplist of the memtable (skiplist/src/list.rs): lock-free  *)
(* put by any number of threads, wait-free readers, nodes carved out of a    *)
(* bump arena and never moved or unlinked.  One action is one atomic access  *)
(* to shared memory (a SeqCst load, store or compare-exchange) together with *)
(* the thread-local code up to the next one.                                 *)
EXTENDS Naturals, FiniteSets

CONSTANTS Writers,     \* threads that call put
          Readers,     \* threads that read; each owns one IterRef
          Keys,        \* encoded keys, as their rank under compare_key
          Vals,
          NoVal,       \* the value of a node whose Bytes were taken away
          UserKey,     \* UserKey[k]: the prefix same_key compares
          MaxHeight,   \* MAX_HEIGHT
          ArenaCap     \* nodes the arena has room for, the head included

(* A thread that both puts and reads has a part of each.                     *)
ASSUME ThreadsAssumption == Writers \cap Readers = {}
ASSUME KeysAssumption == Keys \subseteq Nat \ {0}
ASSUME ValsAssumption == NoVal \notin Vals
ASSUME HeightAssumption == MaxHeight \in Nat \ {0}
ASSUME ArenaAssumption == ArenaCap \in Nat \ {0}

(* FixedLengthSuffixComparator sorts by the prefix first, so the keys with   *)
(* the same prefix are neighbours.                                           *)
ASSUME UserKeyAssumption ==
  \A j, k, m \in Keys :
     j <= k /\ k <= m /\ UserKey[j] = UserKey[m] => UserKey[j] = UserKey[k]

VARIABLES
  arenaLen,    \* slots handed out by fetch_add, the failed ones included
  nodeKey, nodeVal, nodeHeight, tower,    \* the fields of Node, per slot
  nodeState,   \* who owns the Bytes of the node in a slot
  height,      \* SkiplistCore.height
  \* locals of put, per writer
  pc, wkey, wval, lh, lvl, before, prev, next, x, resp,
  \* locals of the read operations and the IterRef, per reader
  rpc, rkey, rlvl, cur, iter, out,
  sizeAt,      \* history: how many keys there were when a pending len began
  phase, dropAt    \* SkiplistCore::drop and its cursor

shared  == <<arenaLen, nodeKey, nodeVal, nodeHeight, tower, nodeState, height>>
writers == <<pc, wkey, wval, lh, lvl, before, prev, next, x, resp>>
readers == <<rpc, rkey, rlvl, cur, iter, out, sizeAt>>
closing == <<phase, dropAt>>
vars    == <<shared, writers, readers, closing>>

Null     == 0               \* offset 0 of the arena is the null pointer
Head     == 1               \* the slot of SkiplistCore.head
EmptyKey == 0               \* Bytes::new()
Slots    == 1..ArenaCap
Ptr      == Slots \cup {Null}
Levels   == 0..(MaxHeight - 1)
Arrays   == 0..MaxHeight    \* prev and next have MAX_HEIGHT + 1 entries

(* Mutant: the arrays have MAX_HEIGHT entries.                               *)
MutNoSplice == [i \in Levels |-> Null]

NoSplice == [i \in Arrays |-> Null]

-----------------------------------------------------------------------------
(* The nodes reachable at level i, read off the state: the head, and every    *)
(* node whose writer has already linked it there.                            *)
Linked(i) ==
  {Head} \cup
  {n \in Slots : /\ nodeState[n] \in {"live", "released"}
                 /\ i <= nodeHeight[n]
                 /\ \A t \in Writers : x[t] = n => i < lvl[t]}

Members == Linked(0) \ {Head}

Init ==
  /\ arenaLen   = 1
  /\ nodeKey    = [n \in Slots |-> EmptyKey]
  /\ nodeVal    = [n \in Slots |-> NoVal]
  /\ nodeHeight = [n \in Slots |-> IF n = Head THEN MaxHeight - 1 ELSE 0]
  /\ tower      = [n \in Slots |-> [i \in Levels |-> Null]]
  /\ nodeState  = [n \in Slots |-> IF n = Head THEN "live" ELSE "free"]
  /\ height     = 0
  /\ pc     = [t \in Writers |-> "idle"]
  /\ wkey   = [t \in Writers |-> EmptyKey]
  /\ wval   = [t \in Writers |-> NoVal]
  /\ lh     = [t \in Writers |-> 0]
  /\ lvl    = [t \in Writers |-> 0]
  /\ before = [t \in Writers |-> Null]
  /\ prev   = [t \in Writers |-> NoSplice]
  /\ next   = [t \in Writers |-> NoSplice]
  /\ x      = [t \in Writers |-> Null]
  /\ resp   = [t \in Writers |-> "none"]
  /\ rpc    = [r \in Readers |-> "idle"]
  /\ rkey   = [r \in Readers |-> EmptyKey]
  /\ rlvl   = [r \in Readers |-> 0]
  /\ cur    = [r \in Readers |-> Null]
  /\ iter   = [r \in Readers |-> Null]
  /\ out    = [r \in Readers |-> 0]
  /\ sizeAt = [r \in Readers |-> 0]
  /\ phase = "open"
  /\ dropAt = Null

-----------------------------------------------------------------------------
(* put *)

(* The call and its first load, list_height = self.height().                 *)
PutCall(t, k, v) ==
  /\ phase = "open"
  /\ pc[t] = "idle"
  /\ pc'     = [pc EXCEPT ![t] = "descend"]
  /\ wkey'   = [wkey EXCEPT ![t] = k]
  /\ wval'   = [wval EXCEPT ![t] = v]
  /\ lh'     = [lh EXCEPT ![t] = height]
  /\ lvl'    = [lvl EXCEPT ![t] = height]
  /\ before' = [before EXCEPT ![t] = Head]
  /\ prev'   = [prev EXCEPT ![t] = [NoSplice EXCEPT ![height + 1] = Head]]
  /\ next'   = [next EXCEPT ![t] = NoSplice]
  /\ resp'   = [resp EXCEPT ![t] = "none"]
  /\ UNCHANGED <<shared, x, readers, closing>>

(* put is over for t with answer a; its locals go out of scope.              *)
Return(t, p, a) ==
  /\ pc'     = [pc EXCEPT ![t] = p]
  /\ resp'   = [resp EXCEPT ![t] = a]
  /\ wkey'   = [wkey EXCEPT ![t] = EmptyKey]
  /\ wval'   = [wval EXCEPT ![t] = NoVal]
  /\ lh'     = [lh EXCEPT ![t] = 0]
  /\ lvl'    = [lvl EXCEPT ![t] = 0]
  /\ before' = [before EXCEPT ![t] = Null]
  /\ prev'   = [prev EXCEPT ![t] = NoSplice]
  /\ next'   = [next EXCEPT ![t] = NoSplice]
  /\ x'      = [x EXCEPT ![t] = Null]

(* The node the loop of find_splice_for_level loads.                         *)
Ahead(t) == tower[before[t]][lvl[t]]

SpliceMore(t)  == Ahead(t) # Null /\ nodeKey[Ahead(t)] < wkey[t]
SpliceEqual(t) == Ahead(t) # Null /\ nodeKey[Ahead(t)] = wkey[t]
SpliceStop(t)  == Ahead(t) # Null => wkey[t] < nodeKey[Ahead(t)]

(* find_splice_for_level walks on; its three call sites share the loop.      *)
SpliceAdvance(t) ==
  /\ pc[t] \in {"descend", "fresh", "retry"}
  /\ SpliceMore(t)
  /\ before' = [before EXCEPT ![t] = Ahead(t)]
  /\ UNCHANGED <<shared, pc, wkey, wval, lh, lvl, prev, next, x, resp, readers, closing>>

(* Mutant: prev is stored one level too high.                                *)
MutKeepSplice(t) ==
  /\ prev' = [prev EXCEPT ![t][lvl[t] + 1] = before[t]]
  /\ next' = [next EXCEPT ![t][lvl[t]] = Ahead(t)]

(* The splice (before, next node) of the current level is stored.            *)
KeepSplice(t) ==
  /\ prev' = [prev EXCEPT ![t][lvl[t]] = before[t]]
  /\ next' = [next EXCEPT ![t][lvl[t]] = Ahead(t)]

(* First pass: the key is already there; nothing has been allocated yet.     *)
DescendFound(t) ==
  /\ pc[t] = "descend"
  /\ SpliceEqual(t)
  /\ Return(t, "idle", IF nodeVal[Ahead(t)] # wval[t] THEN "Some" ELSE "None")
  /\ UNCHANGED <<shared, readers, closing>>

DescendEnd(t) ==
  /\ pc[t] = "descend"
  /\ SpliceStop(t)
  /\ KeepSplice(t)
  /\ \/ /\ lvl[t] > 0
        /\ lvl' = [lvl EXCEPT ![t] = @ - 1]
        /\ UNCHANGED pc
     \/ /\ lvl[t] = 0
        /\ pc' = [pc EXCEPT ![t] = "alloc"]
        /\ UNCHANGED lvl
  /\ UNCHANGED <<shared, wkey, wval, lh, before, x, resp, readers, closing>>

(* random_height and Node::alloc: the slot is private until it is linked.    *)
Alloc(t, h) ==
  /\ pc[t] = "alloc"
  /\ arenaLen < ArenaCap
  /\ LET n == arenaLen + 1
     IN  /\ arenaLen'   = n
         /\ nodeKey'    = [nodeKey EXCEPT ![n] = wkey[t]]
         /\ nodeVal'    = [nodeVal EXCEPT ![n] = wval[t]]
         /\ nodeHeight' = [nodeHeight EXCEPT ![n] = h]
         /\ tower'      = [tower EXCEPT ![n] = [i \in Levels |-> Null]]
         /\ nodeState'  = [nodeState EXCEPT ![n] = "live"]
         /\ x'          = [x EXCEPT ![t] = n]
  /\ pc' = [pc EXCEPT ![t] = IF h > lh[t] THEN "raise" ELSE "link"]
  /\ UNCHANGED <<height, wkey, wval, lh, lvl, before, prev, next, resp, readers, closing>>

(* Arena::alloc asserts after its fetch_add: the panicking put leaves the    *)
(* length advanced, and its key and value are dropped by unwinding.          *)
AllocPanic(t) ==
  /\ pc[t] = "alloc"
  /\ arenaLen >= ArenaCap
  /\ arenaLen' = arenaLen + 1
  /\ Return(t, "panicked", "panicked")
  /\ UNCHANGED <<nodeKey, nodeVal, nodeHeight, tower, nodeState, height, readers, closing>>

(* Mutant: a lost race for the list height is not run again.                 *)
MutRaiseHeight(t) ==
  /\ pc[t] = "raise"
  /\ height' = IF height = lh[t] THEN nodeHeight[x[t]] ELSE height
  /\ pc' = [pc EXCEPT ![t] = "link"]
  /\ UNCHANGED <<arenaLen, nodeKey, nodeVal, nodeHeight, tower, nodeState,
                 wkey, wval, lh, lvl, before, prev, next, x, resp, readers, closing>>

(* compare_exchange_weak on the list height.  A spurious failure leaves      *)
(* everything as it is: it is a stuttering step.                             *)
RaiseHeight(t) ==
  /\ pc[t] = "raise"
  /\ \/ /\ height = lh[t]
        /\ height' = nodeHeight[x[t]]
        /\ pc' = [pc EXCEPT ![t] = "link"]
        /\ UNCHANGED lh
     \/ /\ height # lh[t]
        /\ lh' = [lh EXCEPT ![t] = height]
        /\ pc' = [pc EXCEPT ![t] = IF nodeHeight[x[t]] > height THEN "raise" ELSE "link"]
        /\ UNCHANGED height
  /\ UNCHANGED <<arenaLen, nodeKey, nodeVal, nodeHeight, tower, nodeState,
                 wkey, wval, lvl, before, prev, next, x, resp, readers, closing>>

(* No splice is known for the level: the list grew after put loaded height.  *)
FreshSplice(t) ==
  /\ pc[t] = "link"
  /\ prev[t][lvl[t]] = Null
  /\ pc' = [pc EXCEPT ![t] = IF lvl[t] > 1 THEN "fresh" ELSE "assert_failed"]
  /\ before' = [before EXCEPT ![t] = Head]
  /\ UNCHANGED <<shared, wkey, wval, lh, lvl, prev, next, x, resp, readers, closing>>

(* find_splice_for_level returns to the linking loop.                        *)
LinkSplice(t) ==
  /\ pc[t] \in {"fresh", "retry"}
  /\ SpliceStop(t)
  /\ KeepSplice(t)
  /\ pc' = [pc EXCEPT ![t] = "link"]
  /\ UNCHANGED <<shared, wkey, wval, lh, lvl, before, x, resp, readers, closing>>

(* Mutant: the new node is published before it points anywhere.              *)
MutStoreNext(t) ==
  /\ pc[t] = "link"
  /\ prev[t][lvl[t]] # Null
  /\ pc' = [pc EXCEPT ![t] = "cas"]
  /\ UNCHANGED <<shared, wkey, wval, lh, lvl, before, prev, next, x, resp, readers, closing>>

StoreNext(t) ==
  /\ pc[t] = "link"
  /\ prev[t][lvl[t]] # Null
  /\ tower' = [tower EXCEPT ![x[t]][lvl[t]] = next[t][lvl[t]]]
  /\ pc' = [pc EXCEPT ![t] = "cas"]
  /\ UNCHANGED <<arenaLen, nodeKey, nodeVal, nodeHeight, nodeState, height,
                 wkey, wval, lh, lvl, before, prev, next, x, resp, readers, closing>>

(* prev[i] is made to point to the node, which is thereby linked at level i; *)
(* from level 0 on the key is in the map.                                    *)
LinkNode(t) ==
  LET i == lvl[t]
  IN  /\ tower' = [tower EXCEPT ![prev[t][i]][i] = x[t]]
      /\ \/ /\ i < nodeHeight[x[t]]
            /\ lvl'  = [lvl EXCEPT ![t] = i + 1]
            /\ pc'   = [pc EXCEPT ![t] = "link"]
            /\ resp' = [resp EXCEPT ![t] = "None"]
            /\ UNCHANGED <<wkey, wval, lh, before, prev, next, x>>
         \/ /\ i = nodeHeight[x[t]]
            /\ Return(t, "idle", "None")
      /\ UNCHANGED <<arenaLen, nodeKey, nodeVal, nodeHeight, nodeState, height, readers, closing>>

(* The compare-exchange finds the pointer that put expects.                  *)
CasLink(t) ==
  /\ pc[t] = "cas"
  /\ tower[prev[t][lvl[t]]][lvl[t]] = next[t][lvl[t]]
  /\ LinkNode(t)

(* Mutant: a failed compare-exchange is tried again with the old splice.     *)
MutCasFail(t) ==
  /\ pc[t] = "cas"
  /\ tower[prev[t][lvl[t]]][lvl[t]] # next[t][lvl[t]]
  /\ pc' = [pc EXCEPT ![t] = "link"]
  /\ UNCHANGED <<shared, wkey, wval, lh, lvl, before, prev, next, x, resp, readers, closing>>

CasFail(t) ==
  /\ pc[t] = "cas"
  /\ tower[prev[t][lvl[t]]][lvl[t]] # next[t][lvl[t]]
  /\ before' = [before EXCEPT ![t] = prev[t][lvl[t]]]
  /\ pc' = [pc EXCEPT ![t] = "retry"]
  /\ UNCHANGED <<shared, wkey, wval, lh, lvl, prev, next, x, resp, readers, closing>>

(* Mutant: the node of a put that came second is not dropped.                *)
MutLinkFound(t) ==
  /\ pc[t] \in {"fresh", "retry"}
  /\ SpliceEqual(t)
  /\ lvl[t] = 0
  /\ Return(t, "idle", IF nodeVal[Ahead(t)] # nodeVal[x[t]] THEN "Some" ELSE "None")
  /\ UNCHANGED <<shared, readers, closing>>

(* The splice search of the linking loop meets the key itself.  Above level  *)
(* 0 this fails assert_ne!(p, n) or assert_eq!(i, 0).  At level 0 another put *)
(* was first, and the private node is abandoned in the arena: its Bytes go   *)
(* back to the caller, or are dropped when the values are equal.             *)
LinkFound(t) ==
  /\ pc[t] \in {"fresh", "retry"}
  /\ SpliceEqual(t)
  /\ \/ /\ lvl[t] > 0
        /\ pc' = [pc EXCEPT ![t] = "assert_failed"]
        /\ UNCHANGED <<shared, wkey, wval, lh, lvl, before, prev, next, x, resp>>
     \/ /\ lvl[t] = 0
        /\ nodeVal[Ahead(t)] # nodeVal[x[t]]
        /\ nodeKey'   = [nodeKey EXCEPT ![x[t]] = EmptyKey]
        /\ nodeVal'   = [nodeVal EXCEPT ![x[t]] = NoVal]
        /\ nodeState' = [nodeState EXCEPT ![x[t]] = "taken"]
        /\ Return(t, "idle", "Some")
        /\ UNCHANGED <<arenaLen, nodeHeight, tower, height>>
     \/ /\ lvl[t] = 0
        /\ nodeVal[Ahead(t)] = nodeVal[x[t]]
        /\ nodeState' = [nodeState EXCEPT ![x[t]] = "dropped"]
        /\ Return(t, "idle", "None")
        /\ UNCHANGED <<arenaLen, nodeKey, nodeVal, nodeHeight, tower, height>>
  /\ UNCHANGED <<readers, closing>>

PutStep(t) ==
  \/ SpliceAdvance(t) \/ DescendFound(t) \/ DescendEnd(t)
  \/ \E h \in Levels : Alloc(t, h)
  \/ AllocPanic(t) \/ RaiseHeight(t)
  \/ FreshSplice(t) \/ LinkSplice(t) \/ LinkFound(t)
  \/ StoreNext(t) \/ CasLink(t) \/ CasFail(t)

-----------------------------------------------------------------------------
(* The read operations and IterRef *)

(* The flags find_near is called with, by operation.  find_after is the call *)
(* of the crate's own tests; the others are get_with_key and IterRef's.       *)
Less       == {"seek_for_prev", "prev"}
MutAllowEqual == {"get", "seek"}    \* mutant: seek_for_prev stops short of an equal key

AllowEqual == {"get", "seek", "seek_for_prev"}
KeyedOps   == {"get", "find_after", "seek", "seek_for_prev"}
FindNear   == KeyedOps \cup {"prev"}

(* The call, with the load of the list height where there is one.            *)
ReadCall(r, op, k) ==
  /\ phase = "open"
  /\ rpc[r] = "idle"
  /\ rpc'  = [rpc EXCEPT ![r] = op]
  /\ rkey' = [rkey EXCEPT ![r] = k]
  /\ rlvl' = [rlvl EXCEPT ![r] = IF op \in FindNear \cup {"seek_to_last"} THEN height ELSE 0]
  /\ cur'  = [cur EXCEPT ![r] = IF op = "next" THEN iter[r] ELSE Head]
  /\ out'  = [out EXCEPT ![r] = 0]
  /\ sizeAt' = [sizeAt EXCEPT ![r] = IF op = "len" THEN Cardinality(Members) ELSE 0]
  /\ UNCHANGED <<shared, writers, iter, closing>>

(* prev and next assert that the iterator is valid: its users only call them *)
(* then.  prev searches for the key under the cursor.                        *)
StartRead(r) ==
  \/ \E op \in KeyedOps, k \in Keys : ReadCall(r, op, k)
  \/ \E op \in {"len", "is_empty", "seek_to_first", "seek_to_last"} : ReadCall(r, op, EmptyKey)
  \/ iter[r] # Null /\ ReadCall(r, "prev", nodeKey[iter[r]])
  \/ iter[r] # Null /\ ReadCall(r, "next", EmptyKey)

ReadReturn(r, a) ==
  /\ rpc'  = [rpc EXCEPT ![r] = "idle"]
  /\ rkey' = [rkey EXCEPT ![r] = EmptyKey]
  /\ rlvl' = [rlvl EXCEPT ![r] = 0]
  /\ cur'  = [cur EXCEPT ![r] = Null]
  /\ out'  = [out EXCEPT ![r] = a]
  /\ sizeAt' = [sizeAt EXCEPT ![r] = 0]

KeyAt(n) == IF n = Null THEN EmptyKey ELSE nodeKey[n]

(* A search ends at node n: get_with_key checks the user key, find_after     *)
(* hands the node to the caller and the others move the iterator.            *)
Found(r, n) ==
  IF rpc[r] \in {"get", "find_after", "find_after_equal"}
  THEN /\ ReadReturn(r, IF rpc[r] = "get" /\ n # Null /\ UserKey[nodeKey[n]] # UserKey[rkey[r]]
                        THEN EmptyKey ELSE KeyAt(n))
       /\ UNCHANGED iter
  ELSE ReadReturn(r, KeyAt(n)) /\ iter' = [iter EXCEPT ![r] = n]

(* The pointer the next load of reader r returns.                            *)
Loaded(r) == tower[cur[r]][rlvl[r]]

NotHead(n) == IF n = Head THEN Null ELSE n

(* One turn of the loop of find_near, with one load.                         *)
FindNearStep(r) ==
  LET n       == Loaded(r)
      less    == rpc[r] \in Less
      greater == n # Null /\ nodeKey[n] < rkey[r]
      equal   == n # Null /\ nodeKey[n] = rkey[r]
      allow   == rpc[r] \in AllowEqual
      down    == ~greater /\ (equal => ~allow /\ less)
  IN  /\ rpc[r] \in FindNear
      /\ \/ /\ greater
            /\ cur' = [cur EXCEPT ![r] = n]
            /\ UNCHANGED <<rpc, rkey, rlvl, iter, out, sizeAt>>
         \/ equal /\ allow /\ Found(r, n)
         \/ /\ equal /\ ~allow /\ ~less
            /\ rpc'  = [rpc EXCEPT ![r] = "find_after_equal"]
            /\ rlvl' = [rlvl EXCEPT ![r] = 0]
            /\ cur'  = [cur EXCEPT ![r] = n]
            /\ UNCHANGED <<rkey, iter, out, sizeAt>>
         \/ /\ down /\ rlvl[r] > 0
            /\ rlvl' = [rlvl EXCEPT ![r] = @ - 1]
            /\ UNCHANGED <<rpc, rkey, cur, iter, out, sizeAt>>
         \/ down /\ rlvl[r] = 0 /\ Found(r, IF less THEN NotHead(cur[r]) ELSE n)
      /\ UNCHANGED <<shared, writers, closing>>

(* Operations that end with the very next load: the successor of an equal    *)
(* key in find_near, IterRef::next and IterRef::seek_to_first.               *)
LoadNext(r) ==
  /\ rpc[r] \in {"find_after_equal", "next", "seek_to_first"}
  /\ Found(r, Loaded(r))
  /\ UNCHANGED <<shared, writers, closing>>

(* Mutant: find_last does not go down a level.                               *)
MutFindLastStep(r) ==
  /\ rpc[r] = "seek_to_last"
  /\ \/ /\ Loaded(r) # Null
        /\ cur' = [cur EXCEPT ![r] = Loaded(r)]
        /\ UNCHANGED <<rpc, rkey, rlvl, iter, out, sizeAt>>
     \/ Loaded(r) = Null /\ rlvl[r] = 0 /\ Found(r, NotHead(cur[r]))
  /\ UNCHANGED <<shared, writers, closing>>

FindLastStep(r) ==
  /\ rpc[r] = "seek_to_last"
  /\ \/ /\ Loaded(r) # Null
        /\ cur' = [cur EXCEPT ![r] = Loaded(r)]
        /\ UNCHANGED <<rpc, rkey, rlvl, iter, out, sizeAt>>
     \/ /\ Loaded(r) = Null /\ rlvl[r] > 0
        /\ rlvl' = [rlvl EXCEPT ![r] = @ - 1]
        /\ UNCHANGED <<rpc, rkey, cur, iter, out, sizeAt>>
     \/ Loaded(r) = Null /\ rlvl[r] = 0 /\ Found(r, NotHead(cur[r]))
  /\ UNCHANGED <<shared, writers, closing>>

LenStep(r) ==
  /\ rpc[r] = "len"
  /\ \/ /\ Loaded(r) # Null
        /\ out' = [out EXCEPT ![r] = @ + 1]
        /\ cur' = [cur EXCEPT ![r] = Loaded(r)]
        /\ UNCHANGED <<rpc, rkey, rlvl, sizeAt>>
     \/ Loaded(r) = Null /\ ReadReturn(r, out[r])
  /\ UNCHANGED <<shared, writers, iter, closing>>

IsEmptyStep(r) ==
  /\ rpc[r] = "is_empty"
  /\ ReadReturn(r, IF Loaded(r) = Null THEN 1 ELSE 0)
  /\ UNCHANGED <<shared, writers, iter, closing>>

ReadStep(r) ==
  FindNearStep(r) \/ LoadNext(r) \/ FindLastStep(r) \/ LenStep(r) \/ IsEmptyStep(r)

-----------------------------------------------------------------------------
(* SkiplistCore::drop: the last Arc goes away, so no operation is running    *)
(* and every iterator, which holds a handle or a borrow, is gone.            *)
DropCall ==
  /\ phase = "open"
  /\ \A t \in Writers : pc[t] \in {"idle", "panicked"}
  /\ \A r \in Readers : rpc[r] = "idle"
  /\ phase' = "dropping"
  /\ dropAt' = Head
  /\ iter' = [r \in Readers |-> Null]
  /\ UNCHANGED <<shared, writers, rpc, rkey, rlvl, cur, out, sizeAt>>

(* drop_in_place on the node under the cursor, after its successor is read.  *)
(* Dropping Bytes that are no longer in the node would free them twice.      *)
DropStep ==
  /\ phase = "dropping"
  /\ nodeState' = [nodeState EXCEPT ![dropAt] = IF @ = "live" THEN "released" ELSE "dropped_twice"]
  /\ dropAt' = tower[dropAt][0]
  /\ phase' = IF tower[dropAt][0] = Null THEN "closed" ELSE "dropping"
  /\ UNCHANGED <<arenaLen, nodeKey, nodeVal, nodeHeight, tower, height, writers, readers>>

-----------------------------------------------------------------------------
Next ==
  \/ \E t \in Writers : \E k \in Keys, v \in Vals : PutCall(t, k, v)
  \/ \E t \in Writers : PutStep(t)
  \/ \E r \in Readers : StartRead(r)
  \/ \E r \in Readers : ReadStep(r)
  \/ DropCall
  \/ DropStep

Spec == Init /\ [][Next]_vars

(* A thread in the middle of an operation keeps running; nobody is obliged   *)
(* to start one.                                                             *)
Fairness ==
  /\ \A t \in Writers : WF_vars(PutStep(t))
  /\ \A r \in Readers : WF_vars(ReadStep(r))
  /\ WF_vars(DropStep)

FairSpec == Spec /\ Fairness

-----------------------------------------------------------------------------
(* Type invariant: of the shared memory, of put's locals, of the readers'.   *)
TypeShared ==
  /\ arenaLen \in Nat
  /\ nodeKey \in [Slots -> Keys \cup {EmptyKey}]
  /\ nodeVal \in [Slots -> Vals \cup {NoVal}]
  /\ nodeHeight \in [Slots -> Levels]
  /\ tower \in [Slots -> [Levels -> Ptr]]
  /\ nodeState \in [Slots -> {"free", "live", "taken", "dropped", "released", "dropped_twice"}]
  /\ height \in Levels
  /\ phase \in {"open", "dropping", "closed"}
  /\ dropAt \in Ptr

TypeWriters ==
  /\ pc \in [Writers -> {"idle", "descend", "alloc", "raise", "link", "fresh", "cas",
                         "retry", "panicked", "assert_failed"}]
  /\ wkey \in [Writers -> Keys \cup {EmptyKey}]
  /\ wval \in [Writers -> Vals \cup {NoVal}]
  /\ lh \in [Writers -> Levels]
  /\ lvl \in [Writers -> Levels]
  /\ before \in [Writers -> Ptr]
  /\ prev \in [Writers -> [Arrays -> Ptr]]
  /\ next \in [Writers -> [Arrays -> Ptr]]
  /\ x \in [Writers -> Ptr]
  /\ resp \in [Writers -> {"none", "None", "Some", "panicked"}]

TypeReaders ==
  /\ rpc \in [Readers -> {"idle", "find_after_equal", "len", "is_empty", "next",
                          "seek_to_first", "seek_to_last"} \cup FindNear]
  /\ rkey \in [Readers -> Keys \cup {EmptyKey}]
  /\ rlvl \in [Readers -> Levels]
  /\ cur \in [Readers -> Ptr]
  /\ iter \in [Readers -> Ptr]
  /\ out \in [Readers -> Nat]
  /\ sizeAt \in [Readers -> Nat]

TypeOK == TypeShared /\ TypeWriters /\ TypeReaders

(* The assertions of put (lines 205, 210 and 224) hold however the puts of   *)
(* the writers interleave: no level 0 or 1 is ever without a splice, and a   *)
(* key is never met again above level 0.                                     *)
AssertionsHold == \A t \in Writers : pc[t] # "assert_failed"

(* At every level a linked node points to a linked node with a larger key,   *)
(* or to nothing.                                                            *)
ChainSorted(i) ==
  \A n \in Linked(i) :
     tower[n][i] # Null => /\ tower[n][i] \in Linked(i) \ {Head}
                           /\ nodeKey[n] < nodeKey[tower[n][i]]

(* A linked node is never jumped over: no two concurrent puts at the same    *)
(* place lose one of their nodes, and no key is in the list twice.           *)
ChainComplete(i) ==
  \A n, y \in Linked(i) :
     /\ n # y => nodeKey[n] # nodeKey[y]
     /\ nodeKey[n] < nodeKey[y] =>
          tower[n][i] # Null /\ nodeKey[tower[n][i]] <= nodeKey[y]

(* Every level is a sorted chain of exactly the nodes linked at it, and a    *)
(* search that starts at the loaded height sees every level in use.          *)
ListWellFormed ==
  \A i \in Levels : /\ ChainSorted(i)
                    /\ ChainComplete(i)
                    /\ Linked(i) # {Head} => i <= height

(* Each pair of Bytes put into a node has one owner: what put gave back or   *)
(* dropped is not dropped again with the list, and nothing is left behind.   *)
DroppedOnce ==
  /\ \A n \in Slots : nodeState[n] # "dropped_twice"
  /\ phase = "closed" => \A n \in Slots : nodeState[n] # "live"

(* What is linked stays linked, with its key, value and height, and a next   *)
(* pointer only ever changes to a newly linked node in front of the old one:  *)
(* a reader standing on any node can always walk on.                         *)
InsertOnly ==
  [][\A i \in Levels : \A n \in Linked(i) :
        /\ n \in Linked(i)'
        /\ nodeKey'[n] = nodeKey[n] /\ nodeVal'[n] = nodeVal[n]
        /\ tower'[n][i] # tower[n][i] =>
             /\ tower'[n][i] \in Linked(i)' \ Linked(i)
             /\ tower'[tower'[n][i]][i] = tower[n][i]]_vars

(* Every put returns or panics, every read returns: retries are bounded      *)
(* because a failed compare-exchange means that another node was linked, and *)
(* the arena is finite.                                                      *)
PutReturns  == \A t \in Writers : pc[t] # "idle" ~> pc[t] \in {"idle", "panicked"}
ReadReturns == \A r \in Readers : rpc[r] # "idle" ~> rpc[r] = "idle"

-----------------------------------------------------------------------------
(* What the properties above rest on: the inductive invariant of the proofs. *)
Linking(t) == pc[t] \in {"raise", "link", "fresh", "cas", "retry"}

(* The slots up to the arena's length are in use; the head is never touched. *)
ArenaInv ==
  /\ arenaLen >= 1
  /\ \A n \in Slots : nodeState[n] = "free" <=> n > arenaLen
  /\ nodeState[Head] \in {"live", "released"}
  /\ nodeKey[Head] = EmptyKey
  /\ nodeHeight[Head] = MaxHeight - 1
  /\ \A n \in Slots \ {Head} : nodeState[n] \in {"live", "released"} => nodeKey[n] \in Keys

(* A node that is not linked at all its levels yet belongs to one writer.    *)
OwnerInv ==
  \A t \in Writers :
     /\ Linking(t) => x[t] # Null
     /\ x[t] # Null => /\ Linking(t)
                       /\ x[t] # Head
                       /\ nodeState[x[t]] = "live"
                       /\ nodeKey[x[t]] = wkey[t]
                       /\ lvl[t] <= nodeHeight[x[t]]
                       /\ \A u \in Writers : x[u] = x[t] => u = t

(* The splices of a put stay around its key while other puts go on: nodes    *)
(* are never unlinked, so a stale prev is still a node to start from.        *)
SpliceInv ==
  \A t \in Writers :
     /\ pc[t] \notin {"idle", "panicked"} => wkey[t] \in Keys
     /\ \A i \in Levels :
          /\ prev[t][i] # Null => prev[t][i] \in Linked(i) /\ nodeKey[prev[t][i]] < wkey[t]
          /\ next[t][i] # Null => next[t][i] \in Linked(i) /\ wkey[t] < nodeKey[next[t][i]]
          /\ pc[t] \in {"descend", "fresh", "retry"} /\ i = lvl[t] =>
               before[t] \in Linked(i) /\ nodeKey[before[t]] < wkey[t]

(* Where a put is, and which of its splices are known by then.               *)
ProgressInv ==
  \A t \in Writers :
     /\ lh[t] <= height
     /\ pc[t] # "assert_failed"
     /\ pc[t] = "descend" => /\ lvl[t] <= lh[t]
                             /\ \A i \in Arrays : lvl[t] < i /\ i <= lh[t] + 1 => prev[t][i] # Null
     /\ pc[t] \in {"alloc", "raise"} => lvl[t] = 0
     /\ pc[t] = "alloc" \/ Linking(t) => \A i \in Arrays : i <= 1 => prev[t][i] # Null
     /\ pc[t] = "raise" => lh[t] < nodeHeight[x[t]]
     /\ pc[t] \in {"link", "fresh", "cas", "retry"} => nodeHeight[x[t]] <= height
     /\ pc[t] = "fresh" => lvl[t] > 1
     /\ pc[t] = "cas" => prev[t][lvl[t]] # Null /\ tower[x[t]][lvl[t]] = next[t][lvl[t]]

(* SkiplistCore::drop has released exactly the nodes before its cursor.      *)
DropInv ==
  /\ phase = "open" => \A n \in Slots : nodeState[n] # "released"
  /\ phase # "open" => \A t \in Writers : pc[t] \in {"idle", "panicked"}
  /\ phase = "dropping" =>
       /\ dropAt \in Linked(0)
       /\ \A n \in Linked(0) : nodeState[n] = "live" <=> nodeKey[dropAt] <= nodeKey[n]
  /\ phase = "closed" => \A n \in Linked(0) : nodeState[n] = "released"
  /\ \A n \in Slots : nodeState[n] # "dropped_twice"

(* A reader that is under way stands on a node.                              *)
ReaderInv == \A r \in Readers : rpc[r] # "idle" => cur[r] # Null

WriterInv == /\ TypeShared /\ TypeWriters
             /\ ArenaInv /\ OwnerInv /\ SpliceInv /\ ProgressInv /\ DropInv /\ ListWellFormed

IInv == WriterInv /\ TypeReaders /\ ReaderInv

-----------------------------------------------------------------------------
(* The abstract map the list implements.  A put takes effect when its node   *)
(* is linked at level 0, or when it loads the pointer to an equal key; a     *)
(* read takes effect at its last load.                                       *)
OpName(r) == IF rpc[r] = "find_after_equal" THEN "find_after" ELSE rpc[r]

Pending(t) ==
  IF t \in Writers
  THEN IF pc[t] \in {"idle", "panicked"} \/ resp[t] = "None"
       THEN [op |-> "none", key |-> 0, val |-> NoVal]
       ELSE [op |-> "put", key |-> wkey[t], val |-> wval[t]]
  ELSE IF rpc[t] = "idle"
       THEN [op |-> "none", key |-> 0, val |-> NoVal]
       ELSE [op |-> OpName(t), key |-> IF rpc[t] = "prev" THEN 0 ELSE rkey[t], val |-> NoVal]

Content   == {<<nodeKey[n], nodeVal[n]>> : n \in Members}
Requests  == [t \in Writers \cup Readers |-> Pending(t)]
Answers   == [r \in Readers |-> IF rpc[r] = "idle" THEN out[r] ELSE 0]
Positions == [r \in Readers |-> KeyAt(iter[r])]

Map == INSTANCE OrderedMap WITH
  content <- Content, req <- Requests, out <- Answers, pos <- Positions

(* The list is a linearizable insert-only ordered map: get, the iterator's   *)
(* moves, is_empty and len answer with what the map held at one instant of   *)
(* the call, whatever the writers are doing.                                 *)
Linearizable == Map!Spec
=============================================================================
