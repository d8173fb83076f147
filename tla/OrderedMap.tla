----------------------------- MODULE OrderedMap -----------------------------
(* What agatedb's skiplist promises its callers: a linearizable, insert-only *)
(* ordered map.  Every operation takes effect at one instant between its call *)
(* and its return.  A key that is present is never overwritten: put returns   *)
(* the rejected pair (Some) when the stored value differs.                    *)
EXTENDS Naturals, FiniteSets

CONSTANTS Writers,    \* threads that call put
          Readers,    \* threads that read, each owning one iterator
          Keys,       \* ranks of the encoded keys under the comparator
          Vals,
          NoVal,      \* stands for "no value"
          UserKey     \* the part of the key that same_key compares

VARIABLES content,    \* the set of <<key, value>> pairs in the map
          req,        \* the operation a thread is waiting for
          resp,       \* how the last put of a writer ended
          out,        \* what the last operation of a reader answered
          pos,        \* key the reader's iterator is at, 0 when not valid
          sizeAt      \* size of the map when a pending len was called

vars == <<content, req, resp, out, pos, sizeAt>>

Threads == Writers \cup Readers

Idle    == [op |-> "none", key |-> 0, val |-> NoVal]

Request(o, k, v) == [op |-> o, key |-> k, val |-> v]

Present == {e[1] : e \in content}

(* The smallest or the largest member of a set of keys, 0 when it is empty.  *)
Least(S)    == IF S = {} THEN 0 ELSE CHOOSE k \in S : \A m \in S : k <= m
Greatest(S) == IF S = {} THEN 0 ELSE CHOOSE k \in S : \A m \in S : k >= m

AtOrAfter(k)  == Least({m \in Present : m >= k})
After(k)      == Least({m \in Present : m > k})
AtOrBefore(k) == Greatest({m \in Present : m <= k})
Before(k)     == Greatest({m \in Present : m < k})

(* get finds the first key at or after the wanted one, and accepts it when   *)
(* only the version suffix differs.                                          *)
Lookup(k) == LET m == AtOrAfter(k)
             IN  IF m # 0 /\ UserKey[m] = UserKey[k] THEN m ELSE 0

Init ==
  /\ content = {}
  /\ req    = [t \in Threads |-> Idle]
  /\ resp   = [t \in Writers |-> "none"]
  /\ out    = [r \in Readers |-> 0]
  /\ pos    = [r \in Readers |-> 0]
  /\ sizeAt = [r \in Readers |-> 0]

Call(t, o, k, v) ==
  /\ req[t] = Idle
  /\ req' = [req EXCEPT ![t] = Request(o, k, v)]
  /\ UNCHANGED <<content, pos>>

CallPut(t, k, v) ==
  /\ resp[t] # "panicked"
  /\ Call(t, "put", k, v)
  /\ resp' = [resp EXCEPT ![t] = "none"]
  /\ UNCHANGED <<out, sizeAt>>

CallRead(r, o, k) ==
  /\ Call(r, o, k, NoVal)
  /\ out' = [out EXCEPT ![r] = 0]
  /\ sizeAt' = [sizeAt EXCEPT ![r] = IF o = "len" THEN Cardinality(content) ELSE 0]
  /\ UNCHANGED resp

(* The instant a pending put takes effect and its answer is fixed.           *)
Answer(t, a) ==
  /\ req'  = [req EXCEPT ![t] = Idle]
  /\ resp' = [resp EXCEPT ![t] = a]
  /\ UNCHANGED <<out, pos, sizeAt>>

Put(t) ==
  /\ req[t].op = "put"
  /\ LET e == <<req[t].key, req[t].val>>
     IN  \/ /\ e[1] \notin Present
            /\ content' = content \cup {e}
            /\ Answer(t, "None")
         \/ /\ e[1] \in Present
            /\ content' = content
            /\ Answer(t, IF e \in content THEN "None" ELSE "Some")

(* The arena has no room: put panics and the map is as it was.               *)
PutPanics(t) ==
  /\ req[t].op = "put"
  /\ Answer(t, "panicked")
  /\ UNCHANGED content

(* A pending operation o of reader r takes effect with answer a.             *)
Observe(r, o, a) ==
  /\ req[r].op = o
  /\ req'    = [req EXCEPT ![r] = Idle]
  /\ out'    = [out EXCEPT ![r] = a]
  /\ sizeAt' = [sizeAt EXCEPT ![r] = 0]
  /\ UNCHANGED <<content, resp>>

Get(r)     == Observe(r, "get", Lookup(req[r].key)) /\ UNCHANGED pos
FindAfter(r) == Observe(r, "find_after", After(req[r].key)) /\ UNCHANGED pos
IsEmpty(r) == Observe(r, "is_empty", IF content = {} THEN 1 ELSE 0) /\ UNCHANGED pos

(* len walks the list, so it may count some of the keys that are added while *)
(* it runs: never fewer than there were, never more than there are.          *)
Len(r) == /\ \E n \in sizeAt[r]..Cardinality(content) : Observe(r, "len", n)
          /\ UNCHANGED pos

Move(r, o, k) == Observe(r, o, k) /\ pos' = [pos EXCEPT ![r] = k]

Iterate(r) ==
  \/ Move(r, "seek", AtOrAfter(req[r].key))
  \/ Move(r, "seek_for_prev", AtOrBefore(req[r].key))
  \/ Move(r, "prev", Before(pos[r]))
  \/ Move(r, "next", After(pos[r]))
  \/ Move(r, "seek_to_first", Least(Present))
  \/ Move(r, "seek_to_last", Greatest(Present))

(* The last handle goes away, and with it every iterator.                    *)
Drop ==
  /\ \A t \in Threads : req[t] = Idle
  /\ pos' = [r \in Readers |-> 0]
  /\ UNCHANGED <<content, req, resp, out, sizeAt>>

Next ==
  \/ \E t \in Writers : \/ \E k \in Keys, v \in Vals : CallPut(t, k, v)
                        \/ Put(t) \/ PutPanics(t)
  \/ \E r \in Readers :
       \/ \E k \in Keys, o \in {"get", "find_after", "seek", "seek_for_prev"} : CallRead(r, o, k)
       \/ \E o \in {"len", "is_empty", "seek_to_first", "seek_to_last"} : CallRead(r, o, 0)
       \/ \E o \in {"prev", "next"} : pos[r] # 0 /\ CallRead(r, o, 0)
       \/ Get(r) \/ FindAfter(r) \/ IsEmpty(r) \/ Len(r) \/ Iterate(r)
  \/ Drop

Spec == Init /\ [][Next]_vars
=============================================================================
