---------------------------- MODULE SortedCursor ----------------------------
(* What an iterator of agatedb promises (iterator_trait.rs): it stands on a  *)
(* key of a sorted collection, on neither side of it, or on a read error.    *)
(* "If the iterator becomes invalid after operation, you must reset the      *)
(* iterator by using rewind or seek": moving on from there promises nothing, *)
(* except that next past either end stays there.                             *)
CONSTANTS Wanted,     \* the keys to seek for
          NoKey,      \* stands for a key where there is none
          Less(_, _)  \* the order of the keys

VARIABLES source,     \* the keys of the collection
          call,       \* the last operation and its argument
          at          \* where it led

vars == <<source, call, at>>

At(k)  == [state |-> "at",    key |-> k]
Eof    == [state |-> "eof",   key |-> NoKey]    \* behind the last key
Bof    == [state |-> "bof",   key |-> NoKey]    \* before the first key
Failed == [state |-> "error", key |-> NoKey]
Unset  == [state |-> "unset", key |-> NoKey]    \* not positioned yet
Places == {At(k) : k \in source} \cup {Eof, Bof, Failed, Unset}

Lowest(S)  == IF S = {} THEN Eof ELSE At(CHOOSE k \in S : \A m \in S : ~Less(m, k))
Highest(S) == IF S = {} THEN Bof ELSE At(CHOOSE k \in S : \A m \in S : ~Less(k, m))

Call(o, k) == [op |-> o, key |-> k]
Calls == {Call(o, NoKey) : o \in {"seek_to_first", "seek_to_last", "next", "prev"}} \cup
         {Call("seek", k) : k \in Wanted} \cup {Call("seek_for_prev", k) : k \in Wanted}

(* Where call c may lead from place p.                                       *)
Goals(c, p) ==
  CASE c.op = "seek_to_first" -> {Lowest(source)}
    [] c.op = "seek_to_last"  -> {Highest(source)}
    [] c.op = "seek"          -> {Lowest({k \in source : ~Less(k, c.key)})}
    [] c.op = "seek_for_prev" -> {Highest({k \in source : ~Less(c.key, k)})}
    [] c.op = "next" /\ p.state = "at" -> {Lowest({k \in source : Less(p.key, k)})}
    [] c.op = "prev" /\ p.state = "at" -> {Highest({k \in source : Less(k, p.key)})}
    [] c.op = "next" /\ p.state = "unset" -> {Lowest(source)}
    [] c.op = "next" /\ p.state \in {"eof", "bof"} -> {p}
    [] c.op = "prev" /\ p.state = "bof" -> {p}
    [] OTHER -> Places

Init == call = Call("new", NoKey) /\ at = Unset

Step(c) == /\ source' = source
           /\ call' = c
           /\ at' \in Goals(c, at) \cup {Failed}

(* The collection is made before it is iterated over, and then it is fixed.  *)
Collect == /\ call.op = "new"
           /\ source \subseteq source'
           /\ UNCHANGED <<call, at>>

Next == Collect \/ \E c \in Calls : Step(c)

Spec == Init /\ [][Next]_vars
=============================================================================
