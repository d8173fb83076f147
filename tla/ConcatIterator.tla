--------------------------- MODULE ConcatIterator ---------------------------
(* The iterator over the SSTs of a level (table/concat_iterator.rs): the     *)
(* tables are sorted and have no key in common.                              *)
EXTENDS TableCursor, FiniteSets

CONSTANTS Levels,     \* the lists of tables to iterate over, as the entries added to each
          Wanted,     \* keys to seek for
          Faults      \* operations during which a table may fail to read a block

KeysIn(entries) == {entries[i].key : i \in DOMAIN entries}

(* "Tables must have been sorted and have no overlap keys": the entries of a *)
(* table are in key order, and so are the tables.                            *)
ASSUME LevelsAssumption ==
  \A l \in Levels :
     /\ l \in Seq(Seq([key : Keys, value : ValueFields]))
     /\ \A i \in DOMAIN l : /\ l[i] # <<>>
                            /\ \A p, q \in DOMAIN l[i] : p < q => KeyLess(l[i][p].key, l[i][q].key)
     /\ \A i, j \in DOMAIN l : i < j => \A k \in KeysIn(l[i]), m \in KeysIn(l[j]) : KeyLess(k, m)

ASSUME WantedAssumption == Wanted \subseteq Keys

(* What a failed read does to seek_for_prev is a matter of TableIterator.    *)
ASSUME FaultsAssumption == Faults \subseteq {"rewind", "next", "seek"}

None == 0             \* the tables are numbered from 1 here

VARIABLES level,          \* history: what the tables were built from
          tables, rev,    \* ConcatIterator.tables, and ITERATOR_REVERSED in opt
          cur,            \* ConcatIterator.cur
          iters,          \* iters[i]; a new iterator stands for None
          from,           \* the local cur of next while it loops, else None
          turn,           \* history: parity of the turns of that loop, so that each is a step
          call,           \* the last operation that returned, and its argument
          held            \* where that operation led

vars == <<level, tables, rev, cur, iters, from, turn, call, held>>

N == Len(tables)

-----------------------------------------------------------------------------
(* Where an iterator state stands, in the terms of SortedCursor.             *)
PlaceOf(c, its, name) ==
  IF name = "new" THEN [state |-> "unset", key |-> NoKey]
  ELSE IF c = None \/ its[c].err = "EOF" THEN [state |-> IF rev THEN "bof" ELSE "eof", key |-> NoKey]
  ELSE IF its[c].err = "Error" THEN [state |-> "error", key |-> NoKey]
  ELSE [state |-> "at", key |-> its[c].bi.key]

(* valid() *)
ConcatValid == cur # None /\ Valid(iters[cur])

Init == /\ level \in Levels
        /\ tables = [i \in DOMAIN level |-> BuildTable(level[i]).blocks]
        /\ rev \in BOOLEAN
        /\ cur = None
        /\ iters = [i \in 1..Len(tables) |-> NewIterator]
        /\ from = None /\ turn = 0
        /\ call = [op |-> "new", key |-> NoKey]
        /\ held = [state |-> "unset", key |-> NoKey]

(* The reads that fail during an operation.                                  *)
BadBlocks(op, i) == IF op \in Faults /\ i # None THEN SUBSET (0..(NumBlocks(tables[i]) - 1)) ELSE {{}}

Return(op, k, c, its) ==
  /\ cur' = c
  /\ iters' = its
  /\ from' = None /\ turn' = 0
  /\ call' = [op |-> op, key |-> k]
  /\ held' = PlaceOf(c, its, op)
  /\ UNCHANGED <<level, tables, rev>>

NextOp == IF rev THEN "prev" ELSE "next"

Rewind ==
  /\ from = None
  /\ LET op == IF rev THEN "seek_to_last" ELSE "seek_to_first"
         i  == IF rev THEN N ELSE 1
     IN  IF N = 0 THEN Return(op, NoKey, cur, iters)
         ELSE \E bad \in BadBlocks("rewind", i) :
                 Return(op, NoKey, i, [iters EXCEPT ![i] = IterRewind(tables[i], @, rev, bad)])

(* Mutant: a table that ends at the key is passed over.                      *)
MutSeekTable(k) ==
  IF rev
  THEN N - Search(N, {j \in 0..(N - 1) : KeyLeq(SmallestKey(tables[N - j]), k)})
  ELSE LET j == Search(N, {i \in 0..(N - 1) : KeyLess(k, BiggestKey(tables[i + 1]))})
       IN  IF j >= N THEN None ELSE j + 1

(* The table to seek in: the first one that ends at or after the key, or, in *)
(* reverse, the last one that starts at or before it.                        *)
SeekTable(k) ==
  IF rev
  THEN N - Search(N, {j \in 0..(N - 1) : KeyLeq(SmallestKey(tables[N - j]), k)})
  ELSE LET j == Search(N, {i \in 0..(N - 1) : KeyLeq(k, BiggestKey(tables[i + 1]))})
       IN  IF j >= N THEN None ELSE j + 1

Seek(k) ==
  /\ from = None
  /\ LET op == IF rev THEN "seek_for_prev" ELSE "seek"
         i  == SeekTable(k)
     IN  IF i = None THEN Return(op, k, None, iters)
         ELSE \E bad \in BadBlocks(op, i) :
                 Return(op, k, i, [iters EXCEPT ![i] = IterSeek(tables[i], @, k, rev, bad)])

(* One turn of the loop of next: enter the neighbour of the table c at its   *)
(* near end.  c is not advanced, so a neighbour that turns out invalid is    *)
(* entered again.                                                            *)
Neighbour(c) == IF rev THEN c - 1 ELSE IF c = N THEN None ELSE c + 1

(* Mutant: the neighbour's iterator is made from the table being left.       *)
MutEnterOther(c, its, bad) ==
  LET i   == Neighbour(c)
      new == [its EXCEPT ![i] = IterRewind(tables[c], @, rev, bad)]
  IN  IF i = None THEN Return(NextOp, NoKey, None, its)
      ELSE IF Valid(new[i]) THEN Return(NextOp, NoKey, i, new)
      ELSE /\ cur' = i /\ iters' = new /\ from' = c /\ turn' = 1 - turn
           /\ UNCHANGED <<level, tables, rev, call, held>>

EnterNeighbour(c, its, bad) ==
  LET i   == Neighbour(c)
      new == [its EXCEPT ![i] = IterRewind(tables[i], @, rev, bad)]
  IN  IF i = None THEN Return(NextOp, NoKey, None, its)
      ELSE IF Valid(new[i]) THEN Return(NextOp, NoKey, i, new)
      ELSE /\ cur' = i /\ iters' = new /\ from' = c /\ turn' = 1 - turn
           /\ UNCHANGED <<level, tables, rev, call, held>>

(* next unwraps cur, and its callers check valid first.                      *)
NextCall ==
  /\ from = None
  /\ ConcatValid
  /\ \E bad \in BadBlocks("next", cur) :
        LET new == [iters EXCEPT ![cur] = IterNext(tables[cur], @, rev, bad)]
        IN  IF Valid(new[cur]) THEN Return(NextOp, NoKey, cur, new)
            ELSE \E fail \in BadBlocks("rewind", Neighbour(cur)) : EnterNeighbour(cur, new, fail)

NextLoop == /\ from # None
            /\ \E bad \in BadBlocks("rewind", Neighbour(from)) : EnterNeighbour(from, iters, bad)

Next == Rewind \/ NextCall \/ NextLoop \/ \E k \in Wanted : Seek(k)

Spec == Init /\ [][Next]_vars

(* The loop of next is not left alone.  Nothing is assumed of what its reads *)
(* come to.                                                                  *)
FairSpec == Spec /\ WF_vars(NextLoop)

-----------------------------------------------------------------------------
AllKeys == UNION {KeysIn(level[i]) : i \in DOMAIN level}

(* Type invariant.                                                           *)
TypeOK ==
  /\ cur \in 0..N /\ from \in 0..N /\ rev \in BOOLEAN
  /\ DOMAIN iters = 1..N
  /\ \A i \in DOMAIN iters : iters[i].bi.key \in KeysIn(level[i]) \cup {NoKey}
  /\ held.state \in {"unset", "eof", "bof", "error", "at"}
  /\ held.key \in AllKeys \cup {NoKey}

Cursor == INSTANCE SortedCursor WITH source <- AllKeys, at <- held, Less <- KeyLess

(* Over the tables of a level, seek, rewind and next behave as over one      *)
(* sorted table, in both directions: no key is skipped or repeated where one *)
(* table ends and the next begins, also when entering it takes several reads. *)
IsSortedCursor == Cursor!Spec

(* "next points the iterator to next element": it returns.  Its loop enters  *)
(* the same neighbour again as long as that is invalid, and a block that     *)
(* cannot be read leaves it so.                                              *)
NextReturns == from # None ~> from = None

(* "next points the iterator to next element": an iterator that is valid     *)
(* after next stands on the neighbour of the key it stood on before.         *)
NextElement ==
  [][call'.op = NextOp /\ held.state = "at" /\ held'.state = "at" /\ from' = None =>
       ~\E k \in AllKeys : \/ KeyLess(held.key, k) /\ KeyLess(k, held'.key)
                           \/ KeyLess(held'.key, k) /\ KeyLess(k, held.key)]_vars
=============================================================================
