--------------------------- MODULE MergeIterator ---------------------------
(* The merge of two iterators into one (table/merge_iterator.rs).  Both      *)
(* children are iterators as SortedCursor describes them, and so is the      *)
(* merge: from_iterators nests merges to any depth, first iterators to the   *)
(* left.  When both children have a key, the left one (the newer data) wins. *)
EXTENDS Naturals, FiniteSets

CONSTANTS Universe,   \* the keys the children may hold
          Wanted,     \* keys to seek for
          Failures    \* sets of children that may fail to read during an operation

ASSUME UniverseAssumption == Universe \subseteq Nat \ {0} /\ IsFiniteSet(Universe)

ASSUME WantedAssumption == Wanted \subseteq Nat

ASSUME FailuresAssumption == Failures \subseteq SUBSET {"left", "right"}

NoKey == 0

VARIABLES lkeys, rkeys,   \* the keys of the left and of the right child
          rev,            \* reverse, for this iterator and for its children
          m,              \* the MergeIterator
          call,           \* the last operation and its argument
          misused         \* next was called on a child that was not valid

vars == <<lkeys, rkeys, rev, m, call, misused>>

-----------------------------------------------------------------------------
(* A child iterator with keys S; its place is a key, or NoKey past the end.  *)
Lead(S) ==
  IF S = {} THEN NoKey
  ELSE CHOOSE k \in S : \A n \in S : IF rev THEN n <= k ELSE k <= n

ChildRewind(S)  == Lead(S)
ChildSeek(S, k) == Lead({n \in S : IF rev THEN n <= k ELSE k <= n})
ChildNext(S, k) == Lead({n \in S : IF rev THEN n < k ELSE k < n})

(* IteratorNode: set_key after every move of the child.  A child that cannot *)
(* read its data is not valid, and set_key cannot tell that from its end;    *)
(* failed records it.                                                        *)
NewNode == [valid |-> FALSE, key |-> NoKey, place |-> NoKey, failed |-> FALSE]

SetKey(node, k) ==
  [valid |-> k # NoKey, key |-> IF k # NoKey THEN k ELSE node.key, place |-> k, failed |-> FALSE]

MoveTo(node, k, fails) ==
  IF fails THEN [SetKey(node, NoKey) EXCEPT !.failed = TRUE] ELSE SetKey(node, k)

NodeNext(S, node, fails) == MoveTo(node, ChildNext(S, node.place), fails)

-----------------------------------------------------------------------------
(* MergeIterator; bad records that next was called on an invalid child, and  *)
(* fails holds the children that cannot read during the operation.           *)
NewMerge == [left |-> NewNode, right |-> NewNode, leftSmall |-> TRUE, current |-> NoKey,
             bad |-> FALSE, fails |-> {}]

Smaller(i) == IF i.leftSmall THEN i.left ELSE i.right
Bigger(i)  == IF i.leftSmall THEN i.right ELSE i.left

RightNext(i) == [i EXCEPT !.right = NodeNext(rkeys, @, "right" \in i.fails), !.bad = @ \/ ~i.right.valid]
LeftNext(i)  == [i EXCEPT !.left = NodeNext(lkeys, @, "left" \in i.fails), !.bad = @ \/ ~i.left.valid]

(* Mutant: the node of the other child is moved.                             *)
MutSmallerNext(i) ==
  IF i.leftSmall THEN [i EXCEPT !.left = NodeNext(rkeys, @, FALSE)] ELSE RightNext(i)

SmallerNext(i) == IF i.leftSmall THEN LeftNext(i) ELSE RightNext(i)

SwapSmall(i) == [i EXCEPT !.leftSmall = ~@]

(* Mutants of fix: the end of the smaller child is taken for the end of the  *)
(* merge; on equal keys the right child moves but keeps its place as the     *)
(* smaller one; the order is not turned round for a reverse iterator.        *)
MutFixEnd(i) ==
  LET s == Smaller(i)
      b == Bigger(i)
  IN  IF ~b.valid \/ ~s.valid THEN i
      ELSE IF s.key = b.key THEN [RightNext(i) EXCEPT !.leftSmall = TRUE]
      ELSE IF (s.key < b.key) = rev THEN SwapSmall(i)
      ELSE i

MutFixEqual(i) ==
  LET s == Smaller(i)
      b == Bigger(i)
  IN  IF ~b.valid THEN i
      ELSE IF ~s.valid THEN SwapSmall(i)
      ELSE IF s.key = b.key THEN RightNext(i)
      ELSE IF (s.key < b.key) = rev THEN SwapSmall(i)
      ELSE i

MutFixForward(i) ==
  LET s == Smaller(i)
      b == Bigger(i)
  IN  IF ~b.valid THEN i
      ELSE IF ~s.valid THEN SwapSmall(i)
      ELSE IF s.key = b.key THEN [RightNext(i) EXCEPT !.leftSmall = TRUE]
      ELSE IF b.key < s.key THEN SwapSmall(i)
      ELSE i

Fix(i) ==
  LET s == Smaller(i)
      b == Bigger(i)
  IN  IF ~b.valid THEN i
      ELSE IF ~s.valid THEN SwapSmall(i)
      ELSE IF s.key = b.key THEN [RightNext(i) EXCEPT !.leftSmall = TRUE]
      ELSE IF (s.key < b.key) = rev THEN SwapSmall(i)
      ELSE i

SetCurrent(i) == [i EXCEPT !.current = Smaller(i).key]

(* The loop of next; every turn moves a child, so it ends within Turns.      *)
Turns == 2 * Cardinality(Universe) + 1

(* Mutant: the loop looks at the buffered key alone, not at valid.           *)
MutTurn(j) == IF Smaller(j).key = j.current THEN Fix(SmallerNext(j)) ELSE j

Turn(j) == IF Smaller(j).valid /\ Smaller(j).key = j.current THEN Fix(SmallerNext(j)) ELSE j

NextLoop(i) ==
  LET after[n \in 0..Turns] == IF n = 0 THEN i ELSE Turn(after[n - 1])
  IN  after[Turns]

-----------------------------------------------------------------------------
Init == /\ lkeys \in SUBSET Universe /\ rkeys \in SUBSET Universe
        /\ rev \in BOOLEAN
        /\ m = NewMerge
        /\ call = [op |-> "new", key |-> NoKey]
        /\ misused = FALSE

Do(op, k, new) == /\ m' = [new EXCEPT !.bad = FALSE, !.fails = {}]
                  /\ misused' = (misused \/ new.bad)
                  /\ call' = [op |-> op, key |-> k]
                  /\ UNCHANGED <<lkeys, rkeys, rev>>

(* Both children are placed, then fix and set_current.                       *)
Placed(l, r, fails) ==
  SetCurrent(Fix([m EXCEPT !.left  = MoveTo(@, l, "left" \in fails),
                           !.right = MoveTo(@, r, "right" \in fails), !.fails = fails]))

Rewind == \E fails \in Failures :
  Do(IF rev THEN "seek_to_last" ELSE "seek_to_first", NoKey,
     Placed(ChildRewind(lkeys), ChildRewind(rkeys), fails))

Seek(k) == \E fails \in Failures :
  Do(IF rev THEN "seek_for_prev" ELSE "seek", k,
     Placed(ChildSeek(lkeys, k), ChildSeek(rkeys, k), fails))

(* Callers check valid before next.                                          *)
MergeNext == \E fails \in Failures :
  /\ Smaller(m).valid
  /\ Do(IF rev THEN "prev" ELSE "next", NoKey, SetCurrent(NextLoop([m EXCEPT !.fails = fails])))

Next == Rewind \/ MergeNext \/ \E k \in Wanted : Seek(k)

Spec == Init /\ [][Next]_vars

-----------------------------------------------------------------------------
(* Type invariant.                                                           *)
TypeOK ==
  /\ m.left.key \in lkeys \cup {NoKey} /\ m.right.key \in rkeys \cup {NoKey}
  /\ m.left.place \in lkeys \cup {NoKey} /\ m.right.place \in rkeys \cup {NoKey}
  /\ m.left.valid \in BOOLEAN /\ m.right.valid \in BOOLEAN /\ m.leftSmall \in BOOLEAN
  /\ m.current \in Universe \cup {NoKey}

(* A key that both children have is taken from the left one, and never       *)
(* offered a second time by the right one.  Where the left one cannot be     *)
(* read, the older value of the right one takes its place.                   *)
LeftWins ==
  /\ Smaller(m).valid /\ Smaller(m).key \in lkeys => m.leftSmall \/ m.left.failed
  /\ m.left.valid /\ m.right.valid => m.left.key # m.right.key

(* The merge keeps to the rule it has from the iterators below it: a child   *)
(* that became invalid is not moved again before it is reset.                *)
ChildrenNotMisused == ~misused

Healthy == (IF m.left.failed THEN {} ELSE lkeys) \cup (IF m.right.failed THEN {} ELSE rkeys)

(* A child that cannot be read is left out without a word: the merge stays   *)
(* valid and goes on with the other one.  Even so next leads to the nearest  *)
(* key of the children that can be read, and to the end only when they are   *)
(* at their end: nothing of theirs is skipped or offered twice.              *)
OthersGoOn ==
  [][call'.op \in {"next", "prev"} /\ m' # m =>
       LET k == ChildNext(Healthy', Smaller(m).key)
       IN  /\ Smaller(m)'.valid <=> k # NoKey
           /\ k # NoKey => Smaller(m)'.key = k]_vars

Place ==
  IF call.op = "new" THEN [state |-> "unset", key |-> NoKey]
  ELSE IF m.left.failed \/ m.right.failed THEN [state |-> "error", key |-> NoKey]
  ELSE IF Smaller(m).valid THEN [state |-> "at", key |-> Smaller(m).key]
  ELSE [state |-> IF rev THEN "bof" ELSE "eof", key |-> NoKey]

Precedes(a, b) == a < b

Cursor == INSTANCE SortedCursor WITH source <- lkeys \cup rkeys, at <- Place, Less <- Precedes

(* The merge is an iterator over the union of its children: ordered, without *)
(* gaps and without duplicates, in both directions and after any seek, as    *)
(* long as both can be read.                                                 *)
IsSortedCursor == Cursor!Spec
=============================================================================
