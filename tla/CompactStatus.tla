--------------------------- MODULE CompactStatus ---------------------------
(* The registry of running compactions (levels/compaction.rs).  A compactor *)
(* describes its work in a CompactDef, claims it with compare_and_add and   *)
(* gives it up with delete when it is done.  Both calls take &mut self, so  *)
(* each is atomic; any number of compactions is under way in between.       *)
EXTENDS KeyRanges, FiniteSets, FiniteSetsExt

CONSTANTS Compactors,
          Tables,               \* ids of the SSTs
          LevelOf,              \* LevelOf[s]: the level SST s is on
          Smallest, Biggest,    \* the first and the last key of SST s
          Sizes,                \* values of this_size
          NumLevels             \* levels.len()

LevelIds == 0..(NumLevels - 1)

ASSUME TablesAssumption ==
  /\ NumLevels \in Nat /\ NumLevels >= 2
  /\ LevelOf \in [Tables -> LevelIds]
  /\ Smallest \in [Tables -> EncodedKeys]
  /\ Biggest \in [Tables -> EncodedKeys]
  /\ \A s \in Tables : ~KeyLess(Biggest[s], Smallest[s])

ASSUME SizesAssumption == Sizes \subseteq Nat

VARIABLES ranges,      \* levels[l].ranges, see LevelOverlaps
          delSize,     \* levels[l].del_size
          claimed,     \* CompactStatus.tables
          running,     \* running[c]: the CompactDef of compactor c, or Nothing
          answer,      \* what compare_and_add told compactor c last
          panicked     \* an assertion of this file failed, or delete panicked

vars == <<ranges, delSize, claimed, running, answer, panicked>>

-----------------------------------------------------------------------------
(* get_key_range: from the first version of the smallest user key to the    *)
(* last version of the biggest one.  None is what CompactDef::new starts    *)
(* with, Empty.                                                             *)
SmallestOf(S) == CHOOSE k \in {Smallest[s] : s \in S} : \A s \in S : ~KeyLess(Smallest[s], k)
BiggestOf(S)  == CHOOSE k \in {Biggest[s] : s \in S} : \A s \in S : ~KeyLess(k, Biggest[s])

(* Mutant: the keys of the tables as they are, some versions left out.      *)
MutGetKeyRange(S) ==
  IF S = {} THEN Empty ELSE Between(SmallestOf(S), BiggestOf(S))

GetKeyRange(S) ==
  IF S = {} THEN Empty
  ELSE Between(KeyWithTsFirst(UserKeyOf(SmallestOf(S))), KeyWithTsLast(UserKeyOf(BiggestOf(S))))

(* The compactions one can ask for: some tables of a level, and the tables  *)
(* of the level below that are rewritten with them.  this_range spans the   *)
(* top tables, or everything to lock the level.  next_range spans the bottom *)
(* tables; without any it is this_range, or stays as CompactDef::new left it. *)
ClaimRanges == {GetKeyRange(S) : S \in SUBSET Tables} \cup {Inf}

CompactDefs ==
  {d \in [this : 0..(NumLevels - 2), top : SUBSET Tables, bot : SUBSET Tables,
          thisRange : ClaimRanges, nextRange : ClaimRanges, thisSize : Sizes] :
      /\ d.top # {}
      /\ \A s \in d.top : LevelOf[s] = d.this
      /\ \A s \in d.bot : LevelOf[s] = d.this + 1
      /\ d.thisRange \in {GetKeyRange(d.top), Inf}
      /\ d.nextRange \in IF d.bot = {} THEN {Empty, d.thisRange} ELSE {GetKeyRange(d.bot)}}

Nothing == [this |-> 0, top |-> {}, bot |-> {}, thisRange |-> Empty, nextRange |-> Empty,
            thisSize |-> 0]

NextLevel(d) == d.this + 1
AllTables(d) == d.top \cup d.bot
Running(c)   == running[c] # Nothing

(* LevelCompactStatus.ranges is a Vec that is pushed to, searched with any  *)
(* and filtered with retain(|r| r != dst).  None of these can tell how often *)
(* or in which order a range was pushed, so the set of ranges is exact.     *)
LevelOverlaps(l, r) == \E q \in ranges[l] : OverlapsWith(q, r)

Init ==
  /\ ranges   = [l \in LevelIds |-> {}]
  /\ delSize  = [l \in LevelIds |-> 0]
  /\ claimed  = {}
  /\ running  = [c \in Compactors |-> Nothing]
  /\ answer   = [c \in Compactors |-> "none"]
  /\ panicked = FALSE

(* compare_and_add: a range is taken, the caller gets an error.             *)
Refuse(c, d) ==
  /\ ~panicked /\ ~Running(c)
  /\ LevelOverlaps(d.this, d.thisRange) \/ LevelOverlaps(NextLevel(d), d.nextRange)
  /\ answer' = [answer EXCEPT ![c] = "Err"]
  /\ UNCHANGED <<ranges, delSize, claimed, running, panicked>>

(* Mutant: the range on the next level is not checked.                      *)
MutNextUnchecked(c, d) ==
  /\ ~panicked /\ ~Running(c)
  /\ ~LevelOverlaps(d.this, d.thisRange)
  /\ ranges' = [ranges EXCEPT ![d.this] = @ \cup {d.thisRange},
                              ![NextLevel(d)] = @ \cup {d.nextRange}]
  /\ delSize' = [delSize EXCEPT ![d.this] = @ + d.thisSize]
  /\ claimed' = claimed \cup AllTables(d)
  /\ running' = [running EXCEPT ![c] = d]
  /\ answer'  = [answer EXCEPT ![c] = "Ok"]
  /\ panicked' = (AllTables(d) \cap claimed # {})

(* Mutant: del_size is not increased.                                       *)
MutSizeNotAdded(c, d) ==
  /\ ~panicked /\ ~Running(c)
  /\ ~LevelOverlaps(d.this, d.thisRange)
  /\ ~LevelOverlaps(NextLevel(d), d.nextRange)
  /\ ranges' = [ranges EXCEPT ![d.this] = @ \cup {d.thisRange},
                              ![NextLevel(d)] = @ \cup {d.nextRange}]
  /\ claimed' = claimed \cup AllTables(d)
  /\ running' = [running EXCEPT ![c] = d]
  /\ answer'  = [answer EXCEPT ![c] = "Ok"]
  /\ panicked' = (AllTables(d) \cap claimed # {})
  /\ UNCHANGED delSize

(* compare_and_add: both ranges are free.  A table that is already claimed  *)
(* fails assert!(self.tables.insert(..)).                                   *)
CompareAndAdd(c, d) ==
  /\ ~panicked /\ ~Running(c)
  /\ ~LevelOverlaps(d.this, d.thisRange)
  /\ ~LevelOverlaps(NextLevel(d), d.nextRange)
  /\ ranges' = [ranges EXCEPT ![d.this] = @ \cup {d.thisRange},
                              ![NextLevel(d)] = @ \cup {d.nextRange}]
  /\ delSize' = [delSize EXCEPT ![d.this] = @ + d.thisSize]
  /\ claimed' = claimed \cup AllTables(d)
  /\ running' = [running EXCEPT ![c] = d]
  /\ answer'  = [answer EXCEPT ![c] = "Ok"]
  /\ panicked' = (AllTables(d) \cap claimed # {})

(* Mutant: the next level and del_size are forgotten.                       *)
MutDelete(c) ==
  LET d == running[c]
  IN  /\ ~panicked /\ Running(c)
      /\ ranges' = [ranges EXCEPT ![d.this] = @ \ {d.thisRange}]
      /\ claimed' = claimed \ AllTables(d)
      /\ running' = [running EXCEPT ![c] = Nothing]
      /\ answer'  = [answer EXCEPT ![c] = "none"]
      /\ panicked' = (d.thisRange \notin ranges[d.this] \/ ~(AllTables(d) \subseteq claimed))
      /\ UNCHANGED delSize

(* delete: the ranges have to be found (an empty next_range is not looked   *)
(* for) and the tables have to be there.                                    *)
Delete(c) ==
  LET d     == running[c]
      n     == NextLevel(d)
      found == /\ d.thisRange \in ranges[d.this]
               /\ ~IsEmpty(d.nextRange) => d.nextRange \in ranges[n]
  IN  /\ ~panicked /\ Running(c)
      /\ ranges' = [ranges EXCEPT ![d.this] = @ \ {d.thisRange},
                                  ![n] = IF IsEmpty(d.nextRange) THEN @ ELSE @ \ {d.nextRange}]
      /\ delSize' = [delSize EXCEPT ![d.this] = @ - d.thisSize]
      /\ claimed' = claimed \ AllTables(d)
      /\ running' = [running EXCEPT ![c] = Nothing]
      /\ answer'  = [answer EXCEPT ![c] = "none"]
      /\ panicked' = (~found \/ ~(AllTables(d) \subseteq claimed))

Start(c) == \E d \in CompactDefs : Refuse(c, d) \/ CompareAndAdd(c, d)

Next == \E c \in Compactors : Start(c) \/ Delete(c)

Spec == Init /\ [][Next]_vars

-----------------------------------------------------------------------------
TypeRegistry ==
  /\ ranges \in [LevelIds -> SUBSET KeyRanges]
  /\ claimed \in SUBSET Tables
  /\ running \in [Compactors -> CompactDefs \cup {Nothing}]
  /\ answer \in [Compactors -> {"none", "Ok", "Err"}]
  /\ panicked \in BOOLEAN

(* Type invariant.                                                          *)
TypeOK == TypeRegistry /\ delSize \in [LevelIds -> Nat]

(* However compactions start and finish, neither the assertions on the table *)
(* set nor the panic of delete is reached.                                  *)
NoPanic == ~panicked

(* The registry is what the running compactions claimed, no more and no     *)
(* less: delete never takes away the range or the table of another one.     *)
(* Only empty ranges may be left behind.                                    *)
RangesOn(l) ==
  {running[c].thisRange : c \in {b \in Compactors : Running(b) /\ running[b].this = l}} \cup
  {running[c].nextRange : c \in {b \in Compactors : Running(b) /\ NextLevel(running[b]) = l}}

RegistryExact ==
  /\ claimed = UNION {AllTables(running[c]) : c \in Compactors}
  /\ \A l \in LevelIds : ranges[l] \ {Empty} = RangesOn(l) \ {Empty}

(* del_size of a level is the size its running compactions take out of it,  *)
(* so the u64 subtraction in delete cannot underflow.                       *)
DelSizeExact ==
  \A l \in LevelIds :
     delSize[l] = MapThenSumSet(LAMBDA c : running[c].thisSize,
                                {c \in Compactors : Running(c) /\ running[c].this = l})

(* All versions of a user key are compacted together: no two compactions    *)
(* that run at the same time hold tables of the same level with versions of *)
(* the same user key.  In particular no table is compacted twice.           *)
Spans(s, u) == UserKeyOf(Smallest[s]) <= u /\ u <= UserKeyOf(Biggest[s])

VersionsTogether ==
  \A b, c \in Compactors : b # c =>
     \A s \in AllTables(running[b]), z \in AllTables(running[c]) :
        LevelOf[s] = LevelOf[z] => ~\E u \in UserKeys : Spans(s, u) /\ Spans(z, u)

(* An empty next_range is claimed (pushed) but not given up: delete skips   *)
(* it, and it overlaps with every range.  From then on no compaction of its *)
(* level or into its level is ever accepted.                                *)
EmptyRangeLocksLevel ==
  [][\A l \in LevelIds : Empty \in ranges[l] =>
        /\ Empty \in ranges'[l]
        /\ \A c \in Compactors : running'[c] \notin {running[c], Nothing} =>
              l \notin {running'[c].this, NextLevel(running'[c])}]_vars

-----------------------------------------------------------------------------
(* What the properties rest on: the ranges that two running compactions     *)
(* hold on a level have no key in common.                                   *)
On(d, l)      == l = d.this \/ l = NextLevel(d)
RangeAt(d, l) == IF l = d.this THEN d.thisRange ELSE d.nextRange
Apart(p, q)   == IsEmpty(p) \/ IsEmpty(q) \/ ~OverlapsWith(p, q)

DisjointClaims ==
  \A b, c \in Compactors : b # c /\ Running(b) /\ Running(c) =>
     \A l \in LevelIds : On(running[b], l) /\ On(running[c], l) =>
        Apart(RangeAt(running[b], l), RangeAt(running[c], l))

IInv == TypeRegistry /\ NoPanic /\ RegistryExact /\ DisjointClaims
=============================================================================
