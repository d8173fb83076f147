------------------------------ MODULE SstFile ------------------------------
(* The life of SST files (table.rs): they are created, opened, read through  *)
(* any number of handles and removed when the last handle is dropped, unless *)
(* they were marked to be saved.  LevelHandler (levels/handler.rs) marks its *)
(* tables when it is dropped.  Files may be damaged at any time, a write may *)
(* stop half way and the process may die.                                    *)
EXTENDS Naturals, FiniteSets

CONSTANTS Paths, Files,   \* names of files, and the files that can bear them
          Tables,         \* TableInners: on a file, or in memory
          MaxRefs,        \* bound on the handles of a table: Table, its clones, iterators
          Modes,          \* ChecksumVerificationMode
          NumBlocks,      \* blocks of a table
          BlockLen, SumLen, Count,  \* of each: its length, checksum_len and num_entries
          OtherFields,    \* what the last two may read as in a damaged block
          None

ASSUME BlockAssumption == /\ SumLen + 8 + 4 * Count < BlockLen /\ Count > 0
                          /\ NumBlocks \in Nat \ {0} /\ MaxRefs \in Nat \ {0}

ASSUME NoneAssumption == None \notin Paths \cup Files

ASSUME ModesAssumption ==
  Modes \subseteq {"NoVerification", "OnTableRead", "OnBlockRead", "OnTableAndBlockRead"}

VARIABLES
  dir,        \* dir[p]: the file of that name, or None
  file,       \* file[f]: how much of it was written, and what became of it
  making,     \* making[p]: the file create is writing, or None
  table,      \* table[t]: the TableInner
  level,      \* the tables of a LevelHandler
  fate,       \* history: what should have become of a file
  amiss       \* history: what the last operation did that one may wonder about

vars == <<dir, file, making, table, level, fate, amiss>>

Blocks == 1..NumBlocks
OnBlock == {"OnBlockRead", "OnTableAndBlockRead"}
OnTable == {"OnTableRead", "OnTableAndBlockRead"}

(* A block as it is read: the two length fields, the bytes they delimit and  *)
(* the checksum.                                                             *)
Intact == [cl |-> SumLen, n |-> Count, body |-> "good", sum |-> "good"]
Damaged ==
  {[Intact EXCEPT !.body = "bad"], [Intact EXCEPT !.sum = "bad"]} \cup
  {[Intact EXCEPT !.cl = o[1], !.n = o[2]] : o \in OtherFields}

Unwritten == [part |-> "empty", blocks |-> [b \in Blocks |-> Intact], footer |-> "good"]
Closed == [on |-> FALSE, path |-> None, file |-> None, mode |-> "NoVerification",
           save |-> FALSE, refs |-> 0, late |-> FALSE]
Nothing == [what |-> "nothing"]

Init == /\ dir = [p \in Paths |-> None] /\ making = [p \in Paths |-> None]
        /\ file = [f \in Files |-> Unwritten] /\ fate = [f \in Files |-> "none"]
        /\ table = [t \in Tables |-> Closed]
        /\ level = {}
        /\ amiss = Nothing

-----------------------------------------------------------------------------
(* Nobody can reach the file any more.                                       *)
Unused(f) == /\ \A p \in Paths : dir[p] # f /\ making[p] # f
             /\ \A t \in Tables : table[t].file # f

(* create: create_new, which fails where the name is taken, then write_all.  *)
Create(p) ==
  /\ dir[p] = None /\ making[p] = None
  /\ \E f \in Files :
        /\ Unused(f)
        /\ dir' = [dir EXCEPT ![p] = f]
        /\ making' = [making EXCEPT ![p] = f]
        /\ file' = [file EXCEPT ![f] = Unwritten]
        /\ fate' = [fate EXCEPT ![f] = "orphan"]
  /\ amiss' = Nothing
  /\ UNCHANGED <<table, level>>

(* A part of the data reaches the file, then the rest.                       *)
Write(p) ==
  LET f == making[p]
  IN  /\ f # None /\ file[f].part # "full"
      /\ file' = [file EXCEPT ![f].part = IF @ = "empty" THEN "partial" ELSE "full"]
      /\ amiss' = Nothing
      /\ UNCHANGED <<dir, making, table, level, fate>>

(* write_all fails: create returns the error, and the file stays behind.     *)
WriteFails(p) ==
  /\ making[p] # None /\ file[making[p]].part # "full"
  /\ making' = [making EXCEPT ![p] = None]
  /\ amiss' = Nothing
  /\ UNCHANGED <<dir, file, table, level, fate>>

(* Bytes of a finished file on disk change.                                  *)
Damage(f) ==
  /\ file[f].part = "full" /\ \E p \in Paths : dir[p] = f
  /\ file[f].footer = "good" /\ \A b \in Blocks : file[f].blocks[b] = Intact
  /\ \/ file' = [file EXCEPT ![f].footer = "bad"]
     \/ \E b \in Blocks : \E d \in Damaged : file' = [file EXCEPT ![f].blocks[b] = d]
  /\ table' = [t \in Tables |-> IF table[t].file # f THEN table[t]
                               ELSE [table[t] EXCEPT !.late = TRUE]]
  /\ amiss' = Nothing
  /\ UNCHANGED <<dir, making, level, fate>>

-----------------------------------------------------------------------------
(* Block::verify_checksum.  Where checksum_len is right and the checksum is  *)
(* not damaged it does not match; otherwise it may also not decode, or name  *)
(* an algorithm there is not, which panics.                                  *)
Verify(blk) ==
  IF blk = Intact THEN {"ok"}
  ELSE IF blk.cl = SumLen /\ blk.sum = "good" THEN {"err"} ELSE {"err", "panic"}

(* block(): positions are computed backwards from the end of the block, and  *)
(* only the first step is checked; the others panic where they underflow.    *)
Decode(blk) ==
  IF blk.cl > BlockLen THEN "err"
  ELSE IF blk.cl + 8 + 4 * blk.n > BlockLen THEN "panic"
  ELSE "ok"

Block(mode, blk) ==
  IF Decode(blk) # "ok" THEN {Decode(blk)}
  ELSE IF mode \in OnBlock THEN Verify(blk)
  ELSE {IF [blk EXCEPT !.sum = "good"] = Intact THEN "ok" ELSE "garbage"}

(* init_index: the checksum of the index is always verified.                 *)
InitIndex(f) == IF f.part = "full" /\ f.footer = "good" THEN {"ok"} ELSE {"err", "panic"}

(* init_biggest_and_smallest goes to the last entry of the last block.  A    *)
(* block without entries has none; entries that are garbage may not decode.  *)
InitBiggest(mode, f) ==
  LET blk == f.blocks[NumBlocks]
  IN  UNION {IF r # "garbage" THEN {r} ELSE IF blk.n = 0 THEN {"err"} ELSE {"ok", "panic"} :
             r \in Block(mode, blk)}

(* Mutant: the blocks are only decoded.                                      *)
MutVerifyChecksum(mode, f) ==
  LET bad == {b \in Blocks : Decode(f.blocks[b]) # "ok"}
  IN  IF bad = {} THEN {"ok"} ELSE {Decode(f.blocks[b]) : b \in bad}

(* verify_checksum stops at the first block that is not right.               *)
VerifyChecksum(mode, f) ==
  LET bad == {b \in Blocks : f.blocks[b] # Intact}
      blk == f.blocks[CHOOSE b \in bad : \A c \in bad : b <= c]
  IN  IF bad = {} THEN {"ok"}
      ELSE IF Decode(blk) # "ok" THEN {Decode(blk)} ELSE Verify(blk)

TableOn(f, p, mode) == [on |-> TRUE, path |-> p, file |-> f, mode |-> mode,
                        save |-> FALSE, refs |-> 1, late |-> FALSE]

(* What open may come to once there is a TableInner.                         *)
Opened(mode, f) ==
  UNION {IF r # "ok" THEN {r}
         ELSE UNION {IF s # "ok" \/ mode \notin OnTable THEN {s} ELSE VerifyChecksum(mode, f) :
                     s \in InitBiggest(mode, f)} :
         r \in InitIndex(f)}

On(p) == {t \in Tables : table[t].path = p}

FateOpened(p, r) == IF On(p) # {} THEN "shared" ELSE IF r = "ok" THEN "owned" ELSE "dropped"

(* open, also as the last step of create.  An empty file cannot be mapped.   *)
(* Later errors and panics drop the TableInner, and with it the file, since  *)
(* nothing was marked to be saved.  No path is opened while it is written.   *)
Open(t, p, mode) ==
  /\ ~table[t].on
  /\ making[p] # None => file[making[p]].part = "full"
  /\ making' = [making EXCEPT ![p] = None]
  /\ amiss' = Nothing
  /\ LET f == dir[p]
     IN  IF f = None \/ file[f].part = "empty"
         THEN UNCHANGED <<dir, file, table, level, fate>>
         ELSE \E r \in Opened(mode, file[f]) :
                 /\ table' = IF r # "ok" THEN table ELSE [table EXCEPT ![t] = TableOn(f, p, mode)]
                 /\ dir' = IF r # "ok" THEN [dir EXCEPT ![p] = None] ELSE dir
                 /\ fate' = [fate EXCEPT ![f] = FateOpened(p, r)]
                 /\ UNCHANGED <<file, level>>

(* open_in_memory: the data has no name.                                     *)
OpenInMemory(t, mode, data) ==
  /\ ~table[t].on
  /\ \E r \in Opened(mode, data) :
        /\ IF r # "ok" THEN UNCHANGED <<table, file>>
           ELSE \E f \in Files : /\ Unused(f)
                                 /\ table' = [table EXCEPT ![t] = TableOn(f, None, mode)]
                                 /\ file' = [file EXCEPT ![f] = data]
  /\ amiss' = Nothing
  /\ UNCHANGED <<dir, making, level, fate>>

-----------------------------------------------------------------------------
(* block() through any handle.                                               *)
Read(t, b) ==
  /\ table[t].on
  /\ \E r \in Block(table[t].mode, file[table[t].file].blocks[b]) :
        amiss' = IF r = "garbage"
                 THEN [what |-> r, mode |-> table[t].mode, late |-> table[t].late]
                 ELSE Nothing
  /\ UNCHANGED <<dir, file, making, table, level, fate>>

(* Table::clone and new_iterator; each holds the TableInner.                 *)
Clone(t) ==
  /\ table[t].on /\ table[t].refs < MaxRefs
  /\ table' = [table EXCEPT ![t].refs = @ + 1]
  /\ amiss' = Nothing
  /\ UNCHANGED <<dir, file, making, level, fate>>

MarkSave(t) ==
  /\ table[t].on /\ ~table[t].save
  /\ table' = [table EXCEPT ![t].save = TRUE]
  /\ amiss' = Nothing
  /\ UNCHANGED <<dir, file, making, level, fate>>

(* A handle of the table goes into LevelHandler.tables.                      *)
PushTable(t) ==
  /\ table[t].on /\ t \notin level /\ table[t].refs < MaxRefs
  /\ table' = [table EXCEPT ![t].refs = @ + 1]
  /\ level' = level \cup {t}
  /\ amiss' = Nothing
  /\ UNCHANGED <<dir, file, making, fate>>

FateClosed(f, save) == IF fate[f] # "owned" THEN fate[f] ELSE IF save THEN "saved" ELSE "dropped"

(* Mutant: the first handle to go takes the TableInner with it.              *)
MutLastHandle(t) == table[t].on

(* The handle that is dropped is the last one.                               *)
LastHandle(t) == table[t].refs = 1

(* Mutant: every handle that is dropped removes the file.                    *)
MutRemoves(t) == table[t].path # None /\ ~table[t].save

(* The drop of the handle removes the file.                                  *)
Removes(t) == LastHandle(t) /\ table[t].path # None /\ ~table[t].save

(* A handle is dropped; with the last one goes the TableInner, and the file  *)
(* of its name.  remove_file is unwrapped.                                   *)
DropHandle(t) ==
  LET p == table[t].path
      f == table[t].file
  IN  /\ table[t].on /\ (t \in level => table[t].refs > 1)
      /\ table' = IF LastHandle(t) THEN [table EXCEPT ![t] = Closed]
                  ELSE [table EXCEPT ![t].refs = @ - 1]
      /\ dir' = IF Removes(t) THEN [dir EXCEPT ![p] = None] ELSE dir
      /\ amiss' = IF Removes(t) /\ dir[p] = None THEN [what |-> "unwrap", fate |-> fate[f]]
                  ELSE Nothing
      /\ fate' = IF LastHandle(t) THEN [fate EXCEPT ![f] = FateClosed(f, table[t].save)] ELSE fate
      /\ UNCHANGED <<file, making, level>>

(* Mutant: the tables are not marked.                                        *)
MutLevelSaves(t) == table[t].save

LevelSaves(t) == TRUE

(* LevelHandler::drop: every table is marked, then its handle is dropped.    *)
DropLevel ==
  LET closing == {t \in level : table[t].refs = 1}
      lost    == {table[t].path : t \in {u \in closing : ~LevelSaves(u)}} \ {None}
  IN  /\ level # {}
      /\ level' = {}
      /\ table' = [t \in Tables |->
                     IF t \notin level THEN table[t]
                     ELSE IF t \in closing THEN Closed
                     ELSE [table[t] EXCEPT !.save = LevelSaves(t), !.refs = @ - 1]]
      /\ fate' = [f \in Files |-> IF \E t \in closing : table[t].file = f
                                  THEN FateClosed(f, TRUE) ELSE fate[f]]
      /\ dir' = [p \in Paths |-> IF p \in lost THEN None ELSE dir[p]]
      /\ amiss' = Nothing
      /\ UNCHANGED <<file, making>>

(* The process dies: nothing is dropped.                                     *)
Die ==
  /\ table' = [t \in Tables |-> Closed]
  /\ making' = [p \in Paths |-> None]
  /\ level' = {}
  /\ fate' = [f \in Files |-> IF fate[f] \in {"owned", "shared"} THEN "orphan" ELSE fate[f]]
  /\ amiss' = Nothing
  /\ UNCHANGED <<dir, file>>

MemoryData ==
  LET full == [Unwritten EXCEPT !.part = "full"]
  IN  {full} \cup UNION {{[full EXCEPT !.blocks[b] = d] : d \in Damaged} : b \in Blocks}

Next ==
  \/ \E p \in Paths : Create(p) \/ Write(p) \/ WriteFails(p)
  \/ \E f \in Files : Damage(f)
  \/ \E t \in Tables, p \in Paths, mode \in Modes : Open(t, p, mode)
  \/ \E t \in Tables, mode \in Modes, data \in MemoryData : OpenInMemory(t, mode, data)
  \/ \E t \in Tables, b \in Blocks : Read(t, b)
  \/ \E t \in Tables : Clone(t) \/ MarkSave(t) \/ PushTable(t) \/ DropHandle(t)
  \/ DropLevel \/ Die

Spec == Init /\ [][Next]_vars

-----------------------------------------------------------------------------
(* Type invariant; a table has a handle as long as it is there.              *)
TypeOK ==
  /\ dir \in [Paths -> Files \cup {None}] /\ making \in [Paths -> Files \cup {None}]
  /\ \A f \in Files : /\ file[f].part \in {"empty", "partial", "full"}
                      /\ file[f].blocks \in [Blocks -> Damaged \cup {Intact}]
  /\ \A t \in Tables : table[t].on <=> table[t].refs \in 1..MaxRefs
  /\ level \subseteq {t \in Tables : table[t].on}
  /\ fate \in [Files -> {"none", "orphan", "owned", "shared", "saved", "dropped"}]

(* A file is there as long as somebody needs it, and no longer: while the    *)
(* table on it has a handle, be it only an iterator, and after that if it    *)
(* was marked, by mark_save or by the drop of its level, in whatever order   *)
(* the handles go; a table that was not marked, or could not be opened,      *)
(* leaves no file.  Files that two tables had open at once are left out.     *)
DiskMatchesFate ==
  \A f \in Files :
     /\ fate[f] \in {"owned", "saved"} => \E p \in Paths : dir[p] = f
     /\ fate[f] = "dropped" => \A p \in Paths : dir[p] # f
     /\ fate[f] = "owned" => \E t \in Tables : table[t].file = f

(* drop, which unwraps the result of remove_file, finds the file it removes  *)
(* unless another table had it open at the same time.                        *)
DropFindsFile == amiss.what = "unwrap" => amiss.fate = "shared"

(* No block that is not as it was written is handed out as good by a table   *)
(* that verifies blocks; one that verifies when it is opened hands it out    *)
(* only if it was damaged later.  Length fields are read before they are     *)
(* verified.                                                                 *)
NoGarbage ==
  amiss.what = "garbage" => \/ amiss.mode = "NoVerification"
                            \/ amiss.mode = "OnTableRead" /\ amiss.late
=============================================================================
