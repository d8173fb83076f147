--------------------------- MODULE SstFileProofs ---------------------------
(* No handle outlives its file, no file outlives its need, and a table that *)
(* verifies hands out no damaged block: proofs for any number of paths,     *)
(* files, tables, handles and blocks.                                       *)
EXTENDS SstFile, FiniteSetTheorems, WellFoundedInduction, TLAPS

-----------------------------------------------------------------------------
(* A nonempty set of naturals has a least member.                           *)
LEMMA NatMin ==
  ASSUME NEW T \in SUBSET Nat, T # {}
  PROVE  \E m \in T : \A n \in T : m <= n
<1> DEFINE R == {p \in Nat \X Nat : p[1] < p[2]}
<1>1. IsWellFoundedOn(R, Nat)
  BY NatLessThanWellFounded DEF OpToRel
<1> HIDE DEF R
<1>2. PICK m \in T : \A n \in T : <<n, m>> \notin R
  BY <1>1, WFMin
<1>3. \A n \in T : n < m => <<n, m>> \in R
  BY DEF R
<1>4. m \in Nat /\ \A n \in T : n \in Nat
  OBVIOUS
<1>5. \A n \in T : ~(n < m)
  BY <1>2, <1>3
<1> QED
  BY <1>4, <1>5

-----------------------------------------------------------------------------
(* The inductive invariant.                                                 *)
FileStates == [part : {"empty", "partial", "full"},
               blocks : [Blocks -> Damaged \cup {Intact}],
               footer : {"good", "bad"}]

OpenTables == [on : {TRUE}, path : Paths \cup {None}, file : Files, mode : Modes,
               save : BOOLEAN, refs : 1..MaxRefs, late : BOOLEAN]

TypeInv ==
  /\ dir \in [Paths -> Files \cup {None}] /\ making \in [Paths -> Files \cup {None}]
  /\ file \in [Files -> FileStates]
  /\ table \in [Tables -> OpenTables \cup {Closed}]
  /\ level \subseteq {t \in Tables : table[t].on}
  /\ fate \in [Files -> {"none", "orphan", "owned", "shared", "saved", "dropped"}]

(* A file has one name.                                                     *)
OneName == \A p, q \in Paths : dir[p] = dir[q] /\ dir[p] # None => p = q

(* A table on a file that has a name was opened by that name.               *)
OpenedByName ==
  \A t \in Tables, p \in Paths : dir[p] = table[t].file /\ dir[p] # None => table[t].path = p

(* The file of a table that can remove it is in use.                        *)
InUse ==
  \A t \in Tables : table[t].path \in Paths => fate[table[t].file] \in {"owned", "shared"}

(* The table of an owned file is the only one on the file and on its name.  *)
OwnedByOne ==
  \A f \in Files : fate[f] = "owned" =>
     \E p \in Paths, t \in Tables :
        /\ dir[p] = f /\ table[t].file = f /\ table[t].path = p
        /\ \A u \in Tables : table[u].path = p \/ table[u].file = f => u = t

(* A saved file keeps its name, and nobody who could remove it is there.    *)
SavedAlone ==
  \A f \in Files : fate[f] = "saved" =>
     \E p \in Paths : dir[p] = f /\ \A t \in Tables : table[t].path # p

DroppedGone == \A f \in Files : fate[f] = "dropped" => \A p \in Paths : dir[p] # f

(* What a table verified when it was opened is intact until damage comes.   *)
Verified ==
  \A t \in Tables : table[t].mode = "OnTableRead" /\ ~table[t].late =>
     \A b \in Blocks : file[table[t].file].blocks[b] = Intact

Names == OneName /\ OpenedByName /\ InUse /\ OwnedByOne /\ SavedAlone /\ DroppedGone

IInv == TypeInv /\ Names /\ Verified /\ DropFindsFile /\ NoGarbage

-----------------------------------------------------------------------------
(* Facts about the operators.                                               *)

(* What verify_checksum accepts is intact.                                  *)
LEMMA VerifiedIntact ==
  ASSUME NEW f \in FileStates, NEW mode, "ok" \in VerifyChecksum(mode, f)
  PROVE  \A b \in Blocks : f.blocks[b] = Intact
<1> DEFINE bad == {b \in Blocks : f.blocks[b] # Intact}
           first == CHOOSE b \in bad : \A c \in bad : b <= c
<1>1. ASSUME bad # {} PROVE FALSE
  <2>1. bad \in SUBSET Nat
    BY BlockAssumption DEF Blocks
  <2>2. \E b \in bad : \A c \in bad : b <= c
    BY <1>1, <2>1, NatMin
  <2>3. first \in bad
    BY <2>2
  <2>4. f.blocks[first] # Intact
    BY <2>3
  <2>5. "ok" \in IF Decode(f.blocks[first]) # "ok" THEN {Decode(f.blocks[first])}
                 ELSE Verify(f.blocks[first])
    BY <1>1 DEF VerifyChecksum
  <2> QED
    BY <2>4, <2>5 DEF Verify
<1> QED
  BY <1>1

(* What open accepts in mode OnTableRead is intact.                         *)
LEMMA OpenedIntact ==
  ASSUME NEW f \in FileStates, "ok" \in Opened("OnTableRead", f)
  PROVE  \A b \in Blocks : f.blocks[b] = Intact
<1>1. "ok" \in VerifyChecksum("OnTableRead", f)
  BY DEF Opened, OnTable
<1> QED
  BY <1>1, VerifiedIntact

(* block() hands out garbage only where nothing is verified, or, if the     *)
(* table was verified when it was opened, for a block that is not intact.   *)
LEMMA GarbageRead ==
  ASSUME NEW mode \in Modes, NEW blk, "garbage" \in Block(mode, blk)
  PROVE  \/ mode = "NoVerification"
         \/ mode = "OnTableRead" /\ blk # Intact
<1>1. Decode(blk) # "garbage"
  BY DEF Decode
<1>2. "garbage" \notin Verify(blk)
  BY DEF Verify
<1>3. [Intact EXCEPT !.sum = "good"] = Intact
  BY DEF Intact
<1> QED
  BY <1>1, <1>2, <1>3, ModesAssumption DEF Block, OnBlock

(* Blocks, files and tables as they are made.                               *)
LEMMA MadeTypes ==
  /\ Unwritten \in FileStates
  /\ MemoryData \subseteq FileStates
  /\ \A f \in Files, p \in Paths \cup {None}, mode \in Modes : TableOn(f, p, mode) \in OpenTables
<1>1. Unwritten \in FileStates
  BY DEF Unwritten, FileStates
<1>2. ASSUME NEW d \in MemoryData PROVE d \in FileStates
  <2> DEFINE full == [Unwritten EXCEPT !.part = "full"]
  <2>1. full \in FileStates
    BY <1>1 DEF FileStates
  <2>2. ASSUME NEW b \in Blocks, NEW x \in Damaged PROVE [full EXCEPT !.blocks[b] = x] \in FileStates
    BY <2>1 DEF FileStates
  <2> HIDE DEF full
  <2>3. MemoryData = {full} \cup UNION {{[full EXCEPT !.blocks[b] = x] : x \in Damaged} : b \in Blocks}
    BY Zenon DEF MemoryData, full
  <2>4. d = full \/ \E b \in Blocks, x \in Damaged : d = [full EXCEPT !.blocks[b] = x]
    BY <2>3, Zenon
  <2> QED
    BY <2>1, <2>2, <2>4
<1>3. \A f \in Files, p \in Paths \cup {None}, mode \in Modes : TableOn(f, p, mode) \in OpenTables
  BY BlockAssumption DEF TableOn, OpenTables
<1> QED
  BY <1>1, <1>2, <1>3

(* The fields of tables that are there and of those that are not.           *)
LEMMA TableFields ==
  ASSUME TypeInv, NEW t \in Tables
  PROVE  /\ table[t].on \in BOOLEAN /\ table[t].save \in BOOLEAN /\ table[t].late \in BOOLEAN
         /\ table[t].path \in Paths \cup {None}
         /\ table[t].on => /\ table[t] \in OpenTables /\ table[t].file \in Files
                           /\ table[t].refs \in 1..MaxRefs /\ table[t].mode \in Modes
         /\ ~table[t].on => /\ table[t] = Closed /\ table[t].file = None /\ table[t].path = None
                            /\ table[t].mode = "NoVerification" /\ table[t].refs = 0
<1>1. table[t] \in OpenTables \/ table[t] = Closed
  BY DEF TypeInv
<1>2. CASE table[t] \in OpenTables
  BY <1>2 DEF OpenTables
<1>3. CASE table[t] = Closed
  BY <1>3 DEF Closed
<1> QED
  BY <1>1, <1>2, <1>3

(* A table with other handles, marked or damaged later is still one.        *)
LEMMA TableUpdates ==
  ASSUME NEW x \in OpenTables, NEW n \in 1..MaxRefs, NEW s \in BOOLEAN
  PROVE  /\ [x EXCEPT !.refs = n] \in OpenTables /\ [x EXCEPT !.refs = n].on
         /\ [x EXCEPT !.save = s, !.refs = n] \in OpenTables
         /\ [x EXCEPT !.save = s] \in OpenTables /\ [x EXCEPT !.save = s].on
         /\ [x EXCEPT !.late = s] \in OpenTables /\ [x EXCEPT !.late = s].on
BY DEF OpenTables

(* A file with a damaged footer or block is still one.                      *)
LEMMA FileUpdates ==
  ASSUME NEW x \in FileStates, NEW b \in Blocks, NEW d \in Damaged
  PROVE  [x EXCEPT !.footer = "bad"] \in FileStates /\ [x EXCEPT !.blocks[b] = d] \in FileStates
BY DEF FileStates

-----------------------------------------------------------------------------
(* Initial states.                                                          *)
LEMMA InitIInv == Init => IInv
<1> SUFFICES ASSUME Init PROVE IInv
  OBVIOUS
<1>1. TypeInv
  BY MadeTypes DEF Init, TypeInv
<1>2. Names
  BY NoneAssumption
  DEF Init, Names, OneName, OpenedByName, InUse, OwnedByOne, SavedAlone, DroppedGone, Closed
<1>3. Verified /\ DropFindsFile /\ NoGarbage
  BY DEF Init, Verified, DropFindsFile, NoGarbage, Closed, Nothing
<1> QED
  BY <1>1, <1>2, <1>3 DEF IInv

(* Every operation keeps the types, and the level has only tables that are  *)
(* there.                                                                   *)
LEMMA TypeStep ==
  ASSUME TypeInv, [Next]_vars
  PROVE  TypeInv'
<1> USE DEF TypeInv
<1>1. ASSUME NEW p \in Paths, Create(p) PROVE TypeInv'
  BY <1>1, MadeTypes DEF Create
<1>2. ASSUME NEW p \in Paths, Write(p) PROVE TypeInv'
  <2>1. making[p] \in Files
    BY <1>2 DEF Write
  <2>2. file' \in [Files -> FileStates]
    BY <1>2, <2>1 DEF Write, FileStates
  <2> QED
    BY <1>2, <2>2 DEF Write
<1>3. ASSUME NEW p \in Paths, WriteFails(p) PROVE TypeInv'
  BY <1>3 DEF WriteFails
<1>4. ASSUME NEW f \in Files, Damage(f) PROVE TypeInv'
  <2>1. file' \in [Files -> FileStates]
    <3>2. CASE file' = [file EXCEPT ![f].footer = "bad"]
      <4>1. [file[f] EXCEPT !.footer = "bad"] \in FileStates
        BY DEF FileStates
      <4> QED
        BY <3>2, <4>1
    <3>3. ASSUME NEW b \in Blocks, NEW d \in Damaged, file' = [file EXCEPT ![f].blocks[b] = d]
          PROVE  file' \in [Files -> FileStates]
      <4>1. [file[f] EXCEPT !.blocks[b] = d] \in FileStates
        BY FileUpdates
      <4> QED
        BY <3>3, <4>1
    <3> QED
      BY <1>4, <3>2, <3>3 DEF Damage
  <2>2. ASSUME NEW t \in Tables
        PROVE  table'[t] \in OpenTables \cup {Closed} /\ table'[t].on = table[t].on
    <3>1. CASE table[t].file # f
      BY <1>4, <3>1 DEF Damage
    <3>2. CASE table[t].file = f
      <4>1. table[t].on /\ table[t] \in OpenTables /\ table[t].refs \in 1..MaxRefs
        BY <3>2, TableFields, NoneAssumption
      <4>2. table'[t] = [table[t] EXCEPT !.late = TRUE]
        BY <1>4, <3>2 DEF Damage
      <4>3. [table[t] EXCEPT !.late = TRUE] \in OpenTables /\ [table[t] EXCEPT !.late = TRUE].on
        BY <4>1, TableUpdates, Zenon
      <4> QED
        BY <4>1, <4>2, <4>3
    <3> QED
      BY <3>1, <3>2
  <2>3. table' \in [Tables -> OpenTables \cup {Closed}]
    BY <1>4, <2>2 DEF Damage
  <2> QED
    BY <1>4, <2>1, <2>2, <2>3 DEF Damage
<1>5. ASSUME NEW t \in Tables, NEW p \in Paths, NEW mode \in Modes, Open(t, p, mode) PROVE TypeInv'
  <2>1. making' \in [Paths -> Files \cup {None}]
    BY <1>5 DEF Open
  <2>2. CASE UNCHANGED <<dir, file, table, level, fate>>
    BY <2>1, <2>2
  <2>3. CASE dir[p] # None /\ ~UNCHANGED <<dir, file, table, level, fate>>
    <3> DEFINE f == dir[p]
    <3>1. PICK r \in Opened(mode, file[f]) :
             /\ table' = IF r # "ok" THEN table ELSE [table EXCEPT ![t] = TableOn(f, p, mode)]
             /\ dir' = IF r # "ok" THEN [dir EXCEPT ![p] = None] ELSE dir
             /\ fate' = [fate EXCEPT ![f] = FateOpened(p, r)]
             /\ UNCHANGED <<file, level>>
      BY <1>5, <2>3 DEF Open
    <3>2. f \in Files /\ TableOn(f, p, mode) \in OpenTables /\ TableOn(f, p, mode).on
      BY <2>3, MadeTypes DEF TableOn
    <3>3. table' \in [Tables -> OpenTables \cup {Closed}] /\ \A u \in level : table'[u].on
      BY <3>1, <3>2
    <3>4. FateOpened(p, r) \in {"shared", "owned", "dropped"}
      BY DEF FateOpened
    <3> QED
      BY <2>1, <3>1, <3>2, <3>3, <3>4
  <2> QED
    BY <1>5, <2>2, <2>3 DEF Open
<1>6. ASSUME NEW t \in Tables, NEW mode \in Modes, NEW data \in MemoryData,
             OpenInMemory(t, mode, data)
      PROVE  TypeInv'
  <2>1. CASE UNCHANGED <<table, file>>
    BY <1>6, <2>1 DEF OpenInMemory
  <2>2. ASSUME NEW f \in Files, table' = [table EXCEPT ![t] = TableOn(f, None, mode)],
               file' = [file EXCEPT ![f] = data]
        PROVE  TypeInv'
    <3>1. data \in FileStates /\ TableOn(f, None, mode) \in OpenTables
          /\ TableOn(f, None, mode).on
      BY MadeTypes DEF TableOn
    <3>2. table' \in [Tables -> OpenTables \cup {Closed}] /\ \A u \in level : table'[u].on
      BY <2>2, <3>1
    <3> QED
      BY <1>6, <2>2, <3>1, <3>2 DEF OpenInMemory
  <2> QED
    BY <1>6, <2>1, <2>2 DEF OpenInMemory
<1>7. ASSUME NEW t \in Tables, NEW b \in Blocks, Read(t, b) PROVE TypeInv'
  BY <1>7 DEF Read
<1>8. ASSUME NEW t \in Tables, Clone(t) \/ MarkSave(t) \/ PushTable(t) PROVE TypeInv'
  <2>1. table[t].on /\ table[t] \in OpenTables
    BY <1>8, TableFields DEF Clone, MarkSave, PushTable
  <2>2. CASE Clone(t)
    <3>1. table[t].refs + 1 \in 1..MaxRefs
      BY <2>1, <2>2, TableFields, BlockAssumption DEF Clone
    <3>2. [table[t] EXCEPT !.refs = @ + 1] \in OpenTables /\ [table[t] EXCEPT !.refs = @ + 1].on
      BY <2>1, <3>1, TableUpdates
    <3> QED
      BY <2>2, <3>2 DEF Clone
  <2>3. CASE MarkSave(t)
    BY <2>1, <2>3 DEF MarkSave, OpenTables
  <2>4. CASE PushTable(t)
    <3>1. table[t].refs + 1 \in 1..MaxRefs
      BY <2>1, <2>4, TableFields, BlockAssumption DEF PushTable
    <3>2. [table[t] EXCEPT !.refs = @ + 1] \in OpenTables /\ [table[t] EXCEPT !.refs = @ + 1].on
      BY <2>1, <3>1, TableUpdates
    <3> QED
      BY <2>4, <3>2 DEF PushTable
  <2> QED
    BY <1>8, <2>2, <2>3, <2>4
<1>9. ASSUME NEW t \in Tables, DropHandle(t) PROVE TypeInv'
  <2>1. table[t].on /\ table[t] \in OpenTables /\ table[t].file \in Files
    BY <1>9, TableFields DEF DropHandle
  <2>2. CASE LastHandle(t)
    <3>1. table' = [table EXCEPT ![t] = Closed] /\ t \notin level
      BY <1>9, <2>2 DEF DropHandle, LastHandle
    <3>2. FateClosed(table[t].file, table[t].save) \in
            {"none", "orphan", "owned", "shared", "saved", "dropped"}
      BY <2>1 DEF FateClosed
    <3>3. fate' \in [Files -> {"none", "orphan", "owned", "shared", "saved", "dropped"}]
      BY <1>9, <2>1, <3>2 DEF DropHandle
    <3> QED
      BY <1>9, <3>1, <3>3 DEF DropHandle
  <2>3. CASE ~LastHandle(t)
    <3>1. table' = [table EXCEPT ![t].refs = @ - 1]
      BY <1>9, <2>3 DEF DropHandle
    <3>4. table[t].refs - 1 \in 1..MaxRefs
      BY <2>1, <2>3, TableFields, BlockAssumption DEF LastHandle
    <3>2. [table[t] EXCEPT !.refs = @ - 1] \in OpenTables
      BY <2>1, <3>4, TableUpdates
    <3>3. table' \in [Tables -> OpenTables \cup {Closed}] /\ \A u \in Tables : table'[u].on = table[u].on
      BY <2>1, <3>1, <3>2 DEF OpenTables
    <3> QED
      BY <1>9, <2>3, <3>3 DEF DropHandle
  <2> QED
    BY <2>2, <2>3
<1>10. CASE DropLevel
  <2>1. ASSUME NEW t \in Tables PROVE table'[t] \in OpenTables \cup {Closed}
    <3>1. CASE t \in level /\ table[t].refs # 1
      <4>1. table'[t] = [table[t] EXCEPT !.save = LevelSaves(t), !.refs = @ - 1]
        BY <1>10, <3>1 DEF DropLevel
      <4>2. table[t] \in OpenTables /\ table[t].refs - 1 \in 1..MaxRefs
        BY <3>1, TableFields, BlockAssumption
      <4>3. TRUE \in BOOLEAN
        OBVIOUS
      <4>4. [table[t] EXCEPT !.save = TRUE, !.refs = table[t].refs - 1] \in OpenTables
        BY <4>2, <4>3, TableUpdates, Zenon
      <4> QED
        BY <4>1, <4>4 DEF LevelSaves
    <3>2. CASE ~(t \in level /\ table[t].refs # 1)
      BY <1>10, <3>2 DEF DropLevel
    <3> QED
      BY <3>1, <3>2
  <2>2. table' \in [Tables -> OpenTables \cup {Closed}]
    BY <1>10, <2>1 DEF DropLevel
  <2>3. \A f \in Files : fate'[f] \in {fate[f], "saved", "dropped"}
    BY <1>10 DEF DropLevel, FateClosed
  <2>4. fate' \in [Files -> {"none", "orphan", "owned", "shared", "saved", "dropped"}]
    BY <1>10, <2>3 DEF DropLevel
  <2> QED
    BY <1>10, <2>2, <2>4 DEF DropLevel
<1>11. CASE Die
  BY <1>11 DEF Die
<1>12. CASE UNCHANGED vars
  BY <1>12 DEF vars
<1> QED
  BY <1>1, <1>2, <1>3, <1>4, <1>5, <1>6, <1>7, <1>8, <1>9, <1>10, <1>11, <1>12 DEF Next

-----------------------------------------------------------------------------
(* What Names is about stays as it is when neither names nor fates change.  *)
LEMMA NamesKept ==
  ASSUME Names, dir' = dir, fate' = fate,
         \A t \in Tables : table'[t].path = table[t].path /\ table'[t].file = table[t].file
  PROVE  Names'
BY DEF Names, OneName, OpenedByName, InUse, OwnedByOne, SavedAlone, DroppedGone

(* A new file gets a name nobody uses.                                      *)
LEMMA NamesCreate ==
  ASSUME TypeInv, Names, NEW p \in Paths, Create(p)
  PROVE  Names'
<1>1. PICK f \in Files : /\ Unused(f) /\ dir' = [dir EXCEPT ![p] = f]
                         /\ fate' = [fate EXCEPT ![f] = "orphan"]
  BY DEF Create
<1>2. dir[p] = None /\ table' = table /\ f # None
  BY NoneAssumption DEF Create
<1>3. /\ \A q \in Paths : dir'[q] = (IF q = p THEN f ELSE dir[q]) /\ dir[q] # f
      /\ \A g \in Files : fate'[g] = IF g = f THEN "orphan" ELSE fate[g]
      /\ \A t \in Tables : table[t].file # f
  BY <1>1 DEF TypeInv, Unused
<1>4. OneName' /\ OpenedByName' /\ DroppedGone'
  BY <1>2, <1>3 DEF Names, OneName, OpenedByName, DroppedGone
<1>5. InUse'
  <2> SUFFICES ASSUME NEW t \in Tables, table[t].path \in Paths
               PROVE  fate'[table[t].file] \in {"owned", "shared"}
    BY <1>2 DEF InUse
  <2>1. table[t].file \in Files
    BY TableFields, NoneAssumption
  <2> QED
    BY <1>3, <2>1 DEF Names, InUse
<1>6. OwnedByOne'
  BY <1>2, <1>3, NoneAssumption DEF Names, OwnedByOne
<1>7. SavedAlone'
  BY <1>2, <1>3, NoneAssumption DEF Names, SavedAlone
<1> QED
  BY <1>4, <1>5, <1>6, <1>7 DEF Names

(* A table in memory has no name, and its data are its own.                 *)
LEMMA NamesInMemory ==
  ASSUME TypeInv, Names, NEW t \in Tables, NEW mode, NEW data, OpenInMemory(t, mode, data)
  PROVE  Names'
<1>1. CASE UNCHANGED <<table, file>>
  BY <1>1, NamesKept DEF OpenInMemory
<1>2. ASSUME NEW f \in Files, Unused(f), table' = [table EXCEPT ![t] = TableOn(f, None, mode)]
      PROVE  Names'
  <2>1. dir' = dir /\ fate' = fate /\ table[t].file = None /\ table[t].path = None
    BY TableFields DEF OpenInMemory
  <2>2. /\ \A u \in Tables : table'[u] = IF u = t THEN TableOn(f, None, mode) ELSE table[u]
        /\ TableOn(f, None, mode).file = f /\ TableOn(f, None, mode).path = None
        /\ \A q \in Paths : dir[q] # f
    BY <1>2 DEF TypeInv, TableOn, Unused
  <2>3. OneName' /\ OpenedByName' /\ DroppedGone' /\ InUse'
    BY <2>1, <2>2, NoneAssumption DEF Names, OneName, OpenedByName, DroppedGone, InUse
  <2>4. OwnedByOne'
    BY <2>1, <2>2, NoneAssumption DEF Names, OwnedByOne
  <2>5. SavedAlone'
    BY <2>1, <2>2, NoneAssumption DEF Names, SavedAlone
  <2> QED
    BY <2>3, <2>4, <2>5 DEF Names
<1> QED
  BY <1>1, <1>2 DEF OpenInMemory

(* open: the file is shared if a table of its name is there, and otherwise  *)
(* either the new table's or removed.                                       *)
LEMMA NamesOpen ==
  ASSUME TypeInv, Names, NEW t \in Tables, NEW p \in Paths, NEW mode, Open(t, p, mode)
  PROVE  Names'
<1> DEFINE f == dir[p]
<1>1. CASE UNCHANGED <<dir, file, table, level, fate>>
  BY <1>1, NamesKept
<1>2. CASE f # None /\ ~UNCHANGED <<dir, file, table, level, fate>>
  <2>1. PICK r \in Opened(mode, file[f]) :
           /\ table' = IF r # "ok" THEN table ELSE [table EXCEPT ![t] = TableOn(f, p, mode)]
           /\ dir' = IF r # "ok" THEN [dir EXCEPT ![p] = None] ELSE dir
           /\ fate' = [fate EXCEPT ![f] = FateOpened(p, r)]
    BY <1>2 DEF Open
  <2>2. f \in Files /\ table[t].file = None /\ table[t].path = None
    BY <1>2, TableFields DEF Open, TypeInv
  <2>3. \A g \in Files : fate'[g] = IF g = f THEN FateOpened(p, r) ELSE fate[g]
    BY <2>1, <2>2 DEF TypeInv
  <2>4. \A u \in Tables : table[u].path \in Paths => table[u].file \in Files
    BY TableFields, NoneAssumption
  <2>5. \A u \in Tables : table[u].file = f => table[u].path = p
    BY <1>2 DEF Names, OpenedByName
  <2>6. \A q \in Paths : q # p => dir[q] # f
    BY <1>2 DEF Names, OneName
  <2>7. CASE r # "ok"
    <3>1. /\ table' = table
          /\ \A q \in Paths : dir'[q] = IF q = p THEN None ELSE dir[q]
          /\ FateOpened(p, r) = IF On(p) # {} THEN "shared" ELSE "dropped"
      BY <2>1, <2>7 DEF TypeInv, FateOpened
    <3>2. OneName' /\ OpenedByName' /\ DroppedGone'
      BY <2>2, <2>3, <2>6, <3>1, NoneAssumption DEF Names, OneName, OpenedByName, DroppedGone
    <3>3. InUse'
      BY <2>3, <2>4, <2>5, <3>1 DEF Names, InUse, On
    <3>4. OwnedByOne'
      BY <2>3, <3>1, NoneAssumption DEF Names, OwnedByOne
    <3>5. SavedAlone'
      BY <2>3, <3>1, NoneAssumption DEF Names, SavedAlone
    <3> QED
      BY <3>2, <3>3, <3>4, <3>5 DEF Names
  <2>8. CASE r = "ok"
    <3>1. /\ dir' = dir
          /\ \A u \in Tables : table'[u] = IF u = t THEN TableOn(f, p, mode) ELSE table[u]
          /\ TableOn(f, p, mode).file = f /\ TableOn(f, p, mode).path = p
          /\ FateOpened(p, r) = IF On(p) # {} THEN "shared" ELSE "owned"
      BY <2>1, <2>8 DEF TypeInv, FateOpened, TableOn
    <3>2. OneName' /\ OpenedByName' /\ DroppedGone'
      BY <2>3, <2>6, <3>1 DEF Names, OneName, OpenedByName, DroppedGone
    <3>3. InUse'
      BY <2>2, <2>3, <2>4, <3>1 DEF Names, InUse
    <3>4. OwnedByOne'
      <4> SUFFICES ASSUME NEW g \in Files, fate'[g] = "owned"
                   PROVE  \E q \in Paths, v \in Tables :
                             /\ dir'[q] = g /\ table'[v].file = g /\ table'[v].path = q
                             /\ \A u \in Tables : table'[u].path = q \/ table'[u].file = g => u = v
        BY DEF OwnedByOne
      <4>1. CASE g = f
        <5>1. On(p) = {}
          BY <2>3, <3>1, <4>1
        <5> QED
          BY <2>5, <3>1, <4>1, <5>1 DEF On
      <4>2. CASE g # f
        <5>1. PICK q \in Paths, v \in Tables :
                 /\ dir[q] = g /\ table[v].file = g /\ table[v].path = q
                 /\ \A u \in Tables : table[u].path = q \/ table[u].file = g => u = v
          BY <2>3, <4>2 DEF Names, OwnedByOne
        <5>2. q # p /\ v # t
          BY <2>2, <4>2, <5>1, NoneAssumption
        <5> QED
          BY <3>1, <4>2, <5>1, <5>2
      <4> QED
        BY <4>1, <4>2
    <3>5. SavedAlone'
      BY <2>3, <3>1, NoneAssumption DEF Names, SavedAlone
    <3> QED
      BY <3>2, <3>3, <3>4, <3>5 DEF Names
  <2> QED
    BY <2>7, <2>8
<1> QED
  BY <1>1, <1>2 DEF Open

(* The last handle goes: the file goes with it unless the table was marked. *)
LEMMA NamesDrop ==
  ASSUME TypeInv, Names, NEW t \in Tables, DropHandle(t)
  PROVE  Names'
<1> DEFINE p == table[t].path
           f == table[t].file
<1>1. f \in Files /\ p \in Paths \cup {None} /\ table[t].save \in BOOLEAN
  BY TableFields DEF DropHandle
<1>2. CASE ~LastHandle(t)
  BY <1>2, NamesKept DEF DropHandle, TypeInv, Removes
<1>3. CASE LastHandle(t)
  <2>1. /\ \A u \in Tables : table'[u] = IF u = t THEN Closed ELSE table[u]
        /\ Closed.path = None /\ Closed.file = None
        /\ \A g \in Files : fate'[g] = IF g = f THEN FateClosed(f, table[t].save) ELSE fate[g]
    BY <1>1, <1>3 DEF DropHandle, TypeInv, Closed
  <2>2. \A q \in Paths : dir'[q] = IF Removes(t) /\ q = p THEN None ELSE dir[q]
    BY <1>1 DEF DropHandle, TypeInv, Removes
  <2>3. Removes(t) <=> p # None /\ ~table[t].save
    BY <1>3 DEF Removes
  <2>4. \A u \in Tables : table[u].path \in Paths => table[u].file \in Files
    BY TableFields, NoneAssumption
  <2>5. OneName' /\ OpenedByName'
    BY <2>1, <2>2, NoneAssumption DEF Names, OneName, OpenedByName
  <2>6. CASE fate[f] = "owned"
    <3>1. /\ p \in Paths /\ dir[p] = f
          /\ \A u \in Tables : table[u].path = p \/ table[u].file = f => u = t
      BY <1>1, <2>6 DEF Names, OwnedByOne
    <3>2. FateClosed(f, table[t].save) = IF table[t].save THEN "saved" ELSE "dropped"
      BY <2>6 DEF FateClosed
    <3>3. InUse'
      BY <1>1, <2>1, <2>4, <3>1, NoneAssumption DEF Names, InUse
    <3>4. DroppedGone'
      BY <1>1, <2>1, <2>2, <2>3, <3>1, <3>2, NoneAssumption DEF Names, DroppedGone, OneName
    <3>5. OwnedByOne'
      BY <1>1, <2>1, <2>2, <3>1, <3>2, NoneAssumption DEF Names, OwnedByOne
    <3>6. SavedAlone'
      BY <1>1, <2>1, <2>2, <2>3, <3>1, <3>2, NoneAssumption DEF Names, SavedAlone
    <3> QED
      BY <2>5, <3>3, <3>4, <3>5, <3>6 DEF Names
  <2>7. CASE fate[f] # "owned"
    <3>1. \A g \in Files : fate'[g] = fate[g]
      BY <2>1, <2>7 DEF FateClosed
    <3>2. InUse' /\ DroppedGone'
      BY <2>1, <2>2, <2>4, <3>1, NoneAssumption DEF Names, InUse, DroppedGone
    <3>3. OwnedByOne'
      <4> SUFFICES ASSUME NEW g \in Files, fate[g] = "owned"
                   PROVE  \E q \in Paths, v \in Tables :
                             /\ dir'[q] = g /\ table'[v].file = g /\ table'[v].path = q
                             /\ \A u \in Tables : table'[u].path = q \/ table'[u].file = g => u = v
        BY <3>1 DEF OwnedByOne
      <4>1. PICK q \in Paths, v \in Tables :
               /\ dir[q] = g /\ table[v].file = g /\ table[v].path = q
               /\ \A u \in Tables : table[u].path = q \/ table[u].file = g => u = v
        BY DEF Names, OwnedByOne
      <4>2. v # t /\ q # p
        BY <2>7, <4>1
      <4> QED
        BY <2>1, <2>2, <4>1, <4>2, NoneAssumption
    <3>4. SavedAlone'
      BY <2>1, <2>2, <3>1, NoneAssumption DEF Names, SavedAlone
    <3> QED
      BY <2>5, <3>2, <3>3, <3>4 DEF Names
  <2> QED
    BY <2>6, <2>7
<1> QED
  BY <1>2, <1>3

(* The drop of a level saves the files whose last handle it held.           *)
LEMMA NamesDropLevel ==
  ASSUME TypeInv, Names, DropLevel
  PROVE  Names'
<1> DEFINE closing == {t \in level : table[t].refs = 1}
<1>1. \A q \in Paths : dir'[q] = dir[q]
  BY DEF DropLevel, LevelSaves, TypeInv
<1>2. \A t \in Tables : /\ t \in closing => table'[t].path = None /\ table'[t].file = None
                        /\ t \notin closing => /\ table'[t].path = table[t].path
                                               /\ table'[t].file = table[t].file
  <2> SUFFICES ASSUME NEW t \in Tables
               PROVE  /\ t \in closing => table'[t].path = None /\ table'[t].file = None
                      /\ t \notin closing => /\ table'[t].path = table[t].path
                                             /\ table'[t].file = table[t].file
    OBVIOUS
  <2>1. table'[t] = IF t \notin level THEN table[t]
                    ELSE IF t \in closing THEN Closed
                    ELSE [table[t] EXCEPT !.save = LevelSaves(t), !.refs = @ - 1]
    BY DEF DropLevel
  <2>2. t \in level => table[t] \in OpenTables
    BY TableFields DEF TypeInv
  <2> QED
    BY <2>1, <2>2 DEF Closed, OpenTables
<1>3. \A f \in Files :
        fate'[f] = IF fate[f] = "owned" /\ \E t \in closing : table[t].file = f
                   THEN "saved" ELSE fate[f]
  BY DEF DropLevel, FateClosed
<1>4. closing \subseteq Tables /\ \A t \in Tables : table[t].path \in Paths => table[t].file \in Files
  BY TableFields, NoneAssumption DEF TypeInv
<1> HIDE DEF closing
<1>5. OneName' /\ OpenedByName' /\ DroppedGone'
  BY <1>1, <1>2, <1>3 DEF Names, OneName, OpenedByName, DroppedGone
<1>6. InUse'
  <2> SUFFICES ASSUME NEW t \in Tables, table'[t].path \in Paths
               PROVE  fate'[table'[t].file] \in {"owned", "shared"}
    BY DEF InUse
  <2>1. t \notin closing /\ table'[t].file = table[t].file /\ table[t].path \in Paths
    BY <1>2, NoneAssumption
  <2>2. fate[table[t].file] \in {"owned", "shared"} /\ table[t].file \in Files
    BY <1>4, <2>1 DEF Names, InUse
  <2>3. ASSUME fate[table[t].file] = "owned", NEW u \in closing, table[u].file = table[t].file
        PROVE  FALSE
    BY <1>4, <2>1, <2>2, <2>3 DEF Names, OwnedByOne
  <2> QED
    BY <1>3, <2>1, <2>2, <2>3
<1>7. OwnedByOne'
  <2> SUFFICES ASSUME NEW f \in Files, fate'[f] = "owned"
               PROVE  \E p \in Paths, t \in Tables :
                         /\ dir'[p] = f /\ table'[t].file = f /\ table'[t].path = p
                         /\ \A u \in Tables : table'[u].path = p \/ table'[u].file = f => u = t
    BY DEF OwnedByOne
  <2>1. fate[f] = "owned" /\ \A t \in closing : table[t].file # f
    BY <1>3
  <2>2. PICK p \in Paths, t \in Tables :
           /\ dir[p] = f /\ table[t].file = f /\ table[t].path = p
           /\ \A u \in Tables : table[u].path = p \/ table[u].file = f => u = t
    BY <2>1 DEF Names, OwnedByOne
  <2> QED
    BY <1>1, <1>2, <2>1, <2>2, NoneAssumption
<1>8. SavedAlone'
  <2> SUFFICES ASSUME NEW f \in Files, fate'[f] = "saved"
               PROVE  \E p \in Paths : dir'[p] = f /\ \A t \in Tables : table'[t].path # p
    BY DEF SavedAlone
  <2>1. CASE fate[f] = "saved"
    BY <1>1, <1>2, <2>1, NoneAssumption DEF Names, SavedAlone
  <2>2. CASE fate[f] = "owned"
    <3>1. PICK v \in closing : table[v].file = f
      BY <1>3, <2>2
    <3>2. PICK p \in Paths, t \in Tables :
             /\ dir[p] = f /\ table[t].file = f /\ table[t].path = p
             /\ \A u \in Tables : table[u].path = p \/ table[u].file = f => u = t
      BY <2>2 DEF Names, OwnedByOne
    <3>3. v = t
      BY <1>4, <3>1, <3>2
    <3> QED
      BY <1>1, <1>2, <3>1, <3>2, <3>3, NoneAssumption
  <2> QED
    BY <1>3, <2>1, <2>2
<1> QED
  BY <1>5, <1>6, <1>7, <1>8 DEF Names

(* Every operation keeps names, tables and fates in step.                   *)
LEMMA NamesStep ==
  ASSUME TypeInv, Names, [Next]_vars
  PROVE  Names'
<1>1. ASSUME NEW p \in Paths, Write(p) \/ WriteFails(p) PROVE Names'
  BY <1>1, NamesKept DEF Write, WriteFails
<1>2. ASSUME NEW f \in Files, Damage(f) PROVE Names'
  <2>1. ASSUME NEW t \in Tables PROVE table'[t].path = table[t].path /\ table'[t].file = table[t].file
    <3>1. table[t] \in OpenTables \/ table[t].file # f
      BY <1>2, TableFields, NoneAssumption
    <3>2. table'[t] = IF table[t].file # f THEN table[t] ELSE [table[t] EXCEPT !.late = TRUE]
      BY <1>2 DEF Damage
    <3> QED
      BY <3>1, <3>2 DEF OpenTables
  <2> QED
    BY <1>2, <2>1, NamesKept DEF Damage
<1>3. ASSUME NEW t \in Tables, NEW b \in Blocks, Read(t, b) PROVE Names'
  BY <1>3, NamesKept DEF Read
<1>4. ASSUME NEW t \in Tables, Clone(t) \/ MarkSave(t) \/ PushTable(t) PROVE Names'
  <2>1. table[t] \in OpenTables /\ table \in [Tables -> OpenTables \cup {Closed}]
    BY <1>4, TableFields DEF Clone, MarkSave, PushTable, TypeInv
  <2>2. \A u \in Tables : table'[u].path = table[u].path /\ table'[u].file = table[u].file
    BY <1>4, <2>1 DEF Clone, MarkSave, PushTable, OpenTables
  <2> QED
    BY <1>4, <2>2, NamesKept DEF Clone, MarkSave, PushTable
<1>5. CASE Die
  <2>1. /\ \A t \in Tables : table'[t].path = None /\ table'[t].file = None
        /\ dir' = dir
        /\ \A f \in Files : fate'[f] = IF fate[f] \in {"owned", "shared"} THEN "orphan" ELSE fate[f]
    BY <1>5 DEF Die, Closed
  <2> QED
    BY <2>1, NoneAssumption
    DEF Names, OneName, OpenedByName, InUse, OwnedByOne, SavedAlone, DroppedGone
<1>6. CASE UNCHANGED vars
  BY <1>6, NamesKept DEF vars
<1> QED
  BY <1>1, <1>2, <1>3, <1>4, <1>5, <1>6,
     NamesCreate, NamesOpen, NamesInMemory, NamesDrop, NamesDropLevel DEF Next

(* Whatever changes the blocks of a file that was verified when its table   *)
(* was opened is seen as damage that came later.                            *)
LEMMA VerifiedStep ==
  ASSUME TypeInv, Verified, [Next]_vars
  PROVE  Verified'
<1> DEFINE Sound(t) == table[t].mode = "OnTableRead" /\ ~table[t].late =>
                         \A b \in Blocks : file[table[t].file].blocks[b] = Intact
<1>0. \A t \in Tables : Sound(t)
  BY DEF Verified
<1>a. \A t \in Tables : table[t].mode = "OnTableRead" => table[t].file \in Files
  BY TableFields
<1>b. ASSUME file' = file,
             \A t \in Tables : \/ /\ table'[t].mode = table[t].mode /\ table'[t].late = table[t].late
                                  /\ table'[t].file = table[t].file
                               \/ table'[t] = Closed
      PROVE  Verified'
  BY <1>0, <1>b DEF Verified, Closed
<1>c. ASSUME NEW f \in Files, \A g \in Files : g # f => file'[g] = file[g],
             \A t \in Tables : table[t].file # f, table' = table
      PROVE  Verified'
  BY <1>0, <1>a, <1>c DEF Verified
<1>1. ASSUME NEW p \in Paths, Create(p) PROVE Verified'
  BY <1>1, <1>c DEF Create, Unused, TypeInv
<1>2. ASSUME NEW p \in Paths, Write(p) PROVE Verified'
  <2>1. making[p] \in Files /\ table' = table
    BY <1>2 DEF Write, TypeInv
  <2>2. \A f \in Files : file'[f].blocks = file[f].blocks
    BY <1>2, <2>1 DEF Write, TypeInv, FileStates
  <2> QED
    BY <1>0, <1>a, <2>1, <2>2 DEF Verified
<1>3. ASSUME NEW p \in Paths, WriteFails(p) PROVE Verified'
  BY <1>3, <1>b DEF WriteFails
<1>4. ASSUME NEW f \in Files, Damage(f) PROVE Verified'
  <2> SUFFICES ASSUME NEW t \in Tables, table'[t].mode = "OnTableRead", ~table'[t].late
               PROVE  \A b \in Blocks : file'[table'[t].file].blocks[b] = Intact
    BY DEF Verified
  <2>1. table'[t] = IF table[t].file # f THEN table[t] ELSE [table[t] EXCEPT !.late = TRUE]
    BY <1>4 DEF Damage
  <2>2. CASE table[t].file = f
    <3>1. table[t] \in OpenTables
      BY <2>2, TableFields, NoneAssumption
    <3>2. table'[t].late
      BY <2>1, <2>2, <3>1 DEF OpenTables
    <3> QED
      BY <3>2
  <2>3. CASE table[t].file # f
    <3>1. table'[t] = table[t] /\ table[t].file \in Files
      BY <1>a, <2>1, <2>3
    <3>2. file'[table[t].file] = file[table[t].file]
      BY <1>4, <2>3, <3>1 DEF Damage, TypeInv
    <3> QED
      BY <1>0, <3>1, <3>2
  <2> QED
    BY <2>2, <2>3
<1>5. ASSUME NEW t \in Tables, NEW p \in Paths, NEW mode \in Modes, Open(t, p, mode) PROVE Verified'
  <2>1. CASE table' = table /\ file' = file
    BY <1>b, <2>1
  <2>2. CASE ~(table' = table /\ file' = file)
    <3> DEFINE f == dir[p]
    <3>1. /\ f # None /\ "ok" \in Opened(mode, file[f])
          /\ table' = [table EXCEPT ![t] = TableOn(f, p, mode)] /\ file' = file
      BY <1>5, <2>2 DEF Open
    <3>2. file[f] \in FileStates
      BY <3>1 DEF TypeInv
    <3>3. mode = "OnTableRead" => \A b \in Blocks : file[f].blocks[b] = Intact
      BY <3>1, <3>2, OpenedIntact
    <3> QED
      BY <1>0, <3>1, <3>3 DEF Verified, TableOn, TypeInv
  <2> QED
    BY <2>1, <2>2
<1>6. ASSUME NEW t \in Tables, NEW mode \in Modes, NEW data \in MemoryData,
             OpenInMemory(t, mode, data)
      PROVE  Verified'
  <2>1. CASE UNCHANGED <<table, file>>
    BY <1>b, <2>1
  <2>2. ASSUME NEW f \in Files, Unused(f), table' = [table EXCEPT ![t] = TableOn(f, None, mode)],
               file' = [file EXCEPT ![f] = data], "ok" \in Opened(mode, data)
        PROVE  Verified'
    <3>1. mode = "OnTableRead" => \A b \in Blocks : data.blocks[b] = Intact
      BY <2>2, MadeTypes, OpenedIntact
    <3>2. /\ \A u \in Tables : table'[u] = IF u = t THEN TableOn(f, None, mode) ELSE table[u]
          /\ TableOn(f, None, mode).file = f /\ TableOn(f, None, mode).mode = mode
          /\ file'[f] = data /\ \A u \in Tables : table[u].file # f
          /\ \A g \in Files : g # f => file'[g] = file[g]
      BY <2>2 DEF TypeInv, TableOn, Unused
    <3> QED
      BY <1>0, <1>a, <3>1, <3>2 DEF Verified
  <2> QED
    BY <1>6, <2>1, <2>2 DEF OpenInMemory
<1>7. ASSUME NEW t \in Tables, NEW b \in Blocks, Read(t, b) PROVE Verified'
  BY <1>7, <1>b DEF Read
<1>8. ASSUME NEW t \in Tables, Clone(t) \/ MarkSave(t) \/ PushTable(t) \/ DropHandle(t) PROVE Verified'
  <2>1. table[t] \in OpenTables /\ table \in [Tables -> OpenTables \cup {Closed}]
    BY <1>8, TableFields DEF Clone, MarkSave, PushTable, DropHandle, TypeInv
  <2>2. \/ \E n : table' = [table EXCEPT ![t].refs = n]
        \/ table' = [table EXCEPT ![t].save = TRUE]
        \/ table' = [table EXCEPT ![t] = Closed]
    BY <1>8 DEF Clone, MarkSave, PushTable, DropHandle
  <2>3. \A u \in Tables : \/ /\ table'[u].mode = table[u].mode /\ table'[u].late = table[u].late
                             /\ table'[u].file = table[u].file
                          \/ table'[u] = Closed
    BY <2>1, <2>2 DEF OpenTables
  <2>4. file' = file
    BY <1>8 DEF Clone, MarkSave, PushTable, DropHandle
  <2> QED
    BY <1>b, <2>3, <2>4
<1>9. CASE DropLevel
  <2>1. ASSUME NEW t \in Tables
        PROVE  \/ /\ table'[t].mode = table[t].mode /\ table'[t].late = table[t].late
                  /\ table'[t].file = table[t].file
               \/ table'[t] = Closed
    <3>1. \/ table'[t] = table[t] \/ table'[t] = Closed
          \/ /\ t \in level
             /\ table'[t] = [table[t] EXCEPT !.save = LevelSaves(t), !.refs = @ - 1]
      BY <1>9 DEF DropLevel
    <3>2. t \in level => table[t] \in OpenTables
      BY TableFields DEF TypeInv
    <3> QED
      BY <3>1, <3>2 DEF OpenTables
  <2> QED
    BY <1>9, <1>b, <2>1 DEF DropLevel
<1>10. CASE Die
  BY <1>10, <1>b DEF Die
<1>11. CASE UNCHANGED vars
  BY <1>11, <1>b DEF vars
<1> QED
  BY <1>1, <1>2, <1>3, <1>4, <1>5, <1>6, <1>7, <1>8, <1>9, <1>10, <1>11 DEF Next

(* What the operations leave in amiss.                                      *)
LEMMA AmissStep ==
  ASSUME IInv, [Next]_vars
  PROVE  DropFindsFile' /\ NoGarbage'
<1>0. ASSUME amiss' = Nothing PROVE DropFindsFile' /\ NoGarbage'
  BY <1>0 DEF Nothing, DropFindsFile, NoGarbage
<1>1. ASSUME NEW t \in Tables, NEW b \in Blocks, Read(t, b) PROVE DropFindsFile' /\ NoGarbage'
  <2> DEFINE blk == file[table[t].file].blocks[b]
  <2>1. CASE amiss' = Nothing
    BY <1>0, <2>1
  <2>2. CASE amiss' # Nothing
    <3>1. /\ "garbage" \in Block(table[t].mode, blk)
          /\ amiss' = [what |-> "garbage", mode |-> table[t].mode, late |-> table[t].late]
      BY <1>1, <2>2 DEF Read
    <3>2. table[t].mode \in Modes
      BY <1>1, TableFields DEF Read, IInv
    <3>3. \/ table[t].mode = "NoVerification"
          \/ table[t].mode = "OnTableRead" /\ blk # Intact
      BY <3>1, <3>2, GarbageRead
    <3>4. table[t].mode = "OnTableRead" /\ blk # Intact => table[t].late
      BY DEF IInv, Verified
    <3> QED
      BY <3>1, <3>3, <3>4 DEF DropFindsFile, NoGarbage
  <2> QED
    BY <2>1, <2>2
<1>2. ASSUME NEW t \in Tables, DropHandle(t) PROVE DropFindsFile' /\ NoGarbage'
  <2>1. CASE amiss' = Nothing
    BY <1>0, <2>1
  <2>2. CASE amiss' # Nothing
    <3> DEFINE p == table[t].path
               f == table[t].file
    <3>1. Removes(t) /\ dir[p] = None /\ amiss' = [what |-> "unwrap", fate |-> fate[f]]
      BY <1>2, <2>2 DEF DropHandle
    <3>2. p \in Paths /\ f \in Files
      BY <1>2, <3>1, TableFields DEF DropHandle, Removes, IInv
    <3>3. fate[f] \in {"owned", "shared"}
      BY <3>2 DEF IInv, Names, InUse
    <3>4. fate[f] # "owned"
      BY <3>1, <3>2, NoneAssumption DEF IInv, Names, OwnedByOne
    <3> QED
      BY <3>1, <3>3, <3>4 DEF DropFindsFile, NoGarbage
  <2> QED
    BY <2>1, <2>2
<1>3. CASE UNCHANGED vars
  BY <1>3 DEF IInv, vars, DropFindsFile, NoGarbage
<1> QED
  BY <1>0, <1>1, <1>2, <1>3
  DEF Next, Create, Write, WriteFails, Damage, Open, OpenInMemory, Clone, MarkSave, PushTable,
      DropLevel, Die

-----------------------------------------------------------------------------
(* The invariant holds in every state of every behaviour.                   *)
THEOREM Invariance == Spec => []IInv
<1>1. IInv /\ [Next]_vars => IInv'
  BY TypeStep, NamesStep, VerifiedStep, AmissStep DEF IInv
<1> QED
  BY InitIInv, <1>1, PTL DEF Spec

(* Every handle counts: a TableInner is there exactly as long as a Table,   *)
(* clone, iterator or level holds it, and levels hold no table that is gone. *)
THEOREM TypeCorrect == Spec => []TypeOK
<1>1. IInv => TypeOK
  <2> SUFFICES ASSUME IInv PROVE TypeOK
    OBVIOUS
  <2>1. \A f \in Files : /\ file[f].part \in {"empty", "partial", "full"}
                         /\ file[f].blocks \in [Blocks -> Damaged \cup {Intact}]
    BY DEF IInv, TypeInv, FileStates
  <2>2. \A t \in Tables : table[t].on <=> table[t].refs \in 1..MaxRefs
    BY TableFields, BlockAssumption DEF IInv
  <2> QED
    BY <2>1, <2>2 DEF IInv, TypeInv, TypeOK
<1> QED
  BY Invariance, <1>1, PTL

(* Whatever the order in which handles are cloned, marked and dropped, in   *)
(* which levels go and files are damaged, and wherever the process dies: a  *)
(* file is on disk as long as its table has a handle and after that exactly *)
(* if the table was marked, and what could not be opened leaves no file.    *)
THEOREM FilesLiveAsLongAsNeeded == Spec => []DiskMatchesFate
<1>1. IInv => DiskMatchesFate
  BY DEF IInv, Names, OwnedByOne, SavedAlone, DroppedGone, DiskMatchesFate
<1> QED
  BY Invariance, <1>1, PTL

(* The unwrap of remove_file in drop fails only for a file that another     *)
(* table had open at the same time.                                         *)
THEOREM DropNeverMissesItsFile == Spec => []DropFindsFile
<1>1. IInv => DropFindsFile
  BY DEF IInv
<1> QED
  BY Invariance, <1>1, PTL

(* A table that verifies blocks never hands out one that is not as it was   *)
(* written; one that verifies when it is opened only if the damage is later. *)
THEOREM ChecksumsKeepGarbageOut == Spec => []NoGarbage
<1>1. IInv => NoGarbage
  BY DEF IInv
<1> QED
  BY Invariance, <1>1, PTL
=============================================================================
