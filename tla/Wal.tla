-------------------------------- MODULE Wal --------------------------------
(* The write-ahead log of a memtable (wal.rs): entries one after the other   *)
(* in a memory-mapped file, without a checksum; a zeroed header ends them.   *)
(* The process may die between any two stores to the mapping, and what it    *)
(* stored is then in the file.  Offsets count cells: the header of an entry  *)
(* is its first cell.                                                        *)
EXTENDS Naturals, Sequences, FiniteSets

CONSTANTS Entries, Size,     \* entries to write, and how many cells they take
          EmptyKey, LongKey, \* those whose key is empty, or longer than 1 << 16 bytes
          ValueLogFileSize,  \* opts.value_log_file_size
          MaxHeaderSize,     \* MAX_HEADER_SIZE: cells zero_next_entry clears
          Zero, Garbage,     \* a zeroed cell; an entry that nobody wrote
          LogRead            \* Err(LogRead), as the last thing the iterator returns

ASSUME SizeAssumption == /\ ValueLogFileSize \in Nat \ {0} /\ MaxHeaderSize \in Nat \ {0}
                         /\ \A e \in Entries : Size[e] \in Nat \ {0}

ASSUME KeyAssumption == /\ EmptyKey \subseteq Entries /\ LongKey \subseteq Entries
                        /\ EmptyKey \cap LongKey = {}

ASSUME ZeroAssumption == /\ Zero \notin [entry : Entries, at : Nat]
                         /\ Garbage \notin Entries /\ LogRead \notin Entries \cup {Garbage}

(* Mutant: the file has room for no entry past the flush threshold.          *)
MutFileSize == ValueLogFileSize

(* The length of a new file: twice the size at which it is to be flushed.    *)
FileSize == 2 * ValueLogFileSize

VARIABLES
  file,       \* the cells of the file, [entry, at]: the at-th cell of entry
  fileLen,    \* its length
  exists,     \* the path exists
  pc,         \* what the process is doing with the WAL
  mapLen, size, writeAt,   \* mmap_file.len(), Wal.size and Wal.write_at
  done,       \* the WAL was truncated: its user writes no more to it
  entry, copied,           \* the entry being written, its cells already stored
  acked,      \* history: the entries of the log that write_entry returned for
  begun,      \* history: a write at 0 began the log anew and has not returned
  torn        \* history: the last write did not finish

vars == <<file, fileLen, exists, pc, mapLen, size, writeAt, done, entry, copied, acked, begun, torn>>

disk == <<file, fileLen, exists>>

None == Garbage               \* entry while no write is running

Cell(e, i) == [entry |-> e, at |-> i]

Init == /\ file = [o \in 0..(FileSize - 1) |-> Zero] /\ fileLen = 0 /\ exists = FALSE
        /\ pc = "closed"
        /\ mapLen = 0 /\ size = 0 /\ writeAt = 0
        /\ done = FALSE
        /\ entry = None /\ copied = {}
        /\ acked = <<>> /\ begun = FALSE /\ torn = FALSE

-----------------------------------------------------------------------------
(* open.  A new path: create_new, then set_len; between the two the file     *)
(* exists with length 0.                                                     *)
CreateFile == /\ pc = "closed" /\ ~exists
              /\ exists' = TRUE
              /\ pc' = "creating"
              /\ UNCHANGED <<file, fileLen, mapLen, size, writeAt, done, entry, copied, acked, begun, torn>>

(* The mapping of the whole file; writing starts at 0, whatever is in it.    *)
Map(len) == /\ mapLen' = len /\ size' = len
            /\ writeAt' = 0
            /\ done' = FALSE
            /\ pc' = "idle"

(* bootstrap clears the first header, which is zero in a new file.           *)
SetLen == /\ pc = "creating"
          /\ fileLen' = FileSize
          /\ Map(FileSize)
          /\ UNCHANGED <<file, exists, entry, copied, acked, begun, torn>>

(* An existing path.  An empty file cannot be mapped: open returns an error. *)
OpenExisting == /\ pc = "closed" /\ exists /\ fileLen > 0
                /\ Map(fileLen)
                /\ UNCHANGED <<disk, entry, copied, acked, begun, torn>>

-----------------------------------------------------------------------------
(* write_entry, of any entry.  The range of the mapping is taken before      *)
(* anything is stored, and taking it panics when it is too short.  In a file *)
(* that was opened again the first write begins at 0, on top of what is      *)
(* there.                                                                    *)
WriteEntry(e) ==
  /\ pc = "idle" /\ ~done
  /\ entry' = e
  /\ pc' = IF writeAt + Size[e] <= mapLen THEN "copy" ELSE "copy_panic"
  /\ begun' = (begun \/ (pc' = "copy" /\ writeAt = 0))
  /\ UNCHANGED <<disk, mapLen, size, writeAt, done, copied, acked, torn>>

(* clone_from_slice, in whatever order the cells reach the mapping.          *)
CopyCell ==
  /\ pc = "copy"
  /\ \E i \in 1..Size[entry] \ copied :
        /\ file' = [file EXCEPT ![writeAt + i - 1] = Cell(entry, i)]
        /\ copied' = copied \cup {i}
  /\ UNCHANGED <<fileLen, exists, pc, mapLen, size, writeAt, done, entry, acked, begun, torn>>

(* All is copied: write_at moves on.                                         *)
CopyDone ==
  /\ pc = "copy" /\ copied = 1..Size[entry]
  /\ writeAt' = writeAt + Size[entry]
  /\ copied' = {}
  /\ pc' = IF writeAt' + MaxHeaderSize <= mapLen THEN "zero" ELSE "zero_panic"
  /\ UNCHANGED <<disk, mapLen, size, done, entry, acked, begun, torn>>

(* Mutants: the next header is not cleared; it is cleared before write_at    *)
(* moves on.                                                                 *)
MutNotCleared == file

MutClearedEarly ==
  [o \in DOMAIN file |-> IF o \in (writeAt - Size[entry])..writeAt THEN Zero ELSE file[o]]

(* The cells zero_next_entry clears.                                         *)
Cleared == [o \in DOMAIN file |-> IF o \in writeAt..(writeAt + MaxHeaderSize - 1) THEN Zero ELSE file[o]]

(* zero_next_entry, and write_entry returns.                                 *)
ZeroNextEntry ==
  /\ pc = "zero"
  /\ file' = Cleared
  /\ acked' = IF begun THEN <<entry>> ELSE Append(acked, entry)
  /\ begun' = FALSE /\ torn' = FALSE
  /\ entry' = None
  /\ pc' = "idle"
  /\ UNCHANGED <<fileLen, exists, mapLen, size, writeAt, done, copied>>

ShouldFlush(at) == at > ValueLogFileSize

-----------------------------------------------------------------------------
(* Where the n-th of the entries s ends, and the entries of acked that begin *)
(* before an offset: the last of them may be cut in two.                     *)
EndOf(s, n) == LET end[i \in 0..Len(s)] == IF i = 0 THEN 0 ELSE end[i - 1] + Size[s[i]]
               IN  end[n]

Kept(end) == SubSeq(acked, 1, Cardinality({i \in 1..Len(acked) : EndOf(acked, i - 1) < end}))

Cut(end) == [o \in DOMAIN file |-> IF o < end THEN file[o] ELSE Zero]

(* Mutant: only the file is cut.                                             *)
MutTruncate(end) ==
  /\ pc = "idle"
  /\ file' = Cut(end) /\ fileLen' = end
  /\ done' = TRUE
  /\ acked' = Kept(end)
  /\ UNCHANGED <<exists, pc, mapLen, size, writeAt, entry, copied, begun, torn>>

(* truncate, directly or by done_writing; the cells past the end are gone.   *)
(* Where the length already is end nothing happens.                          *)
Truncate(end) ==
  /\ pc = "idle"
  /\ done' = TRUE
  /\ IF fileLen = end THEN UNCHANGED <<file, fileLen, size, acked>>
     ELSE /\ file' = Cut(end)
          /\ fileLen' = end /\ size' = end
          /\ acked' = Kept(end)
  /\ UNCHANGED <<exists, pc, mapLen, writeAt, entry, copied, begun, torn>>

(* The Wal is dropped, or its process dies: at any point, a panic included.  *)
Stop ==
  /\ pc # "closed"
  /\ pc' = "closed"
  /\ torn' = (torn \/ pc \in {"copy", "zero", "zero_panic"})
  /\ mapLen' = 0 /\ size' = 0 /\ writeAt' = 0 /\ done' = FALSE
  /\ entry' = None /\ copied' = {}
  /\ UNCHANGED <<disk, acked, begun>>

Next == \/ CreateFile \/ SetLen \/ OpenExisting
        \/ \E e \in Entries : WriteEntry(e)
        \/ CopyCell \/ CopyDone \/ ZeroNextEntry
        \/ \E end \in 0..fileLen : Truncate(end)
        \/ Stop

Spec == Init /\ [][Next]_vars

-----------------------------------------------------------------------------
(* WalIterator::next until it returns None or an error.  A header is         *)
(* followed by as many cells as it says, whatever they hold; a header that   *)
(* is none decodes to anything.  A key that is too long is an error before   *)
(* its bytes are read.  The end of the log is a zeroed header, an entry that *)
(* the end of the file cuts off, and any entry with an empty key.            *)
WholeAt(o) == \A i \in 1..Size[file[o].entry] : file[o + i - 1] = Cell(file[o].entry, i)

(* Mutant: the length of the key is not looked at.                           *)
MutTooLong(o) == FALSE

TooLong(o) == file[o].entry \in LongKey

Ends(o) == o + Size[file[o].entry] > size \/ file[o].entry \in EmptyKey

Replay ==
  LET rest[o \in 0..size] ==
        IF o = size \/ file[o] = Zero THEN <<>>
        ELSE IF file[o].at # 1 THEN <<Garbage>>
        ELSE IF TooLong(o) THEN <<LogRead>>
        ELSE IF Ends(o) THEN <<>>
        ELSE <<IF WholeAt(o) THEN file[o].entry ELSE Garbage>> \o rest[o + Size[file[o].entry]]
  IN  rest[0]

(* read: the cells a value pointer names, or EOF.  The mapping still has the *)
(* length it was made with when the file was cut.                            *)
Eof == <<Garbage>>

(* Mutant: the size of the log is not looked at.                             *)
MutRead(offset, len) ==
  IF offset >= mapLen \/ offset + len > mapLen THEN Eof
  ELSE [i \in 1..len |-> file[offset + i - 1]]

Read(offset, len) ==
  IF offset >= mapLen \/ offset + len > mapLen \/ offset + len > size THEN Eof
  ELSE [i \in 1..len |-> file[offset + i - 1]]

-----------------------------------------------------------------------------
(* Type invariant; size is the real length of the file.                      *)
TypeOK ==
  /\ file \in [0..(FileSize - 1) -> {Zero} \cup [entry : Entries, at : Nat]]
  /\ pc \in {"closed", "creating", "idle", "copy", "zero", "copy_panic", "zero_panic"}
  /\ pc \notin {"closed", "creating"} => size = fileLen /\ size <= mapLen /\ writeAt <= mapLen
  /\ entry \in Entries \cup {None} /\ copied \subseteq 1..FileSize
  /\ acked \in Seq(Entries) /\ begun \in BOOLEAN

(* What can come back of the entries of acked: those in front of the first   *)
(* one that cannot be read back, and an error if that one's key is too long. *)
Stops == {i \in 1..Len(acked) : acked[i] \in EmptyKey \cup LongKey \/ EndOf(acked, i) > fileLen}

Returned ==
  IF Stops = {} THEN acked
  ELSE LET n == CHOOSE i \in Stops : \A j \in Stops : i <= j
       IN  SubSeq(acked, 1, n - 1) \o (IF acked[n] \in LongKey THEN <<LogRead>> ELSE <<>>)

(* What was written is what is read back, in order and nothing else, also    *)
(* when the file holds entries of an earlier life behind it, after a restart *)
(* and after a truncation, unless the last write was cut off.  write_entry   *)
(* takes entries that reading does not: an empty key ends the log and a key  *)
(* of more than 1 << 16 bytes is an error, and nothing written behind either *)
(* comes back.                                                               *)
ReplayExact == pc = "idle" /\ ~torn => Replay = Returned

(* A write that was cut off takes nothing with it: what can come back of the *)
(* entries that write_entry had returned for comes first when the WAL is     *)
(* read again.  The first write to a file that was opened again is the       *)
(* exception: it goes on top of the entries that are there, and when it is   *)
(* cut off they are lost (begun).                                            *)
AckedSurvive ==
  pc = "idle" /\ ~begun => LET r == Replay
                           IN  Len(Returned) <= Len(r) /\ SubSeq(r, 1, Len(Returned)) = Returned

(* A WAL that is not due for a flush has room for an entry: write_entry      *)
(* panics only past the threshold, for an entry that leaves no room for the  *)
(* next header, or in a file an earlier life has cut short.                  *)
RoomUntilFlush ==
  /\ pc = "copy_panic" => \/ ShouldFlush(writeAt) \/ mapLen < FileSize
                          \/ Size[entry] + MaxHeaderSize > ValueLogFileSize
  /\ pc = "zero_panic" => \/ ShouldFlush(writeAt - Size[entry]) \/ mapLen < FileSize
                          \/ Size[entry] + MaxHeaderSize > ValueLogFileSize

(* As a value log: a pointer to an entry that is there in full and was not   *)
(* overwritten reads that entry, after restarts and truncations too, and no  *)
(* pointer, whatever it holds, makes read touch the mapping behind the end   *)
(* of the file.                                                              *)
PointersReadBack ==
  pc = "idle" =>
     /\ \A i \in 1..Len(acked) : ~begun /\ EndOf(acked, i) <= fileLen =>
          Read(EndOf(acked, i - 1), Size[acked[i]]) = [c \in 1..Size[acked[i]] |-> Cell(acked[i], c)]
     /\ \A o, n \in 0..FileSize : Read(o, n) # Eof => o + n <= fileLen

(* "return Ok(None) if we reached first corrupted entry": the iterator       *)
(* returns no entry that nobody wrote.                                       *)
StopsAtCorrupted == pc = "idle" => \A i \in DOMAIN Replay : Replay[i] # Garbage
=============================================================================
