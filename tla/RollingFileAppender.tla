------------------------- MODULE RollingFileAppender -------------------------
(***************************************************************************)
(* plog's RollingFileAppender (src/src/plog/include/plog/Appenders/), the  *)
(* log of the program: main.cpp:102 makes one with at most 3 files, and    *)
(* every thread writes to it.  It appends to a file and, when the file has *)
(* grown beyond a limit, renames file k to file k + 1, throws the last one *)
(* away and starts a new file.                                             *)
(*                                                                         *)
(* A record and a header each count one unit of size, and so does what a   *)
(* short write leaves of one.  Each call of the file system is a step, so  *)
(* that the program can die between any two, and what the setters change   *)
(* without the lock can change between any two.                            *)
(***************************************************************************)
EXTENDS Integers, Sequences, SequencesExt

CONSTANTS
  Writers,          \* threads that log
  Names,            \* log file names given to setFileName
  DefaultName,      \* the constructor's arguments ...
  DefaultMaxFiles,
  DefaultSize,
  MinFileSize,      \* the lower limit of the maximal file size
  MaxFilesArgs,     \* arguments of setMaxFiles
  SizeArgs,         \* arguments of setMaxFileSize
  Absent,           \* no file
  Free,             \* nobody holds m_mutex
  MaxRecords,       \* bound: calls of write
  MaxFaults,        \* bound: calls of the file system that fail, of setMaxFiles and rollLogFiles
  MaxCrashes        \* bound: deaths of the program

ASSUME RollingAssumption ==
  /\ DefaultName \in Names
  /\ DefaultMaxFiles \in Nat /\ MaxFilesArgs \subseteq Nat
  /\ DefaultSize \in Nat /\ SizeArgs \subseteq Nat /\ MinFileSize \in Nat
  /\ Absent \notin Seq(Int) /\ Free \notin Writers
  /\ MaxRecords \in Nat /\ MaxFaults \in Nat /\ MaxCrashes \in Nat

(* The numbers in file names; file 0 is the one without a number.          *)
Indices == UNION {0..(k - 1) : k \in MaxFilesArgs \cup {DefaultMaxFiles, 1}}
Header == 0         \* never empty: UTF8Converter puts the byte order mark in front
Failed == -1        \* static_cast<size_t>(-1)
Part == -1          \* what a short write leaves of a record or a header

VARIABLES
  files,            \* the file system: contents by name and number
  name,             \* m_fileNameNoExt and m_fileExt
  maxFiles,         \* m_maxFiles
  maxFileSize,      \* m_maxFileSize
  isOpen,           \* m_file is not -1
  fileSize,         \* m_fileSize
  firstWrite,       \* m_firstWrite
  mutex,            \* who holds m_mutex
  pc,               \* control state of every writer
  fileNumber,       \* the local variable of rollLogFiles
  record,           \* the record each writer is writing
  written,          \* number of records given to write
  logged,           \* history, per name: the records that reached a file
  faults,           \* history: number of failed calls, changes of m_maxFiles, rolls from outside
  crashes           \* history: number of deaths

settings == <<name, maxFiles, maxFileSize>>
control == <<mutex, pc, fileNumber, record, written>>
vars == <<files, settings, isOpen, fileSize, firstWrite, control, logged, faults, crashes>>

States == {"idle", "unlink", "loop", "rename", "open", "header", "append"}

Limit(size) == IF size > MinFileSize THEN size ELSE MinFileSize

(* The constructor.                                                        *)
Fresh ==
  [name |-> DefaultName, maxFiles |-> DefaultMaxFiles, maxFileSize |-> Limit(DefaultSize)]

Init ==
  /\ files = [n \in Names |-> [i \in Indices |-> Absent]]
  /\ name = Fresh.name /\ maxFiles = Fresh.maxFiles /\ maxFileSize = Fresh.maxFileSize
  /\ isOpen = FALSE /\ fileSize = 0 /\ firstWrite = TRUE
  /\ mutex = Free
  /\ pc = [w \in Writers |-> "idle"]
  /\ fileNumber = [w \in Writers |-> 0]
  /\ record = [w \in Writers |-> 0]
  /\ written = 0
  /\ logged = [n \in Names |-> {}]
  /\ faults = 0
  /\ crashes = 0

-----------------------------------------------------------------------------
(* The file system.                                                        *)

(* A call of the file system fails, or a setter or a roll comes between.   *)
Fault == faults < MaxFaults /\ faults' = faults + 1

(* buildFileName: numbers that are not positive name file 0.               *)
FileName(number) == IF number > 0 THEN number ELSE 0

Unlink(number) ==
  \/ files' = [files EXCEPT ![name][FileName(number)] = Absent] /\ UNCHANGED faults
  \/ Fault /\ UNCHANGED files

(* Renaming a file that does not exist changes nothing.                    *)
RenameFile(from, to) ==
  LET old == files[name][FileName(from)]
  IN  \/ /\ old # Absent
         /\ files' = [files EXCEPT ![name][FileName(to)] = old, ![name][FileName(from)] = Absent]
         /\ UNCHANGED faults
      \/ old = Absent /\ UNCHANGED <<files, faults>>
      \/ old # Absent /\ Fault /\ UNCHANGED files

Opened(contents, size) ==
  /\ files' = [files EXCEPT ![name][0] = contents]
  /\ isOpen' = TRUE
  /\ fileSize' = size
  /\ UNCHANGED faults

Existing == IF files[name][0] = Absent THEN <<>> ELSE files[name][0]

(* Faults: what is in the file is thrown away; the size of a file that is  *)
(* there already is not taken over.                                        *)
OpenFileTruncating == Opened(<<>>, 0)
OpenFileFromZero == Opened(Existing, 0)

(* Opening creates a file that is not there, and seeks to the end, which   *)
(* gives the size.                                                         *)
OpenFile ==
  \/ Opened(Existing, Len(Existing))
  \/ Fault /\ isOpen' = FALSE /\ fileSize' = Failed /\ UNCHANGED files

CloseFile == isOpen' = FALSE

(* m_fileSize += bytesWritten; and without the test, as a fault.           *)
AddUnchecked(bytesWritten) == fileSize' = fileSize + bytesWritten
Add(bytesWritten) ==
  fileSize' = IF bytesWritten # Failed THEN fileSize + bytesWritten ELSE fileSize

(* An entry is written whole, in part, or not at all.                      *)
AppendToFile(entry) ==
  \/ /\ isOpen
     /\ \/ files' = [files EXCEPT ![name][0] = Append(@, entry)] /\ UNCHANGED faults
        \/ files' = [files EXCEPT ![name][0] = Append(@, Part)] /\ Fault
     /\ Add(1)
  \/ /\ (isOpen /\ Fault) \/ (~isOpen /\ UNCHANGED faults)
     /\ Add(Failed)
     /\ UNCHANGED files

-----------------------------------------------------------------------------
(* write                                                                   *)

Goto(w, from, to) == pc[w] = from /\ pc' = [pc EXCEPT ![w] = to]

(* Fault: the mutex is not taken.                                          *)
LockNothing(w) == UNCHANGED mutex

Lock(w) == mutex = Free /\ mutex' = w

Unlock(w) == mutex' = Free /\ Goto(w, "append", "idle")

NeedsRoll == maxFiles > 0 /\ fileSize > maxFileSize /\ fileSize # Failed

(* Takes the lock and decides what to do about the file.                   *)
Write(w) ==
  /\ Lock(w)
  /\ written < MaxRecords
  /\ written' = written + 1
  /\ record' = [record EXCEPT ![w] = written + 1]
  /\ Goto(w, "idle", IF firstWrite THEN "open" ELSE IF NeedsRoll THEN "unlink" ELSE "append")
  /\ UNCHANGED <<files, settings, isOpen, fileSize, firstWrite, fileNumber, logged, faults, crashes>>

(* rollLogFiles called by the user.  It takes no lock, so the user must    *)
(* keep every other use of the appender out, as if by the mutex.           *)
RollLogFiles(w) ==
  /\ Lock(w) /\ Fault
  /\ record' = [record EXCEPT ![w] = Header]
  /\ Goto(w, "idle", "unlink")
  /\ UNCHANGED <<files, settings, isOpen, fileSize, firstWrite, fileNumber, written, logged, crashes>>

(* Fault: the file before the last is unlinked.                            *)
LastFileOffByOne == maxFiles - 2
LastFile == maxFiles - 1

(* rollLogFiles: close, then unlink the last file ...                      *)
RollUnlink(w) ==
  /\ Goto(w, "unlink", "loop")
  /\ CloseFile
  /\ Unlink(LastFile)
  /\ UNCHANGED <<settings, fileSize, firstWrite, mutex, fileNumber, record, written, logged, crashes>>

(* ... then read m_maxFiles a second time ...                              *)
RollLoop(w) ==
  /\ Goto(w, "loop", IF maxFiles - 2 >= 0 THEN "rename" ELSE "open")
  /\ fileNumber' = [fileNumber EXCEPT ![w] = maxFiles - 2]
  /\ UNCHANGED <<files, settings, isOpen, fileSize, firstWrite, mutex, record, written, logged, faults, crashes>>

(* ... and rename from the last but one down to file 0.                    *)
RollRename(w) ==
  /\ Goto(w, "rename", IF fileNumber[w] = 0 THEN "open" ELSE "rename")
  /\ fileNumber' = [fileNumber EXCEPT ![w] = @ - 1]
  /\ RenameFile(fileNumber[w], fileNumber[w] + 1)
  /\ UNCHANGED <<settings, isOpen, fileSize, firstWrite, mutex, record, written, logged, crashes>>

(* openLogFile: an existing file is continued, an empty one is given its   *)
(* header first.                                                           *)
OpenLogFile(w) ==
  /\ OpenFile
  /\ Goto(w, "open", IF fileSize' = 0 THEN "header" ELSE "append")
  /\ firstWrite' = FALSE
  /\ UNCHANGED <<settings, mutex, fileNumber, record, written, logged, crashes>>

WriteHeader(w) ==
  /\ Goto(w, "header", "append")
  /\ AppendToFile(Header)
  /\ UNCHANGED <<settings, isOpen, firstWrite, mutex, fileNumber, record, written, logged, crashes>>

(* The record is appended, unless there is none: rollLogFiles was called.  *)
WriteRecord(w) ==
  /\ Unlock(w)
  /\ \/ /\ record[w] # Header /\ AppendToFile(record[w])
        /\ logged' = [logged EXCEPT ![name] =
             IF files' # files /\ Last(files'[name][0]) # Part THEN @ \cup {record[w]} ELSE @]
     \/ record[w] = Header /\ UNCHANGED <<files, fileSize, logged, faults>>
  /\ UNCHANGED <<settings, isOpen, firstWrite, fileNumber, record, written, crashes>>

-----------------------------------------------------------------------------
(* The setters, of which only setFileName takes the lock.                  *)

SetFileName(n) ==
  /\ mutex = Free
  /\ name' = n
  /\ CloseFile
  /\ firstWrite' = TRUE
  /\ UNCHANGED <<files, maxFiles, maxFileSize, fileSize, control, logged, faults, crashes>>

SetMaxFiles(k) ==
  /\ Fault
  /\ maxFiles' = k
  /\ UNCHANGED <<files, name, maxFileSize, isOpen, fileSize, firstWrite, control, logged, crashes>>

SetMaxFileSize(size) ==
  /\ maxFileSize' = Limit(size)
  /\ UNCHANGED <<files, name, maxFiles, isOpen, fileSize, firstWrite, control, logged, faults, crashes>>

(* The program dies and is started again with the same arguments, as under *)
(* plog::init with a file name.  (main.cpp puts the time into the name: a  *)
(* restart then begins a log of its own, which is Init.)                   *)
Crash ==
  /\ crashes < MaxCrashes
  /\ crashes' = crashes + 1
  /\ name' = Fresh.name /\ maxFiles' = Fresh.maxFiles /\ maxFileSize' = Fresh.maxFileSize
  /\ isOpen' = FALSE /\ fileSize' = 0 /\ firstWrite' = TRUE
  /\ mutex' = Free
  /\ pc' = [w \in Writers |-> "idle"]
  /\ fileNumber' = [w \in Writers |-> 0]
  /\ record' = [w \in Writers |-> 0]
  /\ UNCHANGED <<files, written, logged, faults>>

WriterStep(w) ==
  \/ Write(w) \/ RollLogFiles(w) \/ RollUnlink(w) \/ RollLoop(w) \/ RollRename(w)
  \/ OpenLogFile(w) \/ WriteHeader(w) \/ WriteRecord(w)

(* The log is quiet.                                                       *)
Quiet == mutex = Free /\ UNCHANGED vars

Next ==
  \/ \E w \in Writers : WriterStep(w)
  \/ \E n \in Names : SetFileName(n)
  \/ \E k \in MaxFilesArgs : SetMaxFiles(k)
  \/ \E size \in SizeArgs : SetMaxFileSize(size)
  \/ Crash
  \/ Quiet

Spec == Init /\ [][Next]_vars

-----------------------------------------------------------------------------
(* Correctness.                                                            *)

Contents == Seq(Part..MaxRecords) \cup {Absent}

(* Every variable has its type.                                            *)
TypeOK ==
  /\ files \in [Names -> [Indices -> Contents]]
  /\ name \in Names
  /\ maxFiles \in MaxFilesArgs \cup {DefaultMaxFiles}
  /\ maxFileSize \in {Limit(size) : size \in SizeArgs \cup {DefaultSize}}
  /\ isOpen \in BOOLEAN /\ firstWrite \in BOOLEAN
  /\ fileSize \in Nat \cup {Failed}
  /\ mutex \in Writers \cup {Free}
  /\ pc \in [Writers -> States]
  /\ fileNumber \in [Writers -> Int]
  /\ record \in [Writers -> 0..MaxRecords]
  /\ written \in 0..MaxRecords
  /\ logged \in [Names -> SUBSET (1..MaxRecords)]
  /\ faults \in 0..MaxFaults
  /\ crashes \in 0..MaxCrashes

InFile(n, i, r) == files[n][i] # Absent /\ \E k \in DOMAIN files[n][i] : files[n][i][k] = r
Kept(n, r) == \E i \in Indices : InFile(n, i, r)

Ascending(s) == \A j, k \in DOMAIN s : j < k /\ s[j] > Header /\ s[k] > Header => s[j] < s[k]

(* Whatever fails and whenever the program dies, the files are in order: a *)
(* file with a higher number holds older records, and records are in the   *)
(* order in which they were logged (write, lines 36-56, and rollLogFiles). *)
Chronological ==
  \A n \in Names :
    /\ \A i \in Indices : files[n][i] # Absent => Ascending(files[n][i])
    /\ \A i, j \in Indices, r, s \in 1..MaxRecords :
         i > j /\ InFile(n, i, r) /\ InFile(n, j, s) => r < s

(* m_fileSize is the size of the file that is open, so that the decision   *)
(* to roll is made on what is really there.                                *)
SizeKnown == isOpen => files[name][0] # Absent /\ fileSize = Len(files[name][0])

(* If no call fails, m_maxFiles is not changed and nobody rolls by hand,   *)
(* what is kept is the recent history without a gap, even if the program   *)
(* dies while it rolls.                                                    *)
NoGaps ==
  faults = 0 =>
    \A n \in Names, r, s \in 1..MaxRecords :
      Kept(n, r) /\ s > r /\ s \in logged[n] => Kept(n, s)

(* Under the same conditions a record is given up only for as many full    *)
(* files of later records as m_maxFiles allows.                            *)
DroppedWhenFull ==
  faults = 0 /\ crashes = 0 /\ mutex = Free =>
    \A n \in Names :
      (\E r \in logged[n] : ~Kept(n, r)) =>
        \A i \in 1..(DefaultMaxFiles - 1) :
          files[n][i] # Absent /\ Len(files[n][i]) > MinFileSize

(* A header is nowhere but at the beginning of a file, whatever fails, and *)
(* if no call fails it is there before any record, even if the program     *)
(* dies before the header is written.                                      *)
HeaderOnce ==
  \A n \in Names, i \in Indices :
    files[n][i] # Absent =>
      \A k \in DOMAIN files[n][i] :
        /\ files[n][i][k] = Header => k = 1
        /\ faults = 0 /\ k = 1 => files[n][i][k] = Header
=============================================================================
