---------------------- MODULE RollingFileAppenderProofs ----------------------
(***************************************************************************)
(* Theorems about module RollingFileAppender, for every set of threads and *)
(* names, every limit the setters are given and every bound: the types and *)
(* the size of the open file, what each step does to the files, where      *)
(* headers are, that the records are in order, and which of them are given *)
(* up.                                                                     *)
(***************************************************************************)
EXTENDS RollingFileAppender, SequenceTheorems, TLAPS

-----------------------------------------------------------------------------
(* Who holds the lock, what is open when, and which file is renamed next.  *)

LockInv == \A w \in Writers : pc[w] # "idle" <=> mutex = w

OpenInv ==
  /\ SizeKnown
  /\ firstWrite => ~isOpen
  /\ \A w \in Writers :
       /\ pc[w] \in {"loop", "rename", "open"} => ~isOpen
       /\ pc[w] = "header" => isOpen /\ files[name][0] = <<>>

RenameInv ==
  \A w \in Writers :
    pc[w] = "rename" => fileNumber[w] >= 0 /\ fileNumber[w] + 1 \in Indices

TypeInv == TypeOK /\ LockInv /\ OpenInv /\ RenameInv

-----------------------------------------------------------------------------
(* Numbers and contents of files.                                          *)

LEMMA IndexFacts ==
  /\ Indices \subseteq Nat /\ 0 \in Indices
  /\ \A i \in Indices, j \in Nat : j <= i => j \in Indices
  /\ \A k \in MaxFilesArgs \cup {DefaultMaxFiles} :
       /\ k \in Nat
       /\ FileName(k - 1) \in Indices
       /\ k > 0 => k - 1 \in Indices
  <1>1. \A k \in MaxFilesArgs \cup {DefaultMaxFiles, 1} : k \in Nat
    BY RollingAssumption
  <1>2. \A i \in Indices : \E k \in MaxFilesArgs \cup {DefaultMaxFiles, 1} : i \in 0..(k - 1)
    BY DEF Indices
  <1>3. \A k \in MaxFilesArgs \cup {DefaultMaxFiles, 1} : \A i \in 0..(k - 1) : i \in Indices
    BY DEF Indices
  <1>4. Indices \subseteq Nat
    BY <1>1, <1>2
  <1>5. 0 \in Indices
    BY <1>3
  <1>6. ASSUME NEW i \in Indices, NEW j \in Nat, j <= i PROVE j \in Indices
    <2>1. PICK k \in MaxFilesArgs \cup {DefaultMaxFiles, 1} : i \in 0..(k - 1)
      BY <1>2
    <2>2. j \in 0..(k - 1)
      BY <1>1, <1>6, <2>1
    <2> QED
      BY <1>3, <2>2
  <1>7. ASSUME NEW k \in MaxFilesArgs \cup {DefaultMaxFiles}, k > 0 PROVE k - 1 \in Indices
    <2>1. k \in Nat /\ k - 1 \in 0..(k - 1)
      BY <1>1, <1>7
    <2> QED
      BY <1>3, <2>1
  <1> QED
    BY <1>1, <1>4, <1>5, <1>6, <1>7 DEF FileName

LEMMA ContentsFacts ==
  /\ <<>> \in Contents /\ <<>> # Absent /\ Absent \in Contents
  /\ \A s \in Contents : s # Absent =>
       /\ s \in Seq(Part..MaxRecords) /\ Len(s) \in Nat /\ DOMAIN s = 1..Len(s)
       /\ Len(s) = 0 => s = <<>>
       /\ \A e \in Part..MaxRecords :
            /\ Append(s, e) \in Contents /\ Append(s, e) # Absent
            /\ Len(Append(s, e)) = Len(s) + 1
            /\ DOMAIN Append(s, e) = 1..(Len(s) + 1)
            /\ \A k \in 1..Len(s) : Append(s, e)[k] = s[k]
            /\ Append(s, e)[Len(s) + 1] = e
  <1>1. \A s : s \in Seq(Part..MaxRecords) => s # Absent
    <2>1. Part..MaxRecords \subseteq Int
      BY RollingAssumption DEF Part
    <2>2. \A s \in Seq(Part..MaxRecords) : s \in Seq(Int)
      BY <2>1, SeqMonotonic
    <2> QED
      BY <2>2, RollingAssumption
  <1>2. <<>> \in Seq(Part..MaxRecords)
    OBVIOUS
  <1>3. ASSUME NEW s \in Seq(Part..MaxRecords), NEW e \in Part..MaxRecords
        PROVE  /\ Append(s, e) \in Seq(Part..MaxRecords)
               /\ Len(Append(s, e)) = Len(s) + 1
               /\ DOMAIN Append(s, e) = 1..(Len(s) + 1)
               /\ \A k \in 1..Len(s) : Append(s, e)[k] = s[k]
               /\ Append(s, e)[Len(s) + 1] = e
    BY <1>3
  <1>4. \A s \in Seq(Part..MaxRecords) :
          Len(s) \in Nat /\ DOMAIN s = 1..Len(s) /\ (Len(s) = 0 => s = <<>>)
    BY EmptySeq
  <1> QED
    BY <1>1, <1>2, <1>3, <1>4 DEF Contents

-----------------------------------------------------------------------------
(* What the steps do to the files.                                         *)

LEMMA FilesType ==
  ASSUME NEW f \in [Names -> [Indices -> Contents]],
         NEW n \in Names, NEW i \in Indices, NEW c \in Contents
  PROVE  [f EXCEPT ![n][i] = c] \in [Names -> [Indices -> Contents]]
  <1>1. f[n] \in [Indices -> Contents]
    OBVIOUS
  <1>2. [f[n] EXCEPT ![i] = c] \in [Indices -> Contents]
    BY <1>1
  <1>3. [f EXCEPT ![n] = [f[n] EXCEPT ![i] = c]] \in [Names -> [Indices -> Contents]]
    BY <1>2
  <1> QED
    BY <1>3

LEMMA UnlinkEffect ==
  ASSUME TypeOK, Unlink(LastFile), NEW n \in Names, NEW i \in Indices
  PROVE  \/ files'[n][i] = files[n][i]
         \/ n = name /\ i = FileName(LastFile) /\ files'[n][i] = Absent
  BY DEF TypeOK, Unlink

(* File number k becomes file number k + 1, or nothing happens.            *)
Renamed(k) ==
  /\ files[name][k] # Absent
  /\ files'[name][k + 1] = files[name][k] /\ files'[name][k] = Absent
  /\ \A n \in Names, i \in Indices :
       n # name \/ i \notin {k, k + 1} => files'[n][i] = files[n][i]

LEMMA RenameEffect ==
  ASSUME TypeOK, NEW k \in Indices, k + 1 \in Indices, RenameFile(k, k + 1)
  PROVE  \/ files' = files
         \/ Renamed(k) /\ faults' = faults
  <1>1. FileName(k) = k /\ FileName(k + 1) = k + 1
    BY IndexFacts DEF FileName
  <1>2. CASE /\ files[name][k] # Absent /\ UNCHANGED faults
             /\ files' = [files EXCEPT ![name][k + 1] = files[name][k], ![name][k] = Absent]
    <2>1. k # k + 1
      BY IndexFacts
    <2> QED
      BY <1>2, <2>1 DEF TypeOK, Renamed
  <1> QED
    BY <1>1, <1>2 DEF RenameFile

(* One entry more at the end of the open file, or nothing happens.         *)
Appended(e) ==
  /\ isOpen
  /\ files'[name][0] = Append(files[name][0], e)
  /\ fileSize' = fileSize + 1
  /\ \A n \in Names, i \in Indices : n # name \/ i # 0 => files'[n][i] = files[n][i]

LEMMA AppendEffect ==
  ASSUME TypeOK, SizeKnown, NEW e \in 0..MaxRecords, AppendToFile(e)
  PROVE  \/ Appended(e) /\ faults' = faults
         \/ Appended(Part) /\ Fault
         \/ UNCHANGED <<files, fileSize>> /\ (Fault \/ (~isOpen /\ UNCHANGED faults))
  <1>1. isOpen => fileSize # Failed /\ files[name][0] # Absent
    BY ContentsFacts, IndexFacts DEF SizeKnown, TypeOK, Failed
  <1>2. (Add(1) => fileSize' = fileSize + 1) /\ (Add(Failed) => fileSize' = fileSize)
    BY DEF Add, Failed
  <1>3. ASSUME NEW x, isOpen, files' = [files EXCEPT ![name][0] = Append(@, x)], Add(1)
        PROVE  Appended(x)
    BY <1>1, <1>3, IndexFacts DEF TypeOK, Appended, Add, Failed
  <1>4. CASE /\ isOpen /\ Add(1)
             /\ \/ files' = [files EXCEPT ![name][0] = Append(@, e)] /\ UNCHANGED faults
                \/ files' = [files EXCEPT ![name][0] = Append(@, Part)] /\ Fault
    BY <1>3, <1>4
  <1>5. CASE ((isOpen /\ Fault) \/ (~isOpen /\ UNCHANGED faults)) /\ Add(Failed) /\ UNCHANGED files
    BY <1>2, <1>5
  <1> QED
    BY <1>4, <1>5 DEF AppendToFile

(* A file that is not there is created, or nothing happens.                *)
Created ==
  /\ files[name][0] = Absent /\ files'[name][0] = <<>>
  /\ \A n \in Names, i \in Indices : n # name \/ i # 0 => files'[n][i] = files[n][i]

LEMMA OpenEffect ==
  ASSUME TypeOK, OpenFile
  PROVE  \/ /\ Created \/ (files[name][0] # Absent /\ files' = files)
            /\ isOpen' = TRUE /\ fileSize' = Len(files'[name][0]) /\ UNCHANGED faults
         \/ Fault /\ isOpen' = FALSE /\ fileSize' = Failed /\ files' = files
  <1>1. CASE Opened(Existing, Len(Existing))
    <2>1. files'[name][0] = Existing /\ isOpen' = TRUE /\ fileSize' = Len(Existing)
      BY <1>1, IndexFacts DEF Opened, TypeOK
    <2>2. CASE files[name][0] = Absent
      BY <1>1, <2>1, <2>2, IndexFacts DEF Opened, Existing, Created, TypeOK
    <2>3. CASE files[name][0] # Absent
      <3>1. files' = files
        BY <1>1, <2>3, IndexFacts DEF Opened, Existing, TypeOK
      <3> QED
        BY <1>1, <2>1, <2>3, <3>1 DEF Opened, Existing
    <2> QED
      BY <2>2, <2>3
  <1> QED
    BY <1>1 DEF OpenFile

-----------------------------------------------------------------------------
(* Types.                                                                  *)

LEMMA TypeInit == Init => TypeInv
  <1> SUFFICES ASSUME Init PROVE TypeInv
    OBVIOUS
  <1>1. files \in [Names -> [Indices -> Contents]]
    BY ContentsFacts DEF Init
  <1>2. maxFileSize \in {Limit(size) : size \in SizeArgs \cup {DefaultSize}}
    BY DEF Init, Fresh
  <1>3. TypeOK
    <2>1. /\ pc \in [Writers -> States] /\ fileNumber \in [Writers -> Int]
          /\ record \in [Writers -> 0..MaxRecords]
          /\ logged \in [Names -> SUBSET (1..MaxRecords)]
      BY RollingAssumption DEF Init, States
    <2>2. name \in Names /\ maxFiles \in MaxFilesArgs \cup {DefaultMaxFiles}
      BY RollingAssumption DEF Init, Fresh
    <2>3. written \in 0..MaxRecords /\ faults \in 0..MaxFaults /\ crashes \in 0..MaxCrashes
      BY RollingAssumption DEF Init
    <2>4. /\ isOpen \in BOOLEAN /\ firstWrite \in BOOLEAN
          /\ fileSize \in Nat \cup {Failed} /\ mutex \in Writers \cup {Free}
      BY DEF Init
    <2> QED
      BY <1>1, <1>2, <2>1, <2>2, <2>3, <2>4 DEF TypeOK
  <1>4. LockInv /\ OpenInv /\ RenameInv
    BY RollingAssumption DEF Init, LockInv, OpenInv, RenameInv, SizeKnown
  <1> QED
    BY <1>3, <1>4 DEF TypeInv

(* The holder of the lock goes from one control state to another.          *)
LEMMA TypeGoto ==
  ASSUME TypeInv, NEW w \in Writers, NEW from \in States \ {"idle"}, NEW to \in States,
         Goto(w, from, to), mutex' = (IF to = "idle" THEN Free ELSE mutex)
  PROVE  /\ mutex = w /\ mutex' \in Writers \cup {Free}
         /\ pc' \in [Writers -> States] /\ pc'[w] = to /\ LockInv'
         /\ \A u \in Writers : u # w => pc[u] = "idle" /\ pc'[u] = "idle"
  <1>1. /\ pc \in [Writers -> States] /\ pc[w] = from /\ pc' = [pc EXCEPT ![w] = to]
        /\ mutex \in Writers \cup {Free}
    BY DEF TypeInv, TypeOK, Goto
  <1>2. mutex = w
    BY <1>1 DEF TypeInv, LockInv
  <1>3. \A u \in Writers : u # w => pc[u] = "idle" /\ pc'[u] = "idle"
    BY <1>1, <1>2 DEF TypeInv, LockInv
  <1>4. LockInv'
    BY <1>1, <1>2, <1>3, RollingAssumption DEF LockInv
  <1> QED
    BY <1>1, <1>2, <1>3, <1>4

LEMMA TypeTake ==
  ASSUME TypeInv, NEW w \in Writers, NEW to \in States \ {"idle"}, Goto(w, "idle", to), Lock(w)
  PROVE  /\ mutex = Free /\ mutex' = w
         /\ pc' \in [Writers -> States] /\ pc'[w] = to /\ LockInv'
         /\ \A u \in Writers : pc[u] = "idle" /\ (u # w => pc'[u] = "idle")
  <1>1. /\ pc \in [Writers -> States] /\ pc' = [pc EXCEPT ![w] = to]
        /\ mutex = Free /\ mutex' = w
    BY DEF TypeInv, TypeOK, Goto, Lock
  <1>2. \A u \in Writers : pc[u] = "idle"
    BY <1>1, RollingAssumption DEF TypeInv, LockInv
  <1>3. \A u \in Writers : u # w => pc'[u] = "idle"
    BY <1>1, <1>2
  <1>4. LockInv'
    BY <1>1, <1>3 DEF LockInv
  <1> QED
    BY <1>1, <1>2, <1>3, <1>4

LEMMA TypeWrite ==
  ASSUME TypeInv, NEW w \in Writers, Write(w)
  PROVE  TypeInv'
  <1> DEFINE to == IF firstWrite THEN "open" ELSE IF NeedsRoll THEN "unlink" ELSE "append"
  <1>1. to \in {"open", "unlink", "append"} /\ Goto(w, "idle", to) /\ Lock(w)
        /\ (to = "open" => firstWrite)
    BY DEF Write
  <1> HIDE DEF to
  <1>2. /\ pc' \in [Writers -> States] /\ mutex' = w /\ pc'[w] = to /\ LockInv'
        /\ \A u \in Writers : u # w => pc'[u] = "idle"
    BY <1>1, TypeTake DEF States
  <1>3. record' \in [Writers -> 0..MaxRecords] /\ written' \in 0..MaxRecords
    BY RollingAssumption DEF Write, TypeInv, TypeOK
  <1>4. TypeOK'
    BY <1>2, <1>3 DEF Write, TypeInv, TypeOK, settings
  <1>5. OpenInv' /\ RenameInv'
    BY <1>1, <1>2 DEF Write, TypeInv, OpenInv, RenameInv, SizeKnown, settings
  <1> QED
    BY <1>2, <1>4, <1>5 DEF TypeInv

LEMMA TypeRollLogFiles ==
  ASSUME TypeInv, NEW w \in Writers, RollLogFiles(w)
  PROVE  TypeInv'
  <1>1. /\ pc' \in [Writers -> States] /\ mutex' = w /\ pc'[w] = "unlink" /\ LockInv'
        /\ \A u \in Writers : u # w => pc'[u] = "idle"
    BY TypeTake DEF States, RollLogFiles
  <1>2. record' \in [Writers -> 0..MaxRecords] /\ faults' \in 0..MaxFaults
    BY RollingAssumption DEF RollLogFiles, Fault, Header, TypeInv, TypeOK
  <1>3. TypeOK'
    BY <1>1, <1>2 DEF RollLogFiles, TypeInv, TypeOK, settings
  <1>4. OpenInv' /\ RenameInv'
    BY <1>1 DEF RollLogFiles, TypeInv, OpenInv, RenameInv, SizeKnown, settings
  <1> QED
    BY <1>1, <1>3, <1>4 DEF TypeInv

LEMMA LastFileIndex ==
  ASSUME TypeOK
  PROVE  /\ maxFiles \in Nat /\ FileName(LastFile) \in Indices
         /\ maxFiles > 0 => LastFile \in Indices
  BY IndexFacts DEF TypeOK, LastFile

LEMMA TypeRollUnlink ==
  ASSUME TypeInv, NEW w \in Writers, RollUnlink(w)
  PROVE  TypeInv'
  <1>1. /\ pc' \in [Writers -> States] /\ mutex' = mutex /\ pc'[w] = "loop" /\ LockInv'
        /\ \A u \in Writers : u # w => pc'[u] = "idle"
    BY TypeGoto DEF States, RollUnlink
  <1>2. faults' \in 0..MaxFaults /\ isOpen' = FALSE
    BY RollingAssumption DEF RollUnlink, Unlink, Fault, CloseFile, TypeInv, TypeOK
  <1>3. files' \in [Names -> [Indices -> Contents]]
    <2>1. files' = [files EXCEPT ![name][FileName(LastFile)] = Absent] \/ files' = files
      BY DEF RollUnlink, Unlink
    <2>2. FileName(LastFile) \in Indices /\ name \in Names
      BY LastFileIndex DEF TypeInv, TypeOK
    <2>3. Absent \in Contents
      BY ContentsFacts
    <2>4. files \in [Names -> [Indices -> Contents]]
      BY DEF TypeInv, TypeOK
    <2>5. [files EXCEPT ![name][FileName(LastFile)] = Absent] \in [Names -> [Indices -> Contents]]
      BY <2>2, <2>3, <2>4, FilesType
    <2> QED
      BY <2>1, <2>4, <2>5
  <1>4. TypeOK'
    BY <1>1, <1>2, <1>3 DEF RollUnlink, TypeInv, TypeOK, settings
  <1>5. OpenInv' /\ RenameInv'
    BY <1>1, <1>2 DEF OpenInv, RenameInv, SizeKnown
  <1> QED
    BY <1>1, <1>4, <1>5 DEF TypeInv

LEMMA TypeRollLoop ==
  ASSUME TypeInv, NEW w \in Writers, RollLoop(w)
  PROVE  TypeInv'
  <1> DEFINE to == IF maxFiles - 2 >= 0 THEN "rename" ELSE "open"
  <1>1. to \in {"rename", "open"} /\ Goto(w, "loop", to)
    BY DEF RollLoop
  <1>2. to = "rename" => maxFiles - 2 >= 0
    OBVIOUS
  <1> HIDE DEF to
  <1>3. /\ pc' \in [Writers -> States] /\ mutex' = mutex /\ pc'[w] = to /\ LockInv'
        /\ \A u \in Writers : u # w => pc'[u] = "idle"
    BY <1>1, TypeGoto DEF States, RollLoop
  <1>4. ~isOpen
    BY <1>1 DEF TypeInv, OpenInv, Goto
  <1>5. /\ fileNumber' \in [Writers -> Int] /\ fileNumber'[w] = maxFiles - 2
        /\ maxFiles \in Nat
    BY LastFileIndex DEF RollLoop, TypeInv, TypeOK
  <1>6. to = "rename" => fileNumber'[w] >= 0 /\ fileNumber'[w] + 1 \in Indices
    <2>1. to = "rename" => LastFile \in Indices /\ (maxFiles - 2) + 1 = LastFile
      BY <1>2, <1>5, LastFileIndex DEF TypeInv, LastFile
    <2> QED
      BY <1>2, <1>5, <2>1
  <1>7. TypeOK'
    BY <1>3, <1>5 DEF RollLoop, TypeInv, TypeOK, settings
  <1>8. OpenInv' /\ RenameInv'
    BY <1>1, <1>3, <1>4, <1>6 DEF RollLoop, OpenInv, RenameInv, SizeKnown, settings
  <1> QED
    BY <1>3, <1>7, <1>8 DEF TypeInv

LEMMA RenameIndex ==
  ASSUME TypeInv, NEW w \in Writers, RollRename(w)
  PROVE  /\ fileNumber[w] \in Indices /\ fileNumber[w] + 1 \in Indices
         /\ RenameFile(fileNumber[w], fileNumber[w] + 1)
  <1>1. fileNumber[w] \in Int /\ fileNumber[w] >= 0 /\ fileNumber[w] + 1 \in Indices
    BY DEF RollRename, Goto, TypeInv, TypeOK, RenameInv
  <1> QED
    BY <1>1, IndexFacts DEF RollRename

LEMMA TypeRollRename ==
  ASSUME TypeInv, NEW w \in Writers, RollRename(w)
  PROVE  TypeInv'
  <1> DEFINE to == IF fileNumber[w] = 0 THEN "open" ELSE "rename"
             k == fileNumber[w]
  <1>1. to \in {"rename", "open"} /\ Goto(w, "rename", to)
    BY DEF RollRename
  <1>2. /\ k \in Indices /\ k + 1 \in Indices /\ k \in Nat
        /\ fileNumber' \in [Writers -> Int] /\ fileNumber'[w] = k - 1
    <2>1. fileNumber \in [Writers -> Int] /\ fileNumber' = [fileNumber EXCEPT ![w] = @ - 1]
      BY DEF RollRename, TypeInv, TypeOK
    <2>2. k >= 0 /\ k + 1 \in Indices
      BY <1>1 DEF TypeInv, RenameInv, Goto
    <2> QED
      BY <2>1, <2>2, IndexFacts
  <1>3. to = "rename" => k # 0
    OBVIOUS
  <1>4. /\ pc' \in [Writers -> States] /\ mutex' = mutex /\ pc'[w] = to /\ LockInv'
        /\ \A u \in Writers : u # w => pc'[u] = "idle"
    BY <1>1, TypeGoto DEF States, RollRename
  <1>5. RenameFile(k, k + 1) /\ ~isOpen
    BY <1>1 DEF RollRename, TypeInv, OpenInv, Goto
  <1> HIDE DEF to, k
  <1>6. files' \in [Names -> [Indices -> Contents]] /\ faults' \in 0..MaxFaults
    <2>1. FileName(k) = k /\ FileName(k + 1) = k + 1
      BY <1>2 DEF FileName
    <2>2. \/ files' = files
          \/ files' = [[files EXCEPT ![name][k + 1] = files[name][k]] EXCEPT ![name][k] = Absent]
      BY <1>5, <2>1 DEF RenameFile
    <2>3. /\ name \in Names /\ files \in [Names -> [Indices -> Contents]]
          /\ Absent \in Contents /\ files[name][k] \in Contents
      BY <1>2, ContentsFacts DEF TypeInv, TypeOK
    <2>4. [files EXCEPT ![name][k + 1] = files[name][k]] \in [Names -> [Indices -> Contents]]
      BY <1>2, <2>3, FilesType
    <2>5. [[files EXCEPT ![name][k + 1] = files[name][k]] EXCEPT ![name][k] = Absent]
            \in [Names -> [Indices -> Contents]]
      BY <1>2, <2>3, <2>4, FilesType
    <2>6. faults' \in 0..MaxFaults
      BY <1>5, RollingAssumption DEF RenameFile, Fault, TypeInv, TypeOK
    <2> QED
      BY <2>2, <2>3, <2>5, <2>6
  <1>7. TypeOK'
    BY <1>2, <1>4, <1>6 DEF RollRename, TypeInv, TypeOK, settings
  <1>8. RenameInv'
    <2>1. to = "rename" => k - 1 >= 0 /\ (k - 1) + 1 \in Indices
      BY <1>2, <1>3
    <2> QED
      BY <1>2, <1>4, <2>1 DEF RenameInv
  <1>9. OpenInv'
    BY <1>1, <1>4, <1>5 DEF RollRename, OpenInv, SizeKnown, settings
  <1> QED
    BY <1>4, <1>7, <1>8, <1>9 DEF TypeInv

LEMMA TypeOpenLogFile ==
  ASSUME TypeInv, NEW w \in Writers, OpenLogFile(w)
  PROVE  TypeInv'
  <1> DEFINE to == IF fileSize' = 0 THEN "header" ELSE "append"
  <1>1. to \in {"header", "append"} /\ Goto(w, "open", to) /\ OpenFile
    BY DEF OpenLogFile
  <1>2. to = "header" => fileSize' = 0
    OBVIOUS
  <1> HIDE DEF to
  <1>3. /\ pc' \in [Writers -> States] /\ mutex' = mutex /\ pc'[w] = to /\ LockInv'
        /\ \A u \in Writers : u # w => pc'[u] = "idle"
    BY <1>1, TypeGoto DEF States, OpenLogFile
  <1>4. /\ files' \in [Names -> [Indices -> Contents]] /\ files'[name][0] \in Contents
        /\ isOpen' \in BOOLEAN /\ fileSize' \in Nat \cup {Failed} /\ faults' \in 0..MaxFaults
        /\ isOpen' => files'[name][0] # Absent /\ fileSize' = Len(files'[name][0])
        /\ fileSize' = 0 => isOpen'
    <2>1. /\ files \in [Names -> [Indices -> Contents]] /\ name \in Names
          /\ Existing \in Contents \ {Absent} /\ faults \in 0..MaxFaults
      BY ContentsFacts, IndexFacts DEF Existing, TypeInv, TypeOK
    <2>2. Len(Existing) \in Nat
      BY <2>1, ContentsFacts
    <2>3. CASE Opened(Existing, Len(Existing))
      <3>1. /\ files' = [files EXCEPT ![name][0] = Existing] /\ isOpen' = TRUE
            /\ fileSize' = Len(Existing) /\ faults' = faults
        BY <2>3 DEF Opened
      <3>2. files' \in [Names -> [Indices -> Contents]]
        BY <2>1, <3>1, IndexFacts, FilesType
      <3>3. files'[name][0] = Existing
        BY <2>1, <3>1, IndexFacts
      <3> QED
        BY <2>1, <2>2, <3>1, <3>2, <3>3
    <2>4. CASE Fault /\ isOpen' = FALSE /\ fileSize' = Failed /\ UNCHANGED files
      <3>1. faults' \in 0..MaxFaults
        BY <2>1, <2>4, RollingAssumption DEF Fault
      <3>2. files[name][0] \in Contents
        BY <2>1, IndexFacts
      <3>3. files' = files /\ ~isOpen' /\ isOpen' \in BOOLEAN /\ fileSize' = -1
        BY <2>4 DEF Failed
      <3>4. fileSize' \in Nat \cup {Failed} /\ fileSize' # 0
        BY <3>3 DEF Failed
      <3>5. files'[name][0] \in Contents /\ files' \in [Names -> [Indices -> Contents]]
        BY <2>1, <3>2, <3>3
      <3> QED
        BY <3>1, <3>3, <3>4, <3>5
    <2> QED
      BY <1>1, <2>3, <2>4 DEF OpenFile
  <1>5. TypeOK'
    BY <1>3, <1>4 DEF OpenLogFile, TypeInv, TypeOK, settings
  <1>6. OpenInv'
    <2>1. to = "header" => isOpen' /\ files'[name][0] = <<>>
      <3>1. PICK c \in Contents : c = files'[name][0]
        BY <1>4
      <3>2. to = "header" => isOpen' /\ c # Absent /\ Len(c) = 0
        BY <1>2, <1>4, <3>1
      <3> QED
        BY <3>1, <3>2, ContentsFacts
    <2>2. name' = name /\ firstWrite' = FALSE
      BY DEF OpenLogFile, settings
    <2> QED
      BY <1>1, <1>3, <1>4, <2>1, <2>2 DEF OpenInv, SizeKnown
  <1>7. RenameInv'
    BY <1>1, <1>3 DEF RenameInv
  <1> QED
    BY <1>3, <1>5, <1>6, <1>7 DEF TypeInv

(* An entry is appended, or not, by the holder of the lock.                *)
LEMMA TypeAppend ==
  ASSUME TypeInv, NEW e \in 0..MaxRecords, AppendToFile(e), isOpen' = isOpen, name' = name
  PROVE  /\ files' \in [Names -> [Indices -> Contents]] /\ fileSize' \in Nat \cup {Failed}
         /\ faults' \in 0..MaxFaults
         /\ SizeKnown'
         /\ \A n \in Names, i \in Indices : n # name \/ i # 0 => files'[n][i] = files[n][i]
  <1>1. /\ files \in [Names -> [Indices -> Contents]] /\ name \in Names /\ SizeKnown
        /\ 0 \in Indices /\ faults \in 0..MaxFaults /\ fileSize \in Nat \cup {Failed}
    BY IndexFacts DEF TypeInv, TypeOK, OpenInv
  <1>2. faults' \in 0..MaxFaults
    BY <1>1, RollingAssumption DEF AppendToFile, Fault
  <1>3. /\ Add(1) /\ isOpen => fileSize' = Len(files[name][0]) + 1
        /\ Add(Failed) => fileSize' = fileSize
    <2>1. isOpen => fileSize # Failed /\ fileSize = Len(files[name][0])
      BY <1>1, ContentsFacts DEF SizeKnown, Failed
    <2> QED
      BY <2>1 DEF Add, Failed
  <1>4. CASE isOpen /\ Add(1) /\ \E x \in {e, Part} : files' = [files EXCEPT ![name][0] = Append(@, x)]
    <2>1. PICK x \in {e, Part} : files' = [files EXCEPT ![name][0] = Append(@, x)]
      BY <1>4
    <2>2. x \in Part..MaxRecords
      BY RollingAssumption DEF Part
    <2>3. files[name][0] \in Contents /\ files[name][0] # Absent
      BY <1>1, <1>4 DEF SizeKnown
    <2>4. PICK c : c = Append(files[name][0], x)
      OBVIOUS
    <2>5. c \in Contents /\ c # Absent /\ Len(c) = Len(files[name][0]) + 1 /\ Len(c) \in Nat
      BY <2>2, <2>3, <2>4, ContentsFacts
    <2>6. files' = [files EXCEPT ![name][0] = c]
      BY <2>1, <2>4
    <2>7. files' \in [Names -> [Indices -> Contents]]
      BY <1>1, <2>5, <2>6, FilesType
    <2>8. /\ files'[name][0] = c
          /\ \A n \in Names, i \in Indices : n # name \/ i # 0 => files'[n][i] = files[n][i]
      BY <1>1, <2>6
    <2> QED
      BY <1>2, <1>3, <1>4, <2>5, <2>7, <2>8 DEF SizeKnown
  <1>5. CASE Add(Failed) /\ UNCHANGED files
    BY <1>1, <1>2, <1>3, <1>5 DEF SizeKnown
  <1> QED
    BY <1>4, <1>5 DEF AppendToFile

LEMMA TypeWriteHeader ==
  ASSUME TypeInv, NEW w \in Writers, WriteHeader(w)
  PROVE  TypeInv'
  <1>1. /\ pc' \in [Writers -> States] /\ mutex' = mutex /\ pc'[w] = "append" /\ LockInv'
        /\ \A u \in Writers : u # w => pc'[u] = "idle"
    BY TypeGoto DEF States, WriteHeader
  <1>2. Header \in 0..MaxRecords /\ AppendToFile(Header) /\ isOpen' = isOpen /\ name' = name
    BY RollingAssumption DEF WriteHeader, Header, settings
  <1>3. /\ files' \in [Names -> [Indices -> Contents]] /\ fileSize' \in Nat \cup {Failed}
        /\ faults' \in 0..MaxFaults /\ SizeKnown'
    BY <1>2, TypeAppend
  <1>4. TypeOK'
    BY <1>1, <1>3 DEF WriteHeader, TypeInv, TypeOK, settings
  <1>5. OpenInv' /\ RenameInv'
    BY <1>1, <1>3 DEF WriteHeader, TypeInv, OpenInv, RenameInv
  <1> QED
    BY <1>1, <1>4, <1>5 DEF TypeInv

LEMMA TypeWriteRecord ==
  ASSUME TypeInv, NEW w \in Writers, WriteRecord(w)
  PROVE  TypeInv'
  <1>1. /\ pc' \in [Writers -> States] /\ mutex' = Free /\ LockInv'
        /\ \A u \in Writers : pc'[u] = "idle"
    BY TypeGoto DEF States, WriteRecord, Unlock
  <1>2. record[w] \in 0..MaxRecords /\ isOpen' = isOpen /\ name' = name
    BY DEF WriteRecord, settings, TypeInv, TypeOK
  <1>3. /\ files' \in [Names -> [Indices -> Contents]] /\ fileSize' \in Nat \cup {Failed}
        /\ faults' \in 0..MaxFaults /\ SizeKnown'
    <2>1. CASE AppendToFile(record[w])
      BY <1>2, <2>1, TypeAppend
    <2>2. CASE UNCHANGED <<files, fileSize, faults>>
      BY <1>2, <2>2 DEF TypeInv, TypeOK, OpenInv, SizeKnown
    <2> QED
      BY <2>1, <2>2 DEF WriteRecord
  <1>4. logged' \in [Names -> SUBSET (1..MaxRecords)]
    <2>1. CASE record[w] # Header
      <3>1. record[w] \in 1..MaxRecords
        BY <1>2, <2>1 DEF Header
      <3>2. \/ logged' = [logged EXCEPT ![name] = @ \cup {record[w]}]
            \/ logged' = [logged EXCEPT ![name] = @]
        BY <2>1 DEF WriteRecord
      <3> QED
        BY <3>1, <3>2 DEF TypeInv, TypeOK
    <2>2. CASE record[w] = Header
      BY <2>2 DEF WriteRecord, TypeInv, TypeOK
    <2> QED
      BY <2>1, <2>2
  <1>5. TypeOK'
    BY <1>1, <1>3, <1>4 DEF WriteRecord, TypeInv, TypeOK, settings
  <1>6. OpenInv' /\ RenameInv'
    BY <1>1, <1>3 DEF WriteRecord, TypeInv, OpenInv, RenameInv
  <1> QED
    BY <1>1, <1>5, <1>6 DEF TypeInv

(* The steps outside write and rollLogFiles.                               *)
Outside ==
  \/ \E n \in Names : SetFileName(n)
  \/ \E k \in MaxFilesArgs : SetMaxFiles(k)
  \/ \E size \in SizeArgs : SetMaxFileSize(size)
  \/ Crash
  \/ UNCHANGED vars

LEMMA TypeOutside ==
  ASSUME TypeInv, Outside
  PROVE  TypeInv'
  <1>1. CASE \E n \in Names : SetFileName(n)
    <2>1. /\ name' \in Names /\ firstWrite' = TRUE /\ isOpen' = FALSE /\ mutex = Free
          /\ UNCHANGED <<files, maxFiles, maxFileSize, fileSize, control, logged, faults, crashes>>
      BY <1>1 DEF SetFileName, CloseFile
    <2>2. \A w \in Writers : pc[w] = "idle"
      BY <2>1, RollingAssumption DEF TypeInv, LockInv
    <2>3. TypeOK'
      BY <2>1 DEF TypeInv, TypeOK, control
    <2> QED
      BY <2>1, <2>2, <2>3 DEF TypeInv, LockInv, OpenInv, SizeKnown, RenameInv, control
  <1>2. CASE \E k \in MaxFilesArgs : SetMaxFiles(k)
    <2>1. /\ maxFiles' \in MaxFilesArgs /\ faults' \in 0..MaxFaults
          /\ UNCHANGED <<files, name, maxFileSize, isOpen, fileSize, firstWrite, control,
                         logged, crashes>>
      BY <1>2, RollingAssumption DEF SetMaxFiles, Fault, TypeInv, TypeOK
    <2>2. TypeOK'
      BY <2>1 DEF TypeInv, TypeOK, control
    <2> QED
      BY <2>1, <2>2 DEF TypeInv, LockInv, OpenInv, SizeKnown, RenameInv, control
  <1>3. CASE \E size \in SizeArgs : SetMaxFileSize(size)
    <2>1. /\ maxFileSize' \in {Limit(size) : size \in SizeArgs \cup {DefaultSize}}
          /\ UNCHANGED <<files, name, maxFiles, isOpen, fileSize, firstWrite, control, logged,
                         faults, crashes>>
      BY <1>3 DEF SetMaxFileSize
    <2>2. TypeOK'
      BY <2>1 DEF TypeInv, TypeOK, control
    <2> QED
      BY <2>1, <2>2 DEF TypeInv, LockInv, OpenInv, SizeKnown, RenameInv, control
  <1>4. CASE Crash
    <2>1. /\ crashes' \in 0..MaxCrashes /\ name' \in Names
          /\ maxFiles' \in MaxFilesArgs \cup {DefaultMaxFiles}
          /\ maxFileSize' \in {Limit(size) : size \in SizeArgs \cup {DefaultSize}}
          /\ isOpen' = FALSE /\ fileSize' = 0 /\ firstWrite' = TRUE /\ mutex' = Free
          /\ UNCHANGED <<files, written, logged, faults>>
      BY <1>4, RollingAssumption DEF Crash, Fresh, TypeInv, TypeOK
    <2>2. /\ pc' \in [Writers -> States] /\ fileNumber' \in [Writers -> Int]
          /\ record' \in [Writers -> 0..MaxRecords] /\ \A w \in Writers : pc'[w] = "idle"
      BY <1>4, RollingAssumption DEF Crash, States
    <2>3. TypeOK'
      BY <2>1, <2>2 DEF TypeInv, TypeOK
    <2> QED
      BY <2>1, <2>2, <2>3, RollingAssumption DEF TypeInv, LockInv, OpenInv, SizeKnown, RenameInv
  <1>5. CASE UNCHANGED vars
    BY <1>5 DEF vars, settings, control, TypeInv, TypeOK, LockInv, OpenInv, SizeKnown, RenameInv
  <1> QED
    BY <1>1, <1>2, <1>3, <1>4, <1>5 DEF Outside

LEMMA Steps ==
  ASSUME [Next]_vars
  PROVE  Outside \/ \E w \in Writers : WriterStep(w)
  BY DEF Next, Outside, Quiet

LEMMA TypeStep == TypeInv /\ [Next]_vars => TypeInv'
  BY Steps, TypeOutside, TypeWrite, TypeRollLogFiles, TypeRollUnlink, TypeRollLoop,
     TypeRollRename, TypeOpenLogFile, TypeWriteHeader, TypeWriteRecord DEF WriterStep

LEMMA TypeInvariant == Spec => []TypeInv
  BY TypeInit, TypeStep, PTL DEF Spec

(* Every variable of a RollingFileAppender has its type in every state.    *)
THEOREM TypeCorrect == Spec => []TypeOK
  <1>1. TypeInv => TypeOK
    BY DEF TypeInv
  <1> QED
    BY <1>1, TypeInvariant, PTL

(* m_fileSize is the size of the file that is open: openLogFile takes over *)
(* the size of a file that was there, every entry is counted, and one that *)
(* could not be written is not (RollingFileAppender.h, write, openLogFile).*)
THEOREM SizeIsKnown == Spec => []SizeKnown
  <1>1. TypeInv => SizeKnown
    BY DEF TypeInv, OpenInv
  <1> QED
    BY <1>1, TypeInvariant, PTL

-----------------------------------------------------------------------------
(* Where records are.                                                      *)

Writing(w) == pc[w] # "idle" /\ record[w] # Header

RecordInv ==
  /\ \A n \in Names :
       /\ \A r \in logged[n] : r <= written
       /\ \A i \in Indices, r \in 1..MaxRecords : InFile(n, i, r) => r <= written
  /\ \A w \in Writers : Writing(w) =>
       /\ record[w] = written
       /\ \A n \in Names : record[w] \notin logged[n] /\ ~Kept(n, record[w])

-----------------------------------------------------------------------------
(* While nothing has failed.                                               *)

(* The file with a header is not empty when a record is written to it.     *)
HeaderInv ==
  faults = 0 =>
    /\ mutex = Free => (firstWrite <=> ~isOpen)
    /\ isOpen /\ files[name][0] = <<>> => \E w \in Writers : pc[w] = "header"
    /\ \A w \in Writers : pc[w] \in {"header", "append"} => isOpen /\ ~firstWrite

(* No file has a number that m_maxFiles does not allow, and a file that is *)
(* renamed never replaces another.                                         *)
NumberInv ==
  faults = 0 =>
    /\ maxFiles = DefaultMaxFiles
    /\ \A n \in Names, i \in Indices : i >= DefaultMaxFiles /\ i > 0 => files[n][i] = Absent
    /\ \A w \in Writers :
         /\ pc[w] \in {"unlink", "loop", "rename"} => DefaultMaxFiles > 0
         /\ pc[w] = "loop" => files[name][DefaultMaxFiles - 1] = Absent
         /\ pc[w] = "rename" => /\ fileNumber[w] <= DefaultMaxFiles - 2
                                /\ files[name][fileNumber[w] + 1] = Absent

Full(n, i) == files[n][i] # Absent /\ Len(files[n][i]) > MinFileSize

(* In the middle of a roll one number is free, or was.                     *)
Rolling(n) == n = name /\ \E w \in Writers : pc[w] \in {"unlink", "loop", "rename"}

Gap(n, i) ==
  /\ n = name
  /\ \E w \in Writers : \/ pc[w] = "loop" /\ i = DefaultMaxFiles - 1
                        \/ pc[w] = "rename" /\ i = fileNumber[w] + 1

(* The numbers that full files have, if there are any.                     *)
Slots(n) == {i \in 0..(DefaultMaxFiles - 1) : (i = 0 => Rolling(n)) /\ ~Gap(n, i)}

(* Full files fill the numbers from below, and all of them before a record *)
(* is given up.                                                            *)
FullInv ==
  faults = 0 /\ crashes = 0 =>
    \A n \in Names :
      /\ \A i \in Slots(n) : files[n][i] # Absent => \A j \in Slots(n) : j <= i => Full(n, j)
      /\ (\E r \in logged[n] : ~Kept(n, r)) => \A i \in Slots(n) : Full(n, i)

RollingInv == Chronological /\ HeaderOnce /\ RecordInv /\ HeaderInv /\ NumberInv /\ NoGaps /\ FullInv

-----------------------------------------------------------------------------
(* What is in the files comes from the files before the step, and a file   *)
(* with a higher number from one with a higher number.                     *)

Origin == [Names -> [Indices -> Indices]]

Filled(n, i) == files[n][i] # Absent /\ files[n][i] # <<>>

Carried(o) ==
  \A n \in Names, i \in Indices :
    /\ files'[n][i] = Absent \/ files'[n][i] = <<>> \/ files'[n][i] = files[n][o[n][i]]
    /\ \A j \in Indices : i < j /\ Filled(n, i)' /\ Filled(n, j)' => o[n][i] < o[n][j]

Same == [n \in Names |-> [i \in Indices |-> i]]

LEMMA CarriedSame ==
  ASSUME \A n \in Names, i \in Indices :
           files'[n][i] = Absent \/ files'[n][i] = <<>> \/ files'[n][i] = files[n][i]
  PROVE  Same \in Origin /\ Carried(Same)
  BY DEF Same, Origin, Carried

LEMMA CarriedRenamed ==
  ASSUME TypeOK, NEW k \in Indices, k + 1 \in Indices, Renamed(k)
  PROVE  \E o \in Origin : Carried(o)
  <1> DEFINE o == [n \in Names |-> [i \in Indices |-> IF n = name /\ i = k + 1 THEN k ELSE i]]
  <1>1. o \in Origin
    BY DEF Origin
  <1>2. Carried(o)
    BY IndexFacts DEF Carried, Renamed, Filled
  <1> QED
    BY <1>1, <1>2

(* Every step but those that append.                                       *)
LEMMA CarriedStep ==
  ASSUME TypeInv, [Next]_vars
  PROVE  \/ \E o \in Origin : Carried(o)
         \/ \E w \in Writers : WriteHeader(w) \/ WriteRecord(w)
  <1>1. ASSUME UNCHANGED files PROVE \E o \in Origin : Carried(o)
    BY <1>1, CarriedSame
  <1>2. CASE Outside
    BY <1>1, <1>2 DEF Outside, SetFileName, SetMaxFiles, SetMaxFileSize, Crash, vars
  <1>3. ASSUME NEW w \in Writers, Write(w) \/ RollLogFiles(w) \/ RollLoop(w)
        PROVE  \E o \in Origin : Carried(o)
    BY <1>1, <1>3 DEF Write, RollLogFiles, RollLoop
  <1>4. ASSUME NEW w \in Writers, RollUnlink(w) PROVE \E o \in Origin : Carried(o)
    BY <1>4, UnlinkEffect, CarriedSame DEF TypeInv, RollUnlink
  <1>5. ASSUME NEW w \in Writers, RollRename(w) PROVE \E o \in Origin : Carried(o)
    <2>1. /\ fileNumber[w] \in Indices /\ fileNumber[w] + 1 \in Indices
          /\ RenameFile(fileNumber[w], fileNumber[w] + 1)
      BY <1>5, RenameIndex
    <2> QED
      BY <1>1, <2>1, RenameEffect, CarriedRenamed DEF TypeInv
  <1>6. ASSUME NEW w \in Writers, OpenLogFile(w) PROVE \E o \in Origin : Carried(o)
    <2>1. Created \/ files' = files
      BY <1>6, OpenEffect DEF TypeInv, OpenLogFile
    <2>2. ASSUME Created PROVE \E o \in Origin : Carried(o)
      BY <2>2, CarriedSame DEF Created
    <2> QED
      BY <1>1, <2>1, <2>2
  <1> QED
    BY <1>2, <1>3, <1>4, <1>5, <1>6, Steps DEF WriterStep

(* The steps that append.                                                  *)
LEMMA HeaderEffect ==
  ASSUME TypeInv, NEW w \in Writers, WriteHeader(w)
  PROVE  /\ pc[w] = "header" /\ pc'[w] = "append"
         /\ \A u \in Writers : u # w => pc[u] = "idle" /\ pc'[u] = "idle"
         /\ isOpen /\ files[name][0] = <<>>
         /\ UNCHANGED <<settings, isOpen, firstWrite, mutex, record, written, logged, crashes>>
         /\ \/ Appended(Header) /\ faults' = faults
            \/ Appended(Part) /\ Fault
            \/ files' = files /\ Fault
  <1>1. /\ pc'[w] = "append" /\ pc[w] = "header"
        /\ \A u \in Writers : u # w => pc[u] = "idle" /\ pc'[u] = "idle"
    BY TypeGoto DEF States, WriteHeader, Goto
  <1>2. Header \in 0..MaxRecords /\ AppendToFile(Header) /\ SizeKnown /\ TypeOK
    BY RollingAssumption DEF WriteHeader, Header, TypeInv, OpenInv
  <1>3. isOpen /\ files[name][0] = <<>>
    BY <1>1 DEF TypeInv, OpenInv
  <1> QED
    BY <1>1, <1>2, <1>3, AppendEffect DEF WriteHeader

LEMMA RecordEffect ==
  ASSUME TypeInv, NEW w \in Writers, WriteRecord(w)
  PROVE  /\ pc[w] = "append" /\ mutex' = Free
         /\ \A u \in Writers : pc'[u] = "idle" /\ (u # w => pc[u] = "idle")
         /\ UNCHANGED <<settings, isOpen, firstWrite, record, written, crashes>>
         /\ \/ /\ record[w] \in 1..MaxRecords /\ Appended(record[w]) /\ faults' = faults
               /\ logged' = [logged EXCEPT ![name] = @ \cup {record[w]}]
            \/ logged' = logged /\ \/ Appended(Part) /\ Fault
                                   \/ files' = files /\ faults' = faults
                                   \/ files' = files /\ Fault
  <1>1. /\ pc[w] = "append" /\ mutex' = Free
        /\ \A u \in Writers : pc'[u] = "idle" /\ (u # w => pc[u] = "idle")
    BY TypeGoto DEF States, WriteRecord, Unlock, Goto
  <1>2. CASE record[w] = Header
    BY <1>1, <1>2 DEF WriteRecord
  <1>3. CASE record[w] # Header
    <2>1. /\ record[w] \in 1..MaxRecords /\ AppendToFile(record[w])
          /\ logged' = [logged EXCEPT ![name] =
               IF files' # files /\ Last(files'[name][0]) # Part THEN @ \cup {record[w]} ELSE @]
      BY <1>3 DEF WriteRecord, TypeInv, TypeOK, Header
    <2>2. /\ UNCHANGED <<settings, isOpen, firstWrite, record, written, crashes>>
          /\ SizeKnown /\ TypeOK /\ record[w] \in 0..MaxRecords
      BY <2>1 DEF WriteRecord, TypeInv, OpenInv
    <2>3. ASSUME NEW e \in Part..MaxRecords, Appended(e)
          PROVE  files' # files /\ Last(files'[name][0]) = e
      <3>1. PICK c \in Contents : c = files[name][0] /\ c # Absent
        BY <2>2, <2>3, IndexFacts DEF TypeOK, SizeKnown, Appended
      <3>2. /\ files'[name][0] = Append(c, e) /\ Len(Append(c, e)) = Len(c) + 1
            /\ Append(c, e)[Len(c) + 1] = e /\ Len(c) \in Nat
        BY <2>3, <3>1, ContentsFacts DEF Appended
      <3>3. Append(c, e) # c
        BY <3>2
      <3> QED
        BY <3>1, <3>2, <3>3 DEF Last
    <2>4. Part \in Part..MaxRecords /\ record[w] \in Part..MaxRecords /\ record[w] # Part
      BY <2>1, RollingAssumption DEF Part
    <2>5. logged \in [Names -> SUBSET (1..MaxRecords)] /\ name \in Names
      BY <2>2 DEF TypeOK
    <2>6. \/ Appended(record[w]) /\ faults' = faults
          \/ Appended(Part) /\ Fault
          \/ files' = files /\ Fault
          \/ files' = files /\ faults' = faults
      BY <2>1, <2>2, AppendEffect
    <2>7. CASE Appended(record[w]) /\ faults' = faults
      <3>1. files' # files /\ Last(files'[name][0]) # Part
        BY <2>3, <2>4, <2>7
      <3> QED
        BY <1>1, <2>1, <2>2, <2>7, <3>1
    <2>8. CASE Appended(Part) /\ Fault
      <3>1. Last(files'[name][0]) = Part
        BY <2>3, <2>4, <2>8
      <3>2. logged' = logged
        BY <2>1, <2>5, <3>1
      <3> QED
        BY <1>1, <2>2, <2>8, <3>2
    <2>9. CASE files' = files
      <3>1. logged' = logged
        BY <2>1, <2>5, <2>9
      <3> QED
        BY <1>1, <2>2, <2>6, <2>9, <3>1
    <2> QED
      BY <2>6, <2>7, <2>8, <2>9
  <1> QED
    BY <1>2, <1>3

(* What the other steps do to the rest of the state.                       *)
LEMMA WriteEffect ==
  ASSUME TypeInv, NEW w \in Writers, Write(w)
  PROVE  /\ mutex = Free /\ mutex' = w
         /\ \A u \in Writers : pc[u] = "idle" /\ (u # w => pc'[u] = "idle")
         /\ pc'[w] \in {"open", "unlink", "append"} /\ (pc'[w] = "append" => ~firstWrite)
         /\ pc'[w] = "unlink" => ~firstWrite /\ NeedsRoll
         /\ written' = written + 1 /\ written' <= MaxRecords
         /\ record' = [record EXCEPT ![w] = written + 1]
         /\ UNCHANGED <<files, name, maxFiles, isOpen, firstWrite, logged, faults, crashes>>
  <1> DEFINE to == IF firstWrite THEN "open" ELSE IF NeedsRoll THEN "unlink" ELSE "append"
  <1>1. /\ to \in {"open", "unlink", "append"} /\ Goto(w, "idle", to) /\ Lock(w)
        /\ (to = "append" => ~firstWrite) /\ (to = "unlink" => ~firstWrite /\ NeedsRoll)
    BY DEF Write
  <1> HIDE DEF to
  <1>2. /\ mutex = Free /\ mutex' = w /\ pc'[w] = to
        /\ \A u \in Writers : pc[u] = "idle" /\ (u # w => pc'[u] = "idle")
    BY <1>1, TypeTake DEF States
  <1>3. written < MaxRecords /\ written \in Nat
    BY RollingAssumption DEF Write, TypeInv, TypeOK
  <1> QED
    BY <1>1, <1>2, <1>3, RollingAssumption DEF Write, settings

LEMMA RollEffect ==
  ASSUME TypeInv, NEW w \in Writers, RollUnlink(w) \/ RollLoop(w) \/ RollRename(w)
  PROVE  /\ mutex = w /\ mutex' = w /\ mutex' # Free
         /\ \A u \in Writers : u # w => pc[u] = "idle" /\ pc'[u] = "idle"
         /\ pc'[w] \in {"loop", "rename", "open"} /\ isOpen' = FALSE
         /\ UNCHANGED <<name, maxFiles, firstWrite, record, written, logged, crashes>>
  <1>1. PICK from \in {"unlink", "loop", "rename"}, to \in {"loop", "rename", "open"} :
          Goto(w, from, to)
    BY DEF RollUnlink, RollLoop, RollRename
  <1>2. mutex' = mutex
    BY DEF RollUnlink, RollLoop, RollRename
  <1>3. /\ mutex = w /\ pc'[w] = to
        /\ \A u \in Writers : u # w => pc[u] = "idle" /\ pc'[u] = "idle"
    BY <1>1, <1>2, TypeGoto DEF States
  <1>4. isOpen' = FALSE
    <2>1. CASE RollUnlink(w)
      BY <2>1 DEF RollUnlink, CloseFile
    <2>2. CASE RollLoop(w) \/ RollRename(w)
      BY <2>2 DEF RollLoop, RollRename, Goto, TypeInv, OpenInv, TypeOK
    <2> QED
      BY <2>1, <2>2
  <1> QED
    BY <1>1, <1>2, <1>3, <1>4, RollingAssumption DEF RollUnlink, RollLoop, RollRename, settings

LEMMA OpenControl ==
  ASSUME TypeInv, NEW w \in Writers, OpenLogFile(w)
  PROVE  /\ mutex = w /\ mutex' = w /\ mutex' # Free /\ firstWrite' = FALSE
         /\ \A u \in Writers : u # w => pc[u] = "idle" /\ pc'[u] = "idle"
         /\ pc[w] = "open" /\ pc'[w] = IF fileSize' = 0 THEN "header" ELSE "append"
         /\ UNCHANGED <<settings, record, written, logged, crashes>>
  <1> DEFINE to == IF fileSize' = 0 THEN "header" ELSE "append"
  <1>1. to \in {"header", "append"} /\ Goto(w, "open", to) /\ mutex' = mutex
    BY DEF OpenLogFile
  <1> HIDE DEF to
  <1>2. /\ mutex = w /\ pc'[w] = to
        /\ \A u \in Writers : u # w => pc[u] = "idle" /\ pc'[u] = "idle"
    BY <1>1, TypeGoto DEF States
  <1> QED
    BY <1>1, <1>2, RollingAssumption DEF OpenLogFile, Goto, to

(* What a file to which an entry is appended contains.                     *)
LEMMA AppendedEntries ==
  ASSUME TypeOK, SizeKnown, NEW e \in Part..MaxRecords, Appended(e)
  PROVE  /\ files[name][0] # Absent /\ files'[name][0] # Absent
         /\ Len(files[name][0]) \in Nat /\ Len(files'[name][0]) = Len(files[name][0]) + 1
         /\ DOMAIN files[name][0] = 1..Len(files[name][0])
         /\ DOMAIN files'[name][0] = 1..(Len(files[name][0]) + 1)
         /\ \A k \in 1..Len(files[name][0]) : files'[name][0][k] = files[name][0][k]
         /\ files'[name][0][Len(files[name][0]) + 1] = e
         /\ Len(files[name][0]) = 0 => files[name][0] = <<>>
  <1>1. PICK c \in Contents : c = files[name][0] /\ c # Absent
    BY IndexFacts DEF TypeOK, SizeKnown, Appended
  <1>2. files'[name][0] = Append(c, e)
    BY <1>1 DEF Appended
  <1> QED
    BY <1>1, <1>2, ContentsFacts

-----------------------------------------------------------------------------
(* Headers.                                                                *)

LEMMA FaultsGrow ==
  ASSUME TypeInv, [Next]_vars
  PROVE  faults \in Nat /\ (faults' = 0 => faults = 0) /\ (Fault => faults' # 0)
  <1>1. faults \in Nat
    BY RollingAssumption DEF TypeInv, TypeOK
  <1>2. faults' = faults \/ faults' = faults + 1
    BY Steps DEF Outside, SetFileName, SetMaxFiles, SetMaxFileSize, Crash, WriterStep, Write,
       RollLogFiles, RollUnlink, RollLoop, RollRename, OpenLogFile, WriteHeader, WriteRecord,
       Unlink, RenameFile, OpenFile, Opened, AppendToFile, Fault, vars
  <1> QED
    BY <1>1, <1>2 DEF Fault

LEMMA HeaderInvStep == TypeInv /\ HeaderInv /\ [Next]_vars => HeaderInv'
  <1> SUFFICES ASSUME TypeInv, HeaderInv, [Next]_vars, faults' = 0 PROVE HeaderInv'
    BY DEF HeaderInv
  <1>0. /\ faults = 0 /\ ~Fault
        /\ mutex = Free => (firstWrite <=> ~isOpen)
        /\ isOpen /\ files[name][0] = <<>> => \E w \in Writers : pc[w] = "header"
        /\ \A w \in Writers : pc[w] \in {"header", "append"} => isOpen /\ ~firstWrite
    BY FaultsGrow DEF HeaderInv
  <1>1. CASE Outside
    <2>1. CASE \E n \in Names : SetFileName(n)
      <3>1. firstWrite' = TRUE /\ isOpen' = FALSE /\ mutex = Free /\ UNCHANGED control
        BY <2>1 DEF SetFileName, CloseFile
      <3>2. \A w \in Writers : pc'[w] = "idle"
        BY <3>1, RollingAssumption DEF control, TypeInv, LockInv
      <3> QED
        BY <3>1, <3>2 DEF HeaderInv
    <2>2. CASE Crash
      <3>1. firstWrite' = TRUE /\ isOpen' = FALSE /\ \A w \in Writers : pc'[w] = "idle"
        BY <2>2 DEF Crash
      <3> QED
        BY <3>1 DEF HeaderInv
    <2>3. CASE UNCHANGED <<mutex, pc, firstWrite, isOpen, files, name>>
      BY <1>0, <2>3 DEF HeaderInv
    <2> QED
      BY <1>0, <1>1, <2>1, <2>2, <2>3
      DEF Outside, SetMaxFiles, SetMaxFileSize, vars, settings, control
  <1>2. ASSUME NEW w \in Writers, Write(w) PROVE HeaderInv'
    <2>1. /\ mutex = Free /\ mutex' = w
          /\ \A u \in Writers : pc[u] = "idle" /\ (u # w => pc'[u] = "idle")
          /\ pc'[w] \in {"open", "unlink", "append"} /\ (pc'[w] = "append" => ~firstWrite)
          /\ UNCHANGED <<isOpen, firstWrite, files, name>>
      BY <1>2, WriteEffect
    <2> QED
      BY <1>0, <2>1, RollingAssumption DEF HeaderInv
  <1>3. ASSUME NEW w \in Writers, RollUnlink(w) \/ RollLoop(w) \/ RollRename(w) PROVE HeaderInv'
    <2>1. /\ mutex' # Free
          /\ \A u \in Writers : u # w => pc'[u] = "idle"
          /\ pc'[w] \in {"loop", "rename", "open"} /\ isOpen' = FALSE
      BY <1>3, RollEffect
    <2> QED
      BY <2>1 DEF HeaderInv
  <1>4. ASSUME NEW w \in Writers, OpenLogFile(w) PROVE HeaderInv'
    <2>1. /\ mutex' # Free /\ firstWrite' = FALSE
          /\ \A u \in Writers : u # w => pc'[u] = "idle"
          /\ pc'[w] = IF fileSize' = 0 THEN "header" ELSE "append"
      BY <1>4, OpenControl
    <2>2. isOpen' = TRUE /\ fileSize' = Len(files'[name][0]) /\ name' = name
      BY <1>0, <1>4, OpenEffect DEF TypeInv, OpenLogFile, settings
    <2> QED
      BY <2>1, <2>2 DEF HeaderInv
  <1>5. ASSUME NEW w \in Writers, WriteHeader(w) PROVE HeaderInv'
    <2>1. Appended(Header) /\ isOpen /\ isOpen' /\ name' = name /\ firstWrite' = firstWrite
          /\ pc[w] = "header" /\ mutex' = mutex /\ \A u \in Writers : u # w => pc'[u] = "idle"
      BY <1>0, <1>5, HeaderEffect DEF settings
    <2>2. files'[name][0] # <<>>
      BY <2>1, AppendedEntries, RollingAssumption DEF Header, Part, TypeInv, OpenInv
    <2>3. mutex' # Free /\ ~firstWrite
      BY <1>0, <2>1, RollingAssumption DEF TypeInv, LockInv
    <2> QED
      BY <2>1, <2>2, <2>3 DEF HeaderInv
  <1>6. ASSUME NEW w \in Writers, WriteRecord(w) PROVE HeaderInv'
    <2>1. /\ pc[w] = "append" /\ \A u \in Writers : pc'[u] = "idle"
          /\ \A u \in Writers : u # w => pc[u] = "idle"
          /\ UNCHANGED <<name, isOpen, firstWrite>>
          /\ files' = files \/ (record[w] \in 1..MaxRecords /\ Appended(record[w]))
      BY <1>0, <1>6, RecordEffect DEF settings
    <2>2. isOpen /\ ~firstWrite /\ files[name][0] # <<>>
      BY <1>0, <2>1
    <2>3. files'[name][0] # <<>>
      <3>1. ASSUME record[w] \in 1..MaxRecords, Appended(record[w]) PROVE files'[name][0] # <<>>
        BY <3>1, AppendedEntries DEF Part, TypeInv, OpenInv
      <3> QED
        BY <2>1, <2>2, <3>1
    <2> QED
      BY <2>1, <2>2, <2>3 DEF HeaderInv
  <1> QED
    BY <1>0, <1>1, <1>2, <1>3, <1>4, <1>5, <1>6, Steps DEF WriterStep, RollLogFiles

LEMMA HeaderOnceStep == TypeInv /\ HeaderInv /\ HeaderOnce /\ [Next]_vars => HeaderOnce'
  <1> SUFFICES ASSUME TypeInv, HeaderInv, HeaderOnce, [Next]_vars PROVE HeaderOnce'
    OBVIOUS
  <1>0. faults' = 0 => faults = 0
    BY FaultsGrow
  <1>1. ASSUME NEW o \in Origin, Carried(o) PROVE HeaderOnce'
    <2>1. \A n \in Names, i \in Indices :
            \/ files'[n][i] = Absent \/ files'[n][i] = <<>>
            \/ o[n][i] \in Indices /\ files'[n][i] = files[n][o[n][i]]
      BY <1>1 DEF Origin, Carried
    <2> QED
      BY <1>0, <2>1 DEF HeaderOnce
  (* An entry that is appended to a file with contents is no header, and   *)
  (* one that is appended to an empty file is, unless it fails.            *)
  <1>2. ASSUME NEW e \in Part..MaxRecords, Appended(e), name' = name,
               e = Header => files[name][0] = <<>>,
               faults' = 0 /\ files[name][0] = <<>> => e = Header
        PROVE  HeaderOnce'
    <2>1. ASSUME NEW k \in DOMAIN files'[name][0]
          PROVE  /\ files'[name][0][k] = Header => k = 1
                 /\ faults' = 0 /\ k = 1 => files'[name][0][k] = Header
      <3>1. /\ files[name][0] # Absent
            /\ Len(files[name][0]) \in Nat /\ k \in 1..(Len(files[name][0]) + 1)
            /\ DOMAIN files[name][0] = 1..Len(files[name][0])
            /\ \A j \in 1..Len(files[name][0]) : files'[name][0][j] = files[name][0][j]
            /\ files'[name][0][Len(files[name][0]) + 1] = e
            /\ Len(files[name][0]) = 0 => files[name][0] = <<>>
        BY <1>2, <2>1, AppendedEntries DEF TypeInv, OpenInv
      <3>2. name \in Names /\ 0 \in Indices
        BY IndexFacts DEF TypeInv, TypeOK
      <3>3. \A j \in 1..Len(files[name][0]) :
              /\ files[name][0][j] = Header => j = 1
              /\ faults' = 0 /\ j = 1 => files[name][0][j] = Header
        BY <1>0, <3>1, <3>2 DEF HeaderOnce
      <3>4. CASE k \in 1..Len(files[name][0])
        BY <3>1, <3>3, <3>4
      <3>5. CASE k = Len(files[name][0]) + 1
        <4>1. files[name][0] = <<>> => k = 1
          BY <3>1, <3>5
        <4>2. k = 1 => files[name][0] = <<>>
          BY <3>1, <3>5
        <4> QED
          BY <1>2, <3>1, <3>5, <4>1, <4>2
      <3> QED
        BY <3>1, <3>4, <3>5
    <2>2. \A n \in Names, i \in Indices : n # name \/ i # 0 => files'[n][i] = files[n][i]
      BY <1>2 DEF Appended
    <2> QED
      BY <1>0, <2>1, <2>2 DEF HeaderOnce
  <1>3. CASE UNCHANGED files
    BY <1>0, <1>3 DEF HeaderOnce
  <1>4. Part \in Part..MaxRecords /\ Header \in Part..MaxRecords /\ Part # Header
    BY RollingAssumption DEF Part, Header
  <1>5. ASSUME NEW w \in Writers, WriteHeader(w) PROVE HeaderOnce'
    <2>1. /\ files[name][0] = <<>> /\ name' = name
          /\ \/ Appended(Header) \/ (Appended(Part) /\ faults' # 0) \/ files' = files
      BY <1>5, HeaderEffect, FaultsGrow DEF settings
    <2> QED
      BY <1>2, <1>3, <1>4, <2>1
  <1>6. ASSUME NEW w \in Writers, WriteRecord(w) PROVE HeaderOnce'
    <2>1. /\ name' = name /\ pc[w] = "append" /\ \A u \in Writers : u # w => pc[u] = "idle"
          /\ \/ record[w] \in 1..MaxRecords /\ Appended(record[w]) /\ faults' = faults
             \/ (Appended(Part) /\ faults' # 0) \/ files' = files
      BY <1>6, RecordEffect, FaultsGrow DEF settings
    <2>2. CASE record[w] \in 1..MaxRecords /\ Appended(record[w]) /\ faults' = faults
      <3>1. record[w] \in Part..MaxRecords /\ record[w] # Header
        BY <2>2 DEF Part, Header
      <3>2. faults = 0 => files[name][0] # <<>>
        BY <2>1, <2>2 DEF HeaderInv, Appended
      <3> QED
        BY <1>2, <2>1, <2>2, <3>1, <3>2
    <2> QED
      BY <1>2, <1>3, <1>4, <2>1, <2>2
  <1> QED
    BY <1>1, <1>5, <1>6, CarriedStep

LEMMA HeaderInit == Init => HeaderInv /\ HeaderOnce
  BY RollingAssumption DEF Init, HeaderInv, HeaderOnce

LEMMA HeaderInvariant == Spec => [](TypeInv /\ HeaderInv /\ HeaderOnce)
  BY TypeInit, HeaderInit, TypeStep, HeaderInvStep, HeaderOnceStep, PTL DEF Spec

(* A header is nowhere but at the beginning of a file, whatever fails, and *)
(* if no call fails it is there before any record, even if the program     *)
(* dies between opening a file and writing the header: openLogFile writes  *)
(* one whenever the file it has opened is empty (openLogFile, 106-119).    *)
THEOREM HeadersFirst == Spec => []HeaderOnce
  BY HeaderInvariant, PTL

-----------------------------------------------------------------------------
(* The order of the records.                                               *)

(* Where a record is after a step.                                         *)
LEMMA CarriedRecords ==
  ASSUME NEW o \in Origin, Carried(o), NEW n \in Names, NEW i \in Indices,
         NEW r \in 1..MaxRecords, InFile(n, i, r)'
  PROVE  /\ o[n][i] \in Indices /\ InFile(n, o[n][i], r)
         /\ Filled(n, i)'
  <1>1. files'[n][i] # Absent /\ files'[n][i] # <<>>
    BY DEF InFile
  <1>2. o[n][i] \in Indices /\ files'[n][i] = files[n][o[n][i]]
    BY <1>1 DEF Carried, Origin
  <1> QED
    BY <1>1, <1>2 DEF InFile, Filled

LEMMA AppendedRecords ==
  ASSUME TypeInv, NEW e \in Part..MaxRecords, Appended(e), name' = name,
         NEW n \in Names, NEW i \in Indices, NEW r \in 1..MaxRecords
  PROVE  InFile(n, i, r)' <=> (InFile(n, i, r) \/ (n = name /\ i = 0 /\ r = e))
  <1>1. CASE n = name /\ i = 0
    <2>1. /\ files[name][0] # Absent /\ files'[name][0] # Absent
          /\ Len(files[name][0]) \in Nat
          /\ DOMAIN files[name][0] = 1..Len(files[name][0])
          /\ DOMAIN files'[name][0] = 1..(Len(files[name][0]) + 1)
          /\ \A k \in 1..Len(files[name][0]) : files'[name][0][k] = files[name][0][k]
          /\ files'[name][0][Len(files[name][0]) + 1] = e
      BY AppendedEntries DEF TypeInv, OpenInv
    <2>2. ASSUME InFile(name, 0, r)' PROVE InFile(name, 0, r) \/ r = e
      <3>1. PICK k \in DOMAIN files'[name][0] : files'[name][0][k] = r
        BY <2>2 DEF InFile
      <3> QED
        BY <2>1, <3>1 DEF InFile
    <2>3. ASSUME InFile(name, 0, r) PROVE InFile(name, 0, r)'
      <3>1. PICK k \in DOMAIN files[name][0] : files[name][0][k] = r
        BY <2>3 DEF InFile
      <3>2. k \in DOMAIN files'[name][0] /\ files'[name][0][k] = r
        BY <2>1, <3>1
      <3> QED
        BY <2>1, <3>2 DEF InFile
    <2>4. ASSUME r = e PROVE InFile(name, 0, r)'
      <3>1. Len(files[name][0]) + 1 \in DOMAIN files'[name][0]
        BY <2>1
      <3> QED
        BY <2>1, <2>4, <3>1 DEF InFile
    <2> QED
      BY <1>1, <2>2, <2>3, <2>4
  <1>2. CASE n # name \/ i # 0
    BY <1>2 DEF Appended, InFile
  <1> QED
    BY <1>1, <1>2

(* Records reach the files in WriteRecord only.                            *)
LEMMA NoNewRecords ==
  ASSUME TypeInv, [Next]_vars, ~ \E w \in Writers : WriteRecord(w),
         NEW n \in Names, NEW i \in Indices, NEW r \in 1..MaxRecords, InFile(n, i, r)'
  PROVE  Kept(n, r)
  <1>1. ASSUME NEW o \in Origin, Carried(o) PROVE Kept(n, r)
    BY <1>1, CarriedRecords DEF Kept
  <1>2. ASSUME NEW w \in Writers, WriteHeader(w) PROVE Kept(n, r)
    <2>1. name' = name /\ (Appended(Header) \/ Appended(Part) \/ files' = files)
      BY <1>2, HeaderEffect DEF settings
    <2>2. Header \in Part..MaxRecords /\ Part \in Part..MaxRecords /\ r # Header /\ r # Part
      BY RollingAssumption DEF Header, Part
    <2>3. InFile(n, i, r)
      <3>1. CASE files' = files
        BY <3>1 DEF InFile
      <3> QED
        BY <2>1, <2>2, <3>1, AppendedRecords
    <2> QED
      BY <2>3 DEF Kept
  <1> QED
    BY <1>1, <1>2, CarriedStep

LEMMA WritingSteps ==
  ASSUME TypeInv, [Next]_vars, ~ \E w \in Writers : Write(w) \/ WriteRecord(w)
  PROVE  /\ written' = written /\ logged' = logged
         /\ \A u \in Writers : Writing(u)' => Writing(u) /\ record'[u] = record[u]
  <1>1. CASE Outside
    <2>1. CASE Crash
      BY <2>1 DEF Crash, Writing
    <2>2. CASE UNCHANGED <<written, logged, pc, record>>
      BY <2>2 DEF Writing
    <2> QED
      BY <1>1, <2>1, <2>2
      DEF Outside, SetFileName, SetMaxFiles, SetMaxFileSize, vars, settings, control
  <1>2. ASSUME NEW w \in Writers, RollLogFiles(w)
        PROVE  /\ written' = written /\ logged' = logged
               /\ \A u \in Writers : ~Writing(u)'
    <2>1. /\ pc'[w] = "unlink" /\ \A u \in Writers : u # w => pc'[u] = "idle"
      BY <1>2, TypeTake DEF States, RollLogFiles
    <2>2. record'[w] = Header
      BY <1>2 DEF RollLogFiles, TypeInv, TypeOK
    <2> QED
      BY <1>2, <2>1, <2>2 DEF RollLogFiles, Writing
  <1>3. ASSUME NEW w \in Writers,
               RollUnlink(w) \/ RollLoop(w) \/ RollRename(w) \/ OpenLogFile(w) \/ WriteHeader(w)
        PROVE  /\ written' = written /\ logged' = logged
               /\ \A u \in Writers : Writing(u)' => Writing(u) /\ record'[u] = record[u]
    <2>1. /\ UNCHANGED <<written, logged, record>> /\ pc[w] # "idle"
          /\ \A u \in Writers : u # w => pc'[u] = "idle"
      BY <1>3, RollEffect, OpenControl, HeaderEffect DEF RollUnlink, RollLoop, RollRename, Goto
    <2> QED
      BY <2>1 DEF Writing
  <1> QED
    BY <1>1, <1>2, <1>3, Steps DEF WriterStep

LEMMA RecordInvStep == TypeInv /\ RecordInv /\ [Next]_vars => RecordInv'
  <1> SUFFICES ASSUME TypeInv, RecordInv, [Next]_vars PROVE RecordInv'
    OBVIOUS
  <1>0. /\ written \in Nat /\ logged \in [Names -> SUBSET (1..MaxRecords)]
        /\ record \in [Writers -> 0..MaxRecords]
    BY RollingAssumption DEF TypeInv, TypeOK
  <1>1. ASSUME NEW w \in Writers, Write(w) PROVE RecordInv'
    <2>1. /\ written' = written + 1 /\ written' \in 1..MaxRecords /\ record'[w] = written'
          /\ \A u \in Writers : u # w => pc'[u] = "idle"
          /\ files' = files /\ logged' = logged
      BY <1>0, <1>1, WriteEffect
    <2>2. \A n \in Names, i \in Indices, r \in 1..MaxRecords :
            (InFile(n, i, r)' <=> InFile(n, i, r)) /\ (InFile(n, i, r) => r <= written)
      BY <2>1 DEF InFile, RecordInv
    <2>3. PICK new \in 1..MaxRecords : new = written + 1
      BY <1>0, <2>1
    <2>6. \A n \in Names : new \notin logged'[n] /\ ~Kept(n, new)'
      BY <1>0, <2>1, <2>2, <2>3 DEF RecordInv, Kept
    <2>4. \A n \in Names : \A r \in logged'[n] : r <= written'
      BY <1>0, <2>1 DEF RecordInv
    <2>5. \A n \in Names, i \in Indices, r \in 1..MaxRecords : InFile(n, i, r)' => r <= written'
      BY <1>0, <2>1, <2>2
    <2>7. ASSUME NEW u \in Writers, Writing(u)', NEW n \in Names
          PROVE  /\ record'[u] = written' /\ record'[u] \notin logged'[n]
                 /\ ~Kept(n, record[u])'
      <3>1. u = w /\ record'[u] = new
        BY <2>1, <2>3, <2>7 DEF Writing
      <3>2. record'[u] = written' /\ record'[u] \notin logged'[n]
        BY <2>1, <2>3, <2>6, <3>1
      <3>3. ~Kept(n, new)'
        BY <2>6
      <3>4. ~Kept(n, record[u])'
        BY <3>1, <3>3 DEF Kept, InFile
      <3> QED
        BY <3>2, <3>4
    <2> QED
      BY <2>4, <2>5, <2>7, RollingAssumption DEF RecordInv
  <1>2. ASSUME NEW w \in Writers, WriteRecord(w) PROVE RecordInv'
    <2>1. /\ pc[w] = "append" /\ written' = written /\ name' = name
          /\ \A u \in Writers : pc'[u] = "idle"
          /\ \/ /\ record[w] \in 1..MaxRecords /\ Appended(record[w])
                /\ logged' = [logged EXCEPT ![name] = @ \cup {record[w]}]
             \/ logged' = logged /\ (Appended(Part) \/ files' = files)
      BY <1>2, RecordEffect DEF settings
    <2>2. record[w] \in 1..MaxRecords => record[w] = written
      BY <2>1 DEF RecordInv, Writing, Header
    <2>3. \A n \in Names : \A r \in logged'[n] : r <= written
      BY <1>0, <2>1, <2>2 DEF RecordInv
    <2>4. \A n \in Names, i \in Indices, r \in 1..MaxRecords : InFile(n, i, r)' => r <= written
      <3>1. TAKE n \in Names, i \in Indices, r \in 1..MaxRecords
      <3>2. InFile(n, i, r) => r <= written
        BY DEF RecordInv
      <3>3. CASE files' = files
        BY <3>2, <3>3 DEF InFile
      <3>4. CASE Appended(Part)
        BY <2>1, <3>2, <3>4, AppendedRecords, RollingAssumption DEF Part
      <3>5. CASE record[w] \in 1..MaxRecords /\ Appended(record[w])
        <4>1. record[w] \in Part..MaxRecords
          BY <3>5 DEF Part
        <4> QED
          BY <1>0, <2>1, <2>2, <3>2, <3>5, <4>1, AppendedRecords
      <3> QED
        BY <2>1, <3>3, <3>4, <3>5
    <2> QED
      BY <2>1, <2>3, <2>4 DEF RecordInv, Writing
  <1>3. CASE ~ \E w \in Writers : Write(w) \/ WriteRecord(w)
    <2>1. /\ written' = written /\ logged' = logged
          /\ \A u \in Writers : Writing(u)' => Writing(u) /\ record'[u] = record[u]
      BY <1>3, WritingSteps
    <2>2. \A n \in Names, i \in Indices, r \in 1..MaxRecords : InFile(n, i, r)' => Kept(n, r)
      BY <1>3, NoNewRecords
    <2>3. \A n \in Names, i \in Indices, r \in 1..MaxRecords : InFile(n, i, r)' => r <= written
      BY <2>2 DEF RecordInv, Kept
    <2>4. ASSUME NEW u \in Writers, Writing(u)', NEW n \in Names
          PROVE  /\ record'[u] = written /\ record'[u] \notin logged[n]
                 /\ ~Kept(n, record[u])'
      <3>1. Writing(u) /\ record'[u] = record[u] /\ record[u] \in 1..MaxRecords
        BY <1>0, <2>1, <2>4 DEF Writing, Header
      <3>2. record[u] = written /\ record[u] \notin logged[n] /\ ~Kept(n, record[u])
        BY <3>1 DEF RecordInv
      <3>3. PICK r \in 1..MaxRecords : r = record[u]
        BY <3>1
      <3>4. ~Kept(n, r)'
        BY <2>2, <3>2, <3>3 DEF Kept
      <3>5. ~Kept(n, record[u])'
        BY <3>1, <3>3, <3>4 DEF Kept, InFile
      <3> QED
        BY <3>1, <3>2, <3>5
    <2>5. \A n \in Names : \A r \in logged'[n] : r <= written'
      BY <2>1 DEF RecordInv
    <2> QED
      BY <2>1, <2>3, <2>4, <2>5 DEF RecordInv
  <1> QED
    BY <1>1, <1>2, <1>3

LEMMA OrderStep == TypeInv /\ RecordInv /\ Chronological /\ [Next]_vars => Chronological'
  <1> SUFFICES ASSUME TypeInv, RecordInv, Chronological, [Next]_vars PROVE Chronological'
    OBVIOUS
  <1>1. ASSUME NEW o \in Origin, Carried(o) PROVE Chronological'
    <2>1. ASSUME NEW n \in Names, NEW i \in Indices, files'[n][i] # Absent
          PROVE  Ascending(files'[n][i])
      <3>1. CASE files'[n][i] = <<>>
        BY <3>1 DEF Ascending
      <3>2. CASE o[n][i] \in Indices /\ files'[n][i] = files[n][o[n][i]]
        BY <2>1, <3>2 DEF Chronological
      <3> QED
        BY <1>1, <2>1, <3>1, <3>2 DEF Carried, Origin
    <2>2. ASSUME NEW n \in Names, NEW i \in Indices, NEW j \in Indices,
                 NEW r \in 1..MaxRecords, NEW s \in 1..MaxRecords,
                 i > j, InFile(n, i, r)', InFile(n, j, s)'
          PROVE  r < s
      <3>1. /\ o[n][i] \in Indices /\ InFile(n, o[n][i], r) /\ Filled(n, i)'
            /\ o[n][j] \in Indices /\ InFile(n, o[n][j], s) /\ Filled(n, j)'
        BY <1>1, <2>2, CarriedRecords
      <3>2. o[n][j] < o[n][i]
        BY <1>1, <2>2, <3>1, IndexFacts DEF Carried
      <3> QED
        BY <3>1, <3>2, IndexFacts DEF Chronological
    <2> QED
      BY <2>1, <2>2 DEF Chronological
  (* What is appended is no record, or later than every record.            *)
  <1>2. ASSUME NEW e \in Part..MaxRecords, Appended(e), name' = name,
               e > Header => \A i \in Indices, r \in 1..MaxRecords : InFile(name, i, r) => r < e
        PROVE  Chronological'
    <2>0. /\ files[name][0] # Absent /\ files'[name][0] # Absent
          /\ Len(files[name][0]) \in Nat
          /\ DOMAIN files[name][0] = 1..Len(files[name][0])
          /\ DOMAIN files'[name][0] = 1..(Len(files[name][0]) + 1)
          /\ \A k \in 1..Len(files[name][0]) : files'[name][0][k] = files[name][0][k]
          /\ files'[name][0][Len(files[name][0]) + 1] = e
          /\ name \in Names /\ 0 \in Indices
      BY <1>2, AppendedEntries, IndexFacts DEF TypeInv, OpenInv, TypeOK
    <2>1. Ascending(files'[name][0])
      <3>1. PICK c \in Contents : c = files[name][0] /\ c # Absent
        BY <2>0 DEF TypeInv, TypeOK
      <3>2. PICK d : d = files'[name][0]
        OBVIOUS
      <3>3. /\ Len(c) \in Nat /\ DOMAIN c = 1..Len(c) /\ DOMAIN d = 1..(Len(c) + 1)
            /\ \A k \in 1..Len(c) : d[k] = c[k] /\ c[k] \in Part..MaxRecords
            /\ d[Len(c) + 1] = e
        <4>1. c \in Seq(Part..MaxRecords) /\ Len(c) \in Nat /\ DOMAIN c = 1..Len(c)
          BY <3>1, ContentsFacts
        <4>2. \A k \in 1..Len(c) : c[k] \in Part..MaxRecords
          BY <4>1, ElementOfSeq
        <4> QED
          BY <2>0, <3>1, <3>2, <4>1, <4>2
      <3>4. \A j, k \in 1..Len(c) : j < k /\ c[j] > Header /\ c[k] > Header => c[j] < c[k]
        BY <2>0, <3>1, <3>3 DEF Chronological, Ascending
      <3>5. \A k \in 1..Len(c) : e > Header /\ c[k] > Header => c[k] < e
        <4>1. \A k \in 1..Len(c) : c[k] > Header => c[k] \in 1..MaxRecords
          BY <3>3, RollingAssumption DEF Header, Part
        <4>2. \A k \in 1..Len(c) : InFile(name, 0, c[k])
          BY <2>0, <3>1, <3>3 DEF InFile
        <4> QED
          BY <1>2, <2>0, <4>1, <4>2
      <3>6. \A j, k \in DOMAIN d : j < k /\ d[j] > Header /\ d[k] > Header => d[j] < d[k]
        <4>1. TAKE j, k \in DOMAIN d
        <4>2. j < k => j \in 1..Len(c) /\ (k \in 1..Len(c) \/ k = Len(c) + 1)
          BY <3>3
        <4> QED
          BY <3>3, <3>4, <3>5, <4>2
      <3> QED
        BY <3>2, <3>6 DEF Ascending
    <2>2. \A n \in Names, i \in Indices : n # name \/ i # 0 => files'[n][i] = files[n][i]
      BY <1>2 DEF Appended
    <2>3. \A n \in Names, i \in Indices : files'[n][i] # Absent => Ascending(files'[n][i])
      BY <2>1, <2>2 DEF Chronological
    <2>4. ASSUME NEW n \in Names, NEW i \in Indices, NEW j \in Indices,
                 NEW r \in 1..MaxRecords, NEW s \in 1..MaxRecords,
                 i > j, InFile(n, i, r)', InFile(n, j, s)'
          PROVE  r < s
      <3>1. InFile(n, i, r) /\ (InFile(n, j, s) \/ (n = name /\ j = 0 /\ s = e))
        BY <1>2, <2>4, AppendedRecords, IndexFacts
      <3>2. CASE InFile(n, j, s)
        BY <2>4, <3>1, <3>2 DEF Chronological
      <3>3. CASE n = name /\ s = e
        <4>1. e > Header
          BY <3>3 DEF Header
        <4>2. InFile(name, i, r)
          BY <3>1, <3>3
        <4>3. r < e
          BY <1>2, <4>1, <4>2
        <4> QED
          BY <3>3, <4>3
      <3> QED
        BY <3>1, <3>2, <3>3
    <2> QED
      BY <2>3, <2>4 DEF Chronological
  <1>3. CASE UNCHANGED files
    BY <1>3 DEF Chronological, InFile
  <1>4. Part \in Part..MaxRecords /\ Header \in Part..MaxRecords /\ ~(Part > Header)
        /\ ~(Header > Header)
    BY RollingAssumption DEF Part, Header
  <1>5. ASSUME NEW w \in Writers, WriteHeader(w) PROVE Chronological'
    BY <1>2, <1>3, <1>4, <1>5, HeaderEffect DEF settings
  <1>6. ASSUME NEW w \in Writers, WriteRecord(w) PROVE Chronological'
    <2>1. /\ name' = name /\ pc[w] = "append"
          /\ \/ record[w] \in 1..MaxRecords /\ Appended(record[w])
             \/ Appended(Part) \/ files' = files
      BY <1>6, RecordEffect DEF settings
    <2>2. CASE record[w] \in 1..MaxRecords /\ Appended(record[w])
      <3>1. record[w] \in Part..MaxRecords /\ Writing(w) /\ name \in Names
        BY <2>1, <2>2 DEF Part, Header, Writing, TypeInv, TypeOK
      <3>2. record[w] = written /\ ~Kept(name, record[w])
        BY <3>1 DEF RecordInv
      <3>3. ASSUME NEW i \in Indices, NEW r \in 1..MaxRecords, InFile(name, i, r)
            PROVE  r < record[w]
        <4>1. r <= written
          BY <3>1, <3>3 DEF RecordInv
        <4>2. r # record[w]
          BY <3>2, <3>3 DEF Kept
        <4> QED
          BY <2>2, <3>2, <4>1, <4>2
      <3> QED
        BY <1>2, <2>1, <2>2, <3>1, <3>3
    <2> QED
      BY <1>2, <1>3, <1>4, <2>1, <2>2
  <1> QED
    BY <1>1, <1>5, <1>6, CarriedStep

LEMMA OrderInit == Init => RecordInv /\ Chronological
  BY RollingAssumption DEF Init, RecordInv, Chronological, Writing, InFile

LEMMA OrderInvariant == Spec => [](TypeInv /\ RecordInv /\ Chronological)
  BY TypeInit, OrderInit, TypeStep, RecordInvStep, OrderStep, PTL DEF Spec

(* Whatever fails and whenever the program dies, a file with a higher      *)
(* number holds older records, and within a file records are in the order  *)
(* in which they were logged: the lock covers a whole write (lines 36-56), *)
(* and a roll only ever moves a file up by one number, the highest first   *)
(* (rollLogFiles, 92-98), so that the rename after one that failed only  *)
(* overwrites what is older.                                               *)
THEOREM RecordsInOrder == Spec => []Chronological
  BY OrderInvariant, PTL

-----------------------------------------------------------------------------
(* What a roll does while nothing has failed.                              *)

LEMMA QuietUnlink ==
  ASSUME TypeInv, NumberInv, faults = 0, ~Fault, NEW w \in Writers, RollUnlink(w)
  PROVE  /\ DefaultMaxFiles - 1 \in Indices /\ DefaultMaxFiles \in Nat
         /\ pc[w] = "unlink" /\ pc'[w] = "loop"
         /\ files'[name][DefaultMaxFiles - 1] = Absent
         /\ \A n \in Names, i \in Indices :
              n # name \/ i # DefaultMaxFiles - 1 => files'[n][i] = files[n][i]
  <1>1. pc[w] = "unlink" /\ pc'[w] = "loop"
    BY DEF RollUnlink, Goto, TypeInv, TypeOK
  <1>2. maxFiles = DefaultMaxFiles /\ DefaultMaxFiles > 0 /\ DefaultMaxFiles \in Nat
    BY <1>1, RollingAssumption DEF NumberInv
  <1>3. FileName(LastFile) = DefaultMaxFiles - 1 /\ DefaultMaxFiles - 1 \in Indices
    BY <1>2, LastFileIndex DEF FileName, LastFile, TypeInv
  <1>4. files' = [files EXCEPT ![name][DefaultMaxFiles - 1] = Absent]
    BY <1>3 DEF RollUnlink, Unlink
  <1> QED
    BY <1>1, <1>2, <1>3, <1>4 DEF TypeInv, TypeOK

LEMMA QuietRename ==
  ASSUME TypeInv, NumberInv, faults = 0, ~Fault, NEW w \in Writers, RollRename(w),
         NEW k, k = fileNumber[w]
  PROVE  /\ k \in Nat /\ k \in Indices /\ k + 1 \in Indices /\ k + 1 <= DefaultMaxFiles - 1
         /\ DefaultMaxFiles \in Nat
         /\ pc[w] = "rename" /\ pc'[w] = IF k = 0 THEN "open" ELSE "rename"
         /\ fileNumber'[w] = k - 1
         /\ files[name][k + 1] = Absent
         /\ Renamed(k) \/ (files[name][k] = Absent /\ files' = files)
  <1>1. k \in Nat /\ k \in Indices /\ k + 1 \in Indices /\ RenameFile(k, k + 1)
    BY RenameIndex, IndexFacts
  <1>2. /\ pc[w] = "rename" /\ pc'[w] = (IF k = 0 THEN "open" ELSE "rename")
        /\ fileNumber'[w] = k - 1
    BY DEF RollRename, Goto, TypeInv, TypeOK
  <1>3. k <= DefaultMaxFiles - 2 /\ files[name][k + 1] = Absent /\ DefaultMaxFiles \in Nat
    BY <1>2, RollingAssumption DEF NumberInv
  <1>4. FileName(k) = k
    BY <1>1 DEF FileName
  <1>5. files[name][k] # Absent => Renamed(k)
    <2>1. FileName(k + 1) = k + 1 /\ k # k + 1
      BY <1>1 DEF FileName
    <2> QED
      BY <1>1, <1>4, <2>1 DEF RenameFile, Renamed, TypeInv, TypeOK
  <1>6. files[name][k] = Absent => files' = files
    BY <1>1, <1>4 DEF RenameFile
  <1> QED
    BY <1>1, <1>2, <1>3, <1>5, <1>6

LEMMA NumberInvStep == TypeInv /\ NumberInv /\ [Next]_vars => NumberInv'
  <1> SUFFICES ASSUME TypeInv, NumberInv, [Next]_vars, faults' = 0 PROVE NumberInv'
    BY DEF NumberInv
  <1>0. faults = 0 /\ ~Fault
    BY FaultsGrow
  <1>1. /\ maxFiles = DefaultMaxFiles
        /\ \A n \in Names, i \in Indices : i >= DefaultMaxFiles /\ i > 0 => files[n][i] = Absent
    BY <1>0 DEF NumberInv
  (* Only file 0 changes, and nobody rolls.                                *)
  <1>2. ASSUME maxFiles' = maxFiles, \A w \in Writers : pc'[w] \notin {"unlink", "loop", "rename"},
               \A n \in Names, i \in Indices : i # 0 => files'[n][i] = files[n][i]
        PROVE  NumberInv'
    BY <1>1, <1>2, IndexFacts DEF NumberInv
  <1>3. CASE Outside
    <2>1. CASE \E n \in Names : SetFileName(n)
      <3>1. \A w \in Writers : pc'[w] = "idle"
        BY <2>1, RollingAssumption DEF SetFileName, control, TypeInv, LockInv
      <3> QED
        BY <1>2, <2>1, <3>1 DEF SetFileName
    <2>2. CASE Crash
      <3>1. maxFiles' = maxFiles /\ files' = files /\ \A w \in Writers : pc'[w] = "idle"
        BY <1>1, <2>2 DEF Crash, Fresh
      <3> QED
        BY <1>2, <3>1
    <2>3. CASE UNCHANGED <<files, name, maxFiles, pc, fileNumber>>
      BY <1>0, <2>3 DEF NumberInv
    <2> QED
      BY <1>0, <1>3, <2>1, <2>2, <2>3
      DEF Outside, SetMaxFiles, SetMaxFileSize, vars, settings, control
  <1>4. ASSUME NEW w \in Writers, Write(w) PROVE NumberInv'
    <2>1. /\ pc'[w] \in {"open", "unlink", "append"} /\ (pc'[w] = "unlink" => maxFiles > 0)
          /\ \A u \in Writers : u # w => pc'[u] = "idle"
          /\ UNCHANGED <<files, name, maxFiles>>
      BY <1>4, WriteEffect DEF NeedsRoll
    <2> QED
      BY <1>1, <2>1 DEF NumberInv
  <1>5. ASSUME NEW w \in Writers, RollUnlink(w) PROVE NumberInv'
    <2>1. /\ pc[w] = "unlink" /\ pc'[w] = "loop"
          /\ files'[name][DefaultMaxFiles - 1] = Absent
          /\ \A n \in Names, i \in Indices :
               n # name \/ i # DefaultMaxFiles - 1 => files'[n][i] = files[n][i]
      BY <1>0, <1>5, QuietUnlink
    <2>2. UNCHANGED <<name, maxFiles>> /\ \A u \in Writers : u # w => pc'[u] = "idle"
      BY <1>5, RollEffect
    <2>3. DefaultMaxFiles > 0
      BY <1>0, <2>1 DEF NumberInv
    <2> QED
      BY <1>1, <2>1, <2>2, <2>3 DEF NumberInv
  <1>6. ASSUME NEW w \in Writers, RollLoop(w) PROVE NumberInv'
    <2>1. UNCHANGED <<name, maxFiles>> /\ \A u \in Writers : u # w => pc'[u] = "idle"
      BY <1>6, RollEffect
    <2>2. /\ pc[w] = "loop" /\ pc'[w] \in {"rename", "open"} /\ files' = files
          /\ fileNumber'[w] = DefaultMaxFiles - 2
      BY <1>1, <1>6 DEF RollLoop, Goto, TypeInv, TypeOK
    <2>3. DefaultMaxFiles > 0 /\ files[name][DefaultMaxFiles - 1] = Absent
      BY <1>0, <2>2 DEF NumberInv
    <2>4. (DefaultMaxFiles - 2) + 1 = DefaultMaxFiles - 1
      BY RollingAssumption
    <2> QED
      BY <1>1, <2>1, <2>2, <2>3, <2>4, RollingAssumption DEF NumberInv
  <1>7. ASSUME NEW w \in Writers, RollRename(w) PROVE NumberInv'
    <2>1. UNCHANGED <<name, maxFiles>> /\ \A u \in Writers : u # w => pc'[u] = "idle"
      BY <1>7, RollEffect
    <2>2. PICK k : k = fileNumber[w]
      OBVIOUS
    <2>3. /\ k \in Nat /\ k \in Indices /\ k + 1 \in Indices /\ k + 1 <= DefaultMaxFiles - 1
          /\ DefaultMaxFiles \in Nat
          /\ pc[w] = "rename" /\ pc'[w] = (IF k = 0 THEN "open" ELSE "rename")
          /\ fileNumber'[w] = k - 1
          /\ Renamed(k) \/ (files[name][k] = Absent /\ files' = files)
      BY <1>0, <1>7, <2>2, QuietRename
    <2>4. files'[name][k] = Absent
      BY <2>3 DEF Renamed
    <2>5. \A n \in Names, i \in Indices : i >= DefaultMaxFiles /\ i > 0 => files'[n][i] = Absent
      BY <1>1, <2>3, IndexFacts DEF Renamed
    <2>6. fileNumber'[w] <= DefaultMaxFiles - 2 /\ fileNumber'[w] + 1 = k /\ DefaultMaxFiles > 0
      BY <2>3
    <2> QED
      BY <1>1, <2>1, <2>3, <2>4, <2>5, <2>6 DEF NumberInv
  <1>8. ASSUME NEW w \in Writers, OpenLogFile(w) PROVE NumberInv'
    <2>1. UNCHANGED settings /\ \A u \in Writers : pc'[u] \in {"idle", "header", "append"}
      BY <1>8, OpenControl
    <2>2. Created \/ files' = files
      BY <1>8, OpenEffect DEF TypeInv, OpenLogFile
    <2> QED
      BY <1>2, <2>1, <2>2 DEF settings, Created
  <1>9. ASSUME NEW w \in Writers, WriteHeader(w) \/ WriteRecord(w) PROVE NumberInv'
    <2>1. UNCHANGED settings /\ \A u \in Writers : pc'[u] \in {"idle", "append"}
      BY <1>9, HeaderEffect, RecordEffect
    <2>2. (\E e : Appended(e)) \/ files' = files
      BY <1>9, HeaderEffect, RecordEffect
    <2> QED
      BY <1>2, <2>1, <2>2 DEF settings, Appended
  <1> QED
    BY <1>0, <1>3, <1>4, <1>5, <1>6, <1>7, <1>8, <1>9, Steps DEF WriterStep, RollLogFiles

(* Only RollUnlink gives records up, and only WriteRecord adds any.        *)
LEMMA QuietKept ==
  ASSUME TypeInv, NumberInv, faults = 0, ~Fault, [Next]_vars,
         ~ \E w \in Writers : RollUnlink(w) \/ WriteRecord(w),
         NEW n \in Names, NEW r \in 1..MaxRecords
  PROVE  Kept(n, r)' <=> Kept(n, r)
  <1>1. Kept(n, r)' => Kept(n, r)
    BY NoNewRecords DEF Kept
  <1>2. CASE UNCHANGED files
    BY <1>2 DEF Kept, InFile
  <1>3. CASE Outside
    BY <1>2, <1>3 DEF Outside, SetFileName, SetMaxFiles, SetMaxFileSize, Crash, vars
  <1>4. ASSUME NEW w \in Writers, RollRename(w) PROVE Kept(n, r) => Kept(n, r)'
    <2>1. PICK k : k = fileNumber[w]
      OBVIOUS
    <2>2. /\ k \in Indices /\ k + 1 \in Indices /\ files[name][k + 1] = Absent
          /\ Renamed(k) \/ files' = files
      BY <1>4, <2>1, QuietRename
    <2>3. ASSUME Renamed(k), NEW i \in Indices, InFile(n, i, r) PROVE Kept(n, r)'
      <3>1. CASE n = name /\ i = k
        <4>1. InFile(n, k + 1, r)'
          BY <2>3, <3>1 DEF InFile, Renamed
        <4> QED
          BY <2>2, <4>1 DEF Kept
      <3>2. CASE n = name /\ i = k + 1
        BY <2>2, <2>3, <3>2 DEF InFile
      <3>3. CASE n # name \/ i \notin {k, k + 1}
        <4>1. InFile(n, i, r)'
          BY <2>3, <3>3 DEF InFile, Renamed
        <4> QED
          BY <4>1 DEF Kept
      <3> QED
        BY <3>1, <3>2, <3>3
    <2> QED
      BY <1>2, <2>2, <2>3 DEF Kept
  <1>5. ASSUME NEW w \in Writers, OpenLogFile(w) PROVE Kept(n, r) => Kept(n, r)'
    <2>1. Created \/ files' = files
      BY <1>5, OpenEffect DEF TypeInv, OpenLogFile
    <2>2. ASSUME Created, NEW i \in Indices, InFile(n, i, r) PROVE InFile(n, i, r)'
      BY <2>2 DEF Created, InFile
    <2> QED
      BY <1>2, <2>1, <2>2 DEF Kept
  <1>6. ASSUME NEW w \in Writers, WriteHeader(w) PROVE Kept(n, r) => Kept(n, r)'
    <2>1. Appended(Header) /\ name' = name /\ Header \in Part..MaxRecords
      BY <1>6, HeaderEffect, RollingAssumption DEF settings, Header, Part
    <2> QED
      BY <2>1, AppendedRecords DEF Kept
  <1>7. ASSUME NEW w \in Writers, Write(w) \/ RollLoop(w) PROVE UNCHANGED files
    BY <1>7 DEF Write, RollLoop
  <1> QED
    BY <1>1, <1>2, <1>3, <1>4, <1>5, <1>6, <1>7, Steps DEF WriterStep, RollLogFiles

LEMMA NoGapsStep ==
  TypeInv /\ RecordInv /\ Chronological /\ NumberInv /\ NoGaps /\ [Next]_vars => NoGaps'
  <1> SUFFICES ASSUME TypeInv, RecordInv, Chronological, NumberInv, NoGaps, [Next]_vars,
                      faults' = 0
               PROVE  NoGaps'
    BY DEF NoGaps
  <1>0. faults = 0 /\ ~Fault
    BY FaultsGrow
  <1>1. \A n \in Names, r, s \in 1..MaxRecords :
          Kept(n, r) /\ s > r /\ s \in logged[n] => Kept(n, s)
    BY <1>0 DEF NoGaps
  <1>2. ASSUME NEW w \in Writers, RollUnlink(w) PROVE NoGaps'
    <2> DEFINE last == DefaultMaxFiles - 1
    <2>1. /\ last \in Indices /\ files'[name][last] = Absent
          /\ \A n \in Names, i \in Indices : n # name \/ i # last => files'[n][i] = files[n][i]
          /\ pc[w] = "unlink" /\ DefaultMaxFiles \in Nat
      BY <1>0, <1>2, QuietUnlink
    <2>2. logged' = logged
      BY <1>2 DEF RollUnlink
    <2>3. \A n \in Names, i \in Indices : files[n][i] # Absent => i <= last
      <3>1. DefaultMaxFiles > 0
        BY <1>0, <2>1 DEF NumberInv
      <3>2. \A n \in Names, i \in Indices : i >= DefaultMaxFiles /\ i > 0 => files[n][i] = Absent
        BY <1>0 DEF NumberInv
      <3> QED
        BY <2>1, <3>1, <3>2, IndexFacts
    <2> HIDE DEF last
    <2>4. ASSUME NEW n \in Names, NEW r \in 1..MaxRecords, NEW s \in 1..MaxRecords,
                 Kept(n, r)', s > r, s \in logged[n]
          PROVE  Kept(n, s)'
      <3>1. PICK i \in Indices : InFile(n, i, r)'
        BY <2>4 DEF Kept
      <3>2. (n # name \/ i # last) /\ InFile(n, i, r)
        BY <2>1, <3>1 DEF InFile
      <3>3. PICK j \in Indices : InFile(n, j, s)
        BY <1>1, <2>4, <3>2 DEF Kept
      <3>4. n # name \/ j # last
        <4>1. CASE n = name /\ j = last
          <5>1. i < j
            BY <2>1, <2>3, <3>2, <4>1, IndexFacts DEF InFile
          <5>2. s < r
            BY <3>2, <3>3, <5>1 DEF Chronological
          <5> QED
            BY <2>4, <5>2
        <4> QED
          BY <4>1
      <3>5. InFile(n, j, s)'
        BY <2>1, <3>3, <3>4 DEF InFile
      <3> QED
        BY <3>5 DEF Kept
    <2> QED
      BY <2>2, <2>4 DEF NoGaps
  <1>3. ASSUME NEW w \in Writers, WriteRecord(w) PROVE NoGaps'
    <2>1. /\ pc[w] = "append" /\ name' = name
          /\ \/ /\ record[w] \in 1..MaxRecords /\ Appended(record[w])
                /\ logged' = [logged EXCEPT ![name] = @ \cup {record[w]}]
             \/ logged' = logged /\ files' = files
      BY <1>0, <1>3, RecordEffect DEF settings
    <2>2. CASE logged' = logged /\ files' = files
      BY <1>1, <2>2 DEF NoGaps, Kept, InFile
    <2>3. CASE /\ record[w] \in 1..MaxRecords /\ Appended(record[w])
               /\ logged' = [logged EXCEPT ![name] = @ \cup {record[w]}]
      <3>1. record[w] \in Part..MaxRecords /\ Writing(w)
        BY <2>1, <2>3 DEF Part, Header, Writing
      <3>2. record[w] = written /\ name \in Names /\ 0 \in Indices
            /\ logged \in [Names -> SUBSET (1..MaxRecords)]
        BY <3>1, IndexFacts DEF RecordInv, TypeInv, TypeOK
      <3>3. \A n \in Names, r \in 1..MaxRecords :
              Kept(n, r)' <=> (Kept(n, r) \/ (n = name /\ r = record[w]))
        BY <2>1, <2>3, <3>1, <3>2, AppendedRecords DEF Kept
      <3>4. \A n \in Names, s \in 1..MaxRecords :
              s \in logged'[n] => s <= written /\ (s \in logged[n] \/ (n = name /\ s = record[w]))
        BY <2>3, <3>2 DEF RecordInv
      <3>5. ASSUME NEW n \in Names, NEW r \in 1..MaxRecords, NEW s \in 1..MaxRecords,
                   Kept(n, r)', s > r, s \in logged'[n]
            PROVE  Kept(n, s)'
        <4>1. Kept(n, r)
          BY <2>3, <3>2, <3>3, <3>4, <3>5
        <4> QED
          BY <1>1, <3>3, <3>4, <3>5, <4>1
      <3> QED
        BY <3>5 DEF NoGaps
    <2> QED
      BY <2>1, <2>2, <2>3
  <1>4. CASE ~ \E w \in Writers : RollUnlink(w) \/ WriteRecord(w)
    <2>1. logged' = logged
      BY <1>4, Steps DEF Outside, SetFileName, SetMaxFiles, SetMaxFileSize, Crash, vars, WriterStep,
         Write, RollLogFiles, RollLoop, RollRename, OpenLogFile, WriteHeader
    <2>2. \A n \in Names, r \in 1..MaxRecords : Kept(n, r)' <=> Kept(n, r)
      BY <1>0, <1>4, QuietKept
    <2> QED
      BY <1>1, <2>1, <2>2 DEF NoGaps
  <1> QED
    BY <1>2, <1>3, <1>4

-----------------------------------------------------------------------------
(* When records are given up.                                              *)

LEMMA SlotIndex ==
  /\ DefaultMaxFiles \in Nat
  /\ \A i \in 0..(DefaultMaxFiles - 1) : i \in Indices /\ i \in Nat
  BY RollingAssumption, IndexFacts DEF Indices

(* Nobody rolls before the step, nor after it.                             *)
LEMMA FullElsewhere ==
  ASSUME TypeInv, FullInv, faults = 0, crashes = 0,
         \A w \in Writers : /\ pc[w] \notin {"unlink", "loop", "rename"}
                            /\ pc'[w] \notin {"unlink", "loop", "rename"},
         \A n \in Names, i \in Indices : i # 0 => files'[n][i] = files[n][i],
         \A n \in Names : \A r \in logged'[n] :
           ~Kept(n, r)' => r \in logged[n] /\ ~Kept(n, r)
  PROVE  FullInv'
  <1>1. \A n \in Names : Slots(n) = 1..(DefaultMaxFiles - 1)
    BY SlotIndex DEF Slots, Rolling, Gap
  <1>2. \A n \in Names : Slots(n)' = 1..(DefaultMaxFiles - 1)
    BY SlotIndex DEF Slots, Rolling, Gap
  <1>3. ASSUME NEW n \in Names, NEW i \in 1..(DefaultMaxFiles - 1)
        PROVE  files'[n][i] = files[n][i] /\ (Full(n, i) => Full(n, i)')
    BY SlotIndex DEF Full
  <1>4. ASSUME NEW n \in Names
        PROVE  /\ \A i \in 1..(DefaultMaxFiles - 1) : files[n][i] # Absent =>
                    \A j \in 1..(DefaultMaxFiles - 1) : j <= i => Full(n, j)
               /\ (\E r \in logged[n] : ~Kept(n, r)) =>
                    \A i \in 1..(DefaultMaxFiles - 1) : Full(n, i)
    BY <1>1 DEF FullInv
  <1>5. ASSUME NEW n \in Names
        PROVE  /\ \A i \in 1..(DefaultMaxFiles - 1) : files'[n][i] # Absent =>
                    \A j \in 1..(DefaultMaxFiles - 1) : j <= i => Full(n, j)'
               /\ (\E r \in logged'[n] : ~Kept(n, r)') =>
                    \A i \in 1..(DefaultMaxFiles - 1) : Full(n, i)'
    BY <1>3, <1>4
  <1> QED
    BY <1>2, <1>5 DEF FullInv

(* Which numbers full files have while w rolls.                            *)
RollSlots(w) ==
  {i \in 0..(DefaultMaxFiles - 1) :
     /\ i = 0 => pc[w] \in {"unlink", "loop", "rename"}
     /\ pc[w] = "loop" => i # DefaultMaxFiles - 1
     /\ pc[w] = "rename" => i # fileNumber[w] + 1}

LEMMA SlotsOfRoll ==
  ASSUME NEW w \in Writers
  PROVE  /\ (\A u \in Writers : u # w => pc[u] = "idle") => Slots(name) = RollSlots(w)
         /\ (\A u \in Writers : u # w => pc'[u] = "idle") =>
              \A n \in Names : n = name' => Slots(n)' = RollSlots(w)'
         /\ \A n \in Names : n # name => Slots(n) = 1..(DefaultMaxFiles - 1)
         /\ \A n \in Names : n # name' => Slots(n)' = 1..(DefaultMaxFiles - 1)
  BY SlotIndex DEF Slots, Rolling, Gap, RollSlots

(* Files by other names are left alone; it is enough to look at the log    *)
(* that is rolled.                                                         *)
FullRoll(n, S) ==
  /\ \A i \in S : files[n][i] # Absent => \A j \in S : j <= i => Full(n, j)
  /\ (\E r \in logged[n] : ~Kept(n, r)) => \A i \in S : Full(n, i)

LEMMA FullRolled ==
  ASSUME TypeInv, FullInv, faults = 0, crashes = 0, NEW w \in Writers, name' = name,
         logged' = logged,
         \A u \in Writers : u # w => pc[u] = "idle" /\ pc'[u] = "idle",
         \A n \in Names, i \in Indices : n # name => files'[n][i] = files[n][i],
         \A n \in Names : FullRoll(n, RollSlots(w)) /\ n = name => FullRoll(n, RollSlots(w))'
  PROVE  FullInv'
  <1>1. ASSUME NEW n \in Names, n # name PROVE FullRoll(n, Slots(n))'
    <2>1. Slots(n)' = Slots(n) /\ \A i \in Slots(n) : i \in Indices
      BY <1>1, SlotsOfRoll, SlotIndex
    <2>2. \A i \in Indices : /\ files'[n][i] = files[n][i] /\ (Full(n, i)' <=> Full(n, i))
                             /\ \A r \in 1..MaxRecords : InFile(n, i, r)' <=> InFile(n, i, r)
      BY <1>1 DEF Full, InFile
    <2>3. \A r \in logged[n] : Kept(n, r)' <=> Kept(n, r)
      BY <2>2 DEF Kept, TypeInv, TypeOK
    <2>4. FullRoll(n, Slots(n))
      BY DEF FullInv, FullRoll
    <2> QED
      BY <2>1, <2>2, <2>3, <2>4 DEF FullRoll
  <1>2. ASSUME NEW n \in Names, n = name PROVE FullRoll(n, Slots(n))'
    <2>1. FullRoll(n, Slots(n)) /\ Slots(n) = RollSlots(w) /\ Slots(n)' = RollSlots(w)'
      BY <1>2, SlotsOfRoll DEF FullInv, FullRoll
    <2>2. FullRoll(n, RollSlots(w))'
      BY <1>2, <2>1
    <2> QED
      BY <2>1, <2>2 DEF FullRoll
  <1>3. \A n \in Names : FullRoll(n, Slots(n))'
    BY <1>1, <1>2
  <1> QED
    BY <1>3 DEF FullInv, FullRoll

LEMMA FullWrite ==
  ASSUME TypeInv, HeaderInv, FullInv, faults = 0, crashes = 0, NEW w \in Writers, Write(w)
  PROVE  FullInv'
  <1>1. /\ mutex = Free
        /\ \A u \in Writers : pc[u] = "idle" /\ (u # w => pc'[u] = "idle")
        /\ pc'[w] \in {"open", "unlink", "append"}
        /\ pc'[w] = "unlink" => ~firstWrite /\ NeedsRoll
        /\ UNCHANGED <<files, name, logged>>
    BY WriteEffect
  <1>2. CASE pc'[w] = "unlink"
    <2>1. RollSlots(w) = 1..(DefaultMaxFiles - 1) /\ RollSlots(w)' = 0..(DefaultMaxFiles - 1)
      BY <1>1, <1>2, SlotIndex DEF RollSlots
    <2>2. Full(name, 0)
      <3>1. isOpen /\ fileSize > maxFileSize
        BY <1>1, <1>2 DEF HeaderInv, NeedsRoll
      <3>2. files[name][0] # Absent /\ fileSize = Len(files[name][0])
        BY <3>1 DEF TypeInv, OpenInv, SizeKnown
      <3>3. maxFileSize \in Nat /\ maxFileSize >= MinFileSize
        BY RollingAssumption DEF TypeInv, TypeOK, Limit
      <3>4. Len(files[name][0]) \in Nat
        BY <3>2, IndexFacts, ContentsFacts DEF TypeInv, TypeOK
      <3> QED
        BY <3>1, <3>2, <3>3, <3>4, RollingAssumption DEF Full
    <2>3. ASSUME NEW n \in Names, n = name, FullRoll(n, RollSlots(w))
          PROVE  FullRoll(n, RollSlots(w))'
      <3>1. /\ \A i : Full(n, i)' <=> Full(n, i)
            /\ \A r : Kept(n, r)' <=> Kept(n, r)
        BY <1>1 DEF Full, Kept, InFile
      <3> QED
        BY <1>1, <2>1, <2>2, <2>3, <3>1, SlotIndex DEF FullRoll
    <2> QED
      BY <1>1, <2>3, FullRolled
  <1>3. CASE pc'[w] # "unlink"
    <2>1. \A n \in Names : \A r : Kept(n, r)' <=> Kept(n, r)
      BY <1>1 DEF Kept, InFile
    <2> QED
      BY <1>1, <1>3, <2>1, FullElsewhere
  <1> QED
    BY <1>2, <1>3

LEMMA FullUnlink ==
  ASSUME TypeInv, NumberInv, FullInv, faults = 0, crashes = 0, ~Fault,
         NEW w \in Writers, RollUnlink(w)
  PROVE  FullInv'
  <1> DEFINE last == DefaultMaxFiles - 1
  <1>1. /\ last \in Indices /\ DefaultMaxFiles \in Nat
        /\ pc[w] = "unlink" /\ pc'[w] = "loop"
        /\ files'[name][last] = Absent
        /\ \A n \in Names, i \in Indices : n # name \/ i # last => files'[n][i] = files[n][i]
    BY QuietUnlink
  <1>2. /\ UNCHANGED <<name, logged>>
        /\ \A u \in Writers : u # w => pc[u] = "idle" /\ pc'[u] = "idle"
    BY RollEffect
  <1>3. RollSlots(w) = 0..last /\ RollSlots(w)' = 0..last \ {last} /\ last \in 0..last
    <2>1. last \in Nat
      BY <1>1, IndexFacts
    <2> QED
      BY <1>1, <2>1 DEF RollSlots
  <1>4. \A i \in 0..last : i \in Indices /\ i <= last
    BY SlotIndex
  <1> HIDE DEF last
  <1>5. ASSUME NEW n \in Names, n = name, FullRoll(n, RollSlots(w))
        PROVE  FullRoll(n, RollSlots(w))'
    <2>1. \A i \in 0..last \ {last} : files'[n][i] = files[n][i] /\ (Full(n, i)' <=> Full(n, i))
      BY <1>1, <1>4, <1>5 DEF Full
    <2>2. ASSUME NEW r \in logged[n], ~Kept(n, r)' PROVE \A i \in 0..last : Full(n, i)
      <3>1. CASE Kept(n, r)
        <4>1. files[n][last] # Absent
          <5>1. PICK i \in Indices : InFile(n, i, r)
            BY <3>1 DEF Kept
          <5>2. i = last
            <6>1. i # last => InFile(n, i, r)'
              BY <1>1, <5>1 DEF InFile
            <6> QED
              BY <2>2, <6>1 DEF Kept
          <5> QED
            BY <5>1, <5>2 DEF InFile
        <4> QED
          BY <1>3, <1>4, <1>5, <4>1 DEF FullRoll
      <3>2. CASE ~Kept(n, r)
        BY <1>3, <1>5, <3>2 DEF FullRoll
      <3> QED
        BY <3>1, <3>2
    <2>3. \A i \in 0..last \ {last} : files'[n][i] # Absent =>
            \A j \in 0..last \ {last} : j <= i => Full(n, j)'
      BY <1>3, <1>5, <2>1 DEF FullRoll
    <2>4. (\E r \in logged'[n] : ~Kept(n, r)') => \A i \in 0..last \ {last} : Full(n, i)'
      BY <1>2, <2>1, <2>2
    <2> QED
      BY <1>3, <2>3, <2>4 DEF FullRoll
  <1>6. \A n \in Names, i \in Indices : n # name => files'[n][i] = files[n][i]
    BY <1>1
  <1> QED
    BY <1>2, <1>5, <1>6, FullRolled

LEMMA FullLoop ==
  ASSUME TypeInv, NumberInv, FullInv, faults = 0, crashes = 0, NEW w \in Writers, RollLoop(w)
  PROVE  FullInv'
  <1>1. /\ pc[w] = "loop" /\ files' = files
        /\ pc'[w] = (IF maxFiles - 2 >= 0 THEN "rename" ELSE "open")
        /\ fileNumber'[w] = maxFiles - 2
    BY DEF RollLoop, Goto, TypeInv, TypeOK
  <1>2. maxFiles = DefaultMaxFiles /\ DefaultMaxFiles > 0
    BY <1>1 DEF NumberInv
  <1>3. /\ UNCHANGED <<name, logged>>
        /\ \A u \in Writers : u # w => pc[u] = "idle" /\ pc'[u] = "idle"
    BY RollEffect
  <1>4. RollSlots(w)' = RollSlots(w)
    BY <1>1, <1>2, SlotIndex DEF RollSlots
  <1>5. ASSUME NEW n \in Names, n = name, FullRoll(n, RollSlots(w))
        PROVE  FullRoll(n, RollSlots(w))'
    <2>1. /\ \A i : Full(n, i)' <=> Full(n, i)
          /\ \A r : Kept(n, r)' <=> Kept(n, r)
      BY <1>1 DEF Full, Kept, InFile
    <2> QED
      BY <1>1, <1>3, <1>4, <1>5, <2>1 DEF FullRoll
  <1> QED
    BY <1>1, <1>3, <1>5, FullRolled

LEMMA FullRename ==
  ASSUME TypeInv, NumberInv, FullInv, faults = 0, crashes = 0, ~Fault, [Next]_vars,
         NEW w \in Writers, RollRename(w)
  PROVE  FullInv'
  <1> DEFINE last == DefaultMaxFiles - 1
  <1>1. PICK k : k = fileNumber[w]
    OBVIOUS
  <1>2. /\ k \in Nat /\ k \in Indices /\ k + 1 \in Indices /\ k + 1 <= last
        /\ DefaultMaxFiles \in Nat
        /\ pc[w] = "rename" /\ pc'[w] = (IF k = 0 THEN "open" ELSE "rename")
        /\ fileNumber'[w] = k - 1
        /\ files[name][k + 1] = Absent
        /\ Renamed(k) \/ (files[name][k] = Absent /\ files' = files)
    BY <1>1, QuietRename
  <1>3. /\ UNCHANGED <<name, logged>>
        /\ \A u \in Writers : u # w => pc[u] = "idle" /\ pc'[u] = "idle"
    BY RollEffect
  <1>4. RollSlots(w) = 0..last \ {k + 1} /\ RollSlots(w)' = 0..last \ {k}
    BY <1>1, <1>2 DEF RollSlots
  <1>5. \A i \in 0..last : i \in Indices /\ i \in Nat
    BY SlotIndex
  <1>6. k \in 0..last /\ k + 1 \in 0..last
    BY <1>2
  <1> HIDE DEF last
  <1>7. ~ \E u \in Writers : RollUnlink(u) \/ WriteRecord(u)
    BY <1>2, <1>3 DEF RollUnlink, WriteRecord, Unlock, Goto
  <1>8. ASSUME NEW n \in Names, n = name, FullRoll(n, RollSlots(w))
        PROVE  FullRoll(n, RollSlots(w))'
    <2>1. /\ \A i \in 0..last \ {k + 1} : files[n][i] # Absent =>
                \A j \in 0..last \ {k + 1} : j <= i => Full(n, j)
          /\ (\E r \in logged[n] : ~Kept(n, r)) => \A i \in 0..last \ {k + 1} : Full(n, i)
      BY <1>4, <1>8 DEF FullRoll
    <2>2. (\E r \in logged'[n] : ~Kept(n, r)') => \E r \in logged[n] : ~Kept(n, r)
      <3>1. \A r \in logged[n] : r \in 1..MaxRecords
        BY DEF TypeInv, TypeOK
      <3>2. \A r \in 1..MaxRecords : Kept(n, r)' <=> Kept(n, r)
        BY <1>7, QuietKept
      <3> QED
        BY <1>3, <3>1, <3>2
    <2>3. CASE Renamed(k)
      <3>1. \A i \in 0..last \ {k, k + 1} : files'[n][i] = files[n][i] /\ (Full(n, i)' <=> Full(n, i))
        BY <1>5, <1>8, <2>3 DEF Renamed, Full
      <3>2. files[n][k] # Absent /\ (Full(n, k) => Full(n, k + 1)')
        BY <1>8, <2>3 DEF Renamed, Full
      <3>3. \A j \in 0..last \ {k + 1} : j <= k => Full(n, j)
        BY <1>2, <1>6, <2>1, <3>2
      <3>4. Full(n, k + 1)'
        BY <1>2, <1>6, <3>2, <3>3
      <3>5. ASSUME NEW i \in 0..last \ {k}, files'[n][i] # Absent,
                   NEW j \in 0..last \ {k}, j <= i
            PROVE  Full(n, j)'
        <4>1. CASE j = k + 1
          BY <3>4, <4>1
        <4>2. CASE j < k
          <5>1. Full(n, j)
            BY <1>2, <1>5, <3>3, <4>2
          <5> QED
            BY <1>2, <1>5, <3>1, <4>2, <5>1
        <4>3. CASE j > k + 1
          <5>1. i \in 0..last \ {k, k + 1} /\ j \in 0..last \ {k, k + 1}
            BY <1>2, <1>5, <3>5, <4>3
          <5>2. Full(n, j)
            BY <2>1, <3>1, <3>5, <5>1
          <5> QED
            BY <3>1, <5>1, <5>2
        <4>4. j \in Nat /\ j # k
          BY <1>5
        <4> QED
          BY <1>2, <4>1, <4>2, <4>3, <4>4
      <3>6. (\E r \in logged'[n] : ~Kept(n, r)') => \A i \in 0..last \ {k} : Full(n, i)'
        <4>1. ASSUME NEW i \in 0..last \ {k}, \A j \in 0..last \ {k + 1} : Full(n, j)
              PROVE  Full(n, i)'
          BY <3>1, <3>4, <4>1
        <4> QED
          BY <2>1, <2>2, <4>1
      <3> QED
        BY <1>4, <3>5, <3>6 DEF FullRoll
    <2>4. CASE files[name][k] = Absent /\ files' = files
      <3>1. k \in 0..last \ {k + 1} /\ ~Full(n, k) /\ ~Full(n, k + 1)
        BY <1>2, <1>6, <1>8, <2>4 DEF Full
      <3>2. \A i : Full(n, i)' <=> Full(n, i)
        BY <2>4 DEF Full
      <3>3. ~ \E r \in logged'[n] : ~Kept(n, r)'
        BY <2>1, <2>2, <3>1
      <3>4. ASSUME NEW i \in 0..last \ {k}, files'[n][i] # Absent,
                   NEW j \in 0..last \ {k}, j <= i
            PROVE  Full(n, j)'
        <4>1. i # k + 1 /\ files[n][i] # Absent
          BY <1>2, <1>8, <2>4, <3>4
        <4>2. i < k
          <5>1. ~(k <= i)
            BY <2>1, <3>1, <4>1
          <5> QED
            BY <1>2, <1>5, <5>1
        <4>3. j # k + 1
          BY <1>2, <1>5, <3>4, <4>2
        <4> QED
          BY <2>1, <3>2, <3>4, <4>1, <4>3
      <3> QED
        BY <1>4, <3>3, <3>4 DEF FullRoll
    <2> QED
      BY <1>2, <2>3, <2>4
  <1>9. \A n \in Names, i \in Indices : n # name => files'[n][i] = files[n][i]
    BY <1>2 DEF Renamed
  <1> QED
    BY <1>3, <1>8, <1>9, FullRolled

LEMMA FullRecord ==
  ASSUME TypeInv, FullInv, faults = 0, crashes = 0, ~Fault, NEW w \in Writers, WriteRecord(w)
  PROVE  FullInv'
  <1>1. /\ pc[w] = "append" /\ name' = name
        /\ \A u \in Writers : pc'[u] = "idle" /\ (u # w => pc[u] = "idle")
        /\ \/ /\ record[w] \in 1..MaxRecords /\ Appended(record[w])
              /\ logged' = [logged EXCEPT ![name] = @ \cup {record[w]}]
           \/ logged' = logged /\ files' = files
    BY RecordEffect DEF settings
  <1>2. ASSUME NEW n \in Names, NEW r \in logged'[n], ~Kept(n, r)'
        PROVE  r \in logged[n] /\ ~Kept(n, r)
    <2>1. CASE logged' = logged /\ files' = files
      BY <1>2, <2>1 DEF Kept, InFile
    <2>2. CASE /\ record[w] \in 1..MaxRecords /\ Appended(record[w])
               /\ logged' = [logged EXCEPT ![name] = @ \cup {record[w]}]
      <3>1. /\ record[w] \in Part..MaxRecords /\ 0 \in Indices
            /\ logged \in [Names -> SUBSET (1..MaxRecords)]
        BY <2>2, IndexFacts DEF Part, TypeInv, TypeOK
      <3>2. r \in 1..MaxRecords /\ (r \in logged[n] \/ (n = name /\ r = record[w]))
        BY <2>2, <3>1
      <3>3. \A i \in Indices : InFile(n, i, r)' <=> (InFile(n, i, r) \/ (n = name /\ i = 0 /\ r = record[w]))
        BY <1>1, <2>2, <3>1, <3>2, AppendedRecords
      <3> QED
        BY <1>2, <3>1, <3>2, <3>3 DEF Kept
    <2> QED
      BY <1>1, <2>1, <2>2
  <1>3. \A n \in Names, i \in Indices : i # 0 => files'[n][i] = files[n][i]
    BY <1>1 DEF Appended
  <1> QED
    BY <1>1, <1>2, <1>3, FullElsewhere

LEMMA FullInvStep ==
  TypeInv /\ HeaderInv /\ NumberInv /\ FullInv /\ [Next]_vars => FullInv'
  <1> SUFFICES ASSUME TypeInv, HeaderInv, NumberInv, FullInv, [Next]_vars,
                      faults' = 0, crashes' = 0
               PROVE  FullInv'
    BY DEF FullInv
  <1>0. faults = 0 /\ ~Fault
    BY FaultsGrow
  <1>1. crashes = 0 /\ ~Crash
    <2>1. crashes' = crashes \/ (Crash /\ crashes' = crashes + 1)
      BY Steps DEF Outside, SetFileName, SetMaxFiles, SetMaxFileSize, Crash, vars, WriterStep,
         Write, RollLogFiles, RollUnlink, RollLoop, RollRename, OpenLogFile, WriteHeader,
         WriteRecord
    <2>2. crashes \in Nat
      BY RollingAssumption DEF TypeInv, TypeOK
    <2> QED
      BY <2>1, <2>2 DEF Crash
  (* Nobody rolls, and no record is given up.                              *)
  <1>2. ASSUME \A w \in Writers : /\ pc[w] \notin {"unlink", "loop", "rename"}
                                  /\ pc'[w] \notin {"unlink", "loop", "rename"},
               \A n \in Names, i \in Indices : i # 0 => files'[n][i] = files[n][i],
               logged' = logged, ~ \E w \in Writers : RollUnlink(w) \/ WriteRecord(w)
        PROVE  FullInv'
    <2>1. ASSUME NEW n \in Names, NEW r \in logged'[n], ~Kept(n, r)'
          PROVE  r \in logged[n] /\ ~Kept(n, r)
      <3>1. r \in logged[n] /\ r \in 1..MaxRecords
        BY <1>2, <2>1 DEF TypeInv, TypeOK
      <3> QED
        BY <1>0, <1>2, <2>1, <3>1, QuietKept
    <2> QED
      BY <1>0, <1>1, <1>2, <2>1, FullElsewhere
  <1>3. CASE Outside
    <2>1. CASE \E n \in Names : SetFileName(n)
      <3>1. /\ \A w \in Writers : pc[w] = "idle" /\ pc'[w] = "idle"
            /\ files' = files /\ logged' = logged
        BY <2>1, RollingAssumption DEF SetFileName, control, TypeInv, LockInv
      <3> QED
        BY <1>2, <3>1 DEF RollUnlink, WriteRecord, Unlock, Goto
    <2>2. CASE UNCHANGED <<files, name, pc, fileNumber, logged>>
      <3>1. /\ \A n, i : Full(n, i)' <=> Full(n, i)
            /\ \A n, r : Kept(n, r)' <=> Kept(n, r)
            /\ \A n : Slots(n)' = Slots(n)
        BY <2>2 DEF Full, Kept, InFile, Slots, Rolling, Gap
      <3> QED
        BY <1>0, <1>1, <2>2, <3>1 DEF FullInv
    <2> QED
      BY <1>0, <1>1, <1>3, <2>1, <2>2
      DEF Outside, SetMaxFiles, SetMaxFileSize, vars, settings, control
  <1>4. ASSUME NEW w \in Writers, OpenLogFile(w) PROVE FullInv'
    <2>1. /\ pc[w] = "open" /\ pc'[w] \in {"header", "append"} /\ logged' = logged
          /\ \A u \in Writers : u # w => pc[u] = "idle" /\ pc'[u] = "idle"
      BY <1>4, OpenControl
    <2>2. Created \/ files' = files
      BY <1>4, OpenEffect DEF TypeInv, OpenLogFile
    <2> QED
      BY <1>2, <2>1, <2>2 DEF Created, RollUnlink, WriteRecord, Unlock, Goto
  <1>5. ASSUME NEW w \in Writers, WriteHeader(w) PROVE FullInv'
    <2>1. /\ pc[w] = "header" /\ pc'[w] = "append" /\ logged' = logged
          /\ \A u \in Writers : u # w => pc[u] = "idle" /\ pc'[u] = "idle"
          /\ Appended(Header)
      BY <1>0, <1>5, HeaderEffect
    <2> QED
      BY <1>2, <2>1 DEF Appended, RollUnlink, WriteRecord, Unlock, Goto
  <1> QED
    BY <1>0, <1>1, <1>3, <1>4, <1>5, FullWrite, FullUnlink, FullLoop, FullRename, FullRecord, Steps
    DEF WriterStep, RollLogFiles

LEMMA NumberInit == Init => NumberInv /\ NoGaps /\ FullInv
  <1> SUFFICES ASSUME Init PROVE NumberInv /\ NoGaps /\ FullInv
    OBVIOUS
  <1>1. \A w \in Writers : pc[w] = "idle"
    BY DEF Init
  <1>2. \A n \in Names : logged[n] = {} /\ \A i \in Indices : files[n][i] = Absent
    BY DEF Init
  <1>3. \A n \in Names : \A i \in Slots(n) : i \in Indices
    BY SlotIndex DEF Slots
  <1> QED
    BY <1>1, <1>2, <1>3 DEF Init, Fresh, NumberInv, NoGaps, FullInv

LEMMA RollingInvariant == Spec => [](TypeInv /\ RollingInv)
  <1>1. Init => TypeInv /\ RollingInv
    BY TypeInit, HeaderInit, OrderInit, NumberInit DEF RollingInv
  <1>2. TypeInv /\ RollingInv /\ [Next]_vars => (TypeInv /\ RollingInv)'
    BY TypeStep, HeaderInvStep, HeaderOnceStep, RecordInvStep, OrderStep, NumberInvStep, NoGapsStep,
       FullInvStep DEF RollingInv
  <1> QED
    BY <1>1, <1>2, PTL DEF Spec

(* If no call fails, m_maxFiles is not changed and nobody rolls by hand,   *)
(* what is kept is the recent history without a gap, even if the program   *)
(* dies while it rolls: the one file that is unlinked holds the oldest     *)
(* records (rollLogFiles, 89-90), and no file is renamed to one that is    *)
(* still there (92-98).                                                    *)
THEOREM HistoryWithoutGaps == Spec => []NoGaps
  <1>1. RollingInv => NoGaps
    BY DEF RollingInv
  <1> QED
    BY <1>1, RollingInvariant, PTL

(* If in addition the program does not die, a record is given up only when *)
(* every number that m_maxFiles allows a rolled file is taken by a file    *)
(* longer than the lower limit of setMaxFileSize: write rolls only a file  *)
(* that has grown beyond m_maxFileSize (45), and a roll moves every file   *)
(* up by exactly one.                                                      *)
THEOREM OnlyFullFilesDropped == Spec => []DroppedWhenFull
  <1>1. TypeInv /\ RollingInv => DroppedWhenFull
    <2> SUFFICES ASSUME TypeInv, FullInv, faults = 0, crashes = 0, mutex = Free
                 PROVE  DroppedWhenFull
      BY DEF RollingInv, DroppedWhenFull
    <2>1. \A w \in Writers : pc[w] = "idle"
      BY RollingAssumption DEF TypeInv, LockInv
    <2>2. \A n \in Names : Slots(n) = 1..(DefaultMaxFiles - 1)
      BY <2>1, SlotIndex DEF Slots, Rolling, Gap
    <2> QED
      BY <2>2 DEF FullInv, Full, DroppedWhenFull
  <1> QED
    BY <1>1, RollingInvariant, PTL
=============================================================================
