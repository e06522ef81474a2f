---------------------------- MODULE AuditLogProofs ----------------------------
(***************************************************************************)
(* For every set of entries, every choice of faults and any number of      *)
(* rotations, kills and power losses: a decision whose log call returned   *)
(* has a durable line; without short writes that line is well formed;      *)
(* without short writes and failed syncs every file is a chain, which the  *)
(* verifier accepts until the first rotation; and each failed call costs   *)
(* at most one acknowledged decision.                                      *)
(*                                                                         *)
(* The invariant ties the logger's volatile state to the file it has open: *)
(* the line being written is the last one and was built on prev_hash, and  *)
(* while none is being written prev_hash is the hash of the last line.     *)
(***************************************************************************)
EXTENDS AuditLog, FiniteSetTheorems, TLAPS

NoShort == "short" \notin WriteFaults
NoFaults == NoShort /\ ~SyncFaults

\* The logger has the file at the path open, or one logrotate moved away; what
\* logrotate put in its place is empty.
FdAtPath == up => path \in {0, fd} \/ (files[path].lines = <<>> /\ ~files[path].frag)

\* The entry being written is the last line of the open file, and its call has
\* not ended.
WritingLast ==
    \A e \in writing :
        LET ls == files[fd].lines
        IN  /\ up /\ writing = {e} /\ calls[e] = "new" /\ ls # <<>>
            /\ ls[Len(ls)].entry = e
            /\ ls[Len(ls)].prev = prev_hash

\* Without short writes no line is ever glued to a fragment: the open file
\* never ends in one.
LinesWhole ==
    NoShort => /\ \A i \in 1..Len(files) : \A j \in 1..Len(files[i].lines) : files[i].lines[j].whole
               /\ up => ~files[fd].frag

\* prev_hash is the hash of the last line of the open file, if it has any.
PrevHashCurrent ==
    (NoFaults /\ up /\ writing = {} /\ files[fd].lines # <<>>) =>
        prev_hash = HashOf(files[fd].lines[Len(files[fd].lines)])

\* The inductive invariant.
AuditInv ==
    /\ TypeOK
    /\ FdAtPath
    /\ WritingLast
    /\ AckedDurable
    /\ LinesWhole
    /\ FilesChained
    /\ PrevHashCurrent

-----------------------------------------------------------------------------
(* What the operators of the model return *)

\* open_secure_append leaves every existing file alone, and a file it creates
\* is empty.
LEMMA OpenedFacts ==
  ASSUME TypeOK
  PROVE  /\ FilesOpened \in Seq(File)
         /\ PathOpened \in 1..Len(FilesOpened)
         /\ Len(files) \in Nat /\ Len(FilesOpened) \in Nat /\ Len(files) <= Len(FilesOpened)
         /\ \A i \in 1..Len(files) : FilesOpened[i] = files[i]
         /\ \A i \in 1..Len(FilesOpened) : i \in 1..Len(files) \/ FilesOpened[i] = EmptyFile
         /\ path # 0 => FilesOpened = files /\ PathOpened = path
         /\ path = 0 => FilesOpened[PathOpened] = EmptyFile
<1>1. EmptyFile \in File /\ EmptyFile.lines = <<>>
  BY DEF EmptyFile, File
<1>2. CASE path = 0
  BY <1>1, <1>2 DEF TypeOK, FilesOpened, PathOpened
<1>3. CASE path # 0
  BY <1>3 DEF TypeOK, FilesOpened, PathOpened
<1> QED
  BY <1>2, <1>3

\* write_all adds one line, the last, and changes none before it.
LEMMA WrittenFacts ==
  ASSUME NEW f \in File, NEW e \in Entries, prev_hash \in Seq(Entries)
  PROVE  LET g == Written(f, e)
             n == Len(f.lines)
         IN  /\ g \in File
             /\ n \in Nat /\ Len(g.lines) = n + 1
             /\ g.synced = f.synced /\ ~g.frag
             /\ g.lines[n + 1] = [entry |-> e, prev |-> prev_hash, whole |-> ~f.frag]
             /\ \A j \in 1..n : g.lines[j] = f.lines[j]
<1> DEFINE l == [entry |-> e, prev |-> prev_hash, whole |-> ~f.frag]
           g == Written(f, e)
<1>1. l \in Line /\ f.lines \in Seq(Line) /\ f.synced \in Nat
  BY DEF Line, File
<1>2. g = [lines |-> Append(f.lines, l), frag |-> FALSE, synced |-> f.synced]
  BY DEF Written
<1> HIDE DEF l, g
<1>3. Append(f.lines, l) \in Seq(Line)
  BY <1>1
<1>4. g \in File
  BY <1>1, <1>2, <1>3 DEF File
<1> QED
  BY <1>1, <1>2, <1>4 DEF l, g

\* A power loss keeps the durable lines and perhaps some that follow them.
LEMMA PowerLossFacts ==
  ASSUME NEW f \in File, f.synced <= Len(f.lines), NEW g \in AfterPowerLoss(f)
  PROVE  /\ g \in File
         /\ g.synced = Len(g.lines)
         /\ f.synced <= g.synced /\ Len(g.lines) <= Len(f.lines)
         /\ \A j \in 1..Len(g.lines) : g.lines[j] = f.lines[j]
<1>1. PICK k \in f.synced..Len(f.lines) : g.lines = SubSeq(f.lines, 1, k)
  BY DEF AfterPowerLoss
<1>2. f.lines \in Seq(Line) /\ f.synced \in Nat /\ Len(f.lines) \in Nat
  BY DEF File
<1>3. /\ SubSeq(f.lines, 1, k) \in Seq(Line)
      /\ Len(SubSeq(f.lines, 1, k)) = k
      /\ \A j \in 1..k : SubSeq(f.lines, 1, k)[j] = f.lines[j]
  BY <1>1, <1>2
<1>4. g = [lines |-> g.lines, frag |-> g.frag, synced |-> g.synced] /\ g.frag \in BOOLEAN
      /\ g.synced = Len(g.lines)
  BY DEF AfterPowerLoss
<1>5. g.lines \in Seq(Line) /\ Len(g.lines) = k /\ k \in Nat /\ g.synced = k
  BY <1>1, <1>2, <1>3, <1>4
<1>6. g \in File
  BY <1>4, <1>5 DEF File
<1> QED
  BY <1>1, <1>2, <1>3, <1>5, <1>6

-----------------------------------------------------------------------------

\* Before the first start there is no file and no call.
LEMMA InitAuditInv == Init => AuditInv
<1> SUFFICES ASSUME Init PROVE AuditInv
  OBVIOUS
<1> USE AuditLogAssumption DEF Init
<1>1. TypeOK
  <2>1. files \in Seq(File) /\ Len(files) = 0
    OBVIOUS
  <2>2. prev_hash \in Seq(Entries)
    BY DEF ZERO_HASH
  <2>3. calls \in [Entries -> {"new", "ok", "err", "lost"}]
    OBVIOUS
  <2>4. \A i \in 1..Len(files) : files[i].synced <= Len(files[i].lines)
    BY <2>1
  <2>5. path \in 0..Len(files) /\ fd \in 0..Len(files) /\ rotations \in 0..MaxRotations /\ failures \in 0..MaxFailures
    BY <2>1
  <2>6. up \in BOOLEAN /\ (up => fd # 0) /\ writing \subseteq Entries /\ (~up => writing = {})
    OBVIOUS
  <2> QED
    BY <2>1, <2>2, <2>3, <2>4, <2>5, <2>6 DEF TypeOK
<1>2. FdAtPath /\ WritingLast /\ AckedDurable /\ PrevHashCurrent
  BY DEF FdAtPath, WritingLast, AckedDurable, PrevHashCurrent
<1>3. LinesWhole /\ FilesChained
  BY DEF LinesWhole, FilesChained
<1> QED
  BY <1>1, <1>2, <1>3 DEF AuditInv

-----------------------------------------------------------------------------
(* Preservation *)

\* No durable line is changed or dropped by the step.
DurableKept ==
    /\ Len(files) <= Len(files')
    /\ \A i \in 1..Len(files) :
         /\ files[i].synced <= files'[i].synced
         /\ \A j \in 1..files[i].synced : files'[i].lines[j] = files[i].lines[j]

\* While no durable line is lost, what is durably in the log stays in it.
LEMMA DurablyKept ==
  ASSUME TypeOK, TypeOK', DurableKept, NEW e,
         NEW i \in 1..Len(files)
  PROVE  /\ i \in 1..Len(files')
         /\ DurablyIn(files[i], e) => DurablyIn(files'[i], e)
         /\ DurablyWholeIn(files[i], e) => DurablyWholeIn(files'[i], e)
<1>1. Len(files) \in Nat /\ Len(files') \in Nat /\ i \in 1..Len(files')
  BY DEF TypeOK, DurableKept
<1>2. files[i].synced \in Nat /\ files'[i].synced \in Nat
  <2>1. files[i] \in File /\ files'[i] \in File
    BY <1>1, SMTT(60) DEF TypeOK
  <2> QED
    BY <2>1 DEF File
<1>3. \A j \in 1..files[i].synced : j \in 1..files'[i].synced /\ files'[i].lines[j] = files[i].lines[j]
  BY <1>2 DEF DurableKept
<1> QED
  BY <1>1, <1>3 DEF DurablyIn, DurablyWholeIn

\* Acknowledged entries stay durable when no call is acknowledged by the step.
LEMMA AckedKept ==
  ASSUME TypeOK, TypeOK', AckedDurable, DurableKept,
         \A e \in Entries : calls'[e] = "ok" => calls[e] = "ok"
  PROVE  AckedDurable'
BY DurablyKept DEF AckedDurable

\* Startup and SIGHUP: the file at the path is opened, none is changed.
LEMMA OpenStep ==
  ASSUME AuditInv, Open \/ Reopen
  PROVE  AuditInv' /\ DurableKept
<1>0. TypeOK /\ files' = FilesOpened /\ path' = PathOpened /\ fd' = PathOpened /\ up' = TRUE
      /\ writing = {} /\ writing' = {} /\ calls' = calls
      /\ rotations' = rotations /\ failures' = failures
  BY DEF AuditInv, Open, Reopen, bounds, TypeOK
<1>1. /\ files' \in Seq(File)
      /\ PathOpened \in 1..Len(files')
      /\ Len(files) \in Nat /\ Len(files') \in Nat /\ Len(files) <= Len(files')
      /\ \A i \in 1..Len(files) : files'[i] = files[i]
      /\ \A i \in 1..Len(files') : i \in 1..Len(files) \/ files'[i] = EmptyFile
      /\ path # 0 => files' = files /\ PathOpened = path
      /\ path = 0 => files'[PathOpened] = EmptyFile
  BY <1>0, OpenedFacts
<1>2. /\ EmptyFile.lines = <<>> /\ EmptyFile.synced = 0 /\ EmptyFile.frag = FALSE
      /\ Len(EmptyFile.lines) = 0
  BY DEF EmptyFile
<1>3. \A i \in 1..Len(files') : files'[i].synced <= Len(files'[i].lines)
  <2>1. ASSUME NEW i \in 1..Len(files')
        PROVE  files'[i].synced <= Len(files'[i].lines)
    <3>1. CASE i \in 1..Len(files)
      <4>1. files[i].synced <= Len(files[i].lines)
        BY <1>0, <3>1 DEF TypeOK
      <4>2. files'[i] = files[i]
        BY <1>1, <3>1
      <4> QED
        BY <4>1, <4>2, Zenon
    <3>2. CASE files'[i] = EmptyFile
      <4>1. EmptyFile.synced <= Len(EmptyFile.lines)
        BY <1>2
      <4> QED
        BY <4>1, <3>2, Zenon
    <3> QED
      BY <1>1, <2>1, <3>1, <3>2, Zenon
  <2> QED
    BY <2>1, Zenon
<1>4. prev_hash' \in Seq(Entries)
  <2>1. CASE Reopen
    BY <1>0, <2>1 DEF Reopen, TypeOK
  <2>2. CASE Open
    <3> DEFINE f == files'[fd']
    <3>1. f \in File /\ prev_hash' = LastEntryHash(f)
      BY <1>0, <1>1, <2>2 DEF Open
    <3> HIDE DEF f
    <3>2. CASE f.lines = <<>>
      BY <3>1, <3>2 DEF LastEntryHash, ZERO_HASH
    <3>3. CASE f.lines # <<>>
      <4>1. f.lines \in Seq(Line) /\ Len(f.lines) \in 1..Len(f.lines)
        BY <3>1, <3>3 DEF File
      <4>2. f.lines[Len(f.lines)] \in Line
        BY <4>1
      <4> QED
        BY <3>1, <3>3, <4>2 DEF LastEntryHash, HashOf, EntryHash, Line
    <3> QED
      BY <3>2, <3>3
  <2> QED
    BY <2>1, <2>2
<1>5. TypeOK'
  BY <1>0, <1>1, <1>3, <1>4 DEF TypeOK
<1>6. DurableKept
  <2>0. \A i \in 1..Len(files) : files[i] \in File
    BY <1>0 DEF TypeOK
  <2>1. \A i \in 1..Len(files) : files[i].synced \in Nat
    BY <2>0 DEF File
  <2> QED
    BY <1>1, <2>1 DEF DurableKept
<1>7. FdAtPath' /\ WritingLast' /\ AckedDurable'
  <2>1. AckedDurable'
    BY <1>0, <1>5, <1>6, AckedKept DEF AuditInv
  <2> QED
    BY <1>0, <2>1 DEF FdAtPath, WritingLast
<1>8. LinesWhole'
  <2> SUFFICES ASSUME NoShort PROVE LinesWhole'
    BY DEF LinesWhole
  <2>1. \A i \in 1..Len(files') : \A j \in 1..Len(files'[i].lines) : files'[i].lines[j].whole
    BY <1>1, <1>2 DEF AuditInv, LinesWhole
  <2>2. ~files'[fd'].frag
    <3>1. CASE Open
      BY <1>0, <3>1 DEF Open, Recovers
    <3>2. CASE Reopen /\ path = 0
      BY <1>0, <1>1, <1>2, <3>2
    <3>3. CASE Reopen /\ path # 0
      BY <1>0, <1>1, <3>3 DEF AuditInv, LinesWhole, FdAtPath, Reopen
    <3> QED
      BY <3>1, <3>2, <3>3
  <2> QED
    BY <2>1, <2>2 DEF LinesWhole
<1>9. FilesChained'
  BY <1>1, <1>2, SMTT(60) DEF AuditInv, FilesChained
<1>10. PrevHashCurrent'
  <2>1. CASE Open
    BY <1>0, <2>1 DEF Open, LastEntryHash, PrevHashCurrent
  <2>2. CASE Reopen /\ path = 0
    BY <1>0, <1>1, <1>2, <2>2 DEF PrevHashCurrent
  <2>3. CASE Reopen /\ path # 0
    BY <1>0, <1>1, <2>3 DEF AuditInv, FdAtPath, Reopen, PrevHashCurrent
  <2> QED
    BY <2>1, <2>2, <2>3
<1> QED
  BY <1>5, <1>6, <1>7, <1>8, <1>9, <1>10 DEF AuditInv

\* The line is appended to the open file, built on prev_hash.
LEMMA LogWriteStep ==
  ASSUME AuditInv, NEW e \in Entries, LogWrite(e)
  PROVE  AuditInv' /\ DurableKept
<1> DEFINE f == files[fd]
           n == Len(files[fd].lines)
           g == Written(files[fd], e)
<1>0. TypeOK /\ up /\ writing = {} /\ writing' = {e} /\ calls' = calls
      /\ path' = path /\ up' = up /\ fd' = fd /\ prev_hash' = prev_hash
      /\ rotations' = rotations /\ failures' = failures
  BY DEF AuditInv, LogWrite, bounds
<1>1. /\ fd \in 1..Len(files) /\ Len(files) \in Nat
      /\ \A i \in 1..Len(files) : files[i] \in File
      /\ prev_hash \in Seq(Entries)
  BY <1>0 DEF TypeOK
<1>2. /\ g \in File
      /\ n \in Nat /\ Len(g.lines) = n + 1
      /\ g.synced = f.synced /\ ~g.frag
      /\ g.lines[n + 1] = [entry |-> e, prev |-> prev_hash, whole |-> ~f.frag]
      /\ \A j \in 1..n : g.lines[j] = f.lines[j]
  BY <1>1, WrittenFacts
<1>3. files' = [files EXCEPT ![fd] = g]
  BY DEF LogWrite
<1>4. f \in File /\ f.synced \in Nat /\ f.synced <= n
  <2>1. f \in File
    BY <1>1
  <2> QED
    BY <1>0, <1>1, <2>1 DEF TypeOK, File
<1> HIDE DEF f, n, g
<1>5. /\ files' \in Seq(File) /\ Len(files') = Len(files)
      /\ files'[fd] = g
      /\ \A i \in 1..Len(files) : i # fd => files'[i] = files[i]
  BY <1>0, <1>1, <1>2, <1>3, SMTT(60) DEF TypeOK
<1>6. TypeOK'
  <2>1. \A i \in 1..Len(files') : files'[i].synced <= Len(files'[i].lines)
    <3> SUFFICES ASSUME NEW i \in 1..Len(files') PROVE files'[i].synced <= Len(files'[i].lines)
      OBVIOUS
    <3>1. CASE i = fd
      BY <3>1, <1>2, <1>4, <1>5
    <3>2. CASE i # fd
      BY <3>2, <1>0, <1>5 DEF TypeOK
    <3> QED
      BY <3>1, <3>2
  <2> QED
    BY <1>0, <1>1, <1>5, <2>1 DEF TypeOK
<1>7. DurableKept
  <2> SUFFICES ASSUME NEW i \in 1..Len(files)
               PROVE  /\ files[i].synced <= files'[i].synced
                      /\ \A j \in 1..files[i].synced : files'[i].lines[j] = files[i].lines[j]
    BY <1>1, <1>5 DEF DurableKept
  <2>1. CASE i = fd
    BY <2>1, <1>2, <1>4, <1>5 DEF f
  <2>2. CASE i # fd
    <3>1. files[i] \in File
      BY <1>1
    <3>2. files[i].synced \in Nat
      BY <3>1 DEF File
    <3> QED
      BY <2>2, <1>5, <3>2
  <2> QED
    BY <2>1, <2>2
<1>8. AckedDurable'
  BY <1>0, <1>6, <1>7, AckedKept DEF AuditInv
<1>9. FdAtPath' /\ PrevHashCurrent'
  <2>1. path \in 0..Len(files)
    BY <1>0 DEF TypeOK
  <2>2. FdAtPath'
    BY <1>0, <1>1, <1>5, <2>1 DEF AuditInv, FdAtPath
  <2> QED
    BY <1>0, <2>2 DEF PrevHashCurrent
<1>10. WritingLast'
  <2>1. g.lines \in Seq(Line)
    BY <1>2 DEF File
  <2>2. g.lines # <<>> /\ g.lines[Len(g.lines)].entry = e /\ g.lines[Len(g.lines)].prev = prev_hash
    BY <1>2, <2>1
  <2> QED
    BY <1>0, <1>5, <2>2 DEF WritingLast, LogWrite
<1>11. LinesWhole'
  <2> SUFFICES ASSUME NoShort PROVE LinesWhole'
    BY DEF LinesWhole
  <2>1. ~f.frag /\ \A j \in 1..n : f.lines[j].whole
    BY <1>0, <1>1 DEF AuditInv, LinesWhole, f, n
  <2>2. \A j \in 1..Len(g.lines) : g.lines[j].whole
    <3>0. (~f.frag) = TRUE
      BY <2>1
    <3>1. g.lines[n + 1] = [entry |-> e, prev |-> prev_hash, whole |-> TRUE]
      BY <1>2, <3>0, Zenon
    <3>2. g.lines[n + 1].whole
      BY <3>1, SMT
    <3>3. \A j \in 1..n + 1 : j \in 1..n \/ j = n + 1
      BY <1>2
    <3> QED
      BY <1>2, <2>1, <3>2, <3>3, Zenon
  <2>3. \A i \in 1..Len(files) : i # fd => \A j \in 1..Len(files'[i].lines) : files'[i].lines[j].whole
    BY <1>5 DEF AuditInv, LinesWhole
  <2> QED
    BY <1>0, <1>2, <1>5, <2>2, <2>3 DEF LinesWhole
<1>12. FilesChained'
  <2> SUFFICES ASSUME NoFaults PROVE FilesChained'
    BY DEF FilesChained, NoFaults, NoShort
  <2>1. \A j \in 2..n : f.lines[j].prev = HashOf(f.lines[j - 1])
    BY <1>1 DEF AuditInv, FilesChained, NoFaults, NoShort, f, n
  <2>2. n > 0 => prev_hash = HashOf(f.lines[n])
    <3>1. n > 0 => f.lines # <<>>
      BY DEF n, f
    <3> QED
      BY <1>0, <3>1 DEF AuditInv, PrevHashCurrent, f, n
  <2>3. \A j \in 2..Len(g.lines) : g.lines[j].prev = HashOf(g.lines[j - 1])
    <3> SUFFICES ASSUME NEW j \in 2..n + 1 PROVE g.lines[j].prev = HashOf(g.lines[j - 1])
      BY <1>2
    <3>1. CASE j \in 2..n
      <4>1. g.lines[j] = f.lines[j] /\ g.lines[j - 1] = f.lines[j - 1]
        BY <3>1, <1>2
      <4> QED
        BY <3>1, <4>1, <2>1
    <3>2. CASE j = n + 1
      <4>1. n > 0 /\ n \in 1..n /\ j - 1 = n
        BY <3>2, <1>2, SMTT(60)
      <4>2. g.lines[n] = f.lines[n]
        BY <4>1, <1>2
      <4> QED
        BY <3>2, <4>1, <4>2, <1>2, <2>2
    <3> QED
      BY <3>1, <3>2, <1>2
  <2> QED
    BY <1>5, <2>3 DEF AuditInv, FilesChained, NoFaults, NoShort
<1> QED
  BY <1>6, <1>7, <1>8, <1>9, <1>10, <1>11, <1>12 DEF AuditInv

\* A failed write leaves every line and prev_hash as they were.
LEMMA LogWriteFailsStep ==
  ASSUME AuditInv, NEW e \in Entries, LogWriteFails(e)
  PROVE  AuditInv' /\ DurableKept
<1>0. TypeOK /\ up /\ writing = {} /\ writing' = {} /\ calls' = [calls EXCEPT ![e] = "err"]
      /\ path' = path /\ up' = up /\ fd' = fd /\ prev_hash' = prev_hash
      /\ rotations' = rotations /\ failures' = failures
  BY DEF AuditInv, LogWriteFails, bounds, loggerVars
<1>1. /\ fd \in 1..Len(files) /\ Len(files) \in Nat
      /\ \A i \in 1..Len(files) : files[i] \in File
      /\ calls \in [Entries -> {"new", "ok", "err", "lost"}]
  BY <1>0 DEF TypeOK
<1>2. /\ files' \in Seq(File) /\ Len(files') = Len(files)
      /\ \A i \in 1..Len(files) : files'[i].lines = files[i].lines /\ files'[i].synced = files[i].synced
      /\ \A i \in 1..Len(files) : i # fd => files'[i] = files[i]
      /\ NoShort => files' = files
  <2>1. CASE UNCHANGED files
    BY <2>1, <1>0 DEF TypeOK
  <2>2. CASE "short" \in WriteFaults /\ files' = [files EXCEPT ![fd].frag = TRUE]
    <3> DEFINE g == [files[fd] EXCEPT !.frag = TRUE]
    <3>1. files[fd] \in File /\ files \in Seq(File)
      BY <1>0, <1>1 DEF TypeOK
    <3>2. g \in File /\ g.lines = files[fd].lines /\ g.synced = files[fd].synced
      BY <3>1 DEF File
    <3>3. files' = [files EXCEPT ![fd] = g]
      BY <2>2
    <3> HIDE DEF g
    <3>4. files' \in Seq(File) /\ Len(files') = Len(files) /\ files'[fd] = g
          /\ \A i \in 1..Len(files) : i # fd => files'[i] = files[i]
      BY <1>1, <3>1, <3>2, <3>3
    <3> QED
      BY <2>2, <3>2, <3>4 DEF NoShort
  <2> QED
    BY <2>1, <2>2 DEF LogWriteFails
<1>3. calls' \in [Entries -> {"new", "ok", "err", "lost"}]
      /\ \A d \in Entries : calls'[d] = "ok" => calls[d] = "ok"
  BY <1>0, <1>1
<1>4. TypeOK'
  BY <1>0, <1>2, <1>3 DEF TypeOK
<1>5. DurableKept
  <2>1. \A i \in 1..Len(files) : files[i].synced \in Nat
    BY <1>1 DEF File
  <2> QED
    BY <1>1, <1>2, <2>1 DEF DurableKept
<1>6. AckedDurable'
  BY <1>3, <1>4, <1>5, AckedKept DEF AuditInv
<1>7. FdAtPath' /\ WritingLast'
  <2>1. path \in 0..Len(files)
    BY <1>0 DEF TypeOK
  <2>2. FdAtPath'
    BY <1>0, <1>1, <1>2, <2>1 DEF AuditInv, FdAtPath
  <2> QED
    BY <1>0, <2>2 DEF WritingLast
<1>8. LinesWhole'
  BY <1>0, <1>2 DEF AuditInv, LinesWhole
<1>9. FilesChained'
  BY <1>2 DEF AuditInv, FilesChained
<1>10. PrevHashCurrent'
  BY <1>0, <1>1, <1>2 DEF AuditInv, PrevHashCurrent
<1> QED
  BY <1>4, <1>5, <1>6, <1>7, <1>8, <1>9, <1>10 DEF AuditInv

\* The line becomes durable before its call returns Ok.
LEMMA LogSyncStep ==
  ASSUME AuditInv, NEW e \in Entries, LogSync(e)
  PROVE  /\ AuditInv' /\ DurableKept
         /\ fd \in 1..Len(files') /\ DurablyIn(files'[fd], e)
<1> DEFINE n == Len(files[fd].lines)
           g == [files[fd] EXCEPT !.synced = n]
<1>0. TypeOK /\ up /\ e \in writing /\ writing' = {} /\ calls' = [calls EXCEPT ![e] = "ok"]
      /\ path' = path /\ up' = up /\ fd' = fd /\ prev_hash' = EntryHash(e, prev_hash)
      /\ rotations' = rotations /\ failures' = failures
      /\ files' = [files EXCEPT ![fd] = g]
  BY DEF AuditInv, LogSync, bounds
<1>1. /\ fd \in 1..Len(files) /\ Len(files) \in Nat
      /\ \A i \in 1..Len(files) : files[i] \in File
      /\ files \in Seq(File)
      /\ calls \in [Entries -> {"new", "ok", "err", "lost"}]
      /\ files[fd].synced <= n
  BY <1>0 DEF TypeOK
<1>2. n \in Nat /\ files[fd].synced \in Nat /\ g \in File /\ g.lines = files[fd].lines
      /\ g.frag = files[fd].frag /\ g.synced = n
  <2>1. files[fd] \in File
    BY <1>1
  <2> QED
    BY <2>1 DEF File
<1> HIDE DEF n, g
<1>3. /\ files' \in Seq(File) /\ Len(files') = Len(files) /\ files'[fd] = g
      /\ \A i \in 1..Len(files) : i # fd => files'[i] = files[i]
  BY <1>0, <1>1, <1>2
<1>4. \A i \in 1..Len(files) : files'[i].lines = files[i].lines /\ files'[i].frag = files[i].frag
  BY <1>2, <1>3
<1>5. calls' \in [Entries -> {"new", "ok", "err", "lost"}]
      /\ \A d \in Entries : d # e /\ calls'[d] = "ok" => calls[d] = "ok"
  BY <1>0, <1>1
<1>6. prev_hash' \in Seq(Entries)
  BY <1>0 DEF TypeOK, EntryHash
<1>7. TypeOK'
  <2>1. \A i \in 1..Len(files') : files'[i].synced <= Len(files'[i].lines)
    <3> SUFFICES ASSUME NEW i \in 1..Len(files') PROVE files'[i].synced <= Len(files'[i].lines)
      OBVIOUS
    <3>1. CASE i = fd
      BY <3>1, <1>2, <1>3 DEF n
    <3>2. CASE i # fd
      BY <3>2, <1>0, <1>3 DEF TypeOK
    <3> QED
      BY <3>1, <3>2
  <2> QED
    BY <1>0, <1>1, <1>3, <1>5, <1>6, <2>1 DEF TypeOK
<1>8. DurableKept
  <2>1. \A i \in 1..Len(files) : files[i].synced \in Nat
    BY <1>1 DEF File
  <2> QED
    BY <1>1, <1>2, <1>3, <1>4, <2>1 DEF DurableKept
<1>9. DurablyIn(files'[fd], e)
  <2>1. files[fd].lines # <<>> /\ files[fd].lines[n].entry = e /\ files[fd].lines \in Seq(Line)
    <3>1. files[fd] \in File
      BY <1>1
    <3> QED
      BY <1>0, <3>1 DEF AuditInv, WritingLast, n, File
  <2>2. n \in 1..n
    BY <1>2, <2>1 DEF n
  <2> QED
    BY <1>2, <1>3, <2>1, <2>2 DEF DurablyIn
<1>10. AckedDurable'
  <2> SUFFICES ASSUME NEW d \in Entries, calls'[d] = "ok"
               PROVE  \E i \in 1..Len(files') : DurablyIn(files'[i], d)
    BY DEF AckedDurable
  <2>1. CASE d = e
    BY <2>1, <1>1, <1>3, <1>9
  <2>2. CASE d # e
    <3>1. PICK i \in 1..Len(files) : DurablyIn(files[i], d)
      BY <2>2, <1>5 DEF AuditInv, AckedDurable
    <3> QED
      BY <3>1, <1>0, <1>7, <1>8, DurablyKept
  <2> QED
    BY <2>1, <2>2
<1>11. FdAtPath' /\ WritingLast'
  BY <1>0, SMTT(60) DEF AuditInv, FdAtPath, WritingLast
<1>12. LinesWhole' /\ FilesChained'
  BY <1>0, <1>1, <1>3, <1>4, SMTT(60) DEF AuditInv, LinesWhole, FilesChained
<1>13. PrevHashCurrent'
  <2>1. files[fd].lines[n].entry = e /\ files[fd].lines[n].prev = prev_hash
    BY <1>0 DEF AuditInv, WritingLast, n
  <2> QED
    BY <1>0, <1>1, <1>4, <2>1 DEF PrevHashCurrent, HashOf, n
<1> QED
  BY <1>1, <1>3, <1>7, <1>8, <1>9, <1>10, <1>11, <1>12, <1>13 DEF AuditInv

\* A failed sync acknowledges nothing.
LEMMA LogSyncFailsStep ==
  ASSUME AuditInv, NEW e \in Entries, LogSyncFails(e)
  PROVE  AuditInv' /\ DurableKept
<1>0. TypeOK /\ up /\ SyncFaults /\ writing' = {} /\ calls' = [calls EXCEPT ![e] = "err"]
      /\ files' = files /\ path' = path /\ up' = up /\ fd' = fd /\ prev_hash' = prev_hash
      /\ rotations' = rotations /\ failures' = failures
  BY DEF AuditInv, LogSyncFails, bounds
<1>1. calls' \in [Entries -> {"new", "ok", "err", "lost"}]
      /\ \A d \in Entries : calls'[d] = "ok" => calls[d] = "ok"
  BY <1>0 DEF TypeOK
<1>2. TypeOK'
  BY <1>0, <1>1 DEF TypeOK
<1>3. DurableKept
  <2>1. Len(files) \in Nat /\ \A i \in 1..Len(files) : files[i] \in File
    BY <1>0 DEF TypeOK
  <2>2. \A i \in 1..Len(files) : files[i].synced \in Nat
    BY <2>1 DEF File
  <2> QED
    BY <1>0, <2>1, <2>2 DEF DurableKept
<1>4. AckedDurable'
  BY <1>0, <1>1, <1>2, <1>3, AckedKept DEF AuditInv
<1>5. FdAtPath' /\ WritingLast' /\ PrevHashCurrent'
  BY <1>0 DEF AuditInv, FdAtPath, WritingLast, PrevHashCurrent, NoFaults
<1>6. LinesWhole' /\ FilesChained'
  BY <1>0 DEF AuditInv, LinesWhole, FilesChained
<1> QED
  BY <1>2, <1>3, <1>4, <1>5, <1>6 DEF AuditInv

\* logrotate's rename changes no file.
LEMMA RotateStep ==
  ASSUME AuditInv, Rotate
  PROVE  AuditInv' /\ DurableKept
<1>0. TypeOK /\ files' = files /\ path' = 0 /\ up' = up /\ fd' = fd /\ prev_hash' = prev_hash
      /\ writing' = writing /\ calls' = calls /\ failures' = failures
      /\ rotations < MaxRotations /\ rotations' = rotations + 1
  BY DEF AuditInv, Rotate, loggerVars
<1>1. Len(files) \in Nat /\ \A i \in 1..Len(files) : files[i] \in File
  BY <1>0 DEF TypeOK
<1>2. rotations' \in 0..MaxRotations
  BY <1>0, AuditLogAssumption DEF TypeOK
<1>3. TypeOK'
  BY <1>0, <1>1, <1>2 DEF TypeOK
<1>4. DurableKept
  <2>1. \A i \in 1..Len(files) : files[i].synced \in Nat
    BY <1>1 DEF File
  <2> QED
    BY <1>0, <1>1, <2>1 DEF DurableKept
<1>5. FdAtPath' /\ WritingLast' /\ PrevHashCurrent'
  BY <1>0 DEF AuditInv, FdAtPath, WritingLast, PrevHashCurrent
<1>6. AckedDurable' /\ LinesWhole' /\ FilesChained'
  BY <1>0 DEF AuditInv, AckedDurable, LinesWhole, FilesChained
<1> QED
  BY <1>3, <1>4, <1>5, <1>6 DEF AuditInv

\* logrotate's new log is empty, and the logger still writes to the old one.
LEMMA CreateStep ==
  ASSUME AuditInv, Create
  PROVE  AuditInv' /\ DurableKept
<1>0. TypeOK /\ files' = FilesOpened /\ path' = PathOpened /\ up' = up /\ fd' = fd
      /\ prev_hash' = prev_hash /\ writing' = writing /\ calls' = calls
      /\ failures' = failures /\ rotations' = rotations /\ path = 0
  BY DEF AuditInv, Create, loggerVars, bounds
<1>1. /\ files' \in Seq(File)
      /\ PathOpened \in 1..Len(files')
      /\ Len(files) \in Nat /\ Len(files') \in Nat /\ Len(files) <= Len(files')
      /\ \A i \in 1..Len(files) : files'[i] = files[i]
      /\ \A i \in 1..Len(files') : i \in 1..Len(files) \/ files'[i] = EmptyFile
      /\ files'[PathOpened] = EmptyFile
  BY <1>0, OpenedFacts
<1>2. /\ EmptyFile.lines = <<>> /\ EmptyFile.synced = 0 /\ EmptyFile.frag = FALSE
      /\ Len(EmptyFile.lines) = 0
  BY DEF EmptyFile
<1>3. \A i \in 1..Len(files') : files'[i].synced <= Len(files'[i].lines)
  BY <1>0, <1>1, <1>2, SMTT(60) DEF TypeOK
<1>4. TypeOK'
  BY <1>0, <1>1, <1>3 DEF TypeOK
<1>5. DurableKept
  <2>1. \A i \in 1..Len(files) : files[i] \in File
    BY <1>0 DEF TypeOK
  <2>2. \A i \in 1..Len(files) : files[i].synced \in Nat
    BY <2>1 DEF File
  <2> QED
    BY <1>1, <2>2 DEF DurableKept
<1>6. up => fd \in 1..Len(files) /\ files'[fd] = files[fd]
  BY <1>0, <1>1 DEF TypeOK
<1>7. FdAtPath' /\ WritingLast' /\ PrevHashCurrent'
  BY <1>0, <1>1, <1>2, <1>6 DEF AuditInv, FdAtPath, WritingLast, PrevHashCurrent
<1>8. AckedDurable'
  BY <1>0, <1>4, <1>5, AckedKept DEF AuditInv
<1>9. LinesWhole' /\ FilesChained'
  <2>1. LinesWhole'
    <3> SUFFICES ASSUME NoShort PROVE LinesWhole'
      BY DEF LinesWhole
    <3>1. \A i \in 1..Len(files') : \A j \in 1..Len(files'[i].lines) : files'[i].lines[j].whole
      BY <1>1, <1>2, SMTT(60) DEF AuditInv, LinesWhole
    <3>2. up => ~files'[fd].frag
      BY <1>6 DEF AuditInv, LinesWhole
    <3> QED
      BY <1>0, <3>1, <3>2 DEF LinesWhole
  <2>2. FilesChained'
    BY <1>1, <1>2, SMTT(60) DEF AuditInv, FilesChained
  <2> QED
    BY <2>1, <2>2
<1> QED
  BY <1>4, <1>5, <1>7, <1>8, <1>9 DEF AuditInv

\* A kill is the case of a power loss in which every file keeps all its lines.
LEMMA DiesStep ==
  ASSUME AuditInv, Kill \/ PowerLoss
  PROVE  AuditInv' /\ DurableKept
<1>0. TypeOK /\ path' = path /\ up' = FALSE /\ fd' = 0 /\ prev_hash' = <<>> /\ writing' = {}
      /\ calls' = [e \in Entries |-> IF e \in writing THEN "lost" ELSE calls[e]]
      /\ rotations' = rotations /\ failures < MaxFailures /\ failures' = failures + 1
  BY DEF AuditInv, Kill, PowerLoss, Dies, ZERO_HASH
<1>1. /\ Len(files) \in Nat
      /\ \A i \in 1..Len(files) : files[i] \in File /\ files[i].synced <= Len(files[i].lines)
  BY <1>0 DEF TypeOK
<1>2. \A i \in 1..Len(files) : files[i].synced \in Nat /\ Len(files[i].lines) \in Nat
  BY <1>1 DEF File
<1>3. /\ files' \in Seq(File) /\ Len(files') = Len(files)
      /\ \A i \in 1..Len(files) :
           /\ files[i].synced <= files'[i].synced
           /\ files'[i].synced <= Len(files'[i].lines)
           /\ Len(files'[i].lines) \in Nat
           /\ Len(files'[i].lines) <= Len(files[i].lines)
           /\ \A j \in 1..Len(files'[i].lines) : files'[i].lines[j] = files[i].lines[j]
  <2>1. CASE Kill
    BY <2>1, <1>0, <1>1, <1>2 DEF Kill, TypeOK
  <2>2. CASE PowerLoss
    <3>1. PICK g \in [1..Len(files) -> UNION {AfterPowerLoss(files[i]) : i \in 1..Len(files)}] :
              (\A i \in 1..Len(files) : g[i] \in AfterPowerLoss(files[i])) /\ files' = g
      BY <2>2 DEF PowerLoss
    <3>2. \A i \in 1..Len(files) :
              /\ g[i] \in File
              /\ g[i].synced = Len(g[i].lines)
              /\ files[i].synced <= g[i].synced /\ Len(g[i].lines) <= Len(files[i].lines)
              /\ \A j \in 1..Len(g[i].lines) : g[i].lines[j] = files[i].lines[j]
      BY <1>1, <3>1, PowerLossFacts
    <3>3. \A i \in 1..Len(files) : Len(g[i].lines) \in Nat
      BY <3>2 DEF File
    <3>4. g \in [1..Len(files) -> File]
      BY <3>1, <3>2
    <3>5. g \in Seq(File) /\ Len(g) = Len(files)
      BY <1>1, <3>4
    <3> QED
      BY <3>1, <3>2, <3>3, <3>5
  <2> QED
    BY <2>1, <2>2
<1>4. calls' \in [Entries -> {"new", "ok", "err", "lost"}]
      /\ \A d \in Entries : calls'[d] = "ok" => calls[d] = "ok"
  BY <1>0 DEF TypeOK
<1>5. TypeOK'
  <2>1. failures' \in 0..MaxFailures
    BY <1>0, AuditLogAssumption DEF TypeOK
  <2>2. path' \in 0..Len(files') /\ fd' \in 0..Len(files') /\ rotations' \in 0..MaxRotations
    BY <1>0, <1>1, <1>3 DEF TypeOK
  <2>3. prev_hash' \in Seq(Entries)
    BY <1>0
  <2>4. up' \in BOOLEAN /\ ~up' /\ writing' \subseteq Entries /\ writing' = {}
    BY <1>0
  <2>5. \A i \in 1..Len(files') : files'[i].synced <= Len(files'[i].lines)
    BY <1>3
  <2> QED
    BY <1>3, <1>4, <2>1, <2>2, <2>3, <2>4, <2>5 DEF TypeOK
<1>6. DurableKept
  <2> SUFFICES ASSUME NEW i \in 1..Len(files), NEW j \in 1..files[i].synced
               PROVE  files'[i].lines[j] = files[i].lines[j]
    BY <1>1, <1>3, SMTT(60) DEF DurableKept
  <2>1. files'[i] \in File
    BY <1>3
  <2>2. files'[i].synced \in Nat
    BY <2>1 DEF File
  <2>3. j \in 1..Len(files'[i].lines)
    BY <1>2, <1>3, <2>2
  <2> QED
    BY <1>3, <2>3
<1>7. AckedDurable'
  BY <1>0, <1>4, <1>5, <1>6, AckedKept DEF AuditInv
<1>8. FdAtPath' /\ WritingLast' /\ PrevHashCurrent'
  BY <1>0 DEF FdAtPath, WritingLast, PrevHashCurrent
<1>9. LinesWhole'
  <2> SUFFICES ASSUME NoShort, NEW i \in 1..Len(files), NEW j \in 1..Len(files'[i].lines)
               PROVE  files'[i].lines[j].whole
    BY <1>0, <1>3 DEF LinesWhole
  <2>1. j \in 1..Len(files[i].lines)
    BY <1>2, <1>3
  <2> QED
    BY <1>3, <2>1 DEF AuditInv, LinesWhole
<1>10. FilesChained'
  <2> SUFFICES ASSUME NoFaults, NEW i \in 1..Len(files), NEW j \in 2..Len(files'[i].lines)
               PROVE  files'[i].lines[j].prev = HashOf(files'[i].lines[j - 1])
    BY <1>3 DEF FilesChained, NoFaults, NoShort
  <2>1. j \in 2..Len(files[i].lines) /\ j \in 1..Len(files'[i].lines)
        /\ j - 1 \in 1..Len(files'[i].lines)
    BY <1>2, <1>3, SMTT(60)
  <2>2. files[i].lines[j].prev = HashOf(files[i].lines[j - 1])
    BY <2>1 DEF AuditInv, FilesChained, NoFaults, NoShort
  <2> QED
    BY <1>3, <2>1, <2>2
<1> QED
  BY <1>5, <1>6, <1>7, <1>8, <1>9, <1>10 DEF AuditInv

-----------------------------------------------------------------------------
(* The invariant and what follows from it *)

\* The invariant is inductive, and no step loses a durable line.
LEMMA NextAuditInv ==
  ASSUME AuditInv, [Next]_vars
  PROVE  AuditInv' /\ DurableKept
<1>1. CASE UNCHANGED vars
  <2>1. Len(files) \in Nat /\ \A i \in 1..Len(files) : files[i] \in File
    BY DEF AuditInv, TypeOK
  <2>2. \A i \in 1..Len(files) : files[i].synced \in Nat
    BY <2>1 DEF File
  <2>3. DurableKept
    BY <1>1, <2>1, <2>2 DEF DurableKept, vars
  <2>4. TypeOK' /\ FdAtPath' /\ WritingLast' /\ PrevHashCurrent'
    BY <1>1 DEF vars, loggerVars, bounds, AuditInv, TypeOK, FdAtPath, WritingLast, PrevHashCurrent
  <2>5. AckedDurable' /\ LinesWhole' /\ FilesChained'
    BY <1>1 DEF vars, loggerVars, AuditInv, AckedDurable, LinesWhole, FilesChained
  <2> QED
    BY <2>3, <2>4, <2>5 DEF AuditInv
<1>2. CASE Next
  BY <1>2, OpenStep, LogWriteStep, LogWriteFailsStep, LogSyncStep, LogSyncFailsStep,
     RotateStep, CreateStep, DiesStep DEF Next
<1> QED
  BY <1>1, <1>2

\* The invariant of the log, over all faults, rotations and failures.
LEMMA AuditInvariant == Spec => []AuditInv
BY InitAuditInv, NextAuditInv, PTL DEF Spec

\* The logger always has a file open while the daemon is up, and no file claims
\* more durable lines than it has.
THEOREM LogTypeCorrect == Spec => []TypeOK
<1>1. AuditInv => TypeOK
  BY DEF AuditInv
<1> QED
  BY <1>1, AuditInvariant, PTL

\* "No audit, no decision": a log call that returned Ok has a durable line,
\* whatever fails and however often the file is rotated or the machine stops.
THEOREM AcknowledgedIsDurable == Spec => []AckedDurable
<1>1. AuditInv => AckedDurable
  BY DEF AuditInv
<1> QED
  BY <1>1, AuditInvariant, PTL

\* ... and without short writes it is a line the verifier can parse.
THEOREM AcknowledgedIsWhole == Spec => []AckedWhole
<1>1. AuditInv => AckedWhole
  <2> SUFFICES ASSUME AuditInv, NoShort, NEW e \in Entries, calls[e] = "ok"
               PROVE  \E i \in 1..Len(files) : DurablyWholeIn(files[i], e)
    BY DEF AckedWhole, NoShort
  <2>1. PICK i \in 1..Len(files) : DurablyIn(files[i], e)
    BY DEF AuditInv, AckedDurable
  <2>2. files[i] \in File /\ files[i].synced <= Len(files[i].lines)
    BY DEF AuditInv, TypeOK
  <2>3. files[i].synced \in Nat /\ Len(files[i].lines) \in Nat
    BY <2>2 DEF File
  <2>4. \A j \in 1..files[i].synced : files[i].lines[j].whole
    BY <2>2, <2>3 DEF AuditInv, LinesWhole
  <2> QED
    BY <2>1, <2>4 DEF DurablyIn, DurablyWholeIn
<1> QED
  BY <1>1, AuditInvariant, PTL

\* Without short writes and failed syncs every file is a chain of hashes.
THEOREM FilesAreChains == Spec => []FilesChained
<1>1. AuditInv => FilesChained
  BY DEF AuditInv
<1> QED
  BY <1>1, AuditInvariant, PTL

\* Without short writes the log implements the abstract ledger: what is durable
\* stays, and a decision is returned only with its record in place.
THEOREM LogImplementsLedger ==
  ASSUME NoShort
  PROVE  Spec => LedgerSpec
<1> DEFINE R == {e \in Entries : \E i \in 1..Len(files) : DurablyWholeIn(files[i], e)}
           D == {e \in Entries : calls[e] = "ok"}
<1>1. Init => Ledger!Init
  BY DEF Init, Ledger!Init
<1>2. ASSUME AuditInv, [Next]_vars PROVE [Ledger!Next]_(Ledger!vars)
  <2>1. AuditInv' /\ DurableKept /\ TypeOK /\ TypeOK'
    BY <1>2, NextAuditInv DEF AuditInv
  <2>2. R \subseteq R' /\ R' \subseteq Entries
    BY <2>1, DurablyKept
  <2>3. R' = R \cup R' /\ R' \in SUBSET Entries
    BY <2>2
  <2>4. calls \in [Entries -> {"new", "ok", "err", "lost"}]
    BY <2>1 DEF TypeOK
  <2>5. ASSUME NEW e \in Entries, LogSync(e) PROVE Ledger!RecordAndReturn(R', e)
    <3>1. fd \in 1..Len(files') /\ DurablyIn(files'[fd], e)
      BY <1>2, <2>5, LogSyncStep
    <3>2. files'[fd] \in File /\ files'[fd].synced <= Len(files'[fd].lines)
      BY <2>1, <3>1, SMTT(60) DEF TypeOK
    <3>3. files'[fd].synced \in Nat /\ Len(files'[fd].lines) \in Nat
      BY <3>2 DEF File
    <3>4. \A j \in 1..files'[fd].synced : files'[fd].lines[j].whole
      BY <2>1, <3>1, <3>2, <3>3, SMTT(60) DEF AuditInv, LinesWhole
    <3>5. e \in R'
      BY <3>1, <3>4 DEF DurablyIn, DurablyWholeIn
    <3>6. D' = D \cup {e}
      BY <2>4, <2>5 DEF LogSync
    <3> HIDE DEF R, D
    <3>7. R' = R \cup R' /\ e \in R' /\ D' = D \cup {e}
      BY <2>3, <3>5, <3>6
    <3> QED
      BY <3>7 DEF Ledger!RecordAndReturn, R, D
  <2>6. CASE \A e \in Entries : ~LogSync(e)
    <3>1. \A e \in Entries : calls'[e] = "ok" <=> calls[e] = "ok"
      BY <1>2, <2>4, <2>6 DEF Next, Open, Reopen, LogWrite, LogWriteFails, LogSyncFails, Rotate, Create,
           Kill, PowerLoss, Dies, vars, AuditInv, WritingLast
    <3>2. D' = D
      BY <3>1
    <3>3. Ledger!Record(R')
      BY <2>3, <3>2 DEF Ledger!Record
    <3> QED
      BY <2>3, <3>3 DEF Ledger!Next
  <2> QED
    BY <2>3, <2>5, <2>6 DEF Ledger!Next
<1> QED
  BY <1>1, <1>2, AuditInvariant, PTL DEF Spec, LedgerSpec, Ledger!Spec
-----------------------------------------------------------------------------
(* A log that is never rotated *)

\* Until the first rename there is one file, the one at the path, and its chain
\* begins at ZERO_HASH: Open and Reopen find that file and no other, and an
\* empty one has prev_hash at its start.
OneChain ==
    (NoFaults /\ rotations = 0) =>
        /\ Len(files) <= 1 /\ path = Len(files)
        /\ \A i \in 1..Len(files) :
             files[i].lines # <<>> => files[i].lines[1].prev = ZERO_HASH
        /\ (up /\ files[fd].lines = <<>>) => prev_hash = ZERO_HASH

\* The step from one chain to the next: a rename ends the claim, and every other
\* step keeps the one file's first line, or writes it on ZERO_HASH.
LEMMA OneChainStep ==
  ASSUME AuditInv, OneChain, [Next]_vars
  PROVE  OneChain'
<1> SUFFICES ASSUME NoFaults, rotations' = 0 PROVE OneChain'
  BY DEF OneChain
<1>0. TypeOK /\ TypeOK' /\ rotations \in Nat
  <2>1. TypeOK /\ TypeOK'
    BY NextAuditInv DEF AuditInv
  <2> QED
    BY <2>1, AuditLogAssumption DEF TypeOK
<1>1. ~Rotate /\ rotations = 0
  <2>1. ~Rotate
    BY <1>0 DEF Rotate
  <2> QED
    BY <2>1 DEF Next, Open, Reopen, LogWrite, LogWriteFails, LogSync, LogSyncFails, Create,
         Kill, PowerLoss, Dies, vars, bounds
<1>2. /\ Len(files) \in Nat /\ Len(files) <= 1 /\ path = Len(files)
      /\ \A i \in 1..Len(files) : files[i].lines # <<>> => files[i].lines[1].prev = ZERO_HASH
      /\ (up /\ files[fd].lines = <<>>) => prev_hash = ZERO_HASH
  BY <1>0, <1>1 DEF OneChain, TypeOK
<1>3. \A i \in 1..Len(files) : files[i] \in File
  BY <1>0 DEF TypeOK
<1>4. CASE Open \/ Reopen
  <2>1. files' = FilesOpened /\ path' = PathOpened /\ fd' = PathOpened
    BY <1>4 DEF Open, Reopen
  <2>2. Open => prev_hash' = LastEntryHash(files'[fd'])
    BY <2>1 DEF Open
  <2>3. CASE path = 0
    <3>1. Len(files) = 0 /\ ~up /\ Open
      BY <1>0, <1>2, <1>4, <2>3 DEF TypeOK, Reopen
    <3>2. Len(files') = 1 /\ path' = 1 /\ files'[1] = EmptyFile
      BY <1>0, <2>1, <2>3, <3>1 DEF TypeOK, FilesOpened, PathOpened
    <3>3. files'[1].lines = <<>> /\ prev_hash' = ZERO_HASH
      BY <2>1, <2>2, <3>1, <3>2 DEF EmptyFile, LastEntryHash, PathOpened
    <3> QED
      BY <3>2, <3>3 DEF OneChain
  <2>4. CASE path # 0
    <3>1. files' = files /\ path' = path /\ fd' = path
      BY <2>1, <2>4 DEF FilesOpened, PathOpened
    <3>2. Reopen => up /\ fd' = fd /\ prev_hash' = prev_hash
      <4>1. Reopen => up /\ fd \in 1..Len(files)
        BY <1>0 DEF TypeOK, Reopen
      <4> QED
        BY <1>2, <3>1, <4>1 DEF Reopen
    <3>3. files'[fd'].lines = <<>> => prev_hash' = ZERO_HASH
      BY <1>2, <1>4, <2>2, <3>1, <3>2 DEF LastEntryHash
    <3> QED
      BY <1>2, <3>1, <3>3 DEF OneChain
  <2> QED
    BY <2>3, <2>4
<1>5. ASSUME NEW e \in Entries, LogWrite(e) PROVE OneChain'
  <2> DEFINE f == files[fd]
             g == Written(files[fd], e)
  <2>1. /\ fd \in 1..Len(files) /\ fd = 1 /\ Len(files) = 1 /\ f \in File
        /\ prev_hash \in Seq(Entries) /\ files \in Seq(File)
    BY <1>0, <1>2, <1>3, <1>5 DEF TypeOK, LogWrite
  <2>2. /\ g \in File /\ Len(f.lines) \in Nat /\ Len(g.lines) = Len(f.lines) + 1
        /\ g.lines[Len(f.lines) + 1] = [entry |-> e, prev |-> prev_hash, whole |-> ~f.frag]
        /\ \A j \in 1..Len(f.lines) : g.lines[j] = f.lines[j]
    BY <2>1, WrittenFacts
  <2>3. files' = [files EXCEPT ![fd] = g] /\ path' = path /\ up /\ fd' = fd
    BY <1>5 DEF LogWrite
  <2> HIDE DEF g
  <2>4. Len(files') = 1 /\ files'[1] = g
    BY <2>1, <2>2, <2>3
  <2>5. f.lines \in Seq(Line) /\ g.lines \in Seq(Line)
    BY <2>1, <2>2 DEF File
  <2>6. g.lines # <<>>
    BY <2>2, <2>5
  <2>7. g.lines[1].prev = ZERO_HASH
    <3>1. CASE f.lines = <<>>
      <4>1. Len(f.lines) + 1 = 1 /\ prev_hash = ZERO_HASH
        BY <1>2, <2>3, <3>1
      <4> QED
        BY <2>2, <4>1
    <3>2. CASE f.lines # <<>>
      <4>1. 1 \in 1..Len(f.lines)
        BY <2>2, <2>5, <3>2
      <4>2. f.lines[1].prev = ZERO_HASH
        BY <1>2, <2>1, <3>2
      <4> QED
        BY <2>2, <4>1, <4>2
    <3> QED
      BY <3>1, <3>2
  <2>8. \A i \in 1..Len(files') : files'[i].lines[1].prev = ZERO_HASH
    BY <2>4, <2>7
  <2>9. fd' = 1 /\ files'[fd'].lines # <<>> /\ path' = Len(files')
    BY <1>2, <2>1, <2>3, <2>4, <2>6
  <2> QED
    BY <2>4, <2>8, <2>9 DEF OneChain
<1>6. ASSUME NEW e \in Entries, LogWriteFails(e) PROVE OneChain'
  <2>1. files' = files /\ path' = path /\ up' = up /\ fd' = fd /\ prev_hash' = prev_hash
    BY <1>6 DEF LogWriteFails, NoFaults, NoShort, loggerVars
  <2> QED
    BY <1>2, <2>1 DEF OneChain
<1>7. ASSUME NEW e \in Entries, LogSync(e) PROVE OneChain'
  <2>1. /\ fd \in 1..Len(files) /\ files \in Seq(File) /\ files[fd] \in File
        /\ files' = [files EXCEPT ![fd].synced = Len(files[fd].lines)]
        /\ path' = path /\ fd' = fd
    BY <1>0, <1>3, <1>7 DEF TypeOK, LogSync
  <2>2. files[fd].lines # <<>>
    BY <1>7 DEF LogSync, AuditInv, WritingLast
  <2>3. Len(files') = Len(files) /\ \A i \in 1..Len(files) : files'[i].lines = files[i].lines
    BY <2>1 DEF File
  <2> QED
    BY <1>2, <2>1, <2>2, <2>3 DEF OneChain
<1>8. CASE Kill \/ PowerLoss
  <2>1. up' = FALSE /\ path' = path
    BY <1>8 DEF Kill, PowerLoss, Dies
  <2>2. Len(files') = Len(files)
        /\ \A i \in 1..Len(files) : files'[i].lines # <<>> => files[i].lines # <<>> /\ files'[i].lines[1] = files[i].lines[1]
    <3>1. CASE Kill
      BY <3>1 DEF Kill
    <3>2. CASE PowerLoss
      <4>1. PICK g \in [1..Len(files) -> UNION {AfterPowerLoss(files[i]) : i \in 1..Len(files)}] :
              (\A i \in 1..Len(files) : g[i] \in AfterPowerLoss(files[i])) /\ files' = g
        BY <3>2 DEF PowerLoss
      <4>2. Len(g) = Len(files)
        BY <1>0, <1>2, <4>1 DEF TypeOK
      <4>3. ASSUME NEW i \in 1..Len(files), g[i].lines # <<>>
            PROVE  files[i].lines # <<>> /\ g[i].lines[1] = files[i].lines[1]
        <5>1. files[i] \in File /\ files[i].synced <= Len(files[i].lines)
          BY <1>0, <1>3 DEF TypeOK
        <5>2. /\ g[i] \in File /\ Len(g[i].lines) <= Len(files[i].lines)
              /\ \A j \in 1..Len(g[i].lines) : g[i].lines[j] = files[i].lines[j]
          BY <4>1, <5>1, PowerLossFacts
        <5>3. g[i].lines \in Seq(Line) /\ files[i].lines \in Seq(Line)
          BY <5>1, <5>2 DEF File
        <5>4. 1 \in 1..Len(g[i].lines) /\ Len(files[i].lines) > 0
          BY <4>3, <5>2, <5>3
        <5> QED
          BY <5>2, <5>3, <5>4
      <4> QED
        BY <4>1, <4>2, <4>3
    <3> QED
      BY <1>8, <3>1, <3>2
  <2> QED
    BY <1>2, <2>1, <2>2 DEF OneChain
<1>9. ~Create
  <2>1. files \in Seq(File)
    BY <1>0 DEF TypeOK
  <2> QED
    BY <1>2, <2>1 DEF Create
<1>10. \A e \in Entries : ~LogSyncFails(e)
  BY DEF LogSyncFails, NoFaults
<1>11. CASE UNCHANGED vars
  BY <1>2, <1>11 DEF OneChain, vars, loggerVars
<1> QED
  BY <1>1, <1>4, <1>5, <1>6, <1>7, <1>8, <1>9, <1>10, <1>11 DEF Next

\* A log that was never rotated, after any number of kills, power losses and
\* failed writes, is accepted by the verifier unless it ends in a torn line.
THEOREM UnrotatedIsVerifiable == Spec => []UnrotatedVerifies
<1>1. Init => OneChain
  BY DEF Init, OneChain
<1>2. AuditInv /\ OneChain /\ [Next]_vars => OneChain'
  BY OneChainStep
<1>3. AuditInv /\ OneChain => UnrotatedVerifies
  <2> SUFFICES ASSUME AuditInv, OneChain, NoFaults, rotations = 0,
                      NEW i \in 1..Len(files), ~files[i].frag
               PROVE  VerifyReader(files[i])
    BY DEF UnrotatedVerifies, NoFaults, NoShort
  <2>1. files[i] \in File
    BY DEF AuditInv, TypeOK
  <2>2. files[i].lines \in Seq(Line)
    BY <2>1 DEF File
  <2> SUFFICES ASSUME NEW j \in 1..Len(files[i].lines)
               PROVE  /\ files[i].lines[j].whole
                      /\ files[i].lines[j].prev = IF j = 1 THEN ZERO_HASH ELSE HashOf(files[i].lines[j - 1])
    BY DEF VerifyReader
  <2>3. files[i].lines[j].whole
    BY DEF AuditInv, LinesWhole, NoFaults
  <2>4. CASE j = 1
    <3>1. files[i].lines # <<>>
      BY <2>2
    <3> QED
      BY <2>3, <2>4, <3>1 DEF OneChain
  <2>5. CASE j # 1
    <3>1. j \in 2..Len(files[i].lines)
      BY <2>2, <2>5
    <3> QED
      BY <2>3, <2>5, <3>1 DEF AuditInv, FilesChained, NoFaults, NoShort
  <2> QED
    BY <2>4, <2>5
<1> QED
  BY <1>1, <1>2, <1>3, AuditInvariant, PTL DEF Spec

-----------------------------------------------------------------------------
(* The price of a short write *)

\* The acknowledged decisions no reader can parse, and the calls that failed.
Unreadable == {e \in Entries : /\ calls[e] = "ok"
                               /\ \A i \in 1..Len(files) : ~DurablyWholeIn(files[i], e)}
Failed == {e \in Entries : calls[e] = "err"}

\* A failed call has left a fragment that has not yet cost an acknowledged line:
\* it ends the open file, or the line being written continues it.
Owed == up /\ (files[fd].frag \/ (writing # {} /\ ~files[fd].lines[Len(files[fd].lines)].whole))

\* Every unreadable line, and the fragment that may make one, has a failed call
\* of its own.
CostInv ==
    /\ writing # {} => ~files[fd].frag
    /\ IsFiniteSet(Unreadable) /\ IsFiniteSet(Failed)
    /\ Cardinality(Unreadable) + (IF Owed THEN 1 ELSE 0) <= Cardinality(Failed)

\* What a step that acknowledges nothing leaves readable stays readable.
LEMMA UnreadableKept ==
  ASSUME TypeOK, TypeOK', DurableKept,
         \A e \in Entries : calls'[e] = "ok" => calls[e] = "ok"
  PROVE  Unreadable' \subseteq Unreadable
BY DurablyKept DEF Unreadable

\* The bill of a step in which no call ends in error or is acknowledged.
LEMMA QuietCost ==
  ASSUME CostInv, Unreadable' \subseteq Unreadable, Failed' = Failed, Owed' => Owed,
         writing' # {} => ~files'[fd'].frag
  PROVE  CostInv'
<1>1. IsFiniteSet(Unreadable') /\ Cardinality(Unreadable') <= Cardinality(Unreadable)
  BY FS_Subset DEF CostInv
<1>2. Cardinality(Unreadable) \in Nat /\ Cardinality(Unreadable') \in Nat /\ Cardinality(Failed) \in Nat
  BY <1>1, FS_CardinalityType DEF CostInv
<1>3. IsFiniteSet(Failed')
  BY DEF CostInv
<1>4. Cardinality(Unreadable') + (IF Owed' THEN 1 ELSE 0) <= Cardinality(Failed')
  <2>1. Cardinality(Unreadable) + (IF Owed THEN 1 ELSE 0) <= Cardinality(Failed)
    BY DEF CostInv
  <2> QED
    BY <1>1, <1>2, <2>1
<1> QED
  BY <1>1, <1>3, <1>4 DEF CostInv

\* The bill of a step in which a call ends in error: one more failed call pays
\* for the fragment it may leave.
LEMMA FailureCost ==
  ASSUME CostInv, NEW e, e \notin Failed, Unreadable' \subseteq Unreadable,
         Failed' = Failed \cup {e}, writing' = {}
  PROVE  CostInv'
<1>1. IsFiniteSet(Unreadable') /\ Cardinality(Unreadable') <= Cardinality(Unreadable)
  BY FS_Subset DEF CostInv
<1>2. IsFiniteSet(Failed') /\ Cardinality(Failed') = Cardinality(Failed) + 1
  BY FS_AddElement DEF CostInv
<1>3. Cardinality(Unreadable) \in Nat /\ Cardinality(Unreadable') \in Nat /\ Cardinality(Failed) \in Nat
  BY <1>1, FS_CardinalityType DEF CostInv
<1>4. Cardinality(Unreadable') + (IF Owed' THEN 1 ELSE 0) <= Cardinality(Failed')
  <2>1. Cardinality(Unreadable) + (IF Owed THEN 1 ELSE 0) <= Cardinality(Failed)
    BY DEF CostInv
  <2> QED
    BY <1>1, <1>2, <1>3, <2>1
<1> QED
  BY <1>1, <1>2, <1>4 DEF CostInv

\* The bill of an acknowledged call: its line is unreadable only when it
\* continued a fragment, and then the fragment is gone.
LEMMA AckCost ==
  ASSUME CostInv, NEW e, Unreadable' \subseteq Unreadable \cup {e}, Failed' = Failed,
         e \in Unreadable' => Owed, ~Owed', writing' = {}
  PROVE  CostInv'
<1>1. IsFiniteSet(Unreadable) /\ IsFiniteSet(Failed) /\ IsFiniteSet(Unreadable \cup {e})
      /\ Cardinality(Unreadable) \in Nat /\ Cardinality(Failed) \in Nat
      /\ Cardinality(Unreadable \cup {e}) <= Cardinality(Unreadable) + 1
  <2>1. IsFiniteSet(Unreadable) /\ IsFiniteSet(Failed)
    BY DEF CostInv
  <2>2. Cardinality(Unreadable) \in Nat /\ Cardinality(Failed) \in Nat
    BY <2>1, FS_CardinalityType
  <2>3. /\ IsFiniteSet(Unreadable \cup {e})
        /\ Cardinality(Unreadable \cup {e}) =
             IF e \in Unreadable THEN Cardinality(Unreadable) ELSE Cardinality(Unreadable) + 1
    BY <2>1, FS_AddElement
  <2> QED
    BY <2>1, <2>2, <2>3
<1>2. Cardinality(Unreadable) + (IF Owed THEN 1 ELSE 0) <= Cardinality(Failed)
  BY DEF CostInv
<1>3. IsFiniteSet(Unreadable')
  BY <1>1, FS_Subset
<1>4. Cardinality(Unreadable') \in Nat
  BY <1>3, FS_CardinalityType
<1>5. Cardinality(Unreadable') <= Cardinality(Failed)
  <2>1. CASE e \in Unreadable'
    <3>1. Cardinality(Unreadable') <= Cardinality(Unreadable \cup {e})
      BY <1>1, FS_Subset
    <3>2. Cardinality(Unreadable \cup {e}) \in Nat
      BY <1>1, FS_CardinalityType
    <3> QED
      BY <1>1, <1>2, <1>4, <2>1, <3>1, <3>2
  <2>2. CASE e \notin Unreadable'
    <3>1. Unreadable' \subseteq Unreadable
      BY <2>2
    <3>2. Cardinality(Unreadable') <= Cardinality(Unreadable)
      BY <1>1, <3>1, FS_Subset
    <3> QED
      BY <1>1, <1>2, <1>4, <3>2
  <2> QED
    BY <2>1, <2>2
<1> QED
  BY <1>1, <1>3, <1>4, <1>5 DEF CostInv

\* Every step of the logger and of its environment keeps the bill paid.
LEMMA CostStep ==
  ASSUME AuditInv, CostInv, [Next]_vars
  PROVE  CostInv'
<1>0. TypeOK /\ TypeOK' /\ AuditInv' /\ DurableKept
  BY NextAuditInv DEF AuditInv
<1>1. /\ Len(files) \in Nat
      /\ \A i \in 1..Len(files) : files[i] \in File
      /\ up => fd \in 1..Len(files)
      /\ calls \in [Entries -> {"new", "ok", "err", "lost"}]
  BY <1>0 DEF TypeOK
<1>2. CASE Open \/ Reopen
  <2>1. /\ files' = FilesOpened /\ path' = PathOpened /\ fd' = PathOpened
        /\ writing = {} /\ writing' = {} /\ calls' = calls
    BY <1>0, <1>2 DEF Open, Reopen, TypeOK
  <2>2. Unreadable' \subseteq Unreadable /\ Failed' = Failed
    BY <1>0, <2>1, UnreadableKept DEF Failed
  <2>3. files'[fd'].frag => up /\ files[fd].frag
    <3>1. CASE Open
      BY <2>1, <3>1 DEF Open, Recovers
    <3>2. CASE Reopen /\ path = 0
      BY <1>0, <2>1, <3>2, OpenedFacts DEF EmptyFile
    <3>3. CASE Reopen /\ path # 0
      BY <1>0, <2>1, <3>3, OpenedFacts DEF AuditInv, FdAtPath, Reopen
    <3> QED
      BY <1>2, <3>1, <3>2, <3>3
  <2>4. Owed' => Owed
    BY <2>1, <2>3 DEF Owed
  <2> QED
    BY <2>1, <2>2, <2>4, QuietCost
<1>3. ASSUME NEW e \in Entries, LogWrite(e) PROVE CostInv'
  <2> DEFINE f == files[fd]
             g == Written(files[fd], e)
  <2>1. /\ up /\ fd \in 1..Len(files) /\ f \in File /\ prev_hash \in Seq(Entries)
        /\ files \in Seq(File) /\ files' = [files EXCEPT ![fd] = g]
        /\ fd' = fd /\ calls' = calls /\ writing' = {e}
    BY <1>0, <1>1, <1>3 DEF TypeOK, LogWrite
  <2>2. /\ g \in File /\ Len(f.lines) \in Nat /\ Len(g.lines) = Len(f.lines) + 1 /\ ~g.frag
        /\ g.lines[Len(f.lines) + 1] = [entry |-> e, prev |-> prev_hash, whole |-> ~f.frag]
    BY <2>1, WrittenFacts
  <2>3. Unreadable' \subseteq Unreadable /\ Failed' = Failed
    BY <1>0, <2>1, UnreadableKept DEF Failed
  <2>4. files'[fd'] = g
    BY <2>1
  <2> HIDE DEF g
  <2>5. g.lines[Len(g.lines)].whole = ~f.frag
    BY <2>2
  <2>6. f.frag => Owed
    BY <2>1 DEF Owed
  <2>7. Owed' => Owed
    BY <2>2, <2>4, <2>5, <2>6 DEF Owed
  <2> QED
    BY <2>2, <2>3, <2>4, <2>7, QuietCost
<1>4. ASSUME NEW e \in Entries, LogWriteFails(e) \/ LogSyncFails(e) PROVE CostInv'
  <2>1. calls' = [calls EXCEPT ![e] = "err"] /\ writing' = {}
    BY <1>4 DEF LogWriteFails, LogSyncFails, loggerVars
  <2>2. calls[e] = "new"
    BY <1>4 DEF LogWriteFails, LogSyncFails, AuditInv, WritingLast
  <2>3. Failed' = Failed \cup {e} /\ e \notin Failed
    BY <1>1, <2>1, <2>2 DEF Failed
  <2>4. \A d \in Entries : calls'[d] = "ok" => calls[d] = "ok"
    BY <1>1, <2>1
  <2>5. Unreadable' \subseteq Unreadable
    BY <1>0, <2>4, UnreadableKept
  <2> QED
    BY <2>1, <2>3, <2>5, FailureCost
<1>5. ASSUME NEW e \in Entries, LogSync(e) PROVE CostInv'
  <2> DEFINE n == Len(files[fd].lines)
             g == [files[fd] EXCEPT !.synced = n]
  <2>1. /\ up /\ fd \in 1..Len(files) /\ files[fd] \in File /\ files \in Seq(File)
        /\ files' = [files EXCEPT ![fd] = g] /\ e \in writing
        /\ fd' = fd /\ calls' = [calls EXCEPT ![e] = "ok"] /\ writing' = {}
    BY <1>0, <1>1, <1>5 DEF TypeOK, LogSync
  <2>2. /\ n \in Nat /\ files[fd].lines # <<>> /\ files[fd].lines \in Seq(Line)
        /\ files[fd].lines[n].entry = e /\ calls[e] = "new"
    BY <1>5, <2>1 DEF AuditInv, WritingLast, File
  <2>3. g.lines = files[fd].lines /\ g.frag = files[fd].frag /\ g.synced = n
    BY <2>1 DEF File
  <2> HIDE DEF g
  <2>4. files'[fd] = g /\ fd \in 1..Len(files')
    BY <2>1
  <2>5. Failed' = Failed
    BY <1>1, <2>1, <2>2 DEF Failed
  <2>6. Unreadable' \subseteq Unreadable \cup {e}
    <3> SUFFICES ASSUME NEW d \in Unreadable', d # e PROVE d \in Unreadable
      OBVIOUS
    <3>1. d \in Entries /\ calls'[d] = "ok" /\ \A i \in 1..Len(files') : ~DurablyWholeIn(files'[i], d)
      BY DEF Unreadable
    <3>2. calls[d] = "ok"
      BY <1>1, <2>1, <3>1
    <3>3. \A i \in 1..Len(files) : ~DurablyWholeIn(files[i], d)
      BY <1>0, <3>1, DurablyKept
    <3> QED
      BY <3>1, <3>2, <3>3 DEF Unreadable
  <2>7. e \in Unreadable' => Owed
    <3> SUFFICES ASSUME files[fd].lines[n].whole PROVE e \notin Unreadable'
      BY <2>1 DEF Owed
    <3>1. n \in 1..n
      BY <2>2
    <3>2. DurablyWholeIn(files'[fd], e)
      BY <2>2, <2>3, <2>4, <3>1 DEF DurablyWholeIn
    <3> QED
      BY <2>4, <3>2 DEF Unreadable
  <2>8. ~Owed'
    BY <2>1, <2>3, <2>4 DEF Owed, CostInv
  <2> QED
    BY <2>1, <2>5, <2>6, <2>7, <2>8, AckCost
<1>6. CASE Rotate \/ UNCHANGED vars
  <2>1. files' = files /\ fd' = fd /\ up' = up /\ writing' = writing /\ calls' = calls
    BY <1>6 DEF Rotate, vars, loggerVars
  <2>2. Unreadable' = Unreadable /\ Failed' = Failed /\ Owed' = Owed
    BY <2>1 DEF Unreadable, Failed, Owed
  <2> QED
    BY <2>1, <2>2, QuietCost DEF CostInv
<1>7. CASE Create
  <2>1. files' = FilesOpened /\ up' = up /\ fd' = fd /\ writing' = writing /\ calls' = calls
    BY <1>7 DEF Create, loggerVars
  <2>2. Unreadable' \subseteq Unreadable /\ Failed' = Failed
    BY <1>0, <2>1, UnreadableKept DEF Failed
  <2>3. up => files'[fd] = files[fd]
    BY <1>0, <1>1, <2>1, OpenedFacts
  <2>4. writing # {} => up
    BY <1>0 DEF TypeOK
  <2>5. Owed' => Owed
    BY <2>1, <2>3 DEF Owed
  <2> QED
    BY <2>1, <2>2, <2>3, <2>4, <2>5, QuietCost DEF CostInv
<1>8. CASE Kill \/ PowerLoss
  <2>1. up' = FALSE /\ writing' = {}
        /\ calls' = [e \in Entries |-> IF e \in writing THEN "lost" ELSE calls[e]]
    BY <1>8 DEF Kill, PowerLoss, Dies
  <2>2. \A e \in writing : calls[e] = "new"
    BY DEF AuditInv, WritingLast
  <2>3. Unreadable' \subseteq Unreadable
    BY <1>0, <2>1, UnreadableKept
  <2>4. Failed' = Failed
    BY <2>1, <2>2 DEF Failed
  <2> QED
    BY <2>1, <2>3, <2>4, QuietCost DEF Owed
<1> QED
  BY <1>2, <1>3, <1>4, <1>5, <1>6, <1>7, <1>8 DEF Next

\* Over every number of short writes, failed syncs, rotations, kills and power
\* losses, the acknowledged decisions no reader can parse are at most as many
\* as the log calls that failed.
THEOREM ShortWritesArePaidFor == Spec => []ShortWriteCostsOne
<1>1. Init => CostInv
  <2> SUFFICES ASSUME Init PROVE CostInv
    OBVIOUS
  <2>1. Unreadable = {} /\ Failed = {} /\ ~Owed /\ writing = {}
    BY DEF Init, Unreadable, Failed, Owed
  <2> QED
    BY <2>1, FS_EmptySet DEF CostInv
<1>2. AuditInv /\ CostInv /\ [Next]_vars => CostInv'
  BY CostStep
<1>3. CostInv => ShortWriteCostsOne
  <2> SUFFICES ASSUME CostInv PROVE Cardinality(Unreadable) <= Cardinality(Failed)
    BY DEF ShortWriteCostsOne, Unreadable, Failed
  <2>1. Cardinality(Unreadable) \in Nat /\ Cardinality(Failed) \in Nat
    BY FS_CardinalityType DEF CostInv
  <2> QED
    BY <2>1 DEF CostInv
<1> QED
  BY <1>1, <1>2, <1>3, AuditInvariant, PTL DEF Spec
=============================================================================
