------------------------------- MODULE AuditLog -------------------------------
(***************************************************************************)
(* The hash-chained audit log of ola-core: the logger                      *)
(* (infrastructure/audit/logger.rs), the offline verifier                  *)
(* (infrastructure/audit/verifier.rs), and what happens to them from       *)
(* outside: logrotate renames the file, the process is killed, the machine *)
(* loses power, writes and syncs fail.                                     *)
(*                                                                         *)
(* A log call holds the logger's mutex from reading prev_hash to setting   *)
(* it, so calls do not interleave; but the process can die between its     *)
(* write and its sync, which are therefore two steps.                      *)
(*                                                                         *)
(* Abstractions: a line is the entry it carries and the prev_hash it was   *)
(* given; SHA-256 is injective, so a hash is the sequence of entries it    *)
(* commits to.  A successful sync makes everything written to that file    *)
(* durable; renames and creations are durable at once.  The recovery       *)
(* window (1 MiB) holds at least one entry.                                *)
(***************************************************************************)
EXTENDS Naturals, Sequences, FiniteSets

CONSTANTS
    Entries,       \* one for each log call: the payload of its line
    WriteFaults,   \* how write_all may fail: "none" written, or a "short" write
    SyncFaults,    \* whether sync_data may fail
    MaxRotations,  \* bound: renames by logrotate
    MaxFailures    \* bound: kills and power losses together

ASSUME AuditLogAssumption ==
    /\ WriteFaults \subseteq {"none", "short"}
    /\ SyncFaults \in BOOLEAN
    /\ MaxRotations \in Nat
    /\ MaxFailures \in Nat

VARIABLES
    files,      \* every log file ever created, oldest first
    path,       \* index in files of the file at the log path; 0: there is none
    up,         \* the daemon runs with an open logger
    fd,         \* index of the file the logger has open
    prev_hash,  \* AuditState.prev_hash
    writing,    \* the entry written but not yet synced, as a set of at most one
    calls,      \* entry -> how its log call ended, if it did
    rotations,  \* bound counters
    failures

loggerVars == <<up, fd, prev_hash, writing>>
bounds == <<rotations, failures>>
vars == <<files, path, loggerVars, calls, bounds>>

-----------------------------------------------------------------------------
(* Lines and files *)

ZERO_HASH == <<>>

\* hex_sha256(hash_payload_v1()): commits to the payload and to prev_hash.
EntryHash(e, prev) == Append(prev, e)

\* whole is FALSE for a line glued to the fragment an earlier short write left.
Line == [entry : Entries, prev : Seq(Entries), whole : BOOLEAN]
HashOf(l) == EntryHash(l.entry, l.prev)

\* frag: bytes without a newline follow the last line.  synced: the number of
\* lines that are durable.
File == [lines : Seq(Line), frag : BOOLEAN, synced : Nat]
EmptyFile == [lines |-> <<>>, frag |-> FALSE, synced |-> 0]

\* The entry has a durable line in some file.
DurablyIn(f, e) == \E i \in 1..f.synced : f.lines[i].entry = e
DurablyWholeIn(f, e) == \E i \in 1..f.synced : f.lines[i].entry = e /\ f.lines[i].whole

\* verify_reader: every line complete and well formed, chained from ZERO_HASH.
VerifyReader(f) ==
    /\ ~f.frag
    /\ \A i \in 1..Len(f.lines) :
         /\ f.lines[i].whole
         /\ f.lines[i].prev = IF i = 1 THEN ZERO_HASH ELSE HashOf(f.lines[i - 1])

\* Mutant: a torn tail is skipped and the last complete line is used.
RecoversPastTornTail(f) == f.lines # <<>> => f.lines[Len(f.lines)].whole

\* Mutant: the final entry's prev_hash is carried forward, not its entry_hash.
LastPrevHash(f) == IF f.lines = <<>> THEN ZERO_HASH ELSE f.lines[Len(f.lines)].prev

\* last_entry_hash, last_complete_line, recover_entry_hash: an empty log starts
\* the chain; a torn tail or a malformed final line refuses startup.
Recovers(f) == ~f.frag /\ (f.lines # <<>> => f.lines[Len(f.lines)].whole)
LastEntryHash(f) == IF f.lines = <<>> THEN ZERO_HASH ELSE HashOf(f.lines[Len(f.lines)])

-----------------------------------------------------------------------------
(* Opening *)

\* open_secure_append: the file at the path, created if there is none.
FilesOpened == IF path = 0 THEN Append(files, EmptyFile) ELSE files
PathOpened == IF path = 0 THEN Len(files) + 1 ELSE path

Init ==
    /\ files = <<>> /\ path = 0
    /\ up = FALSE /\ fd = 0 /\ prev_hash = ZERO_HASH /\ writing = {}
    /\ calls = [e \in Entries |-> "new"]
    /\ rotations = 0 /\ failures = 0

\* AuditLogger::open at startup.  When recovery fails the daemon does not start,
\* so there is no step.
Open ==
    /\ ~up
    /\ Recovers(FilesOpened[PathOpened])
    /\ files' = FilesOpened /\ path' = PathOpened
    /\ up' = TRUE /\ fd' = PathOpened
    /\ prev_hash' = LastEntryHash(FilesOpened[PathOpened])
    /\ UNCHANGED <<writing, calls, bounds>>

\* Mutant: the log is opened for writing and truncated, not for appending.
ReopenTruncates ==
    /\ up /\ writing = {}
    /\ files' = [FilesOpened EXCEPT ![PathOpened] = EmptyFile]
    /\ path' = PathOpened
    /\ fd' = PathOpened
    /\ UNCHANGED <<up, prev_hash, writing, calls, bounds>>

\* AuditLogger::reopen on SIGHUP, under the mutex.  When open_secure_append
\* fails the old file stays open: no step.
Reopen ==
    /\ up /\ writing = {}
    /\ files' = FilesOpened /\ path' = PathOpened
    /\ fd' = PathOpened
    /\ UNCHANGED <<up, prev_hash, writing, calls, bounds>>

-----------------------------------------------------------------------------
(* AuditLogger::log *)

\* Appending to a file that ends in a fragment continues the fragment's line.
Written(f, e) ==
    [lines |-> Append(f.lines, [entry |-> e, prev |-> prev_hash, whole |-> ~f.frag]),
     frag |-> FALSE, synced |-> f.synced]

\* The mutex is taken, the line is built on prev_hash and write_all succeeds.
LogWrite(e) ==
    /\ up /\ writing = {} /\ calls[e] = "new"
    /\ files' = [files EXCEPT ![fd] = Written(@, e)]
    /\ writing' = {e}
    /\ UNCHANGED <<path, up, fd, prev_hash, calls, bounds>>

\* Mutant: prev_hash moves on before the write.
LogWriteFailsAfterAdvance(e) ==
    /\ up /\ writing = {} /\ calls[e] = "new"
    /\ prev_hash' = EntryHash(e, prev_hash)
    /\ calls' = [calls EXCEPT ![e] = "err"]
    /\ UNCHANGED <<files, path, up, fd, writing, bounds>>

\* write_all fails, having written nothing or a part of the line.
LogWriteFails(e) ==
    /\ up /\ writing = {} /\ calls[e] = "new"
    /\ \/ "none" \in WriteFaults /\ UNCHANGED files
       \/ "short" \in WriteFaults /\ files' = [files EXCEPT ![fd].frag = TRUE]
    /\ calls' = [calls EXCEPT ![e] = "err"]
    /\ UNCHANGED <<path, loggerVars, bounds>>

\* Mutant: flush in place of sync_data.
LogFlush(e) ==
    /\ up /\ e \in writing
    /\ prev_hash' = EntryHash(e, prev_hash)
    /\ writing' = {}
    /\ calls' = [calls EXCEPT ![e] = "ok"]
    /\ UNCHANGED <<files, path, up, fd, bounds>>

\* sync_data succeeds, prev_hash moves on and log returns Ok: from here on the
\* decision may reach the client.
LogSync(e) ==
    /\ up /\ e \in writing
    /\ files' = [files EXCEPT ![fd].synced = Len(files[fd].lines)]
    /\ prev_hash' = EntryHash(e, prev_hash)
    /\ writing' = {}
    /\ calls' = [calls EXCEPT ![e] = "ok"]
    /\ UNCHANGED <<path, up, fd, bounds>>

\* sync_data fails: log returns the error, the line is in the file all the same.
LogSyncFails(e) ==
    /\ up /\ e \in writing
    /\ SyncFaults
    /\ writing' = {}
    /\ calls' = [calls EXCEPT ![e] = "err"]
    /\ UNCHANGED <<files, path, up, fd, prev_hash, bounds>>

-----------------------------------------------------------------------------
(* The environment *)

\* logrotate renames a log that is not empty (notifempty).  It signals the
\* daemon afterwards, which goes on writing to the renamed file until Reopen.
Rotate ==
    /\ rotations < MaxRotations
    /\ path # 0
    /\ files[path].lines # <<>> \/ files[path].frag
    /\ path' = 0
    /\ rotations' = rotations + 1
    /\ UNCHANGED <<files, loggerVars, calls, failures>>

\* ... and creates an empty log in its place (create), unless the daemon was
\* faster.
Create ==
    /\ path = 0 /\ files # <<>>
    /\ files' = FilesOpened /\ path' = PathOpened
    /\ UNCHANGED <<loggerVars, calls, bounds>>

\* The logger and the call under way are gone.
Dies ==
    /\ up
    /\ failures < MaxFailures
    /\ failures' = failures + 1
    /\ up' = FALSE /\ fd' = 0 /\ prev_hash' = ZERO_HASH /\ writing' = {}
    /\ calls' = [e \in Entries |-> IF e \in writing THEN "lost" ELSE calls[e]]
    /\ UNCHANGED <<path, rotations>>

\* The process ends; the kernel still has what was written.
Kill == Dies /\ UNCHANGED files

\* What a power loss can leave of a file: all that was synced, any number of
\* the lines after it, and a piece of what came next.
AfterPowerLoss(f) ==
    {g \in [lines : {SubSeq(f.lines, 1, k) : k \in f.synced..Len(f.lines)},
            frag : BOOLEAN, synced : f.synced..Len(f.lines)] :
        /\ g.synced = Len(g.lines)
        /\ g.frag => f.frag \/ g.synced < Len(f.lines)}

PowerLoss ==
    /\ Dies
    /\ \E g \in [1..Len(files) -> UNION {AfterPowerLoss(files[i]) : i \in 1..Len(files)}] :
         /\ \A i \in 1..Len(files) : g[i] \in AfterPowerLoss(files[i])
         /\ files' = g

Next ==
    \/ Open \/ Reopen
    \/ \E e \in Entries : LogWrite(e) \/ LogWriteFails(e) \/ LogSync(e) \/ LogSyncFails(e)
    \/ Rotate \/ Create
    \/ Kill
    \/ PowerLoss

Spec == Init /\ [][Next]_vars

-----------------------------------------------------------------------------
(***************************************************************************)
(* Properties                                                              *)
(***************************************************************************)

\* The type invariant.
TypeOK ==
    /\ files \in Seq(File)
    /\ \A i \in 1..Len(files) : files[i].synced <= Len(files[i].lines)
    /\ path \in 0..Len(files)
    /\ up \in BOOLEAN
    /\ fd \in 0..Len(files) /\ (up => fd # 0)
    /\ prev_hash \in Seq(Entries)
    /\ writing \subseteq Entries /\ (~up => writing = {})
    /\ calls \in [Entries -> {"new", "ok", "err", "lost"}]
    /\ rotations \in 0..MaxRotations
    /\ failures \in 0..MaxFailures

\* Every decision whose log call returned Ok has a durable line in some file,
\* through rotation before the reopen, failed syncs, kills and power losses.
AckedDurable ==
    \A e \in Entries : calls[e] = "ok" =>
        \E i \in 1..Len(files) : DurablyIn(files[i], e)

\* ... and that line is one the verifier can parse: nothing is ever appended to
\* a torn tail, because Open refuses one.  It holds while write_all fails only
\* by writing nothing.
AckedWhole ==
    "short" \notin WriteFaults =>
        \A e \in Entries : calls[e] = "ok" =>
            \E i \in 1..Len(files) : DurablyWholeIn(files[i], e)

\* write_all may fail after a part of the line (logger.rs, log): the next line is
\* then appended to that part, and its call returns Ok although no reader can
\* parse it.  The damage stops there: over rotations, kills, power losses and the
\* recovery of Open, each failed call costs at most one acknowledged decision.
ShortWriteCostsOne ==
    Cardinality({e \in Entries : /\ calls[e] = "ok"
                                 /\ \A i \in 1..Len(files) : ~DurablyWholeIn(files[i], e)})
        <= Cardinality({e \in Entries : calls[e] = "err"})

\* While no sync and no short write fails, every file is a chain, over kills,
\* power losses, failed writes, rotations and reopens: each line's prev is the
\* hash of the line before it, so no two lines of a file share a predecessor.
FilesChained ==
    ("short" \notin WriteFaults /\ ~SyncFaults) =>
        \A i \in 1..Len(files) : \A j \in 2..Len(files[i].lines) :
            files[i].lines[j].prev = HashOf(files[i].lines[j - 1])

\* ... so the verifier accepts every file that begins a chain and has no torn
\* tail, which is what an operator who never rotates relies on.
UnrotatedVerifies ==
    ("short" \notin WriteFaults /\ ~SyncFaults /\ rotations = 0) =>
        \A i \in 1..Len(files) : files[i].frag \/ VerifyReader(files[i])

\* The log implements the abstract ledger while no short write happens: records
\* that are durable stay, and only recorded decisions are returned.
Ledger ==
    INSTANCE AuditLedger WITH
        recorded <- {e \in Entries : \E i \in 1..Len(files) : DurablyWholeIn(files[i], e)},
        returned <- {e \in Entries : calls[e] = "ok"}
LedgerSpec == Ledger!Spec

-----------------------------------------------------------------------------
(* What the documents say, and the code does not do. *)

\* PROTOCOL.md: "`prev_hash` is the previous line's `entry_hash`."
PrevIsPreviousLine ==
    \A i \in 1..Len(files) : \A j \in 2..Len(files[i].lines) :
        files[i].lines[j].prev = HashOf(files[i].lines[j - 1])
=============================================================================
