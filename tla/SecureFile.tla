------------------------------ MODULE SecureFile ------------------------------
(***************************************************************************)
(* Reading and appending to files that must be trusted (security/fs.rs).   *)
(*                                                                         *)
(* A file is a record of what stat shows and what it says:                 *)
(*   kind   "none", "regular", "symlink" (to a regular file), "fifo"       *)
(*   size   at fstat; last is the size once it has been read               *)
(*   mode, owner, group, text                                              *)
(* A process is known here by its euid and its groups.  Opening follows    *)
(* the kernel's rules: O_NOFOLLOW refuses a symlink; a FIFO without a      *)
(* writer blocks the open, except with O_NONBLOCK, which only the append   *)
(* log uses.                                                               *)
(***************************************************************************)
EXTENDS Integers, FiniteSets

Modes == {"0600", "0640", "0644", "0666"}
GroupReadable == {"0640", "0644", "0666"}
WorldReadable == {"0644", "0666"}
GroupWorldWritable == {"0666"}

\* OwnerPolicy, as the set of owners it accepts (validate_owner).
RootOr(uid) == {"root", uid}

\* SecureFileSpec: the sizes and modes a loader accepts.
FileSpec(minSize, maxSize, modes) == [min |-> minSize, max |-> maxSize, modes |-> modes]
NotGroupWorldWritable == Modes \ GroupWorldWritable

MayRead(file, who) ==
    \/ who.euid = "root" \/ who.euid = file.owner
    \/ file.group \in who.groups /\ file.mode \in GroupReadable
    \/ file.mode \in WorldReadable

MayWrite(file, who) ==
    who.euid = "root" \/ who.euid = file.owner \/ file.mode \in GroupWorldWritable

\* open_secure_read.
OpenSecureRead(file, who) ==
    IF file.kind \in {"none", "symlink"} \/ ~MayRead(file, who) THEN "fail"
    ELSE IF file.kind = "fifo" THEN "blocks" ELSE "ok"

\* validate_open_file: what fstat shows of the open file.
ValidateOpenFile(file, spec, owners) ==
    /\ file.kind = "regular"
    /\ file.size \in spec.min..spec.max
    /\ file.mode \in spec.modes
    /\ file.owner \in owners

\* read_secure_to_string and read_secure_exact: opened, checked through the
\* descriptor, and refused if there was more, or less, to read than may be.
ReadSecure(file, spec, owners, who) ==
    IF OpenSecureRead(file, who) # "ok" THEN OpenSecureRead(file, who)
    ELSE IF ValidateOpenFile(file, spec, owners) /\ file.last \in spec.min..spec.max
    THEN "ok" ELSE "fail"

\* create_append_log, with the mode asked for less the umask 0077.
Created(who) == [kind |-> "regular", size |-> 0, last |-> 0, mode |-> "0600",
                 owner |-> who.euid, group |-> who.gid, text |-> "empty"]

\* open_secure_append: an existing file is opened, a missing one created; what
\* is open must be regular, rightly owned and, if it was there before, of mode
\* 0600 or 0640; then its mode is set.  (The directory belongs to the service.)
AppendOpens(file, owners, who) ==
    \/ file.kind = "none"
    \/ /\ file.kind = "regular" /\ MayWrite(file, who) /\ MayRead(file, who)
       /\ file.owner \in owners
       /\ file.mode \in {"0600", "0640"}
       /\ who.euid \in {"root", file.owner}

AfterAppendOpen(file, who) ==
    [(IF file.kind = "none" THEN Created(who) ELSE file) EXCEPT !.mode = "0640"]
=============================================================================
