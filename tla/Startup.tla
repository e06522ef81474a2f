------------------------------- MODULE Startup -------------------------------
(***************************************************************************)
(* The daemon from exec to its accept loop: configuration, trust files,    *)
(* listening socket, privileges, seccomp, systemd, signals (main.rs,       *)
(* config.rs, unix_socket.rs: run_server, reload_state, socket_setup.rs,   *)
(* privilege.rs, seccomp.rs, systemd.rs, the loaders of the trust files).  *)
(*                                                                         *)
(* Two processes may start at once, as when a daemon is run by hand while  *)
(* systemd starts another.  They share the files, the socket's path and    *)
(* its directory.  A process may be killed at any point and leaves its     *)
(* socket's path behind.  The operator may replace a file, logrotate the   *)
(* log.  Who starts it is root, systemd as the service user, or some user, *)
(* who in development runs it on files of their own.                       *)
(*                                                                         *)
(* One fault at a time, so that each check decides on its own: environment *)
(* and files are sound but for one flaw, or a process is killed.  A step   *)
(* that finds no flaw succeeds: failures of the machine (no memory, no     *)
(* descriptors) are left out.                                              *)
(*                                                                         *)
(* Abstractions: sizes are small numbers; the text of a trust file is a    *)
(* token, of an adapter file its name and methods; fchmod and fchown of a  *)
(* bound socket's descriptor reach the socket, not the node in the file    *)
(* system, as Linux has it.                                                *)
(***************************************************************************)
EXTENDS SecureFile, Sequences

CONSTANTS
    Procs,           \* numbers
    Adapters,        \* names of adapters, each with a file and a key
    MethodOf,        \* adapter -> its method
    MaxEdits,        \* bounds
    MaxHups,
    MaxKills,
    Systemd,         \* others that may hold the socket
    Foreign,
    None

VARIABLES
    env,      \* what the processes are started with; never changes
    files,    \* path -> file
    dir,      \* the socket's directory
    node,     \* what is at the socket's path
    proc,     \* process -> its state
    flaw,     \* the one deviation, if it has been made
    count     \* [edits, hups, kills], counters for the bounds

vars == <<env, files, dir, node, proc, flaw, count>>

Toml(a) == <<"adapters.d", a>>
Key(a) == <<"adapter-keys", a>>
AllowlistPath == <<"etc", "allowlist">>
PolicyPath == <<"etc", "policy.toml">>
AuditPath == <<"log", "audit.log">>
Paths == {Toml(a) : a \in Adapters} \cup {Key(a) : a \in Adapters} \cup {AllowlistPath, PolicyPath, AuditPath}

\* Size policies, in units of which a key has one.
KEY_BYTES == 1
MAX_ADAPTER_CONFIG_BYTES == 2
MAX_POLICY_BYTES == 2
MAX_ALLOWLIST_BYTES == 2
MAX_RESULT_AGE_SECS_UPPER_BOUND == 60

AdapterSpec == FileSpec(0, MAX_ADAPTER_CONFIG_BYTES, NotGroupWorldWritable)
KeySpec == FileSpec(KEY_BYTES, KEY_BYTES, {"0600"})
AllowlistSpec == FileSpec(0, MAX_ALLOWLIST_BYTES, {"0600", "0640"})
PolicySpec == FileSpec(0, MAX_POLICY_BYTES, {"0600", "0640"})

\* Text of an adapter file.
Adapter(name, method, timeout) == [name |-> name, methods |-> <<method>>, timeout_ms |-> timeout]

IsProd == env.run_mode = "prod"

\* secure_owner_policy: for root and in production the service user (who exists,
\* or Configure fails), otherwise the user who runs the daemon.
Account == IF env.by = "user" /\ ~IsProd THEN "user" ELSE "ola"
Owners == RootOr(Account)

-----------------------------------------------------------------------------
(* The system as it is installed (scripts/install_production.sh), and flaws *)

Sound(path) ==
    LET isToml == \E a \in Adapters : path = Toml(a)
        isKey == \E a \in Adapters : path = Key(a) IN
    [kind |-> "regular", size |-> 1, last |-> 1, group |-> Account,
     mode |-> IF isToml THEN "0644" ELSE IF isKey THEN "0600" ELSE "0640",
     owner |-> IF path = AuditPath \/ isKey THEN Account ELSE "root",
     text |-> IF isToml THEN Adapter(path[2], MethodOf[path[2]], 100) ELSE "v1"]

\* The ways a file may be wrong.  A "private" file, which only root can read, is
\* right in itself.
Flaws(path) ==
    LET f == Sound(path) IN
    {[f EXCEPT !.kind = k] : k \in {"none", "symlink", "fifo"}}
    \cup {[f EXCEPT !.last = 9], [f EXCEPT !.size = 9, !.last = 9], [f EXCEPT !.mode = "0666"],
          [f EXCEPT !.owner = "other"], [f EXCEPT !.mode = "0600", !.owner = "root"]}
    \cup {[f EXCEPT !.text = t] :
            t \in IF \E a \in Adapters : path = Toml(a)
                  THEN {None, Adapter(path[2], MethodOf[path[2]], 0)}
                       \cup {Adapter(a, MethodOf[path[2]], 100) : a \in Adapters}
                       \cup {Adapter(path[2], MethodOf[a], 100) : a \in Adapters}
                  ELSE {"garbage"}}

PathFlaws == UNION {{<<path, f>> : f \in Flaws(path)} : path \in Paths}

\* Environment variables; NaN is a value that is no number.
NaN == -1
SoundEnv == [run_mode |-> "prod", attest |-> TRUE, user |-> TRUE, by |-> "ola", activated |-> FALSE,
             drain |-> None, shutdown |-> None, idle |-> None, age |-> None]
EnvFlaws ==
    {[SoundEnv EXCEPT !.run_mode = "test"], [SoundEnv EXCEPT !.attest = FALSE],
     [SoundEnv EXCEPT !.user = FALSE], [SoundEnv EXCEPT !.idle = 0], [SoundEnv EXCEPT !.age = 61],
     [SoundEnv EXCEPT !.shutdown = NaN], [SoundEnv EXCEPT !.drain = 1, !.shutdown = NaN]}

-----------------------------------------------------------------------------
(* Processes *)

Idle == [pc |-> "idle", why |-> None, euid |-> None, gid |-> None, groups |-> {}, caps |-> {},
         no_new_privs |-> FALSE, filter |-> FALSE, config |-> None, adapters |-> {}, keys |-> {},
         allowlist |-> None, policy |-> None, log |-> None, listening |-> FALSE, ready |-> FALSE]

Alive(p) == proc[p].pc \notin {"idle", "exit"}
Who(p) == [euid |-> proc[p].euid, gid |-> proc[p].gid, groups |-> proc[p].groups \cup {proc[p].gid}]
IsRoot(p) == proc[p].euid = "root"
At(p, pc) == proc[p].pc = pc
Goto(p, pc) == proc' = [proc EXCEPT ![p].pc = pc]

\* run_server returns an error, or the process dies: its descriptors are closed.
Exit(p, why) == proc' = [proc EXCEPT ![p] = [Idle EXCEPT !.pc = "exit", !.why = why]]

Fail(p) == Exit(p, "error") /\ UNCHANGED <<env, files, dir, node, flaw, count>>

\* What a process of root's, of the unit's User= or of a user's has to begin with.
Started(by) ==
    [Idle EXCEPT !.pc = "config", !.euid = by, !.gid = by,
                 !.groups = IF by = "ola" THEN {} ELSE {by, "sudo"},
                 !.caps = IF by = "root" THEN {"permitted", "inheritable"}
                          ELSE IF by = "user" THEN {"inheritable"} ELSE {}]

\* With socket activation systemd starts one at a time.  Processes are numbered in
\* the order of their start.
Exec(p) ==
    /\ At(p, "idle") /\ \A q \in Procs : q < p => ~At(q, "idle")
    /\ env.activated => \A q \in Procs : ~Alive(q)
    /\ proc' = [proc EXCEPT ![p] = Started(env.by)]
    /\ UNCHANGED <<env, files, dir, node, flaw, count>>

-----------------------------------------------------------------------------
(* Configuration: Config::from_env, validate_attestation_mode, owner policy *)

ParseEnv(value, default) == IF value = None THEN default ELSE value
ParseEnvFallback(value, fallback, default) ==
    IF value = None THEN ParseEnv(fallback, default) ELSE value

FromEnv == [drain |-> ParseEnvFallback(env.drain, env.shutdown, 3),
            idle |-> ParseEnv(env.idle, 20), age |-> ParseEnv(env.age, 30)]

Configure(p) ==
    /\ At(p, "config")
    /\ IF \/ env.run_mode \notin {"prod", "dev"}
          \/ FromEnv.drain = NaN \/ FromEnv.idle \in {NaN, 0}
          \/ FromEnv.age \notin 0..MAX_RESULT_AGE_SECS_UPPER_BOUND
          \/ IsProd /\ ~env.attest
          \/ (IsRoot(p) \/ IsProd) /\ ~env.user
       THEN Fail(p)
       ELSE /\ proc' = [proc EXCEPT ![p].pc = "adapters", ![p].config = FromEnv]
            /\ UNCHANGED <<env, files, dir, node, flaw, count>>

-----------------------------------------------------------------------------
(* Trust files *)

\* validate_adapter_config.
TimeoutRange == 100..30000
ValidateAdapterConfig(cfg) ==
    cfg # None /\ cfg.methods # <<>> /\ cfg.timeout_ms \in TimeoutRange

ReadToml(p, a) == ReadSecure(files[Toml(a)], AdapterSpec, Owners, Who(p))

\* load_adapter_configs: the files of the directory that are trusted and valid.
Loaded(p) == {a \in Adapters : ReadToml(p, a) = "ok" /\ ValidateAdapterConfig(files[Toml(a)].text)}

\* AdapterRegistry::load_from_dir_with_owner: names and methods are unique.
Unambiguous(loaded) ==
    \A a, b \in loaded : a # b =>
        LET s == files[Toml(a)].text
            t == files[Toml(b)].text IN s.name # t.name /\ s.methods # t.methods

\* strict (production): a bad file, or none, ends the start; otherwise it is
\* skipped.
LoadAdapters(p) ==
    /\ At(p, "adapters")
    /\ IF \E a \in Adapters : ReadToml(p, a) = "blocks" THEN Goto(p, "blocked")
       ELSE IF \/ IsProd /\ (\E a \in Adapters \ Loaded(p) : files[Toml(a)].kind # "none")
               \/ IsProd /\ Loaded(p) = {}
               \/ ~Unambiguous(Loaded(p))
       THEN Exit(p, "error")
       ELSE proc' = [proc EXCEPT ![p].pc = "reloadable",
                                 ![p].adapters = {files[Toml(a)].text.name : a \in Loaded(p)}]
    /\ UNCHANGED <<env, files, dir, node, flaw, count>>

\* Mutant: whoever may write the allowlist.
LoadAllowlistAnyMode(p) ==
    LET r == ReadSecure(files[AllowlistPath], [AllowlistSpec EXCEPT !.modes = Modes], Owners, Who(p)) IN
    IF r = "ok" /\ IsProd /\ files[AllowlistPath].text = "garbage" THEN "fail" ELSE r

\* Allowlist::load_from_file_with_options: in production a line that is no uid is
\* an error, otherwise it is skipped.
LoadAllowlist(p) ==
    LET r == ReadSecure(files[AllowlistPath], AllowlistSpec, Owners, Who(p)) IN
    IF r = "ok" /\ IsProd /\ files[AllowlistPath].text = "garbage" THEN "fail" ELSE r

\* Mutant: a policy that does not parse is used as far as it goes.
LoadPolicyUnchecked(p) == ReadSecure(files[PolicyPath], PolicySpec, Owners, Who(p))

\* PolicyParser::load_with_owner.
LoadPolicy(p) ==
    LET r == ReadSecure(files[PolicyPath], PolicySpec, Owners, Who(p)) IN
    IF r = "ok" /\ files[PolicyPath].text = "garbage" THEN "fail" ELSE r

\* ReloadableState::load: outside production an allowlist that does not load is
\* an empty one.  (A process keeps what it made of a file; here, the file itself.)
EmptyAllowlist == [kind |-> "none", text |-> "empty"]

LoadReloadable(p) ==
    /\ At(p, "reloadable")
    /\ IF LoadAllowlist(p) = "blocks" THEN Goto(p, "blocked")
       ELSE IF IsProd /\ LoadAllowlist(p) = "fail" THEN Exit(p, "error")
       ELSE IF LoadPolicy(p) = "blocks" THEN Goto(p, "blocked")
       ELSE IF LoadPolicy(p) = "fail" THEN Exit(p, "error")
       ELSE proc' = [proc EXCEPT ![p].pc = "keys", ![p].policy = files[PolicyPath],
                                 ![p].allowlist = IF LoadAllowlist(p) = "ok" THEN files[AllowlistPath]
                                                  ELSE EmptyAllowlist]
    /\ UNCHANGED <<env, files, dir, node, flaw, count>>

\* AttestationVerifier: what is a file (is_file follows symlinks) must load; with
\* attestation every adapter must have a key.
LoadKeys(p) ==
    LET found == {a \in Adapters : files[Key(a)].kind \in {"regular", "symlink"}} IN
    /\ At(p, "keys")
    /\ IF \/ \E a \in found : ReadSecure(files[Key(a)], KeySpec, Owners, Who(p)) # "ok"
          \/ env.attest /\ ~(proc[p].adapters \subseteq found)
       THEN Exit(p, "error")
       ELSE proc' = [proc EXCEPT ![p].pc = "audit", ![p].keys = found]
    /\ UNCHANGED <<env, files, dir, node, flaw, count>>

\* AuditLogger::open: the last entry of the log must be whole.
OpenAudit(p) ==
    /\ At(p, "audit")
    /\ IF ~AppendOpens(files[AuditPath], Owners, Who(p)) THEN Fail(p)
       ELSE LET f == AfterAppendOpen(files[AuditPath], Who(p)) IN
            /\ files' = [files EXCEPT ![AuditPath] = f]
            /\ IF f.text = "garbage" THEN Exit(p, "error")
               ELSE proc' = [proc EXCEPT ![p].pc = IF env.activated THEN "groups" ELSE "parent",
                                         ![p].log = f.text]
            /\ UNCHANGED <<env, dir, node, flaw, count>>

-----------------------------------------------------------------------------
(* The listening socket, without socket activation *)

NoNode == [kind |-> "none", by |-> None, owner |-> None, mode |-> None]
Socket(by, owner) == [kind |-> "socket", by |-> by, owner |-> owner, mode |-> "0700"]

\* Somebody accepts connections on the path.
Live == node.kind = "socket" /\ (node.by = Foreign \/ (node.by \in Procs /\ proc[node.by].listening))

MayChange(p) == dir.kind \in {"dir", "symlink"} /\ proc[p].euid \in {"root", dir.owner}

\* prepare_socket_parent, set_socket_parent_owner: a symlink to a directory will do
\* for a user in development.
PrepareParent(p) ==
    LET d == IF dir.kind = "none" THEN [kind |-> "dir", owner |-> proc[p].euid] ELSE dir
        bad == \/ (IsProd \/ IsRoot(p)) /\ d.kind # "dir"
               \/ IsProd /\ proc[p].euid \notin {"root", d.owner} IN
    /\ At(p, "parent")
    /\ dir' = IF IsRoot(p) /\ ~bad THEN [d EXCEPT !.owner = "root"] ELSE d
    /\ IF bad THEN Exit(p, "error") ELSE Goto(p, "stat")
    /\ UNCHANGED <<env, files, node, flaw, count>>

\* remove_stale_socket: symlink_metadata ...
StatPath(p) ==
    /\ At(p, "stat")
    /\ IF dir.kind = "file" \/ node.kind \in {"symlink", "file"} THEN Exit(p, "error")
       ELSE Goto(p, IF node.kind = "none" THEN "bind" ELSE "probe")
    /\ UNCHANGED <<env, files, dir, node, flaw, count>>

\* ... connect: in use, not accessible, or stale (and every other error).
Probe(p) ==
    /\ At(p, "probe")
    /\ IF node.kind = "socket" /\ proc[p].euid \notin {"root", node.owner} THEN Exit(p, "error")
       ELSE IF Live THEN Exit(p, "taken")
       ELSE Goto(p, "unlink")
    /\ UNCHANGED <<env, files, dir, node, flaw, count>>

\* remove_file removes what is there now.  If another process was faster there
\* is nothing.
Unlink(p) ==
    /\ At(p, "unlink")
    /\ IF ~MayChange(p) THEN Exit(p, "error") /\ UNCHANGED node
       ELSE IF node.kind = "none" THEN Exit(p, "taken") /\ UNCHANGED node
       ELSE Goto(p, "bind") /\ node' = NoNode
    /\ UNCHANGED <<env, files, dir, flaw, count>>

\* Mutant: a start that finds the address taken cleans up after itself.
BindCleansUp(p) ==
    /\ At(p, "bind")
    /\ IF ~MayChange(p) THEN Exit(p, "error") /\ UNCHANGED node
       ELSE IF node.kind # "none" THEN Exit(p, "taken") /\ node' = NoNode
       ELSE Goto(p, "listen") /\ node' = Socket(p, proc[p].euid)
    /\ UNCHANGED <<env, files, dir, flaw, count>>

\* UnixListener::bind is bind, under the umask 0077, ...
Bind(p) ==
    /\ At(p, "bind")
    /\ IF ~MayChange(p) THEN Exit(p, "error") /\ UNCHANGED node
       ELSE IF node.kind # "none" THEN Exit(p, "taken") /\ UNCHANGED node
       ELSE Goto(p, "listen") /\ node' = Socket(p, proc[p].euid)
    /\ UNCHANGED <<env, files, dir, flaw, count>>

\* ... and listen.  set_socket_mode and set_socket_owner change the socket behind
\* the descriptor; the node at the path stays as it is.
Listen(p) ==
    /\ At(p, "listen")
    /\ proc' = [proc EXCEPT ![p].pc = "groups", ![p].listening = TRUE]
    /\ UNCHANGED <<env, files, dir, node, flaw, count>>

-----------------------------------------------------------------------------
(* drop_privileges_completely *)

Capable(p) == "permitted" \in proc[p].caps

\* Mutant: the uid before the gid.
DropOrderUidFirst == <<"groups", "uid", "gid", "regain", "caps", "nnp", "seccomp", "notify">>

DropOrder == <<"groups", "gid", "uid", "regain", "caps", "nnp", "seccomp", "notify">>

\* A step of the drop: an error if the kernel refuses it.
DropStep(p, pc, allowed, after) ==
    /\ At(p, pc)
    /\ IF allowed
       THEN \E i \in DOMAIN DropOrder :
              /\ DropOrder[i] = pc
              /\ proc' = [proc EXCEPT ![p] = [after EXCEPT !.pc = DropOrder[i + 1]]]
       ELSE Exit(p, "error")
    /\ UNCHANGED <<env, files, dir, node, flaw, count>>

\* Without root only no_new_privs and seccomp are left to do.
SkipDrop(p) ==
    /\ At(p, "groups") /\ ~IsRoot(p)
    /\ Goto(p, "nnp")
    /\ UNCHANGED <<env, files, dir, node, flaw, count>>

SetGroups(p) == IsRoot(p) /\ DropStep(p, "groups", Capable(p), [proc[p] EXCEPT !.groups = {}])

SetGid(p) == DropStep(p, "gid", Capable(p), [proc[p] EXCEPT !.gid = "ola"])

\* Leaving uid 0 for all three uids clears the permitted capabilities.
SetUid(p) ==
    DropStep(p, "uid", Capable(p), [proc[p] EXCEPT !.euid = "ola", !.caps = @ \ {"permitted"}])

\* setuid(0) must be refused.
Regain(p) == DropStep(p, "regain", ~IsRoot(p) /\ ~Capable(p), proc[p])

\* Mutant: what setuid has cleared is left at that.
ClearCapsNot(p) == DropStep(p, "caps", TRUE, proc[p])

ClearCaps(p) == DropStep(p, "caps", TRUE, [proc[p] EXCEPT !.caps = {}])

SetNoNewPrivs(p) == DropStep(p, "nnp", TRUE, [proc[p] EXCEPT !.no_new_privs = TRUE])

\* The kernel takes a filter from a process that cannot gain privileges.
ApplySeccomp(p) ==
    DropStep(p, "seccomp", proc[p].no_new_privs \/ Capable(p), [proc[p] EXCEPT !.filter = TRUE])

\* Mutant: fchmod is for the startup only.
AllowedNoFchmod == {"read", "write", "close", "openat", "fstat", "socket", "connect", "accept4", "sendto",
                    "getuid", "rt_sigaction", "fdatasync"}

\* The system calls of apply_seccomp's list that the steps below need.
Allowed == {"read", "write", "close", "openat", "fstat", "fchmod", "socket", "connect", "accept4", "sendto",
            "getuid", "rt_sigaction", "fdatasync"}

\* Anything else fails with EPERM.
May(p, calls) == proc[p].filter => calls \subseteq Allowed

-----------------------------------------------------------------------------
(* The accept loop *)

\* notify_ready and spawn_watchdog: a notification that fails is only logged.
Notify(p) ==
    /\ At(p, "notify")
    /\ proc' = [proc EXCEPT ![p].pc = "signals", ![p].ready = May(p, {"socket", "sendto", "close"})]
    /\ UNCHANGED <<env, files, dir, node, flaw, count>>

\* The handlers for SIGINT, SIGTERM and SIGHUP.
InstallHandlers(p) ==
    /\ At(p, "signals")
    /\ IF May(p, {"rt_sigaction"}) THEN Goto(p, "serving") ELSE Exit(p, "error")
    /\ UNCHANGED <<env, files, dir, node, flaw, count>>

Serving(p) == At(p, "serving")

\* A file is opened, checked and read within the filter.
Reread(p, result) == IF May(p, {"openat", "fstat", "getuid", "read", "close"}) THEN result ELSE "fail"

\* SIGHUP, reload_state: both files or neither, then the log is opened again
\* (without reading it).  Where there is no handler yet the signal kills.
Hangup(p) ==
    LET allowlist == Reread(p, LoadAllowlist(p))
        policy == Reread(p, LoadPolicy(p))
        fresh == allowlist = "ok" /\ policy = "ok"
        reopens == /\ May(p, {"openat", "fstat", "getuid", "fchmod", "close"})
                   /\ AppendOpens(files[AuditPath], Owners, Who(p))
        f == AfterAppendOpen(files[AuditPath], Who(p)) IN
    /\ Alive(p) /\ count.hups < MaxHups
    /\ count' = [count EXCEPT !.hups = @ + 1]
    /\ IF ~Serving(p) THEN Exit(p, "killed") /\ UNCHANGED files
       ELSE IF allowlist = "blocks" \/ (allowlist = "ok" /\ policy = "blocks")
       THEN Goto(p, "blocked") /\ UNCHANGED files
       ELSE /\ files' = IF reopens THEN [files EXCEPT ![AuditPath] = f] ELSE files
            /\ proc' = [proc EXCEPT ![p].allowlist = IF fresh THEN files[AllowlistPath] ELSE @,
                                    ![p].policy = IF fresh THEN files[PolicyPath] ELSE @,
                                    ![p].log = IF reopens THEN f.text ELSE @]
    /\ UNCHANGED <<env, dir, node, flaw>>

\* SIGTERM, SIGKILL, or a crash.
Kill(p) ==
    /\ Alive(p) /\ count.kills < MaxKills /\ flaw = "no"
    /\ Exit(p, "killed")
    /\ count' = [count EXCEPT !.kills = @ + 1]
    /\ UNCHANGED <<env, files, dir, node, flaw>>

\* The operator installs a new version of a file, when a daemon serves (before that
\* it is as if the files had been so from the start).
Edit(path) ==
    /\ count.edits < MaxEdits /\ \E p \in Procs : Serving(p)
    /\ \/ files' = [files EXCEPT ![path] = [Sound(path) EXCEPT !.text = "v2"]] /\ flaw' = flaw
       \/ /\ flaw = "no" /\ count.kills = 0 /\ flaw' = "yes"
          /\ \E f \in Flaws(path) : files' = [files EXCEPT ![path] = f]
    /\ files' # files
    /\ count' = [count EXCEPT !.edits = @ + 1]
    /\ UNCHANGED <<env, dir, node, proc>>

\* logrotate (dist/logrotate/ola), of the installed log: if it is there and not empty
\* it is moved away, then a new one is made, unless somebody has; SIGHUP comes last.
Rotate ==
    /\ count.edits < MaxEdits /\ Account = "ola" /\ \E p \in Procs : Serving(p)
    /\ files[AuditPath].kind = "regular" /\ files[AuditPath].text # "empty"
    /\ files' = [files EXCEPT ![AuditPath].kind = "none"]
    /\ count' = [count EXCEPT !.edits = @ + 1]
    /\ UNCHANGED <<env, dir, node, proc, flaw>>

Create ==
    /\ files[AuditPath].kind = "none" /\ \E p \in Procs : Serving(p)
    /\ files' = [files EXCEPT ![AuditPath] = [kind |-> "regular", size |-> 0, last |-> 0, mode |-> "0640",
                                             owner |-> "ola", group |-> "ola", text |-> "empty"]]
    /\ UNCHANGED <<env, dir, node, proc, flaw, count>>

-----------------------------------------------------------------------------

Environment(e, mode, by, act) ==
    [e EXCEPT !.run_mode = IF @ = "prod" THEN mode ELSE @, !.by = by, !.activated = act]

\* Where the system deviates: in the environment (a user other than the service's
\* in production included), a file, the directory or the path.  What a daemon that
\* was killed leaves behind is no deviation.
Deviations(e) ==
    {i \in 1..4 :
        \/ i = 1 /\ (e # SoundEnv \/ (env.by = "user" /\ IsProd))
        \/ i = 2 /\ files # [q \in Paths |-> Sound(q)]
        \/ i = 3 /\ ~env.activated
                  /\ dir \notin {[kind |-> "none", owner |-> None], [kind |-> "dir", owner |-> env.by]}
        \/ i = 4 /\ ~env.activated /\ node \notin {NoNode, Socket(None, env.by)}}

\* No flaw, or one, which counts as an edit.
Init ==
    /\ \E e \in EnvFlaws \cup {SoundEnv}, mode \in {"prod", "dev"}, by \in {"root", "ola", "user"}, act \in BOOLEAN :
         /\ env = Environment(e, mode, by, act)
         /\ act => by # "user"
         /\ files \in {[q \in Paths |-> Sound(q)]} \cup
                      {[[q \in Paths |-> Sound(q)] EXCEPT ![pf[1]] = pf[2]] : pf \in PathFlaws}
         /\ dir \in {[kind |-> "none", owner |-> None]} \cup
                    {[kind |-> k, owner |-> o] : k \in {"dir", "symlink", "file"}, o \in {"root", Account}}
         /\ node \in IF act THEN {[Socket(Systemd, "ola") EXCEPT !.mode = "0660"]}
                     ELSE {NoNode, Socket(None, "root"), Socket(None, Account), Socket(Foreign, "other"),
                           [NoNode EXCEPT !.kind = "symlink"], [NoNode EXCEPT !.kind = "file"]}
         /\ dir.kind = "none" => node = NoNode
         /\ act => dir = [kind |-> "dir", owner |-> "ola"]
         /\ Cardinality(Deviations(e)) <= 1
         /\ flaw = IF Deviations(e) = {} THEN "no" ELSE "yes"
         /\ count = [edits |-> Cardinality(Deviations(e)), hups |-> 0, kills |-> 0]
    /\ proc = [p \in Procs |-> Idle]

Step(p) ==
    \/ Configure(p) \/ LoadAdapters(p) \/ LoadReloadable(p) \/ LoadKeys(p) \/ OpenAudit(p)
    \/ PrepareParent(p) \/ StatPath(p) \/ Probe(p) \/ Unlink(p) \/ Bind(p) \/ Listen(p)
    \/ SkipDrop(p) \/ SetGroups(p) \/ SetGid(p) \/ SetUid(p) \/ Regain(p) \/ ClearCaps(p)
    \/ SetNoNewPrivs(p) \/ ApplySeccomp(p) \/ Notify(p) \/ InstallHandlers(p)

Next ==
    \/ \E p \in Procs : Exec(p) \/ Step(p) \/ Hangup(p) \/ Kill(p)
    \/ \E path \in {AllowlistPath, PolicyPath} : Edit(path)
    \/ Rotate \/ Create

\* The machine runs: while some process can go on with its start, one does.  (A
\* start has finitely many steps, so none is starved.)
FairSpec == Init /\ [][Next]_vars /\ WF_vars(\E p \in Procs : Step(p))

-----------------------------------------------------------------------------
(* Properties *)

\* The type invariant.
TypeOK ==
    /\ DOMAIN files = Paths
    /\ \A p \in Procs :
         /\ proc[p].pc \in {"idle", "config", "adapters", "reloadable", "keys", "audit", "parent", "stat", "probe",
                            "unlink", "bind", "listen", "signals", "serving", "blocked", "exit"}
                           \cup {DropOrder[i] : i \in DOMAIN DropOrder}
         /\ proc[p].why \in {None, "error", "taken", "killed"}
         /\ proc[p].adapters \subseteq Adapters /\ proc[p].keys \subseteq Adapters
         /\ proc[p].allowlist = None \/ proc[p].allowlist.text \in {"empty", "v1", "v2", "garbage"}
         /\ proc[p].policy = None \/ proc[p].policy.text \in {"v1", "v2"}
    /\ node.kind \in {"none", "socket", "symlink", "file"} /\ dir.kind \in {"none", "dir", "symlink", "file"}

\* A file that root or the daemon's user wrote, that others cannot write, of the
\* size its reader allows.
Trusted(file, spec) ==
    /\ file.kind = "regular" /\ file.owner \in {"root", Account} /\ file.mode \in spec.modes
    /\ {file.size, file.last} \subseteq spec.min..spec.max

\* A daemon that serves has every adapter that is configured, and nothing of a
\* file that was not to be trusted when it was read, at the start or by a reload:
\* outside production bad adapter files are passed over and a bad allowlist is an
\* empty one; in production one of them, attestation switched off, or an adapter
\* without a key keeps the daemon from serving.  A bad policy always does.  Limits
\* from the environment are in range.
FailsClosed ==
    \A p \in Procs : Serving(p) =>
        LET trusted == {a \in Adapters : Trusted(files[Toml(a)], AdapterSpec) /\ files[Toml(a)].text # None} IN
        /\ proc[p].adapters \subseteq {files[Toml(a)].text.name : a \in trusted}
        /\ \A a \in proc[p].keys : Trusted(files[Key(a)], KeySpec)
        /\ env.attest => proc[p].adapters \subseteq proc[p].keys
        /\ Trusted(proc[p].policy, PolicySpec) /\ proc[p].policy.text # "garbage"
        /\ Trusted(proc[p].allowlist, AllowlistSpec) \/ (~IsProd /\ proc[p].allowlist = EmptyAllowlist)
        /\ proc[p].config.idle > 0 /\ proc[p].config.age <= MAX_RESULT_AGE_SECS_UPPER_BOUND
        /\ IsProd =>
             /\ env.attest /\ proc[p].allowlist.text \in {"v1", "v2"}
             /\ proc[p].adapters # {}
             /\ \A a \in Adapters : files[Toml(a)].kind # "none" => files[Toml(a)].text.name \in proc[p].adapters

\* A daemon that serves is confined: started by root it has become the service's
\* user and has no privilege left, with a socket of its own or systemd's; in
\* production nobody else's daemon gets that far, since the keys are for the
\* service's user alone.  (What another user's has from the start, groups and
\* inheritable capabilities, drop_privileges_completely leaves to it.)
ServesConfined ==
    \A p \in Procs : proc[p].pc \in {"signals", "serving"} =>
        /\ proc[p].no_new_privs /\ proc[p].filter
        /\ env.by = "root" => proc[p].gid = "ola" /\ proc[p].groups = {} /\ proc[p].caps = {}
        /\ env.by = "root" \/ IsProd => proc[p].euid = "ola"

\* On a sound system every start ends in a daemon that serves and has told systemd
\* so, unless another process has the socket or the process is killed: no check
\* refuses what is installed, no privilege is dropped before its last use.  (There
\* are finitely many starts, so in the end this is so of all that were made.)
SoundStarts ==
    <>[](flaw = "no" => \A p \in Procs : \/ At(p, "idle")
                                         \/ Serving(p) /\ proc[p].ready
                                         \/ proc[p].why \in {"taken", "killed"})

\* On a sound system, however two starts interleave and whatever socket a killed
\* daemon has left, in the end somebody accepts connections on the path, for good
\* (unless a process is killed): a start that loses does not take the winner's
\* socket with it.
OneReachable ==
    <>[](flaw = "no" /\ ~env.activated /\ (\E p \in Procs : ~At(p, "idle"))
           => Live \/ \E p \in Procs : proc[p].why = "killed")

\* What the service, without privileges, can use: the condition under which the
\* operator may expect a reload to work.
ServiceReads(path, spec) ==
    /\ Trusted(files[path], spec) /\ files[path].text # "garbage"
    /\ files[path].owner = Account \/ files[path].mode # "0600"

\* A log that is not there, or that is the service's own as logrotate leaves it.
ServiceLogs ==
    \/ files[AuditPath].kind = "none"
    \/ files[AuditPath].kind = "regular" /\ files[AuditPath].owner = Account /\ files[AuditPath].mode = "0640"

\* SIGHUP is honoured although privileges are dropped and system calls filtered:
\* if the two files are trusted, well-formed and readable by the service, the
\* daemon has both new versions afterwards, otherwise it keeps both old ones; and
\* after a rotation it writes to the log at the path, whether logrotate has made
\* the new one or the daemon must.
HangupHonoured ==
    [][count'.hups # count.hups => \A p \in Procs : Serving(p) /\ Hangup(p) /\ proc'[p].pc # "blocked" =>
          LET old == <<proc[p].allowlist, proc[p].policy>>
              new == <<files[AllowlistPath], files[PolicyPath]>>
              now == <<proc'[p].allowlist, proc'[p].policy>> IN
          /\ now \in {old, new}
          /\ ServiceReads(AllowlistPath, AllowlistSpec) /\ ServiceReads(PolicyPath, PolicySpec) => now = new
          /\ ServiceLogs => /\ proc'[p].log = files'[AuditPath].text
                            /\ files'[AuditPath].kind = "regular" /\ files'[AuditPath].mode = "0640"]_vars

\* "fd targets the bound socket inode": the mode set_socket_mode asks for is the
\* mode of the socket clients connect to.
SocketModeSet ==
    \A p \in Procs : Serving(p) /\ node.by = p => node.mode = "0660"
=============================================================================
