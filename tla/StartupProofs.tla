---------------------------- MODULE StartupProofs ----------------------------
(***************************************************************************)
(* Proofs about Startup, for any number of processes and adapters: what a  *)
(* serving daemon has given up, what it holds, and what SIGHUP changes.    *)
(***************************************************************************)
EXTENDS Startup, TLAPS

ProcFields == {"pc", "why", "euid", "gid", "groups", "caps", "no_new_privs", "filter", "config",
               "adapters", "keys", "allowlist", "policy", "log", "listening", "ready"}

\* Before drop_privileges_completely.
Starting == {"config", "adapters", "reloadable", "keys", "audit", "parent", "stat", "probe", "unlink",
             "bind", "listen", "groups"}

\* The service user, and nothing else.
Plain(k) == k.euid = "ola" /\ k.gid = "ola" /\ k.groups = {} /\ k.caps = {}

Dropped(k) ==
    /\ env.by = "root" => Plain(k)
    /\ env.by # "root" => k.euid = env.by /\ k.gid = env.by

\* What a process has given up, by how far its start has come: a process of root's
\* loses one thing at a time, another keeps what it was started with.
Stage(k) ==
    /\ DOMAIN k = ProcFields
    /\ k.pc \in Starting => k.euid = env.by /\ k.gid = env.by
    /\ k.pc \in {"gid", "uid", "regain", "caps"} => k.groups = {} /\ env.by = "root"
    /\ k.pc \in {"uid", "regain", "caps"} => k.gid = "ola"
    /\ k.pc \in {"regain", "caps"} => k.euid = "ola"
    /\ k.pc \in {"nnp", "seccomp", "notify", "signals", "serving"} => Dropped(k)
    /\ k.pc \in {"seccomp", "notify", "signals", "serving"} => k.no_new_privs
    /\ k.pc \in {"notify", "signals", "serving"} => k.filter

StageInv == DOMAIN proc = Procs /\ \A p \in Procs : Stage(proc[p])

\* A step of one process.
Becomes(p, k) == proc' = [proc EXCEPT ![p] = k]

\* A process changes the node only by removing it or binding its own socket, the
\* directory only in prepare_socket_parent, and the environment never.
LEMMA Frames ==
    ASSUME NEW p, Exec(p) \/ Step(p) \/ Hangup(p) \/ Kill(p)
    PROVE  /\ env' = env
           /\ PrepareParent(p) \/ dir' = dir
           /\ node' = node \/ node' = NoNode \/ \E by, owner : node' = Socket(by, owner)
<1>1. CASE Exec(p) \/ Kill(p) \/ Hangup(p)
  BY <1>1 DEF Exec, Kill, Hangup
<1>2. CASE Configure(p) \/ LoadAdapters(p) \/ LoadReloadable(p) \/ LoadKeys(p) \/ OpenAudit(p)
  BY <1>2 DEF Configure, LoadAdapters, LoadReloadable, LoadKeys, OpenAudit, Fail
<1>3. CASE PrepareParent(p) \/ StatPath(p) \/ Probe(p) \/ Listen(p)
  BY <1>3 DEF PrepareParent, StatPath, Probe, Listen
<1>4. CASE Unlink(p) \/ Bind(p)
  BY <1>4 DEF Unlink, Bind
<1>5. CASE \/ SkipDrop(p) \/ SetGroups(p) \/ SetGid(p) \/ SetUid(p) \/ Regain(p) \/ ClearCaps(p)
           \/ SetNoNewPrivs(p) \/ ApplySeccomp(p)
  BY <1>5, Zenon DEF SkipDrop, SetGroups, SetGid, SetUid, Regain, ClearCaps, SetNoNewPrivs, ApplySeccomp, DropStep
<1>6. CASE Notify(p) \/ InstallHandlers(p)
  BY <1>6 DEF Notify, InstallHandlers
<1> QED BY <1>1, <1>2, <1>3, <1>4, <1>5, <1>6 DEF Step

LEMMA OneMoves ==
    ASSUME StageInv, env' = env, NEW p \in Procs, NEW k, Becomes(p, k), Stage(k)
    PROVE  StageInv'
<1>1. DOMAIN proc' = Procs /\ proc'[p] = k /\ \A q \in Procs \ {p} : proc'[q] = proc[q]
  BY DEF StageInv, Becomes
<1> QED BY <1>1 DEF StageInv, Stage, Dropped

\* A process that has ended has no privileges to speak of.
LEMMA ExitKeeps ==
    ASSUME StageInv, env' = env, NEW p \in Procs, NEW why, Exit(p, why)
    PROVE  StageInv'
<1> DEFINE k == [Idle EXCEPT !.pc = "exit", !.why = why]
<1>1. Becomes(p, k)
  BY DEF Exit, Becomes
<1>2. DOMAIN k = ProcFields /\ k.pc = "exit"
  BY DEF Idle, ProcFields
<1> HIDE DEF k
<1>3. Stage(k)
  BY <1>2 DEF Stage, Starting
<1> QED BY <1>1, <1>3, OneMoves

\* Two states of a process with the same credentials.
SameCreds(k, j) ==
    /\ DOMAIN k = ProcFields /\ k.euid = j.euid /\ k.gid = j.gid /\ k.groups = j.groups /\ k.caps = j.caps

\* Before the drop credentials stay as they are.
LEMMA StartKeeps ==
    ASSUME StageInv, env' = env, NEW p \in Procs, proc[p].pc \in Starting,
           NEW k, Becomes(p, k), SameCreds(k, proc[p]), k.pc \in Starting \cup {"blocked"}
    PROVE  StageInv'
<1>1. Stage(proc[p])
  BY DEF StageInv
<1>2. Stage(k)
  BY <1>1 DEF Stage, Starting, SameCreds
<1> QED BY <1>2, OneMoves

LEMMA GotoKeeps ==
    ASSUME StageInv, env' = env, NEW p \in Procs, proc[p].pc \in Starting,
           NEW pc \in Starting \cup {"blocked"}, Goto(p, pc)
    PROVE  StageInv'
<1> DEFINE k == [proc[p] EXCEPT !.pc = pc]
<1>1. Becomes(p, k)
  BY DEF Goto, Becomes
<1>2. SameCreds(k, proc[p]) /\ k.pc = pc
  BY DEF StageInv, Stage, SameCreds, ProcFields
<1> HIDE DEF k
<1> QED BY <1>1, <1>2, StartKeeps

-----------------------------------------------------------------------------
(* Up to the listening socket *)

LEMMA ExecKeeps ==
    ASSUME StageInv, env' = env, NEW p \in Procs, Exec(p)
    PROVE  StageInv'
<1> DEFINE k == Started(env.by)
<1>1. Becomes(p, k)
  BY DEF Exec, Becomes
<1>2. DOMAIN k = ProcFields /\ k.pc = "config" /\ k.euid = env.by /\ k.gid = env.by
  BY DEF Started, Idle, ProcFields
<1> HIDE DEF k
<1>3. Stage(k)
  BY <1>2 DEF Stage
<1> QED BY <1>1, <1>3, OneMoves

\* Configuration and trust files.
LEMMA LoadKeeps ==
    ASSUME StageInv, env' = env, NEW p \in Procs,
           Configure(p) \/ LoadAdapters(p) \/ LoadReloadable(p) \/ LoadKeys(p) \/ OpenAudit(p)
    PROVE  StageInv'
<1>1. DOMAIN proc[p] = ProcFields
  BY DEF StageInv, Stage
<1>2. CASE Configure(p)
  <2> DEFINE k == [proc[p] EXCEPT !.pc = "adapters", !.config = FromEnv]
  <2>1. proc[p].pc \in Starting /\ (Exit(p, "error") \/ Becomes(p, k))
    BY <1>2 DEF Configure, Fail, Becomes, At, Starting
  <2>2. SameCreds(k, proc[p]) /\ k.pc = "adapters"
    BY <1>1 DEF SameCreds, ProcFields
  <2> HIDE DEF k
  <2> QED BY <2>1, <2>2, ExitKeeps, StartKeeps DEF Starting
<1>3. CASE LoadAdapters(p)
  <2> DEFINE names == {files[Toml(a)].text.name : a \in Loaded(p)}
             k == [proc[p] EXCEPT !.pc = "reloadable", !.adapters = names]
  <2>1. proc[p].pc \in Starting /\ (Exit(p, "error") \/ Goto(p, "blocked") \/ Becomes(p, k))
    BY <1>3 DEF LoadAdapters, Becomes, At, Starting
  <2> HIDE DEF names
  <2>2. SameCreds(k, proc[p]) /\ k.pc = "reloadable"
    BY <1>1 DEF SameCreds, ProcFields
  <2> HIDE DEF k
  <2> QED BY <2>1, <2>2, ExitKeeps, GotoKeeps, StartKeeps DEF Starting
<1>4. CASE LoadReloadable(p)
  <2> DEFINE allowlist == IF LoadAllowlist(p) = "ok" THEN files[AllowlistPath] ELSE EmptyAllowlist
             k == [proc[p] EXCEPT !.pc = "keys", !.policy = files[PolicyPath], !.allowlist = allowlist]
  <2>1. proc[p].pc \in Starting /\ (Exit(p, "error") \/ Goto(p, "blocked") \/ Becomes(p, k))
    BY <1>4 DEF LoadReloadable, Becomes, At, Starting
  <2> HIDE DEF allowlist
  <2>2. SameCreds(k, proc[p]) /\ k.pc = "keys"
    BY <1>1 DEF SameCreds, ProcFields
  <2> HIDE DEF k
  <2> QED BY <2>1, <2>2, ExitKeeps, GotoKeeps, StartKeeps DEF Starting
<1>5. CASE LoadKeys(p)
  <2> DEFINE found == {a \in Adapters : files[Key(a)].kind \in {"regular", "symlink"}}
             k == [proc[p] EXCEPT !.pc = "audit", !.keys = found]
  <2>1. proc[p].pc \in Starting /\ (Exit(p, "error") \/ Becomes(p, k))
    BY <1>5 DEF LoadKeys, Becomes, At, Starting
  <2> HIDE DEF found
  <2>2. SameCreds(k, proc[p]) /\ k.pc = "audit"
    BY <1>1 DEF SameCreds, ProcFields
  <2> HIDE DEF k
  <2> QED BY <2>1, <2>2, ExitKeeps, StartKeeps DEF Starting
<1>6. CASE OpenAudit(p)
  <2> DEFINE text == AfterAppendOpen(files[AuditPath], Who(p)).text
             next == IF env.activated THEN "groups" ELSE "parent"
             k == [proc[p] EXCEPT !.pc = next, !.log = text]
  <2>1. proc[p].pc \in Starting /\ (Exit(p, "error") \/ Becomes(p, k))
    BY <1>6 DEF OpenAudit, Fail, Becomes, At, Starting
  <2>2. next \in Starting
    BY DEF Starting
  <2> HIDE DEF text, next
  <2>3. SameCreds(k, proc[p]) /\ k.pc = next
    BY <1>1 DEF SameCreds, ProcFields
  <2> HIDE DEF k
  <2> QED BY <2>1, <2>2, <2>3, ExitKeeps, StartKeeps
<1> QED BY <1>2, <1>3, <1>4, <1>5, <1>6

\* setup_listener up to the drop.
LEMMA BindKeeps ==
    ASSUME StageInv, env' = env, NEW p \in Procs,
           PrepareParent(p) \/ StatPath(p) \/ Probe(p) \/ Unlink(p) \/ Bind(p) \/ Listen(p)
    PROVE  StageInv'
<1>1. CASE PrepareParent(p) \/ StatPath(p) \/ Probe(p) \/ Unlink(p) \/ Bind(p)
  <2>1. proc[p].pc \in Starting
    BY <1>1 DEF PrepareParent, StatPath, Probe, Unlink, Bind, At, Starting
  <2>2. (\E why \in {"error", "taken"} : Exit(p, why)) \/ (\E pc \in Starting : Goto(p, pc))
    <3>1. {"stat", "bind", "probe", "unlink", "listen"} \subseteq Starting
      BY DEF Starting
    <3>2. CASE PrepareParent(p)
      BY <3>1, <3>2 DEF PrepareParent
    <3>3. CASE StatPath(p)
      BY <3>1, <3>3 DEF StatPath
    <3>4. CASE Probe(p)
      BY <3>1, <3>4 DEF Probe
    <3>5. CASE Unlink(p) \/ Bind(p)
      BY <3>1, <3>5 DEF Unlink, Bind
    <3> QED BY <1>1, <3>2, <3>3, <3>4, <3>5
  <2> QED BY <2>1, <2>2, ExitKeeps, GotoKeeps
<1>2. CASE Listen(p)
  <2> DEFINE k == [proc[p] EXCEPT !.pc = "groups", !.listening = TRUE]
  <2>1. proc[p].pc \in Starting /\ Becomes(p, k)
    BY <1>2 DEF Listen, Becomes, At, Starting
  <2>2. SameCreds(k, proc[p]) /\ k.pc = "groups"
    BY DEF StageInv, Stage, SameCreds, ProcFields
  <2> HIDE DEF k
  <2> QED BY <2>1, <2>2, StartKeeps DEF Starting
<1> QED BY <1>1, <1>2
-----------------------------------------------------------------------------
(* drop_privileges_completely *)

\* What comes after a step of the drop.
LEMMA NextDrop ==
    ASSUME NEW i \in DOMAIN DropOrder
    PROVE  /\ DropOrder[i] = "groups" => DropOrder[i + 1] = "gid"
           /\ DropOrder[i] = "gid" => DropOrder[i + 1] = "uid"
           /\ DropOrder[i] = "uid" => DropOrder[i + 1] = "regain"
           /\ DropOrder[i] = "regain" => DropOrder[i + 1] = "caps"
           /\ DropOrder[i] = "caps" => DropOrder[i + 1] = "nnp"
           /\ DropOrder[i] = "nnp" => DropOrder[i + 1] = "seccomp"
           /\ DropOrder[i] = "seccomp" => DropOrder[i + 1] = "notify"
<1>1. i \in 1..8
  BY DEF DropOrder
<1>2. i = 1 \/ i = 2 \/ i = 3 \/ i = 4 \/ i = 5 \/ i = 6 \/ i = 7 \/ i = 8
  BY <1>1
<1> QED BY <1>2 DEF DropOrder

\* A step of the drop is taken or ends the start.
LEMMA DropKeeps ==
    ASSUME StageInv, env' = env, NEW p \in Procs, NEW pc, NEW allowed, NEW after, DropStep(p, pc, allowed, after),
           \A i \in DOMAIN DropOrder :
               allowed /\ DropOrder[i] = pc => Stage([after EXCEPT !.pc = DropOrder[i + 1]])
    PROVE  StageInv'
<1>1. CASE allowed
  <2>1. PICK i \in DOMAIN DropOrder :
          DropOrder[i] = pc /\ proc' = [proc EXCEPT ![p] = [after EXCEPT !.pc = DropOrder[i + 1]]]
    BY <1>1 DEF DropStep
  <2> DEFINE k == [after EXCEPT !.pc = DropOrder[i + 1]]
  <2>2. Becomes(p, k) /\ Stage(k)
    BY <1>1, <2>1 DEF Becomes
  <2> HIDE DEF k
  <2> QED BY <2>2, OneMoves
<1>2. CASE ~allowed
  BY <1>2, ExitKeeps DEF DropStep
<1> QED BY <1>1, <1>2

\* Groups, gid, uid: each is given up by root.
LEMMA SetIdsKeep ==
    ASSUME StageInv, env' = env, NEW p \in Procs, SetGroups(p) \/ SetGid(p) \/ SetUid(p)
    PROVE  StageInv'
<1>1. Stage(proc[p]) /\ DOMAIN proc[p] = ProcFields
  BY DEF StageInv, Stage
<1>2. CASE SetGroups(p)
  <2> DEFINE after == [proc[p] EXCEPT !.groups = {}]
  <2>1. DropStep(p, "groups", Capable(p), after) /\ proc[p].pc = "groups" /\ proc[p].euid = "root"
    BY <1>2 DEF SetGroups, DropStep, At, IsRoot
  <2>2. DOMAIN after = ProcFields /\ after.groups = {} /\ env.by = "root"
    BY <1>1, <2>1 DEF ProcFields, Stage, Starting
  <2> HIDE DEF after
  <2>3. Stage([after EXCEPT !.pc = "gid"])
    BY <2>2 DEF Stage, ProcFields, Starting
  <2>4. \A i \in DOMAIN DropOrder : DropOrder[i] = "groups" => Stage([after EXCEPT !.pc = DropOrder[i + 1]])
    BY <2>3, NextDrop
  <2> QED BY <2>1, <2>4, DropKeeps
<1>3. CASE SetGid(p)
  <2> DEFINE after == [proc[p] EXCEPT !.gid = "ola"]
  <2>1. DropStep(p, "gid", Capable(p), after) /\ proc[p].pc = "gid"
    BY <1>3 DEF SetGid, DropStep, At
  <2>2. DOMAIN after = ProcFields /\ after.groups = {} /\ after.gid = "ola" /\ env.by = "root"
    BY <1>1, <2>1 DEF ProcFields, Stage
  <2> HIDE DEF after
  <2>3. Stage([after EXCEPT !.pc = "uid"])
    BY <2>2 DEF Stage, ProcFields, Starting
  <2>4. \A i \in DOMAIN DropOrder : DropOrder[i] = "gid" => Stage([after EXCEPT !.pc = DropOrder[i + 1]])
    BY <2>3, NextDrop
  <2> QED BY <2>1, <2>4, DropKeeps
<1>4. CASE SetUid(p)
  <2> DEFINE after == [proc[p] EXCEPT !.euid = "ola", !.caps = proc[p].caps \ {"permitted"}]
  <2>1. DropStep(p, "uid", Capable(p), after) /\ proc[p].pc = "uid"
    BY <1>4 DEF SetUid, DropStep, At
  <2>2. DOMAIN after = ProcFields /\ after.groups = {} /\ after.gid = "ola" /\ after.euid = "ola" /\ env.by = "root"
    BY <1>1, <2>1 DEF ProcFields, Stage
  <2> HIDE DEF after
  <2>3. Stage([after EXCEPT !.pc = "regain"])
    BY <2>2 DEF Stage, ProcFields, Starting
  <2>4. \A i \in DOMAIN DropOrder : DropOrder[i] = "uid" => Stage([after EXCEPT !.pc = DropOrder[i + 1]])
    BY <2>3, NextDrop
  <2> QED BY <2>1, <2>4, DropKeeps
<1> QED BY <1>2, <1>3, <1>4

\* The check that the uid cannot be regained, and the capabilities.
LEMMA ClearCapsKeeps ==
    ASSUME StageInv, env' = env, NEW p \in Procs, Regain(p) \/ ClearCaps(p)
    PROVE  StageInv'
<1>1. Stage(proc[p]) /\ DOMAIN proc[p] = ProcFields
  BY DEF StageInv, Stage
<1>2. CASE Regain(p)
  <2>1. DropStep(p, "regain", ~IsRoot(p) /\ ~Capable(p), proc[p]) /\ proc[p].pc = "regain"
    BY <1>2 DEF Regain, DropStep, At
  <2>2. proc[p].groups = {} /\ proc[p].gid = "ola" /\ proc[p].euid = "ola" /\ env.by = "root"
    BY <1>1, <2>1 DEF Stage
  <2>3. Stage([proc[p] EXCEPT !.pc = "caps"])
    BY <1>1, <2>2 DEF Stage, ProcFields, Starting
  <2>4. \A i \in DOMAIN DropOrder : DropOrder[i] = "regain" => Stage([proc[p] EXCEPT !.pc = DropOrder[i + 1]])
    BY <2>3, NextDrop
  <2> QED BY <2>1, <2>4, DropKeeps
<1>3. CASE ClearCaps(p)
  <2> DEFINE after == [proc[p] EXCEPT !.caps = {}]
  <2>1. DropStep(p, "caps", TRUE, after) /\ proc[p].pc = "caps"
    BY <1>3 DEF ClearCaps, DropStep, At
  <2>2. DOMAIN after = ProcFields /\ Plain(after) /\ env.by = "root"
    BY <1>1, <2>1 DEF ProcFields, Stage, Plain
  <2> HIDE DEF after
  <2>3. Stage([after EXCEPT !.pc = "nnp"])
    BY <2>2 DEF Stage, ProcFields, Starting, Dropped, Plain
  <2>4. \A i \in DOMAIN DropOrder : DropOrder[i] = "caps" => Stage([after EXCEPT !.pc = DropOrder[i + 1]])
    BY <2>3, NextDrop
  <2> QED BY <2>1, <2>4, DropKeeps
<1> QED BY <1>2, <1>3

\* no_new_privs and seccomp, which a process not of root's comes to directly.
LEMMA SandboxKeeps ==
    ASSUME StageInv, env' = env, NEW p \in Procs, SkipDrop(p) \/ SetNoNewPrivs(p) \/ ApplySeccomp(p)
    PROVE  StageInv'
<1>1. Stage(proc[p]) /\ DOMAIN proc[p] = ProcFields
  BY DEF StageInv, Stage
<1>2. CASE SkipDrop(p)
  <2> DEFINE k == [proc[p] EXCEPT !.pc = "nnp"]
  <2>1. Becomes(p, k) /\ proc[p].pc = "groups" /\ proc[p].euid # "root"
    BY <1>2 DEF SkipDrop, Goto, Becomes, At, IsRoot
  <2>2. proc[p].euid = env.by /\ proc[p].gid = env.by
    BY <1>1, <2>1 DEF Stage, Starting
  <2>3. DOMAIN k = ProcFields /\ k.pc = "nnp" /\ Dropped(k)
    BY <1>1, <2>1, <2>2 DEF ProcFields, Dropped
  <2> HIDE DEF k
  <2>4. Stage(k)
    BY <2>3 DEF Stage, Starting
  <2> QED BY <2>1, <2>4, OneMoves
<1>3. CASE SetNoNewPrivs(p)
  <2> DEFINE after == [proc[p] EXCEPT !.no_new_privs = TRUE]
  <2>1. DropStep(p, "nnp", TRUE, after) /\ proc[p].pc = "nnp"
    BY <1>3 DEF SetNoNewPrivs, DropStep, At
  <2>2. DOMAIN after = ProcFields /\ Dropped(after) /\ after.no_new_privs
    BY <1>1, <2>1 DEF ProcFields, Stage, Dropped, Plain
  <2> HIDE DEF after
  <2>3. Stage([after EXCEPT !.pc = "seccomp"])
    BY <2>2 DEF Stage, ProcFields, Starting, Dropped, Plain
  <2>4. \A i \in DOMAIN DropOrder : DropOrder[i] = "nnp" => Stage([after EXCEPT !.pc = DropOrder[i + 1]])
    BY <2>3, NextDrop
  <2> QED BY <2>1, <2>4, DropKeeps
<1>4. CASE ApplySeccomp(p)
  <2> DEFINE after == [proc[p] EXCEPT !.filter = TRUE]
  <2>1. DropStep(p, "seccomp", proc[p].no_new_privs \/ Capable(p), after) /\ proc[p].pc = "seccomp"
    BY <1>4 DEF ApplySeccomp, DropStep, At
  <2>2. DOMAIN after = ProcFields /\ Dropped(after) /\ after.no_new_privs /\ after.filter
    BY <1>1, <2>1 DEF ProcFields, Stage, Dropped, Plain
  <2> HIDE DEF after
  <2>3. Stage([after EXCEPT !.pc = "notify"])
    BY <2>2 DEF Stage, ProcFields, Starting, Dropped, Plain
  <2>4. \A i \in DOMAIN DropOrder : DropOrder[i] = "seccomp" => Stage([after EXCEPT !.pc = DropOrder[i + 1]])
    BY <2>3, NextDrop
  <2> QED BY <2>1, <2>4, DropKeeps
<1> QED BY <1>2, <1>3, <1>4

-----------------------------------------------------------------------------
(* The accept loop *)

\* Nothing comes back once the drop is done.
LEMMA ConfinedKeeps ==
    ASSUME StageInv, env' = env, NEW p \in Procs, proc[p].pc \in {"notify", "signals", "serving"},
           NEW k, Becomes(p, k), SameCreds(k, proc[p]), k.pc \in {"signals", "serving", "blocked"},
           k.no_new_privs = proc[p].no_new_privs, k.filter = proc[p].filter
    PROVE  StageInv'
<1>1. Stage(proc[p])
  BY DEF StageInv
<1>2. Stage(k)
  BY <1>1 DEF Stage, Starting, SameCreds, Dropped, Plain
<1> QED BY <1>2, OneMoves

LEMMA ServeKeeps ==
    ASSUME StageInv, env' = env, NEW p \in Procs, Notify(p) \/ InstallHandlers(p) \/ Hangup(p) \/ Kill(p)
    PROVE  StageInv'
<1>1. DOMAIN proc[p] = ProcFields
  BY DEF StageInv, Stage
<1>2. ASSUME proc[p].pc \in {"notify", "signals", "serving"}, NEW pc \in {"serving", "blocked"}, Goto(p, pc)
      PROVE  StageInv'
  <2> DEFINE k == [proc[p] EXCEPT !.pc = pc]
  <2>1. Becomes(p, k)
    BY <1>2 DEF Goto, Becomes
  <2>2. /\ SameCreds(k, proc[p]) /\ k.pc = pc
        /\ k.no_new_privs = proc[p].no_new_privs /\ k.filter = proc[p].filter
    BY <1>1 DEF SameCreds, ProcFields
  <2> HIDE DEF k
  <2> QED BY <1>2, <2>1, <2>2, ConfinedKeeps
<1>3. CASE Notify(p)
  <2> DEFINE ready == May(p, {"socket", "sendto", "close"})
             k == [proc[p] EXCEPT !.pc = "signals", !.ready = ready]
  <2>1. Becomes(p, k) /\ proc[p].pc = "notify"
    BY <1>3 DEF Notify, Becomes, At
  <2> HIDE DEF ready
  <2>2. /\ SameCreds(k, proc[p]) /\ k.pc = "signals"
        /\ k.no_new_privs = proc[p].no_new_privs /\ k.filter = proc[p].filter
    BY <1>1 DEF SameCreds, ProcFields
  <2> HIDE DEF k
  <2> QED BY <2>1, <2>2, ConfinedKeeps
<1>4. CASE InstallHandlers(p)
  <2>1. proc[p].pc = "signals" /\ (Goto(p, "serving") \/ Exit(p, "error"))
    BY <1>4 DEF InstallHandlers, At
  <2> QED BY <1>2, <2>1, ExitKeeps
<1>5. CASE Kill(p)
  BY <1>5, ExitKeeps DEF Kill
<1>6. CASE Hangup(p)
  <2>1. CASE proc[p].pc # "serving"
    <3>1. Exit(p, "killed")
      BY <1>6, <2>1 DEF Hangup, Serving, At
    <3> QED BY <3>1, ExitKeeps
  <2>2. CASE proc[p].pc = "serving"
    <3> DEFINE fresh == Reread(p, LoadAllowlist(p)) = "ok" /\ Reread(p, LoadPolicy(p)) = "ok"
               reopens == /\ May(p, {"openat", "fstat", "getuid", "fchmod", "close"})
                          /\ AppendOpens(files[AuditPath], Owners, Who(p))
               a == IF fresh THEN files[AllowlistPath] ELSE proc[p].allowlist
               o == IF fresh THEN files[PolicyPath] ELSE proc[p].policy
               l == IF reopens THEN AfterAppendOpen(files[AuditPath], Who(p)).text ELSE proc[p].log
    <3>1. \/ Goto(p, "blocked")
          \/ proc' = [proc EXCEPT ![p].allowlist = a, ![p].policy = o, ![p].log = l]
      BY <1>6, <2>2 DEF Hangup, Serving, At
    <3> HIDE DEF a, o, l
    <3>2. ASSUME NEW allowlist, NEW policy, NEW log,
                 proc' = [proc EXCEPT ![p].allowlist = allowlist, ![p].policy = policy, ![p].log = log]
          PROVE  StageInv'
      <4> DEFINE k == [proc[p] EXCEPT !.allowlist = allowlist, !.policy = policy, !.log = log]
      <4>1. Becomes(p, k)
        BY <3>2 DEF Becomes
      <4>2. /\ SameCreds(k, proc[p]) /\ k.pc = "serving"
            /\ k.no_new_privs = proc[p].no_new_privs /\ k.filter = proc[p].filter
        BY <1>1, <2>2 DEF SameCreds, ProcFields
      <4> HIDE DEF k
      <4> QED BY <2>2, <4>1, <4>2, ConfinedKeeps
    <3> QED BY <1>2, <2>2, <3>1, <3>2
  <2> QED BY <2>1, <2>2
<1> QED BY <1>3, <1>4, <1>5, <1>6

-----------------------------------------------------------------------------

\* Before the processes run; files and environment may be anything.
LEMMA StageInit == proc = [p \in Procs |-> Idle] => StageInv
<1>1. DOMAIN Idle = ProcFields /\ Idle.pc = "idle"
  BY DEF Idle, ProcFields
<1>2. Stage(Idle)
  BY <1>1 DEF Stage, Starting
<1> QED BY <1>2 DEF StageInv

LEMMA StageNext == StageInv /\ [Next]_vars => StageInv'
<1> SUFFICES ASSUME StageInv, [Next]_vars PROVE StageInv'
  OBVIOUS
<1>1. ASSUME NEW p \in Procs, Exec(p) \/ Step(p) \/ Hangup(p) \/ Kill(p) PROVE StageInv'
  <2>1. env' = env
    BY <1>1, Frames
  <2> QED BY <1>1, <2>1, ExecKeeps, LoadKeeps, BindKeeps, SetIdsKeep, ClearCapsKeeps, SandboxKeeps, ServeKeeps DEF Step
<1>2. CASE (\E path \in {AllowlistPath, PolicyPath} : Edit(path)) \/ Rotate \/ Create \/ UNCHANGED vars
  <2>1. proc' = proc /\ env' = env
    BY <1>2 DEF Edit, Rotate, Create, vars
  <2> QED BY <2>1 DEF StageInv, Stage, Dropped
<1> QED BY <1>1, <1>2 DEF Next

-----------------------------------------------------------------------------
(* What a process has learnt from its files *)

\* How far a start has come: past the loading of each part.
PastKeys == {"audit", "parent", "stat", "probe", "unlink", "bind", "listen", "groups", "gid", "uid",
             "regain", "caps", "nnp", "seccomp", "notify", "signals", "serving"}
PastReloadable == PastKeys \cup {"keys"}
PastAdapters == PastReloadable \cup {"reloadable"}
PastConfig == PastAdapters \cup {"adapters"}

TrustedAdapters == {a \in Adapters : Trusted(files[Toml(a)], AdapterSpec) /\ files[Toml(a)].text # None}

ConfigOK(k) ==
    /\ k.config.idle > 0 /\ k.config.age <= MAX_RESULT_AGE_SECS_UPPER_BOUND
    /\ IsProd => env.attest

AdaptersOK(k) ==
    /\ k.adapters \subseteq {files[Toml(a)].text.name : a \in TrustedAdapters}
    /\ IsProd => /\ k.adapters # {}
                 /\ \A a \in Adapters : files[Toml(a)].kind # "none" => files[Toml(a)].text.name \in k.adapters

ReloadableOK(k) ==
    /\ Trusted(k.policy, PolicySpec) /\ k.policy.text \in {"v1", "v2"}
    /\ Trusted(k.allowlist, AllowlistSpec) \/ (~IsProd /\ k.allowlist = EmptyAllowlist)
    /\ k.allowlist.text \in {"empty", "v1", "v2", "garbage"} /\ (IsProd => k.allowlist.text \in {"v1", "v2"})

KeysOK(k) ==
    /\ \A a \in k.keys : Trusted(files[Key(a)], KeySpec)
    /\ env.attest => k.adapters \subseteq k.keys
    /\ IsProd => env.by # "user"

\* What a process holds, by how far it has come, is what its checks let through.
Known(k) ==
    /\ k.pc \in PastConfig \cup {"idle", "config", "blocked", "exit"}
    /\ k.why \in {None, "error", "taken", "killed"}
    /\ k.adapters \subseteq Adapters /\ k.keys \subseteq Adapters
    /\ k.allowlist = None \/ k.allowlist.text \in {"empty", "v1", "v2", "garbage"}
    /\ k.policy = None \/ k.policy.text \in {"v1", "v2"}
    /\ k.pc \in PastConfig => ConfigOK(k)
    /\ k.pc \in PastAdapters => AdaptersOK(k)
    /\ k.pc \in PastReloadable => ReloadableOK(k)
    /\ k.pc \in PastKeys => KeysOK(k)

\* The shape of a file.
FileFields == {"kind", "size", "last", "mode", "owner", "group", "text"}

\* The files as installed or with a flaw, who starts the daemon, and the idle timeout
\* as it may be set.
FilesInv ==
    /\ DOMAIN files = Paths /\ DOMAIN files[AuditPath] = FileFields
    /\ env.idle \in {None, 0} /\ env.by \in {"root", "ola", "user"}
    /\ \A path \in {AllowlistPath, PolicyPath} :
         files[path].text \in {"v1", "v2", "garbage"} /\ files[path].group = Account
    /\ \A a \in Adapters : files[Toml(a)].text = None \/ files[Toml(a)].text.name \in Adapters

NodeInv ==
    /\ node.kind \in {"none", "socket", "symlink", "file"}
    /\ dir.kind \in {"none", "dir", "symlink", "file"} /\ DOMAIN dir = {"kind", "owner"}

ProcsKnown == \A p \in Procs : Known(proc[p])

KnownInv == FilesInv /\ NodeInv /\ ProcsKnown

\* Nothing that was checked at the start changes afterwards: the operator edits
\* the allowlist and the policy, logrotate and the daemon the log.
TrustKept ==
    /\ env' = env
    /\ \A a \in Adapters : files'[Toml(a)] = files[Toml(a)] /\ files'[Key(a)] = files[Key(a)]

\* The paths are pairwise different.
LEMMA PathsDiffer ==
    /\ AllowlistPath # PolicyPath /\ AllowlistPath # AuditPath /\ PolicyPath # AuditPath
    /\ \A a : \A path \in {AllowlistPath, PolicyPath, AuditPath} : Toml(a) # path /\ Key(a) # path
    /\ \A a, b : Toml(a) # Key(b)
BY DEF AllowlistPath, PolicyPath, AuditPath, Toml, Key

\* What the operator installs for the allowlist and the policy.
LEMMA InstalledText ==
    ASSUME NEW path \in {AllowlistPath, PolicyPath},
           NEW f \in Flaws(path) \cup {Sound(path), [Sound(path) EXCEPT !.text = "v2"]}
    PROVE  f.text \in {"v1", "v2", "garbage"} /\ f.group = Account
<1>1. ~\E a \in Adapters : path = Toml(a)
  BY PathsDiffer
<1>2. Sound(path).text = "v1" /\ Sound(path).group = Account
      /\ DOMAIN Sound(path) = {"kind", "size", "last", "group", "mode", "owner", "text"}
  BY <1>1 DEF Sound
<1>3. ASSUME NEW g, NEW account, g.text = "v1", g.group = account,
             DOMAIN g = {"kind", "size", "last", "group", "mode", "owner", "text"},
             f \in {[g EXCEPT !.kind = k] : k \in {"none", "symlink", "fifo"}}
                   \cup {[g EXCEPT !.last = 9], [g EXCEPT !.size = 9, !.last = 9], [g EXCEPT !.mode = "0666"],
                         [g EXCEPT !.owner = "other"], [g EXCEPT !.mode = "0600", !.owner = "root"]}
                   \cup {[g EXCEPT !.text = t] : t \in {"garbage"}} \cup {g, [g EXCEPT !.text = "v2"]}
      PROVE  f.text \in {"v1", "v2", "garbage"} /\ f.group = account
  <2>1. CASE f \in {[g EXCEPT !.kind = k] : k \in {"none", "symlink", "fifo"}} \cup {g}
    BY <1>3, <2>1
  <2>2. CASE f \in {[g EXCEPT !.last = 9], [g EXCEPT !.size = 9, !.last = 9], [g EXCEPT !.mode = "0666"],
                    [g EXCEPT !.owner = "other"], [g EXCEPT !.mode = "0600", !.owner = "root"]}
    BY <1>3, <2>2
  <2>3. CASE f \in {[g EXCEPT !.text = t] : t \in {"garbage"}} \cup {[g EXCEPT !.text = "v2"]}
    BY <1>3, <2>3
  <2> QED BY <1>3, <2>1, <2>2, <2>3
<1> DEFINE g == Sound(path)
<1>4. f \in {[g EXCEPT !.kind = k] : k \in {"none", "symlink", "fifo"}}
            \cup {[g EXCEPT !.last = 9], [g EXCEPT !.size = 9, !.last = 9], [g EXCEPT !.mode = "0666"],
                  [g EXCEPT !.owner = "other"], [g EXCEPT !.mode = "0600", !.owner = "root"]}
            \cup {[g EXCEPT !.text = t] : t \in {"garbage"}} \cup {g, [g EXCEPT !.text = "v2"]}
  <2>1. Flaws(path) = {[g EXCEPT !.kind = k] : k \in {"none", "symlink", "fifo"}}
            \cup {[g EXCEPT !.last = 9], [g EXCEPT !.size = 9, !.last = 9], [g EXCEPT !.mode = "0666"],
                  [g EXCEPT !.owner = "other"], [g EXCEPT !.mode = "0600", !.owner = "root"]}
            \cup {[g EXCEPT !.text = t] : t \in {"garbage"}}
    BY <1>1 DEF Flaws
  <2> HIDE DEF g
  <2> QED BY <2>1 DEF g
<1> QED BY <1>2, <1>3, <1>4

\* The log has the shape of a file, before and after it is opened.
LEMMA LogShape ==
    /\ \A f \in Flaws(AuditPath) \cup {Sound(AuditPath)} : DOMAIN f = FileFields
    /\ \A f, who : DOMAIN f = FileFields => DOMAIN AfterAppendOpen(f, who) = FileFields
<1>1. ~\E a \in Adapters : AuditPath = Toml(a)
  BY PathsDiffer
<1> DEFINE g == Sound(AuditPath)
<1>2. DOMAIN g = FileFields
  BY <1>1 DEF Sound, FileFields
<1>3. Flaws(AuditPath) = {[g EXCEPT !.kind = k] : k \in {"none", "symlink", "fifo"}}
            \cup {[g EXCEPT !.last = 9], [g EXCEPT !.size = 9, !.last = 9], [g EXCEPT !.mode = "0666"],
                  [g EXCEPT !.owner = "other"], [g EXCEPT !.mode = "0600", !.owner = "root"]}
            \cup {[g EXCEPT !.text = t] : t \in {"garbage"}}
  BY <1>1 DEF Flaws
<1> HIDE DEF g
<1>4. \A f \in Flaws(AuditPath) \cup {g} : DOMAIN f = FileFields
  BY <1>2, <1>3
<1>5. ASSUME NEW f, NEW who, DOMAIN f = FileFields PROVE DOMAIN AfterAppendOpen(f, who) = FileFields
  <2> DEFINE h == IF f.kind = "none" THEN Created(who) ELSE f
  <2>1. DOMAIN h = FileFields
    BY <1>5 DEF Created, FileFields
  <2>2. AfterAppendOpen(f, who) = [h EXCEPT !.mode = "0640"]
    BY DEF AfterAppendOpen
  <2> HIDE DEF h
  <2> QED BY <2>1, <2>2
<1> QED BY <1>4, <1>5 DEF g

\* The name in an adapter's file is an adapter's name, if the file parses.
LEMMA InstalledAdapter ==
    ASSUME NEW a \in Adapters, NEW f \in Flaws(Toml(a)) \cup {Sound(Toml(a))}
    PROVE  f.text = None \/ f.text.name \in Adapters
<1> DEFINE path == Toml(a)
           g == Sound(path)
<1>1. (\E b \in Adapters : path = Toml(b)) /\ path[2] = a
  BY DEF Toml
<1>2. g.text = Adapter(a, MethodOf[a], 100)
      /\ DOMAIN g = {"kind", "size", "last", "group", "mode", "owner", "text"}
  BY <1>1 DEF Sound
<1>3. g.text.name = a
  BY <1>2 DEF Adapter
<1>4. f \in {[g EXCEPT !.kind = k] : k \in {"none", "symlink", "fifo"}}
            \cup {[g EXCEPT !.last = 9], [g EXCEPT !.size = 9, !.last = 9], [g EXCEPT !.mode = "0666"],
                  [g EXCEPT !.owner = "other"], [g EXCEPT !.mode = "0600", !.owner = "root"]}
            \cup {[g EXCEPT !.text = t] : t \in {None, Adapter(a, MethodOf[a], 0)}
                       \cup {Adapter(b, MethodOf[a], 100) : b \in Adapters}
                       \cup {Adapter(a, MethodOf[b], 100) : b \in Adapters}}
            \cup {g}
  BY <1>1 DEF Flaws
<1> HIDE DEF g, path
<1>5. \/ f.text = g.text
      \/ f.text \in {None, Adapter(a, MethodOf[a], 0)}
                       \cup {Adapter(b, MethodOf[a], 100) : b \in Adapters}
                       \cup {Adapter(a, MethodOf[b], 100) : b \in Adapters}
  <2>1. CASE f \in {[g EXCEPT !.kind = k] : k \in {"none", "symlink", "fifo"}} \cup {g}
    BY <1>2, <2>1
  <2>2. CASE f \in {[g EXCEPT !.last = 9], [g EXCEPT !.size = 9, !.last = 9], [g EXCEPT !.mode = "0666"],
                    [g EXCEPT !.owner = "other"], [g EXCEPT !.mode = "0600", !.owner = "root"]}
    BY <1>2, <2>2
  <2>3. ASSUME NEW t, f = [g EXCEPT !.text = t] PROVE f.text = t
    BY <1>2, <2>3
  <2> QED BY <1>4, <2>1, <2>2, <2>3
<1>6. ASSUME NEW b, NEW m, NEW t PROVE Adapter(b, m, t).name = b
  BY DEF Adapter
<1> QED BY <1>3, <1>5, <1>6

\* The files a machine boots with.
LEMMA FilesInit == Init => FilesInv /\ NodeInv
<1> SUFFICES ASSUME Init PROVE FilesInv /\ NodeInv
  OBVIOUS
<1> DEFINE S == [q \in Paths |-> Sound(q)]
<1>1. files = S \/ \E pf \in PathFlaws : files = [S EXCEPT ![pf[1]] = pf[2]]
  BY DEF Init
<1>2. DOMAIN files = Paths /\ \A q \in Paths : files[q] \in Flaws(q) \cup {Sound(q)}
  <2>1. CASE files = S
    BY <2>1
  <2>2. ASSUME NEW pf \in PathFlaws, files = [S EXCEPT ![pf[1]] = pf[2]]
        PROVE  DOMAIN files = Paths /\ \A q \in Paths : files[q] \in Flaws(q) \cup {Sound(q)}
    <3>1. PICK path \in Paths : \E f \in Flaws(path) : pf = <<path, f>>
      BY DEF PathFlaws
    <3>2. PICK f \in Flaws(path) : pf = <<path, f>>
      BY <3>1
    <3>3. files = [S EXCEPT ![path] = f]
      BY <2>2, <3>2
    <3> QED BY <3>1, <3>2, <3>3
  <2> QED BY <1>1, <2>1, <2>2
<1>3. {AllowlistPath, PolicyPath} \subseteq Paths /\ \A a \in Adapters : Toml(a) \in Paths
  BY DEF Paths
<1>4. env.idle \in {None, 0} /\ env.by \in {"root", "ola", "user"}
  <2>1. ASSUME NEW e \in EnvFlaws \cup {SoundEnv}, NEW mode, NEW by, NEW act,
               env = Environment(e, mode, by, act)
        PROVE  env.idle \in {None, 0} /\ env.by = by
    <3> DEFINE g == SoundEnv
    <3>1. {"idle", "by"} \subseteq DOMAIN g /\ g.idle = None
      BY DEF SoundEnv
    <3>2. e \in {g, [g EXCEPT !.run_mode = "test"], [g EXCEPT !.attest = FALSE], [g EXCEPT !.user = FALSE],
                 [g EXCEPT !.idle = 0], [g EXCEPT !.age = 61], [g EXCEPT !.shutdown = NaN],
                 [g EXCEPT !.drain = 1, !.shutdown = NaN]}
      BY DEF EnvFlaws
    <3> HIDE DEF g
    <3>3. e.idle \in {None, 0} /\ {"idle", "by"} \subseteq DOMAIN e
      BY <3>1, <3>2
    <3>4. ASSUME NEW m, env = [e EXCEPT !.run_mode = m, !.by = by, !.activated = act]
          PROVE  env.idle = e.idle /\ env.by = by
      BY <3>3, <3>4
    <3>5. env.idle = e.idle /\ env.by = by
      BY <2>1, <3>4 DEF Environment
    <3> QED BY <3>3, <3>5
  <2>2. \E e \in EnvFlaws \cup {SoundEnv}, by \in {"root", "ola", "user"} :
          \E mode, act : env = Environment(e, mode, by, act)
    BY DEF Init
  <2> QED BY <2>1, <2>2
<1>5. NodeInv
  <2>1. dir \in {[kind |-> "none", owner |-> None]} \cup
                {[kind |-> k, owner |-> o] : k \in {"dir", "symlink", "file"}, o \in {"root", Account}}
    BY DEF Init
  <2>2. node \in {[Socket(Systemd, "ola") EXCEPT !.mode = "0660"]} \cup
                 {NoNode, Socket(None, "root"), Socket(None, Account), Socket(Foreign, "other"),
                  [NoNode EXCEPT !.kind = "symlink"], [NoNode EXCEPT !.kind = "file"]}
    BY DEF Init
  <2>3. dir.kind \in {"none", "dir", "symlink", "file"} /\ DOMAIN dir = {"kind", "owner"}
    BY <2>1
  <2>4. node.kind \in {"none", "socket", "symlink", "file"}
    BY <2>2 DEF Socket, NoNode
  <2> QED BY <2>3, <2>4 DEF NodeInv
<1>6. \A path \in {AllowlistPath, PolicyPath} :
         files[path].text \in {"v1", "v2", "garbage"} /\ files[path].group = Account
  BY <1>2, <1>3, InstalledText
<1>7. \A a \in Adapters : files[Toml(a)].text = None \/ files[Toml(a)].text.name \in Adapters
  BY <1>2, <1>3, InstalledAdapter
<1>8. DOMAIN files[AuditPath] = FileFields
  <2>1. AuditPath \in Paths
    BY DEF Paths
  <2> QED BY <1>2, <2>1, LogShape
<1> QED BY <1>2, <1>4, <1>5, <1>6, <1>7, <1>8 DEF FilesInv

-----------------------------------------------------------------------------
(* Who changes which file *)

\* Every step leaves the environment, the adapters' files and the keys alone, and
\* the allowlist and the policy are only ever replaced by installed versions.
LEMMA FilesNext ==
    ASSUME FilesInv, [Next]_vars
    PROVE  FilesInv' /\ TrustKept
<1>1. env' = env
  BY Frames DEF Next, Edit, Rotate, Create, vars
<1>2. \/ files' = files
      \/ \E f : files' = [files EXCEPT ![AuditPath] = f] /\ DOMAIN f = FileFields
      \/ \E path \in {AllowlistPath, PolicyPath} :
           \E f \in Flaws(path) \cup {[Sound(path) EXCEPT !.text = "v2"]} : files' = [files EXCEPT ![path] = f]
  <2>1. ASSUME NEW p \in Procs, Exec(p) \/ Step(p) \/ Hangup(p) \/ Kill(p)
        PROVE  files' = files \/ \E f : files' = [files EXCEPT ![AuditPath] = f] /\ DOMAIN f = FileFields
    <3> DEFINE h == AfterAppendOpen(files[AuditPath], Who(p))
    <3>0. DOMAIN h = FileFields
      <4>1. PICK f, who : f = files[AuditPath] /\ who = Who(p)
        OBVIOUS
      <4> QED BY <4>1, LogShape DEF FilesInv
    <3>1. CASE Exec(p) \/ Kill(p)
      BY <3>1 DEF Exec, Kill
    <3>2. CASE OpenAudit(p) \/ Hangup(p)
      <4>1. files' = files \/ files' = [files EXCEPT ![AuditPath] = h]
        BY <3>2 DEF OpenAudit, Hangup, Fail
      <4> HIDE DEF h
      <4> QED BY <3>0, <4>1
    <3>3. CASE Step(p) /\ ~OpenAudit(p)
      BY <3>3 DEF Step, Configure, LoadAdapters, LoadReloadable, LoadKeys,
         PrepareParent, StatPath, Probe, Unlink, Bind, Listen, SkipDrop, SetGroups, SetGid, SetUid,
         Regain, ClearCaps, SetNoNewPrivs, ApplySeccomp, Notify, InstallHandlers, DropStep, Fail
    <3> QED BY <2>1, <3>1, <3>2, <3>3
  <2>2. CASE Rotate
    <3> DEFINE f == [files[AuditPath] EXCEPT !.kind = "none"]
    <3>1. files' = [files EXCEPT ![AuditPath] = f]
      BY <2>2 DEF Rotate
    <3>2. DOMAIN f = FileFields
      BY DEF FilesInv
    <3> HIDE DEF f
    <3> QED BY <3>1, <3>2
  <2>3. CASE Create
    <3> DEFINE f == [kind |-> "regular", size |-> 0, last |-> 0, mode |-> "0640",
                     owner |-> "ola", group |-> "ola", text |-> "empty"]
    <3>1. files' = [files EXCEPT ![AuditPath] = f]
      BY <2>3 DEF Create
    <3>2. DOMAIN f = FileFields
      BY DEF FileFields
    <3> HIDE DEF f
    <3> QED BY <3>1, <3>2
  <2>4. ASSUME NEW path \in {AllowlistPath, PolicyPath}, Edit(path)
        PROVE  \E f \in Flaws(path) \cup {[Sound(path) EXCEPT !.text = "v2"]} : files' = [files EXCEPT ![path] = f]
    BY <2>4 DEF Edit
  <2>5. CASE UNCHANGED vars
    BY <2>5 DEF vars
  <2> QED BY <2>1, <2>2, <2>3, <2>4, <2>5 DEF Next
<1>0. Account' = Account
  BY <1>1 DEF Account, IsProd
<1>3. CASE files' = files
  BY <1>0, <1>1, <1>3 DEF FilesInv, TrustKept
<1>4. ASSUME NEW f, files' = [files EXCEPT ![AuditPath] = f], DOMAIN f = FileFields PROVE FilesInv' /\ TrustKept
  <2>1. \A path : path # AuditPath => files'[path] = files[path]
    BY <1>4 DEF FilesInv, Paths
  <2>2. DOMAIN files' = Paths /\ DOMAIN files'[AuditPath] = FileFields
    BY <1>4 DEF FilesInv, Paths
  <2>3. \A path \in {AllowlistPath, PolicyPath} : files'[path] = files[path]
    BY <2>1, PathsDiffer
  <2>4. \A a \in Adapters : files'[Toml(a)] = files[Toml(a)] /\ files'[Key(a)] = files[Key(a)]
    BY <2>1, PathsDiffer
  <2> QED BY <1>0, <1>1, <2>2, <2>3, <2>4 DEF FilesInv, TrustKept
<1>5. ASSUME NEW path \in {AllowlistPath, PolicyPath},
             NEW f \in Flaws(path) \cup {[Sound(path) EXCEPT !.text = "v2"]}, files' = [files EXCEPT ![path] = f]
      PROVE  FilesInv' /\ TrustKept
  <2>1. f.text \in {"v1", "v2", "garbage"} /\ f.group = Account
    BY InstalledText
  <2>2. DOMAIN files' = Paths /\ path \in Paths
    BY <1>5 DEF FilesInv, Paths
  <2>3. files'[path] = f /\ \A q \in Paths : q # path => files'[q] = files[q]
    BY <1>5, <2>2 DEF FilesInv
  <2>4. \A a \in Adapters : Toml(a) \in Paths /\ Key(a) \in Paths
    BY DEF Paths
  <2>5. \A a \in Adapters : files'[Toml(a)] = files[Toml(a)] /\ files'[Key(a)] = files[Key(a)]
    BY <2>3, <2>4, PathsDiffer
  <2>6. {AllowlistPath, PolicyPath, AuditPath} \subseteq Paths
    BY DEF Paths
  <2>8. files'[AuditPath] = files[AuditPath]
    BY <2>3, <2>6, PathsDiffer
  <2>7. \A q \in {AllowlistPath, PolicyPath} :
          files'[q].text \in {"v1", "v2", "garbage"} /\ files'[q].group = Account
    BY <2>1, <2>3, <2>6 DEF FilesInv
  <2> QED BY <1>0, <1>1, <2>2, <2>5, <2>7, <2>8 DEF FilesInv, TrustKept
<1> QED BY <1>2, <1>3, <1>4, <1>5

\* The socket's path and its directory.
LEMMA NodeNext ==
    ASSUME NodeInv, [Next]_vars
    PROVE  NodeInv'
<1>1. node' = node \/ node' = NoNode \/ \E by, owner : node' = Socket(by, owner)
  BY Frames DEF Next, Edit, Rotate, Create, vars
<1>2. node'.kind \in {"none", "socket", "symlink", "file"}
  BY <1>1 DEF NodeInv, NoNode, Socket
<1>3. dir'.kind \in {"none", "dir", "symlink", "file"} /\ DOMAIN dir' = {"kind", "owner"}
  <2>1. ASSUME NEW p \in Procs, PrepareParent(p)
        PROVE  dir'.kind \in {"none", "dir", "symlink", "file"} /\ DOMAIN dir' = {"kind", "owner"}
    <3> DEFINE d == IF dir.kind = "none" THEN [kind |-> "dir", owner |-> proc[p].euid] ELSE dir
    <3>1. dir' = d \/ dir' = [d EXCEPT !.owner = "root"]
      BY <2>1 DEF PrepareParent
    <3>2. d.kind \in {"none", "dir", "symlink", "file"} /\ DOMAIN d = {"kind", "owner"}
      BY DEF NodeInv
    <3> HIDE DEF d
    <3> QED BY <3>1, <3>2
  <2>2. CASE \A p \in Procs : ~PrepareParent(p)
    <3>1. dir' = dir
      BY <2>2, Frames DEF Next, Edit, Rotate, Create, vars
    <3> QED BY <3>1 DEF NodeInv
  <2> QED BY <2>1, <2>2
<1> QED BY <1>2, <1>3 DEF NodeInv

-----------------------------------------------------------------------------
(* What a process holds is only what the checks let through *)

\* While the files that were checked stay, what was right to hold stays right.
LEMMA KnownStays ==
    ASSUME NEW k, Known(k), TrustKept
    PROVE  Known(k)'
<1>0. /\ \A f, spec : Trusted(f, spec)' <=> Trusted(f, spec)
      /\ \A a \in Adapters : files'[Toml(a)] = files[Toml(a)] /\ files'[Key(a)] = files[Key(a)]
  BY DEF TrustKept, Trusted, Account, IsProd
<1>1. TrustedAdapters' = TrustedAdapters
  BY DEF TrustKept, TrustedAdapters, Trusted, Account, IsProd
<1>2. {files'[Toml(a)].text.name : a \in TrustedAdapters} = {files[Toml(a)].text.name : a \in TrustedAdapters}
  BY DEF TrustKept, TrustedAdapters
<1>3. AdaptersOK(k) => AdaptersOK(k)'
  BY <1>1, <1>2 DEF AdaptersOK, TrustKept, IsProd
<1>4. ConfigOK(k) => ConfigOK(k)'
  BY DEF ConfigOK, TrustKept, IsProd
<1>5. k.keys \subseteq Adapters /\ KeysOK(k) => KeysOK(k)'
  BY DEF KeysOK, TrustKept, Trusted, Account, IsProd
<1>6. ReloadableOK(k) => ReloadableOK(k)'
  BY DEF ReloadableOK, TrustKept, Trusted, Account, IsProd
<1> QED BY <1>3, <1>4, <1>5, <1>6 DEF Known, TrustKept, IsProd

\* One process moves, the others stay as they are.
LEMMA OneLearns ==
    ASSUME StageInv, ProcsKnown, TrustKept, NEW p \in Procs, NEW k, Becomes(p, k), Known(k)
    PROVE  ProcsKnown'
<1>1. proc'[p] = k /\ \A q \in Procs \ {p} : proc'[q] = proc[q]
  BY DEF StageInv, Becomes
<1>2. Known(k)'
  BY KnownStays
<1>3. ASSUME NEW q \in Procs \ {p} PROVE Known(proc[q])'
  <2>1. PICK j : j = proc[q]
    OBVIOUS
  <2>2. Known(j)
    BY <2>1 DEF ProcsKnown
  <2>3. Known(j)'
    BY <2>2, KnownStays
  <2> QED BY <1>1, <2>1, <2>3
<1> QED BY <1>1, <1>2, <1>3 DEF ProcsKnown

\* Two states of a process that hold the same of the files.
SameTrust(k, j) ==
    /\ k.why = j.why /\ k.config = j.config /\ k.adapters = j.adapters /\ k.keys = j.keys
    /\ k.allowlist = j.allowlist /\ k.policy = j.policy

LEMMA SameKnown ==
    ASSUME NEW j, Known(j), NEW k, SameTrust(k, j),
           k.pc = "blocked" \/ (j.pc \in PastKeys /\ k.pc \in PastKeys)
    PROVE  Known(k)
<1>1. k.pc \in PastConfig \cup {"idle", "config", "blocked", "exit"}
  BY DEF PastConfig, PastAdapters, PastReloadable
<1>2. CASE k.pc = "blocked"
  <2>1. k.pc \notin PastConfig
    BY <1>2 DEF PastConfig, PastAdapters, PastReloadable, PastKeys
  <2> QED BY <1>1, <2>1 DEF Known, SameTrust, PastConfig, PastAdapters, PastReloadable
<1>3. CASE j.pc \in PastKeys /\ k.pc \in PastKeys
  <2>1. ConfigOK(j) /\ AdaptersOK(j) /\ KeysOK(j) /\ ReloadableOK(j)
    BY <1>3 DEF Known, PastConfig, PastAdapters, PastReloadable
  <2>2. ConfigOK(k) /\ AdaptersOK(k) /\ KeysOK(k) /\ ReloadableOK(k)
    BY <2>1 DEF SameTrust, ConfigOK, AdaptersOK, KeysOK, ReloadableOK
  <2> QED BY <1>1, <2>2 DEF Known, SameTrust
<1> QED BY <1>2, <1>3

\* A process that has ended holds nothing.
LEMMA ExitLearns ==
    ASSUME StageInv, ProcsKnown, TrustKept, NEW p \in Procs, NEW why \in {"error", "taken", "killed"}, Exit(p, why)
    PROVE  ProcsKnown'
<1> DEFINE k == [Idle EXCEPT !.pc = "exit", !.why = why]
<1>1. Becomes(p, k)
  BY DEF Exit, Becomes
<1>2. k.pc = "exit" /\ k.why = why /\ k.adapters = {} /\ k.keys = {} /\ k.allowlist = None /\ k.policy = None
  BY DEF Idle
<1> HIDE DEF k
<1>3. Known(k)
  BY <1>2 DEF Known, PastConfig, PastAdapters, PastReloadable, PastKeys
<1> QED BY <1>1, <1>3, OneLearns

LEMMA GotoLearns ==
    ASSUME StageInv, ProcsKnown, TrustKept, NEW p \in Procs, NEW pc, Goto(p, pc),
           pc = "blocked" \/ (proc[p].pc \in PastKeys /\ pc \in PastKeys)
    PROVE  ProcsKnown'
<1> DEFINE k == [proc[p] EXCEPT !.pc = pc]
<1>1. Becomes(p, k)
  BY DEF Goto, Becomes
<1>2. SameTrust(k, proc[p]) /\ k.pc = pc
  BY DEF StageInv, Stage, SameTrust, ProcFields
<1> HIDE DEF k
<1>3. PICK j : j = proc[p]
  OBVIOUS
<1>4. PICK m : m = k
  OBVIOUS
<1>5. Known(m)
  BY <1>2, <1>3, <1>4, SameKnown DEF ProcsKnown
<1> QED BY <1>1, <1>4, <1>5, OneLearns

\* Configuration: limits in range; in production attestation is on.
LEMMA ConfigureLearns ==
    ASSUME StageInv, KnownInv, TrustKept, NEW p \in Procs, Exec(p) \/ Configure(p)
    PROVE  ProcsKnown'
<1>0. ProcsKnown /\ FilesInv /\ DOMAIN proc[p] = ProcFields /\ Known(proc[p])
  BY DEF KnownInv, StageInv, Stage, ProcsKnown
<1>1. CASE Exec(p)
  <2>1. PICK k : /\ Becomes(p, k) /\ k.pc = "config" /\ k.why = None /\ k.adapters = {} /\ k.keys = {}
                 /\ k.allowlist = None /\ k.policy = None
    <3> DEFINE m == Started(env.by)
    <3>1. Becomes(p, m)
      BY <1>1 DEF Exec, Becomes
    <3>2. m.pc = "config" /\ m.why = None /\ m.adapters = {} /\ m.keys = {} /\ m.allowlist = None /\ m.policy = None
      BY DEF Started, Idle
    <3> HIDE DEF m
    <3> QED BY <3>1, <3>2
  <2>2. Known(k)
    BY <2>1 DEF Known, PastConfig, PastAdapters, PastReloadable, PastKeys
  <2> QED BY <1>0, <2>1, <2>2, OneLearns
<1>2. CASE Configure(p) /\ Exit(p, "error")
  BY <1>0, <1>2, ExitLearns
<1>3. CASE Configure(p) /\ ~Exit(p, "error")
  <2> DEFINE k == [proc[p] EXCEPT !.pc = "adapters", !.config = FromEnv]
  <2>1. /\ Becomes(p, k)
        /\ FromEnv.idle \notin {NaN, 0} /\ FromEnv.age \in 0..MAX_RESULT_AGE_SECS_UPPER_BOUND
        /\ IsProd => env.attest
    BY <1>3 DEF Configure, Fail, Becomes
  <2>2. FromEnv.idle > 0
    <3>1. FromEnv.idle \in {20, env.idle} /\ (env.idle = None => FromEnv.idle = 20)
      BY DEF FromEnv, ParseEnv
    <3> QED BY <1>0, <2>1, <3>1 DEF FilesInv
  <2>3. FromEnv.age <= MAX_RESULT_AGE_SECS_UPPER_BOUND
    BY <2>1
  <2> DEFINE c == FromEnv
  <2>4. c.idle > 0 /\ c.age <= MAX_RESULT_AGE_SECS_UPPER_BOUND /\ k = [proc[p] EXCEPT !.pc = "adapters", !.config = c]
    BY <2>2, <2>3
  <2> HIDE DEF c, k
  <2>5. /\ k.pc = "adapters" /\ k.config = c /\ k.why = proc[p].why /\ k.adapters = proc[p].adapters
        /\ k.keys = proc[p].keys /\ k.allowlist = proc[p].allowlist /\ k.policy = proc[p].policy
    BY <1>0, <2>4 DEF ProcFields
  <2>6. PICK m : m = k
    OBVIOUS
  <2>7. ConfigOK(m)
    BY <2>1, <2>4, <2>5, <2>6 DEF ConfigOK
  <2>8. Known(m)
    BY <1>0, <2>5, <2>6, <2>7 DEF Known, PastConfig, PastAdapters, PastReloadable, PastKeys
  <2> QED BY <1>0, <2>1, <2>6, <2>8, OneLearns
<1> QED BY <1>1, <1>2, <1>3

\* What read_secure lets through is trusted.
LEMMA ReadIsTrusted ==
    ASSUME NEW file, NEW spec, NEW who, ReadSecure(file, spec, Owners, who) = "ok"
    PROVE  Trusted(file, spec)
BY DEF ReadSecure, ValidateOpenFile, Owners, RootOr, Trusted

\* validate_adapter_config is never asked about a file that did not parse.
LEMMA ValidIsSomething ==
    ASSUME NEW cfg, ValidateAdapterConfig(cfg)
    PROVE  cfg # None
BY DEF ValidateAdapterConfig

\* load_adapter_configs: only trusted files, in production all that are there.
LEMMA LoadAdaptersLearns ==
    ASSUME StageInv, KnownInv, TrustKept, NEW p \in Procs, LoadAdapters(p)
    PROVE  ProcsKnown'
<1>0. ProcsKnown /\ FilesInv /\ DOMAIN proc[p] = ProcFields /\ Known(proc[p])
  BY DEF KnownInv, StageInv, Stage, ProcsKnown
<1>1. CASE Exit(p, "error") \/ Goto(p, "blocked")
  BY <1>0, <1>1, ExitLearns, GotoLearns
<1>2. CASE ~Exit(p, "error") /\ ~Goto(p, "blocked")
  <2> DEFINE names == {files[Toml(a)].text.name : a \in Loaded(p)}
             k == [proc[p] EXCEPT !.pc = "reloadable", !.adapters = names]
  <2>1. /\ At(p, "adapters") /\ Becomes(p, k)
        /\ IsProd => (\A a \in Adapters \ Loaded(p) : files[Toml(a)].kind = "none") /\ Loaded(p) # {}
    BY <1>2 DEF LoadAdapters, Becomes
  <2>2. Loaded(p) \subseteq TrustedAdapters
    <3> SUFFICES ASSUME NEW a \in Adapters, ReadToml(p, a) = "ok", ValidateAdapterConfig(files[Toml(a)].text)
                 PROVE  a \in TrustedAdapters
      BY DEF Loaded
    <3>1. PICK who : who = Who(p)
      OBVIOUS
    <3>2. PICK file : file = files[Toml(a)]
      OBVIOUS
    <3>3. Trusted(file, AdapterSpec)
      BY <3>1, <3>2, ReadIsTrusted DEF ReadToml
    <3>4. files[Toml(a)].text # None
      BY ValidIsSomething
    <3> QED BY <3>2, <3>3, <3>4 DEF TrustedAdapters
  <2>3. names \subseteq {files[Toml(a)].text.name : a \in TrustedAdapters}
    BY <2>2
  <2>4. names \subseteq Adapters
    BY <1>0, <2>2 DEF FilesInv, TrustedAdapters
  <2>5. IsProd => names # {} /\ \A a \in Adapters : files[Toml(a)].kind # "none" => files[Toml(a)].text.name \in names
    BY <2>1
  <2> HIDE DEF names
  <2>6. /\ k.pc = "reloadable" /\ k.adapters = names /\ k.why = proc[p].why /\ k.config = proc[p].config
        /\ k.keys = proc[p].keys /\ k.allowlist = proc[p].allowlist /\ k.policy = proc[p].policy
    BY <1>0 DEF ProcFields
  <2> HIDE DEF k
  <2>7. PICK m : m = k
    OBVIOUS
  <2>8. AdaptersOK(m)
    BY <2>3, <2>5, <2>6, <2>7 DEF AdaptersOK
  <2>9. ConfigOK(m)
    <3>1. ConfigOK(proc[p])
      BY <1>0, <2>1 DEF Known, At, PastConfig
    <3> QED BY <2>6, <2>7, <3>1 DEF ConfigOK
  <2>10. Known(m)
    BY <1>0, <2>4, <2>6, <2>7, <2>8, <2>9 DEF Known, PastConfig, PastAdapters, PastReloadable, PastKeys
  <2> QED BY <1>0, <2>1, <2>7, <2>10, OneLearns
<1> QED BY <1>1, <1>2

\* What the two loaders of reloadable files return.
LEMMA LoadedTexts ==
    ASSUME FilesInv, NEW p
    PROVE  /\ LoadPolicy(p) \in {"ok", "fail", "blocks"} /\ LoadAllowlist(p) \in {"ok", "fail", "blocks"}
           /\ LoadPolicy(p) = "ok" => files[PolicyPath].text \in {"v1", "v2"}
           /\ LoadAllowlist(p) = "ok" => files[AllowlistPath].text \in {"v1", "v2", "garbage"}
           /\ LoadAllowlist(p) = "ok" /\ IsProd => files[AllowlistPath].text \in {"v1", "v2"}
           /\ LoadPolicy(p) = "ok" => Trusted(files[PolicyPath], PolicySpec)
           /\ LoadAllowlist(p) = "ok" => Trusted(files[AllowlistPath], AllowlistSpec)
<1>1. \A f, spec, who : ReadSecure(f, spec, Owners, who) \in {"ok", "fail", "blocks"}
  BY DEF ReadSecure, OpenSecureRead
<1>2. files[PolicyPath].text \in {"v1", "v2", "garbage"} /\ files[AllowlistPath].text \in {"v1", "v2", "garbage"}
  BY DEF FilesInv
<1>3. PICK who, f, g : who = Who(p) /\ f = files[PolicyPath] /\ g = files[AllowlistPath]
  OBVIOUS
<1>4. LoadPolicy(p) = "ok" => Trusted(files[PolicyPath], PolicySpec)
  BY <1>3, ReadIsTrusted DEF LoadPolicy
<1>5. LoadAllowlist(p) = "ok" => Trusted(files[AllowlistPath], AllowlistSpec)
  BY <1>3, ReadIsTrusted DEF LoadAllowlist
<1> QED BY <1>1, <1>2, <1>4, <1>5 DEF LoadPolicy, LoadAllowlist

\* ReloadableState::load: in production both files are good.
LEMMA LoadReloadableLearns ==
    ASSUME StageInv, KnownInv, TrustKept, NEW p \in Procs, LoadReloadable(p)
    PROVE  ProcsKnown'
<1>0. ProcsKnown /\ FilesInv /\ DOMAIN proc[p] = ProcFields /\ Known(proc[p])
  BY DEF KnownInv, StageInv, Stage, ProcsKnown
<1>1. CASE Exit(p, "error") \/ Goto(p, "blocked")
  BY <1>0, <1>1, ExitLearns, GotoLearns
<1>2. CASE ~Exit(p, "error") /\ ~Goto(p, "blocked")
  <2> DEFINE allowlist == IF LoadAllowlist(p) = "ok" THEN files[AllowlistPath] ELSE EmptyAllowlist
             policy == files[PolicyPath]
             k == [proc[p] EXCEPT !.pc = "keys", !.policy = policy, !.allowlist = allowlist]
  <2>1. /\ At(p, "reloadable") /\ Becomes(p, k)
        /\ LoadPolicy(p) \notin {"blocks", "fail"}
        /\ LoadAllowlist(p) # "blocks" /\ (IsProd => LoadAllowlist(p) # "fail")
    BY <1>2 DEF LoadReloadable, Becomes
  <2>2. /\ Trusted(policy, PolicySpec) /\ policy.text \in {"v1", "v2"}
        /\ Trusted(allowlist, AllowlistSpec) \/ (~IsProd /\ allowlist = EmptyAllowlist)
        /\ allowlist.text \in {"empty", "v1", "v2", "garbage"} /\ (IsProd => allowlist.text \in {"v1", "v2"})
    <3>1. LoadPolicy(p) = "ok" /\ (LoadAllowlist(p) = "ok" \/ (LoadAllowlist(p) = "fail" /\ ~IsProd))
      BY <1>0, <2>1, LoadedTexts
    <3>2. EmptyAllowlist.text = "empty"
      BY DEF EmptyAllowlist
    <3> QED BY <1>0, <3>1, <3>2, LoadedTexts
  <2> HIDE DEF allowlist, policy
  <2>3. /\ k.pc = "keys" /\ k.adapters = proc[p].adapters /\ k.why = proc[p].why /\ k.config = proc[p].config
        /\ k.keys = proc[p].keys /\ k.allowlist = allowlist /\ k.policy = policy
    BY <1>0 DEF ProcFields
  <2> HIDE DEF k
  <2>4. PICK m : m = k
    OBVIOUS
  <2>5. ConfigOK(m) /\ AdaptersOK(m)
    <3>1. ConfigOK(proc[p]) /\ AdaptersOK(proc[p])
      BY <1>0, <2>1 DEF Known, At, PastConfig, PastAdapters
    <3> QED BY <2>3, <2>4, <3>1 DEF ConfigOK, AdaptersOK
  <2>6. ReloadableOK(m)
    BY <2>2, <2>3, <2>4 DEF ReloadableOK
  <2>7. Known(m)
    BY <1>0, <2>2, <2>3, <2>4, <2>5, <2>6 DEF Known, PastConfig, PastAdapters, PastReloadable, PastKeys
  <2> QED BY <1>0, <2>1, <2>4, <2>7, OneLearns
<1> QED BY <1>1, <1>2

\* A file of mode 0600 is for its owner.
LEMMA OwnerReads ==
    ASSUME NEW file, NEW spec, NEW owners, NEW who, spec.modes = {"0600"}, ReadSecure(file, spec, owners, who) = "ok"
    PROVE  who.euid = "root" \/ who.euid \in owners
<1>1. MayRead(file, who) /\ file.mode = "0600" /\ file.owner \in owners
  BY DEF ReadSecure, OpenSecureRead, ValidateOpenFile
<1> QED BY <1>1 DEF MayRead, GroupReadable, WorldReadable

\* AttestationVerifier: every key is trusted and no adapter is without one; so in
\* production there is a key, which the service's user can read and root.
LEMMA LoadKeysLearns ==
    ASSUME StageInv, KnownInv, TrustKept, NEW p \in Procs, LoadKeys(p)
    PROVE  ProcsKnown'
<1>0. ProcsKnown /\ FilesInv /\ DOMAIN proc[p] = ProcFields /\ Known(proc[p])
  BY DEF KnownInv, StageInv, Stage, ProcsKnown
<1>1. CASE Exit(p, "error")
  BY <1>0, <1>1, ExitLearns
<1>2. CASE ~Exit(p, "error")
  <2> DEFINE found == {a \in Adapters : files[Key(a)].kind \in {"regular", "symlink"}}
             k == [proc[p] EXCEPT !.pc = "audit", !.keys = found]
  <2>1. /\ At(p, "keys") /\ Becomes(p, k)
        /\ \A a \in found : ReadSecure(files[Key(a)], KeySpec, Owners, Who(p)) = "ok"
        /\ env.attest => proc[p].adapters \subseteq found
    BY <1>2 DEF LoadKeys, Becomes
  <2>2. ASSUME NEW a \in found PROVE Trusted(files[Key(a)], KeySpec)
    <3>1. PICK who, file : who = Who(p) /\ file = files[Key(a)]
      OBVIOUS
    <3> QED BY <2>1, <3>1, ReadIsTrusted
  <2>3. found \subseteq Adapters
    OBVIOUS
  <2> HIDE DEF found
  <2>4. /\ k.pc = "audit" /\ k.adapters = proc[p].adapters /\ k.why = proc[p].why /\ k.config = proc[p].config
        /\ k.keys = found /\ k.allowlist = proc[p].allowlist /\ k.policy = proc[p].policy
    BY <1>0 DEF ProcFields
  <2> HIDE DEF k
  <2>5. PICK m : m = k
    OBVIOUS
  <2>6. ConfigOK(m) /\ AdaptersOK(m) /\ ReloadableOK(m)
    <3>1. ConfigOK(proc[p]) /\ AdaptersOK(proc[p]) /\ ReloadableOK(proc[p])
      BY <1>0, <2>1 DEF Known, At, PastConfig, PastAdapters, PastReloadable
    <3> QED BY <2>4, <2>5, <3>1 DEF ConfigOK, AdaptersOK, ReloadableOK
  <2>7. KeysOK(m)
    <3>1. ASSUME IsProd PROVE env.by # "user"
      <4>1. PICK a \in found : TRUE
        BY <2>1, <2>4, <2>5, <2>6, <3>1 DEF ConfigOK, AdaptersOK
      <4>2. PICK who, file, owners : who = Who(p) /\ file = files[Key(a)] /\ owners = Owners
        OBVIOUS
      <4>3. KeySpec.modes = {"0600"}
        BY DEF KeySpec, FileSpec
      <4>4. who.euid = "root" \/ who.euid \in owners
        BY <2>1, <4>1, <4>2, <4>3, OwnerReads
      <4>5. who.euid = env.by
        BY <2>1, <4>2 DEF Who, StageInv, Stage, At, Starting
      <4>6. owners = {"root", "ola"}
        BY <3>1, <4>2 DEF Owners, RootOr, Account
      <4> QED BY <4>4, <4>5, <4>6
    <3> QED BY <2>1, <2>2, <2>4, <2>5, <3>1 DEF KeysOK
  <2>8. Known(m)
    BY <1>0, <2>3, <2>4, <2>5, <2>6, <2>7 DEF Known, PastConfig, PastAdapters, PastReloadable, PastKeys
  <2> QED BY <1>0, <2>1, <2>5, <2>8, OneLearns
<1> QED BY <1>1, <1>2

\* From the keys on, a start holds what it has loaded.
LEMMA LateLearns ==
    ASSUME StageInv, KnownInv, TrustKept, NEW p \in Procs,
           \/ OpenAudit(p) \/ PrepareParent(p) \/ StatPath(p) \/ Probe(p) \/ Unlink(p) \/ Bind(p) \/ Listen(p)
           \/ SkipDrop(p) \/ Notify(p) \/ InstallHandlers(p) \/ Kill(p)
    PROVE  ProcsKnown'
<1>0. ProcsKnown /\ DOMAIN proc[p] = ProcFields /\ Known(proc[p])
  BY DEF KnownInv, StageInv, Stage, ProcsKnown
<1>1. CASE \/ PrepareParent(p) \/ StatPath(p) \/ Probe(p) \/ Unlink(p) \/ Bind(p)
           \/ SkipDrop(p) \/ InstallHandlers(p) \/ Kill(p)
  <2>1. (\E why \in {"error", "taken", "killed"} : Exit(p, why))
        \/ (proc[p].pc \in PastKeys /\ \E pc \in PastKeys : Goto(p, pc))
    <3>1. {"stat", "bind", "probe", "unlink", "listen", "nnp", "serving"} \subseteq PastKeys
      BY DEF PastKeys
    <3>2. CASE PrepareParent(p)
      BY <3>1, <3>2 DEF PrepareParent, At, PastKeys
    <3>3. CASE StatPath(p)
      BY <3>1, <3>3 DEF StatPath, At, PastKeys
    <3>4. CASE Probe(p)
      BY <3>1, <3>4 DEF Probe, At, PastKeys
    <3>5. CASE Unlink(p) \/ Bind(p)
      BY <3>1, <3>5 DEF Unlink, Bind, At, PastKeys
    <3>6. CASE SkipDrop(p) \/ InstallHandlers(p) \/ Kill(p)
      BY <3>1, <3>6 DEF SkipDrop, InstallHandlers, Kill, At, PastKeys
    <3> QED BY <1>1, <3>2, <3>3, <3>4, <3>5, <3>6
  <2> QED BY <1>0, <2>1, ExitLearns, GotoLearns
<1>2. ASSUME NEW k, Becomes(p, k), SameTrust(k, proc[p]), k.pc \in PastKeys, proc[p].pc \in PastKeys
      PROVE  ProcsKnown'
  <2>1. PICK j : j = proc[p]
    OBVIOUS
  <2>2. Known(k)
    BY <1>0, <1>2, <2>1, SameKnown
  <2> QED BY <1>0, <1>2, <2>2, OneLearns
<1>3. CASE OpenAudit(p)
  <2> DEFINE text == AfterAppendOpen(files[AuditPath], Who(p)).text
             next == IF env.activated THEN "groups" ELSE "parent"
             k == [proc[p] EXCEPT !.pc = next, !.log = text]
  <2>1. proc[p].pc = "audit" /\ (Exit(p, "error") \/ Becomes(p, k))
    BY <1>3 DEF OpenAudit, Fail, Becomes, At
  <2>2. next \in PastKeys /\ "audit" \in PastKeys
    BY DEF PastKeys
  <2> HIDE DEF text, next
  <2>3. SameTrust(k, proc[p]) /\ k.pc = next
    BY <1>0 DEF SameTrust, ProcFields
  <2> HIDE DEF k
  <2> QED BY <1>0, <1>2, <2>1, <2>2, <2>3, ExitLearns
<1>4. CASE Listen(p)
  <2> DEFINE k == [proc[p] EXCEPT !.pc = "groups", !.listening = TRUE]
  <2>1. proc[p].pc = "listen" /\ Becomes(p, k)
    BY <1>4 DEF Listen, Becomes, At
  <2>2. SameTrust(k, proc[p]) /\ k.pc = "groups"
    BY <1>0 DEF SameTrust, ProcFields
  <2> HIDE DEF k
  <2> QED BY <1>2, <2>1, <2>2 DEF PastKeys
<1>5. CASE Notify(p)
  <2> DEFINE ready == May(p, {"socket", "sendto", "close"})
             k == [proc[p] EXCEPT !.pc = "signals", !.ready = ready]
  <2>1. Becomes(p, k) /\ proc[p].pc = "notify"
    BY <1>5 DEF Notify, Becomes, At
  <2> HIDE DEF ready
  <2>2. SameTrust(k, proc[p]) /\ k.pc = "signals"
    BY <1>0 DEF SameTrust, ProcFields
  <2> HIDE DEF k
  <2> QED BY <1>2, <2>1, <2>2 DEF PastKeys
<1> QED BY <1>1, <1>3, <1>4, <1>5

\* drop_privileges_completely touches nothing a process has loaded.
LEMMA DropLearns ==
    ASSUME StageInv, KnownInv, TrustKept, NEW p \in Procs,
           \/ SetGroups(p) \/ SetGid(p) \/ SetUid(p) \/ Regain(p) \/ ClearCaps(p)
           \/ SetNoNewPrivs(p) \/ ApplySeccomp(p)
    PROVE  ProcsKnown'
<1>0. ProcsKnown /\ DOMAIN proc[p] = ProcFields /\ Known(proc[p])
  BY DEF KnownInv, StageInv, Stage, ProcsKnown
<1>1. ASSUME NEW pc \in {"groups", "gid", "uid", "regain", "caps", "nnp", "seccomp"}, NEW allowed, NEW after,
             DropStep(p, pc, allowed, after), SameTrust(after, proc[p]), DOMAIN after = ProcFields
      PROVE  ProcsKnown'
  <2>1. CASE allowed
    <3>1. PICK i \in DOMAIN DropOrder :
            DropOrder[i] = pc /\ proc' = [proc EXCEPT ![p] = [after EXCEPT !.pc = DropOrder[i + 1]]]
      BY <1>1, <2>1 DEF DropStep
    <3> DEFINE next == DropOrder[i + 1]
               k == [after EXCEPT !.pc = next]
    <3>2. next \in PastKeys
      BY <3>1, NextDrop DEF PastKeys
    <3>3. proc[p].pc \in PastKeys
      BY <1>1 DEF DropStep, At, PastKeys
    <3>4. Becomes(p, k)
      BY <3>1 DEF Becomes
    <3> HIDE DEF next
    <3>5. k.pc = next /\ SameTrust(k, proc[p])
      BY <1>1 DEF SameTrust, ProcFields
    <3> HIDE DEF k
    <3>6. PICK j : j = proc[p]
      OBVIOUS
    <3>7. PICK m : m = k
      OBVIOUS
    <3>8. Known(m)
      BY <1>0, <3>2, <3>3, <3>5, <3>6, <3>7, SameKnown
    <3> QED BY <1>0, <3>4, <3>7, <3>8, OneLearns
  <2>2. CASE ~allowed
    BY <1>0, <1>1, <2>2, ExitLearns DEF DropStep
  <2> QED BY <2>1, <2>2
<1>2. CASE SetGroups(p)
  <2> DEFINE after == [proc[p] EXCEPT !.groups = {}]
  <2>1. DropStep(p, "groups", Capable(p), after)
    BY <1>2 DEF SetGroups
  <2>2. DOMAIN after = ProcFields /\ SameTrust(after, proc[p])
    BY <1>0 DEF ProcFields, SameTrust
  <2> HIDE DEF after
  <2> QED BY <1>1, <2>1, <2>2
<1>3. CASE SetGid(p)
  <2> DEFINE after == [proc[p] EXCEPT !.gid = "ola"]
  <2>1. DropStep(p, "gid", Capable(p), after)
    BY <1>3 DEF SetGid
  <2>2. DOMAIN after = ProcFields /\ SameTrust(after, proc[p])
    BY <1>0 DEF ProcFields, SameTrust
  <2> HIDE DEF after
  <2> QED BY <1>1, <2>1, <2>2
<1>4. CASE SetUid(p)
  <2> DEFINE after == [proc[p] EXCEPT !.euid = "ola", !.caps = proc[p].caps \ {"permitted"}]
  <2>1. DropStep(p, "uid", Capable(p), after)
    BY <1>4 DEF SetUid
  <2>2. DOMAIN after = ProcFields /\ SameTrust(after, proc[p])
    BY <1>0 DEF ProcFields, SameTrust
  <2> HIDE DEF after
  <2> QED BY <1>1, <2>1, <2>2
<1>5. CASE ClearCaps(p)
  <2> DEFINE after == [proc[p] EXCEPT !.caps = {}]
  <2>1. DropStep(p, "caps", TRUE, after)
    BY <1>5 DEF ClearCaps
  <2>2. DOMAIN after = ProcFields /\ SameTrust(after, proc[p])
    BY <1>0 DEF ProcFields, SameTrust
  <2> HIDE DEF after
  <2> QED BY <1>1, <2>1, <2>2
<1>6. CASE SetNoNewPrivs(p)
  <2> DEFINE after == [proc[p] EXCEPT !.no_new_privs = TRUE]
  <2>1. DropStep(p, "nnp", TRUE, after)
    BY <1>6 DEF SetNoNewPrivs
  <2>2. DOMAIN after = ProcFields /\ SameTrust(after, proc[p])
    BY <1>0 DEF ProcFields, SameTrust
  <2> HIDE DEF after
  <2> QED BY <1>1, <2>1, <2>2
<1>7. CASE ApplySeccomp(p)
  <2> DEFINE after == [proc[p] EXCEPT !.filter = TRUE]
  <2>1. DropStep(p, "seccomp", proc[p].no_new_privs \/ Capable(p), after)
    BY <1>7 DEF ApplySeccomp
  <2>2. DOMAIN after = ProcFields /\ SameTrust(after, proc[p])
    BY <1>0 DEF ProcFields, SameTrust
  <2> HIDE DEF after
  <2> QED BY <1>1, <2>1, <2>2
<1>8. CASE Regain(p)
  <2>1. DropStep(p, "regain", ~IsRoot(p) /\ ~Capable(p), proc[p]) /\ SameTrust(proc[p], proc[p])
    BY <1>8 DEF Regain, SameTrust
  <2> QED BY <1>0, <1>1, <2>1
<1> QED BY <1>2, <1>3, <1>4, <1>5, <1>6, <1>7, <1>8

\* SIGHUP: files that load replace both, others neither.
LEMMA HangupLearns ==
    ASSUME StageInv, KnownInv, TrustKept, NEW p \in Procs, Hangup(p)
    PROVE  ProcsKnown'
<1>0. ProcsKnown /\ FilesInv /\ DOMAIN proc[p] = ProcFields /\ Known(proc[p])
  BY DEF KnownInv, StageInv, Stage, ProcsKnown
<1>1. CASE Exit(p, "killed") \/ Goto(p, "blocked")
  BY <1>0, <1>1, ExitLearns, GotoLearns
<1>2. CASE ~Exit(p, "killed") /\ ~Goto(p, "blocked")
  <2> DEFINE fresh == Reread(p, LoadAllowlist(p)) = "ok" /\ Reread(p, LoadPolicy(p)) = "ok"
             reopens == /\ May(p, {"openat", "fstat", "getuid", "fchmod", "close"})
                        /\ AppendOpens(files[AuditPath], Owners, Who(p))
             a == IF fresh THEN files[AllowlistPath] ELSE proc[p].allowlist
             o == IF fresh THEN files[PolicyPath] ELSE proc[p].policy
             l == IF reopens THEN AfterAppendOpen(files[AuditPath], Who(p)).text ELSE proc[p].log
             k == [proc[p] EXCEPT !.allowlist = a, !.policy = o, !.log = l]
  <2>1. proc[p].pc = "serving" /\ proc' = [proc EXCEPT ![p].allowlist = a, ![p].policy = o, ![p].log = l]
    BY <1>2 DEF Hangup, Serving, At
  <2>2. fresh => LoadAllowlist(p) = "ok" /\ LoadPolicy(p) = "ok"
    BY DEF Reread
  <2>3. ConfigOK(proc[p]) /\ AdaptersOK(proc[p]) /\ KeysOK(proc[p]) /\ ReloadableOK(proc[p])
    BY <1>0, <2>1 DEF Known, PastConfig, PastAdapters, PastReloadable, PastKeys
  <2>4. /\ Trusted(o, PolicySpec) /\ o.text \in {"v1", "v2"}
        /\ Trusted(a, AllowlistSpec) \/ (~IsProd /\ a = EmptyAllowlist)
        /\ a.text \in {"empty", "v1", "v2", "garbage"} /\ (IsProd => a.text \in {"v1", "v2"})
    <3>1. CASE fresh
      BY <1>0, <2>2, <3>1, LoadedTexts
    <3>2. CASE ~fresh
      <4>1. a = proc[p].allowlist /\ o = proc[p].policy
        BY <3>2
      <4> HIDE DEF a, o, fresh
      <4> QED BY <2>3, <4>1 DEF ReloadableOK
    <3> QED BY <3>1, <3>2
  <2> HIDE DEF a, o, l
  <2>5. Becomes(p, k)
    BY <2>1 DEF Becomes
  <2>6. /\ k.pc = "serving" /\ k.adapters = proc[p].adapters /\ k.why = proc[p].why /\ k.config = proc[p].config
        /\ k.keys = proc[p].keys /\ k.allowlist = a /\ k.policy = o
    BY <1>0, <2>1 DEF ProcFields
  <2> HIDE DEF k
  <2>7. PICK m : m = k
    OBVIOUS
  <2>8. ConfigOK(m) /\ AdaptersOK(m) /\ KeysOK(m) /\ ReloadableOK(m)
    BY <2>3, <2>4, <2>6, <2>7 DEF ConfigOK, AdaptersOK, KeysOK, ReloadableOK
  <2>9. Known(m)
    BY <1>0, <2>4, <2>6, <2>7, <2>8 DEF Known, PastConfig, PastAdapters, PastReloadable, PastKeys
  <2> QED BY <1>0, <2>5, <2>7, <2>9, OneLearns
<1> QED BY <1>1, <1>2

\* The invariant is inductive.
LEMMA KnownNext == StageInv /\ KnownInv /\ [Next]_vars => KnownInv'
<1> SUFFICES ASSUME StageInv, KnownInv, [Next]_vars PROVE KnownInv'
  OBVIOUS
<1>1. FilesInv' /\ TrustKept /\ NodeInv'
  BY FilesNext, NodeNext DEF KnownInv
<1>2. ASSUME NEW p \in Procs, Exec(p) \/ Step(p) \/ Hangup(p) \/ Kill(p) PROVE ProcsKnown'
  BY <1>1, <1>2, ConfigureLearns, LoadAdaptersLearns, LoadReloadableLearns, LoadKeysLearns, LateLearns,
     DropLearns, HangupLearns DEF Step
<1>3. CASE proc' = proc
  <2>1. ASSUME NEW q \in Procs PROVE Known(proc[q])'
    <3>1. PICK j : j = proc[q]
      OBVIOUS
    <3>2. Known(j)'
      BY <1>1, <3>1, KnownStays DEF KnownInv, ProcsKnown
    <3> QED BY <1>3, <3>1, <3>2
  <2> QED BY <1>1, <2>1 DEF ProcsKnown, KnownInv
<1>4. (\E p \in Procs : Exec(p) \/ Step(p) \/ Hangup(p) \/ Kill(p)) \/ proc' = proc
  BY DEF Next, Edit, Rotate, Create, vars
<1> QED BY <1>1, <1>2, <1>3, <1>4 DEF KnownInv

\* The invariant of every start.
LEMMA StartInvariant == FairSpec => [](StageInv /\ KnownInv)
<1>1. Init => StageInv /\ KnownInv
  <2> SUFFICES ASSUME Init PROVE StageInv /\ KnownInv
    OBVIOUS
  <2>1. proc = [p \in Procs |-> Idle]
    BY DEF Init
  <2>2. /\ Idle.pc = "idle" /\ Idle.why = None /\ Idle.adapters = {} /\ Idle.keys = {}
        /\ Idle.allowlist = None /\ Idle.policy = None
    BY DEF Idle
  <2>3. ProcsKnown
    BY <2>1, <2>2 DEF ProcsKnown, Known, PastConfig, PastAdapters, PastReloadable, PastKeys
  <2> QED BY <2>1, <2>3, StageInit, FilesInit DEF KnownInv
<1> QED BY <1>1, StageNext, KnownNext, PTL DEF FairSpec

\* The states of a process, the files and the socket's path are what they can be.
THEOREM StartTypeCorrect == FairSpec => []TypeOK
<1>1. KnownInv => TypeOK
  <2> SUFFICES ASSUME KnownInv PROVE TypeOK
    OBVIOUS
  <2>1. {"groups", "gid", "uid", "regain", "caps", "nnp", "seccomp", "notify"}
          \subseteq {DropOrder[i] : i \in DOMAIN DropOrder}
    <3>1. /\ DropOrder[1] = "groups" /\ DropOrder[2] = "gid" /\ DropOrder[3] = "uid" /\ DropOrder[4] = "regain"
          /\ DropOrder[5] = "caps" /\ DropOrder[6] = "nnp" /\ DropOrder[7] = "seccomp" /\ DropOrder[8] = "notify"
          /\ {1, 2, 3, 4, 5, 6, 7, 8} \subseteq DOMAIN DropOrder
      BY DEF DropOrder
    <3> QED BY <3>1
  <2>2. ASSUME NEW p \in Procs
        PROVE  proc[p].pc \in {"idle", "config", "adapters", "reloadable", "keys", "audit", "parent", "stat", "probe",
                               "unlink", "bind", "listen", "signals", "serving", "blocked", "exit"}
                              \cup {DropOrder[i] : i \in DOMAIN DropOrder}
    <3>1. proc[p].pc \in PastConfig \cup {"idle", "config", "blocked", "exit"}
      BY DEF KnownInv, ProcsKnown, Known
    <3> DEFINE drop == {DropOrder[i] : i \in DOMAIN DropOrder}
    <3> HIDE DEF drop
    <3>2. {"groups", "gid", "uid", "regain", "caps", "nnp", "seccomp", "notify"} \subseteq drop
      BY <2>1 DEF drop
    <3>3. proc[p].pc \in {"idle", "config", "adapters", "reloadable", "keys", "audit", "parent", "stat", "probe",
                          "unlink", "bind", "listen", "signals", "serving", "blocked", "exit"} \cup drop
      BY <3>1, <3>2 DEF PastConfig, PastAdapters, PastReloadable, PastKeys
    <3> QED BY <3>3 DEF drop
  <2>3. ASSUME NEW p \in Procs
        PROVE  /\ proc[p].why \in {None, "error", "taken", "killed"}
               /\ proc[p].adapters \subseteq Adapters /\ proc[p].keys \subseteq Adapters
               /\ proc[p].allowlist = None \/ proc[p].allowlist.text \in {"empty", "v1", "v2", "garbage"}
               /\ proc[p].policy = None \/ proc[p].policy.text \in {"v1", "v2"}
    BY DEF KnownInv, ProcsKnown, Known
  <2> QED BY <2>2, <2>3 DEF TypeOK, KnownInv, FilesInv, NodeInv
<1> QED BY <1>1, StartInvariant, PTL

\* However it was started and whatever the files are, a process that has come out
\* of drop_privileges_completely is confined, and reloads give nothing back; in
\* production it is the service's user, since it has read a key.
THEOREM ServingIsConfined == FairSpec => []ServesConfined
<1>1. StageInv /\ KnownInv => ServesConfined
  <2> SUFFICES ASSUME StageInv, KnownInv, NEW p \in Procs, proc[p].pc \in {"signals", "serving"}
               PROVE  /\ proc[p].no_new_privs /\ proc[p].filter
                      /\ env.by = "root" => proc[p].gid = "ola" /\ proc[p].groups = {} /\ proc[p].caps = {}
                      /\ env.by = "root" \/ IsProd => proc[p].euid = "ola"
    BY DEF ServesConfined
  <2>1. Dropped(proc[p]) /\ proc[p].no_new_privs /\ proc[p].filter
    BY DEF StageInv, Stage
  <2>2. IsProd => env.by \in {"root", "ola"}
    <3>1. KeysOK(proc[p])
      BY DEF KnownInv, ProcsKnown, Known, PastKeys
    <3> QED BY <3>1 DEF KeysOK, KnownInv, FilesInv
  <2> QED BY <2>1, <2>2 DEF Dropped, Plain
<1> QED BY <1>1, StartInvariant, PTL

\* However many processes start, whatever is wrong with a file, and whatever the
\* operator replaces meanwhile, a daemon that serves holds only what its checks
\* let through; in production nothing was passed over.
THEOREM StartFailsClosed == FairSpec => []FailsClosed
<1>1. KnownInv => FailsClosed
  <2> SUFFICES ASSUME KnownInv, NEW p \in Procs, Serving(p)
               PROVE  /\ proc[p].adapters \subseteq {files[Toml(a)].text.name : a \in TrustedAdapters}
                      /\ \A a \in proc[p].keys : Trusted(files[Key(a)], KeySpec)
                      /\ env.attest => proc[p].adapters \subseteq proc[p].keys
                      /\ Trusted(proc[p].policy, PolicySpec) /\ proc[p].policy.text # "garbage"
                      /\ Trusted(proc[p].allowlist, AllowlistSpec)
                           \/ (~IsProd /\ proc[p].allowlist = EmptyAllowlist)
                      /\ proc[p].config.idle > 0 /\ proc[p].config.age <= MAX_RESULT_AGE_SECS_UPPER_BOUND
                      /\ IsProd =>
                           /\ env.attest /\ proc[p].allowlist.text \in {"v1", "v2"}
                           /\ proc[p].adapters # {}
                           /\ \A a \in Adapters : files[Toml(a)].kind # "none"
                                                    => files[Toml(a)].text.name \in proc[p].adapters
    BY DEF FailsClosed, TrustedAdapters
  <2>1. Known(proc[p]) /\ proc[p].pc = "serving"
    BY DEF KnownInv, ProcsKnown, Serving, At
  <2>2. ConfigOK(proc[p]) /\ AdaptersOK(proc[p]) /\ KeysOK(proc[p]) /\ ReloadableOK(proc[p])
    BY <2>1 DEF Known, PastConfig, PastAdapters, PastReloadable, PastKeys
  <2>3. proc[p].policy.text # "garbage"
    BY <2>2 DEF ReloadableOK
  <2> QED BY <2>2, <2>3 DEF ConfigOK, AdaptersOK, KeysOK, ReloadableOK
<1> QED BY <1>1, StartInvariant, PTL

\* What the service can read and trusts, it loads, and the filter lets it.
LEMMA ServiceLoads ==
    ASSUME NEW path, NEW spec, NEW who, ServiceReads(path, spec), files[path].group = Account,
           who.euid = Account, Account \in who.groups, spec.modes = {"0600", "0640"}
    PROVE  ReadSecure(files[path], spec, Owners, who) = "ok"
<1> USE DEF ServiceReads, Trusted
<1>1. MayRead(files[path], who)
  <2>1. files[path].mode \in {"0600", "0640"}
    OBVIOUS
  <2> QED BY <2>1 DEF MayRead, GroupReadable
<1>2. OpenSecureRead(files[path], who) = "ok"
  BY <1>1 DEF OpenSecureRead
<1>3. files[path].size \in spec.min..spec.max /\ files[path].last \in spec.min..spec.max
  <2> DEFINE span == spec.min..spec.max
  <2> HIDE DEF span
  <2>1. {files[path].size, files[path].last} \subseteq span
    BY DEF span
  <2>2. files[path].size \in span /\ files[path].last \in span
    BY <2>1
  <2> QED BY <2>2 DEF span
<1> QED BY <1>2, <1>3 DEF ReadSecure, ValidateOpenFile, Owners, RootOr

\* A log that is missing is made, one of the user's own is opened.
LEMMA LogOpens ==
    ASSUME NEW file, NEW who, NEW owners, who.euid \in owners,
           file.kind = "none" \/ (file.kind = "regular" /\ file.owner = who.euid /\ file.mode = "0640"),
           DOMAIN file = FileFields
    PROVE  /\ AppendOpens(file, owners, who)
           /\ AfterAppendOpen(file, who).kind = "regular" /\ AfterAppendOpen(file, who).mode = "0640"
<1>1. CASE file.kind = "none"
  <2> DEFINE c == Created(who)
  <2>1. DOMAIN c = FileFields /\ c.kind = "regular"
    BY DEF Created, FileFields
  <2>2. AfterAppendOpen(file, who) = [c EXCEPT !.mode = "0640"]
    BY <1>1 DEF AfterAppendOpen
  <2> HIDE DEF c
  <2> QED BY <1>1, <2>1, <2>2 DEF AppendOpens, FileFields
<1>2. CASE file.kind # "none"
  <2>1. AfterAppendOpen(file, who) = [file EXCEPT !.mode = "0640"]
    BY <1>2 DEF AfterAppendOpen
  <2>2. AppendOpens(file, owners, who)
    BY <1>2 DEF AppendOpens, MayWrite, MayRead
  <2> QED BY <1>2, <2>1, <2>2 DEF FileFields
<1> QED BY <1>1, <1>2

\* Who serves is the daemon's user, in the group that the files are for.
LEMMA ServesAsAccount ==
    ASSUME StageInv, KnownInv, NEW p \in Procs, Serving(p)
    PROVE  Who(p).euid = Account /\ Account \in Who(p).groups
<1>1. Dropped(proc[p]) /\ KeysOK(proc[p])
  BY DEF StageInv, Stage, KnownInv, ProcsKnown, Known, PastKeys, Serving, At
<1>2. env.by \in {"root", "ola", "user"}
  BY DEF KnownInv, FilesInv
<1>3. proc[p].euid = Account /\ proc[p].gid = Account
  BY <1>1, <1>2 DEF Dropped, Plain, KeysOK, Account
<1> QED BY <1>3 DEF Who

\* SIGHUP while serving: both files or neither; both, if the service can read
\* them; and the log is the one at the path.
LEMMA HangupStep ==
    ASSUME StageInv, KnownInv, NEW p \in Procs, Serving(p), Hangup(p), proc'[p].pc # "blocked"
    PROVE  LET old == <<proc[p].allowlist, proc[p].policy>>
               new == <<files[AllowlistPath], files[PolicyPath]>>
               now == <<proc'[p].allowlist, proc'[p].policy>> IN
           /\ now \in {old, new}
           /\ ServiceReads(AllowlistPath, AllowlistSpec) /\ ServiceReads(PolicyPath, PolicySpec) => now = new
           /\ ServiceLogs => /\ proc'[p].log = files'[AuditPath].text
                             /\ files'[AuditPath].kind = "regular" /\ files'[AuditPath].mode = "0640"
<1> DEFINE fresh == Reread(p, LoadAllowlist(p)) = "ok" /\ Reread(p, LoadPolicy(p)) = "ok"
           reopens == /\ May(p, {"openat", "fstat", "getuid", "fchmod", "close"})
                      /\ AppendOpens(files[AuditPath], Owners, Who(p))
           f == AfterAppendOpen(files[AuditPath], Who(p))
           a == IF fresh THEN files[AllowlistPath] ELSE proc[p].allowlist
           o == IF fresh THEN files[PolicyPath] ELSE proc[p].policy
           l == IF reopens THEN f.text ELSE proc[p].log
           k == [proc[p] EXCEPT !.allowlist = a, !.policy = o, !.log = l]
<1>1. DOMAIN proc = Procs /\ DOMAIN proc[p] = ProcFields /\ proc[p].pc = "serving"
  BY DEF StageInv, Stage, Serving, At
<1>2. PICK who : who = Who(p) /\ who.euid = Account /\ Account \in who.groups
  BY ServesAsAccount
<1>3. ~Goto(p, "blocked")
  BY <1>1 DEF Goto, ProcFields
<1>4. /\ proc' = [proc EXCEPT ![p].allowlist = a, ![p].policy = o, ![p].log = l]
      /\ files' = IF reopens THEN [files EXCEPT ![AuditPath] = f] ELSE files
  BY <1>3 DEF Hangup
<1>5. May(p, {"openat", "fstat", "getuid", "read", "close"}) /\ May(p, {"openat", "fstat", "getuid", "fchmod", "close"})
  BY DEF May, Allowed
<1>6. ServiceReads(AllowlistPath, AllowlistSpec) /\ ServiceReads(PolicyPath, PolicySpec) => fresh
  <2>1. AllowlistSpec.modes = {"0600", "0640"} /\ PolicySpec.modes = {"0600", "0640"}
    BY DEF AllowlistSpec, PolicySpec, FileSpec
  <2>2. files[AllowlistPath].group = Account /\ files[PolicyPath].group = Account
    BY DEF KnownInv, FilesInv
  <2>3. ServiceReads(AllowlistPath, AllowlistSpec) => LoadAllowlist(p) = "ok"
    BY <1>2, <2>1, <2>2, ServiceLoads DEF LoadAllowlist, ServiceReads
  <2>4. ServiceReads(PolicyPath, PolicySpec) => LoadPolicy(p) = "ok"
    BY <1>2, <2>1, <2>2, ServiceLoads DEF LoadPolicy, ServiceReads
  <2> QED BY <1>5, <2>3, <2>4 DEF Reread
<1>7. (a = proc[p].allowlist /\ o = proc[p].policy) \/ (fresh /\ a = files[AllowlistPath] /\ o = files[PolicyPath])
  OBVIOUS
<1>8. fresh => a = files[AllowlistPath] /\ o = files[PolicyPath]
  OBVIOUS
<1>9. ServiceLogs => reopens /\ f.kind = "regular" /\ f.mode = "0640"
  <2>1. PICK file, owners : file = files[AuditPath] /\ owners = Owners
    OBVIOUS
  <2>2. Account \in owners
    BY <2>1 DEF Owners, RootOr
  <2>3. DOMAIN file = FileFields
    BY <2>1 DEF KnownInv, FilesInv
  <2> QED BY <1>2, <1>5, <2>1, <2>2, <2>3, LogOpens DEF ServiceLogs
<1>10. ServiceLogs => /\ l = files'[AuditPath].text
                      /\ files'[AuditPath].kind = "regular" /\ files'[AuditPath].mode = "0640"
  <2>1. AuditPath \in DOMAIN files
    BY DEF KnownInv, FilesInv, Paths
  <2> HIDE DEF f, reopens
  <2>2. ServiceLogs => files'[AuditPath] = f /\ l = f.text
    BY <1>4, <1>9, <2>1
  <2> QED BY <1>9, <2>2
<1> HIDE DEF a, o, l, fresh
<1>11. proc'[p] = k
  BY <1>1, <1>4
<1>12. k.allowlist = a /\ k.policy = o /\ k.log = l
  BY <1>1 DEF ProcFields
<1> HIDE DEF k
<1> QED BY <1>6, <1>7, <1>8, <1>10, <1>11, <1>12

\* A reload after privileges are gone and the filter is on does what the operator
\* and logrotate ask, for every number of processes, adapters, edits and signals.
THEOREM ReloadIsHonoured == FairSpec => HangupHonoured
<1>1. StageInv /\ KnownInv /\ [Next]_vars =>
        [count'.hups # count.hups => \A p \in Procs : Serving(p) /\ Hangup(p) /\ proc'[p].pc # "blocked" =>
          LET old == <<proc[p].allowlist, proc[p].policy>>
              new == <<files[AllowlistPath], files[PolicyPath]>>
              now == <<proc'[p].allowlist, proc'[p].policy>> IN
          /\ now \in {old, new}
          /\ ServiceReads(AllowlistPath, AllowlistSpec) /\ ServiceReads(PolicyPath, PolicySpec) => now = new
          /\ ServiceLogs => /\ proc'[p].log = files'[AuditPath].text
                            /\ files'[AuditPath].kind = "regular" /\ files'[AuditPath].mode = "0640"]_vars
  BY HangupStep
<1> QED BY <1>1, StartInvariant, PTL DEF FairSpec, HangupHonoured
=============================================================================
