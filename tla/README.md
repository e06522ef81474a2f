# TLA+ specification of ola-core

`ola-core` is a local authentication daemon. A client sends `verify_once` over a Unix socket; the
daemon issues a single-use nonce, sends it to an out-of-process adapter, checks the adapter's reply,
lets a policy decide, writes the decision to a hash-chained audit log and only then answers. This
directory models that path, the PAM module and the adapter at its two ends, and the start of the daemon.
TLC checks the models on small instances; TLAPS proves every safety property of them for all instances.

## The system's parts

| part | code (`src/crates/ola-core/src/` unless it starts with a crate) | state | operations |
|---|---|---|---|
| nonce store | `security/nonce.rs` | pending nonces with time and user, counts for each user | `generate`, `consume`, sweep task |
| audit log | `infrastructure/audit/` | open file, `prev_hash`; the files on disk | `open`, `log`, `reopen`; the offline verifier |
| adapters | `adapters/` | health map, one permit for each adapter | resolve, dispatch, the monitor's probes |
| policy | `core/policy/` | sorted rules | load, `evaluate` |
| request handler | `infrastructure/ipc/unix_socket.rs` | one task for each connection, the reloadable snapshot | `handle_client`, `handle_verify_once`, `reload_state` |
| main loop | `run_server` in the same file | connection permits, client tasks, signals | select loop, drain, abort |
| rate limiter | `security/rate_limit.rs` | a window and a count for each user | `check`, cleanup task |
| start | `main.rs`, `config.rs`, `infrastructure/ipc/socket_setup.rs`, `security/privilege.rs`, `seccomp.rs`, `systemd.rs`, the loaders | credentials, configuration, listening socket, seccomp filter | load, bind, drop, filter, announce, reload |
| trust files | `security/fs.rs` | kind, size, mode and owner of a file | secure read, append open |
| PAM module | `pam-ola/src/` | a descriptor, the bytes read so far, the deadline | `pam_sm_authenticate` |
| demo adapter | `ola-adapter-demo-fido2/src/main.rs` | the connection it serves | accept loop, sign |

The request handler is where they meet. A task takes one snapshot of allowlist and policy, asks the
store for a nonce, dispatches to the adapter, consumes the nonce whatever the outcome, decides, logs
and answers. Meanwhile other tasks do the same, the sweep and the health monitor run, SIGHUP swaps the
snapshot and reopens the log, logrotate renames the file, and a shutdown aborts tasks at their awaits.
Outside the daemon, the PAM module waits for the response with a timeout of its own and may be gone when
it comes, and the adapter serves one connection at a time, those the daemon has given up included.

## Modules

| module | models | used through |
|---|---|---|
| `NonceStore` | the store, step by step | refines `NonceLedger` |
| `NonceLedger` | what the store promises: issue, honour at most once, discard | instanced by `VerifyOnce` |
| `AuditLog` | logger, recovery, verifier, logrotate, disk faults, kill and power loss | refines `AuditLedger` |
| `AuditLedger` | what the log promises: records stay, only recorded decisions are returned | instanced by `VerifyOnce` |
| `AdapterRegistry` | resolution, health, permit queue, dispatch, monitor | |
| `Policy`, `PolicyEngine` | parser and evaluator as operators; an engine that loads and decides | `Policy` extended by `VerifyOnce` |
| `VerifyOnce` | the request path of several connections, composed of the above | |
| `RateLimiter` | budget windows and the table's cap | |
| `Server` | signals, accept loop, permits, drain | |
| `PamBridge` | `pam_sm_authenticate` between system calls: arguments, user lookup, connect, send, read | extended by `Login` |
| `DemoAdapter` | the adapter's loop and the daemon's end of a connection to it; signing and verification | extended by `Login` |
| `Login` | PAM module, a daemon that may be killed at any point, adapter: a login from end to end | |
| `SecureFile` | the readers of trust files and the append log, as operators | extended by `Startup` |
| `Startup` | two processes from exec to the accept loop, on a system that may have a flaw; SIGHUP under seccomp | |
| `*Proofs` | theorems and proofs about the module of that name; `GateProofs` about `Server` and `RateLimiter` | |
| `MC*` | constants and symmetry for TLC | |

In `Login` the daemon decides about the subject of a call. A process of root is believed about whom it asks
for; for any other process `request_uid` takes the uid of its peer credentials instead, whatever user PAM
named (`PROTOCOL.md:99`). `ReturnsWhatIsRecorded` and `AllowsRestOnEvidence` are about that subject: what a
process that is not root's is told says nothing of another user.

In `PamBridge` a raw descriptor (`fd`) and one that a `UnixStream` owns (`stream`) are told apart. Each of the
seven `close_fd` calls of `unix_connect.rs` is an action of its own, and dropping the stream is the last step
of the call. `HoldsOwnFd` says that none of them closes what another holds, and that none is forgotten.

`Startup` is started by root, by the service user or, outside production, by anybody; only root's start drops
anything (`privilege.rs:64`), and the owners a file may have depend on it (`secure_owner_policy`). Production
refuses an account that is not the service's by the owners of its files. logrotate moves the log away
(`Rotate`) and makes a new one, owned by the service (`Create`), before it sends SIGHUP; a SIGHUP from
elsewhere may come between the two.

An action is one critical section or the code between two awaits. Where code reads a clock before it
takes a lock (the sweep, `check`), the reading is a step of its own. Where nothing locks two pieces of
state together (health map and permit), check and use are separate steps. Each module's header lists
its abstractions; the ones that matter most:

- a hash is the sequence of entries it commits to (SHA-256 is taken as injective), an HMAC is one bit;
- a confidence is an integer in `0..ONE`, times keep a width (`U64_MAX`) where the code multiplies;
- variables marked "observation only" are read by properties, never by guards;
- a response line is two pieces and a newline, so that the PAM module can get it in parts;
- the text of a configuration file is a token, its kind, sizes, mode and owner are explicit;
- a successful sync makes the whole file durable; renames and creations are durable at once.

## Runs

| run | checks | states |
|---|---|---|
| `NonceStore` | counts, limits, timely removal, eventual removal, refinement of `NonceLedger` | 76,250 |
| `AuditLog_faults` | under every fault: acknowledged decisions are durable, a failed call spoils at most one line | 113,838 |
| `AuditLog_chain` | chained files, an unrotated log verifies, refinement of `AuditLedger` | 20,717 |
| `AdapterRegistry` | permits, routing, every request ends, an adapter that answers becomes routable | 43,672 |
| `PolicyEngine_decisions` | decisions against an order-free meaning of a rule file | 22,126 |
| `VerifyOnce` | justified grants, one grant per nonce, recorded replies, no nonce left, every request is answered | 409,206 |
| `RateLimiter` | the table's cap, at most twice the budget in any window | 56,066 |
| `Server` | permits, shutdown ends, signals and connections served, finished tasks joined | 852 |
| `Login` | descriptors, PAM is told what is on record, allows rest on evidence, calls and connections end | 151,922 |
| `Startup` | a daemon serves only with trusted files and confined, a sound system comes up and stays reachable, a reload works under seccomp and takes both files or neither | 332,078 |
| `AuditLog_sync`, `Startup_mode` | violated: see below | |

Bounds. Two of a kind make every race between peers possible, and a third user, client or entry is
there where a queue, a table's cap or a chain needs one. Nonce values may repeat (`MaxIssued = 2`), so
a reissue meets a late consume. The clocks run past every limit (`MaxClock` is at least the time to
live, window or stale age, plus one). Two rotations and two or three failures allow a rotation between
two crashes. In the policy run a second has 2 ms and a u64 ends at 15, so that the age window overflows.
`Login` has two calls of one PAM process in a row, the first as root and the second as another user: the
first gives up and leaves the daemon and the adapter at work on it while the second runs. There are two
descriptors, so that one that leaks stays visible beside the next. The buffer for the password entry doubles from 1 to a
limit of 3, so that it grows and is given up. `Startup` has two processes, one kill,
one SIGHUP, and at most one flaw out of some eighty in environment, files and socket directory, so that
each check has to catch its flaw alone. Two edits (`MaxEdits = 2`) let a good new file meet a bad one in one
reload, or a rotation of the log; a system that is not as installed at boot has used up an edit for each
deviation.

What these bounds leave to the proofs. `AdapterRegistry` has two requests, so a permit's queue holds at
most one waiter and is never reordered; `PermitAccounted` is proved for any number. In `NonceStore` two
users with one nonce each fill the store exactly, so the global limit never refuses a nonce that the
limit per user allows; `WithinLimits` is proved for any limits. `AuditLog_chain` checks the refinement
without failed syncs; the theorem includes them. `VerifyOnce` has two requests in all, on one connection
or on two, root's and a user's; its four invariants are proved for any number. `Login` has two
descriptors and one configuration of the adapter; its safety properties are proved for any. A log of the
runs has four entries at most and a policy file three rules; that the verifier accepts the log and
that the order of the rules is irrelevant is proved for any length.

Fairness. The sweep and the monitor are timer loops; a dispatch has a deadline and a log call ends
when the disk answers, so their steps are weakly fair. `select!` polls its arms in random order, so an
arm that is ready again and again is taken: strong fairness in `Server`. In `Login` the thread that
called PAM, the daemon's end of an adapter connection, its deadline and the adapter's loop are each
weakly fair; the daemon's task is not, since the daemon may be dead. That every call returns thus rests
on the PAM module's own timeouts, and that the adapter comes free on the daemon dropping its end.
In `Startup` only the processes together are fair: a start has no loop that waits for another process.
No client is assumed to leave or to read its response, and no adapter to answer. `SignalsServed` and
`ServedInTurn` therefore have the premise that permits come free again and again: with all permits held,
the accept arm waits and signals wait with it. `FinishedAreJoined` has the premise that clients hang up. Deadlock is not checked where the instance really stops:
the audit log's entries are used up, the connections' requests are used up, or the daemon has returned,
exited or settled with no operator left to act.

`RateLimiter` assumes that no thread waits for the mutex as long as `STALE_AFTER - RATE_WINDOW` (59 s).

## Where documents and code differ

Two have a run whose counterexample shows it:

- `AuditLog_sync`: after a failed sync the line is in the file but `prev_hash` stays
  (`PROTOCOL.md:286`: "`prev_hash` is the previous line's `entry_hash`").
- `Startup_mode`: `fchmod` and `fchown` on the descriptor of a bound Unix socket change the socket, not
  the node in the file system that clients connect to, which keeps the 0700 of the umask
  (`socket_setup.rs:48`: "fd targets the bound socket inode"). It concerns a daemon that binds its socket
  itself; under socket activation systemd sets the mode. That Linux behaves so is part of the model
  (`Startup`, header), not of the code.

Met while modelling, without a run of their own:

- A short write leaves a fragment, and the next acknowledged line is glued to it (`logger.rs:18`: "The
  mutex keeps each JSON line whole"). Hence the premise "without short writes" of three theorems;
  `ShortWriteCostsOne` bounds the damage.
- Health is checked before the wait for the permit, so an adapter that goes Down meanwhile still gets the
  request (`PROTOCOL.md:148`: Down adapters "do not receive verification requests"). `RoutedAfterProbe`
  states what does hold, that the adapter has answered a probe once; it says nothing of its health now.
- After a rotation the new file starts with the old file's hash while the verifier starts at zeroes,
  hence the premise `rotations = 0` of `UnrotatedVerifies`.
- A torn last line keeps the daemon from starting although `PROTOCOL.md:290` speaks of the last complete
  line; the theorem `AcknowledgedIsWhole` rests on this refusal.
- A nonce the sweep removed is reported as not found, which the comment at `nonce.rs:98` does not mention.
- A SIGHUP before its handler is installed ends the process, even when READY=1 has been sent, and a FIFO
  in the place of a trust file blocks its reader; `SoundStarts` and `HangupHonoured` except these two.

## Proofs

TLAPS checks these for every value of the constants, from the modules' named assumptions.

| module | theorems | inductive invariant |
|---|---|---|
| `NonceStoreProofs` | type, exact counts, limits, single use, timely removal, refinement of `NonceLedger` | the counts are cardinalities of the pending sets, and what was honoured is at most what was issued less what is pending |
| `AuditLogProofs` | type, durability, whole lines, chained files, an unrotated log verifies, the cost of short writes, refinement of `AuditLedger` without short writes | the entry being written is the last line of the open file and was built on `prev_hash`; otherwise `prev_hash` is the hash of that file's last line. Until a rotation there is one file, and its first line is on the zero hash (`OneChain`). Every unreadable acknowledged line, and the fragment that may yet make one, has a failed call of its own (`CostInv`) |
| `AdapterRegistryProofs` | type, permits, routing, health arrows | the health record's fields agree, and a queue holds exactly the requests that wait |
| `GateProofs` (`Server`, `RateLimiter`) | type, exact permits; the table's cap, at most twice the budget in any window | a connection that waits has no task yet. The table is finite and its entries are of the past; a tracked user's window has let through no more than it counted, the time before it no more than a budget; an untracked user may start a window with any reading still to come |
| `PolicyEngineProofs` | decisions are permitted and independent of the order | the engine holds the sorted rules of a file the parser accepted, and the last answer came from them |
| `VerifyOnceProofs` | justified grants, recorded replies, one grant per nonce, no nonce left; the contracts of store and log are kept; who is told allow is permitted it | for the request a task is at work on: its caller was admitted by the snapshot it holds; nothing is in the log before the log call ends, and then just its decision; nothing has been told; it has a grant exactly if its outcome is allow. All ledgers speak of received requests only, so a new request finds them empty. A request at work has a number within the bound, a snapshot that was loaded (hence a file the parser accepts), and a user and a nonce the store knows (`WorkInv`) |
| `LoginProofs` | type with its bounds, owned descriptors, PAM is told the record, allows have evidence | a descriptor is open exactly if one call holds it, as a number or in a stream, and never in both ways. For each call: nothing is recorded, under way or read before the log call ends; every piece of a response on its way or read is backed by the record; what the adapter has signed for a call is for that call's subject, method and nonce and was in time, and so is the evidence of every allow. For the type: what has been read, what is on its way and what is yet to be sent make at most one line, whose third piece is the newline |
| `StartupProofs` | type, a daemon that serves is confined and has loaded only what it may trust, a reload works under seccomp | what a process has given up, by how far the drop has come, and what it has checked, by how far the loading has come; what policy and allowlist hold was read from a file that could be trusted then, at the start or at a reload; no adapter or key file changes afterwards. In production every adapter has a key only root and the service user can own, so a start by another user does not get past the keys. That there is at most one flaw plays no part |

In each, one step or lemma for each action shows that the invariant is preserved, and the theorems
follow from it. The action properties and refinements use the invariant in the step. `VerifyOnceProofs`
first treats what a step leaves alone (`RequestFrame`, `RepliesFrame`), so that an action's lemma is about
the one request it touches. The types of store, log, registry and main loop, single use, whole lines and the health
arrows are proved, and no run repeats them.

Four arguments are not invariants alone:

- `evaluate` takes the first match of the sorted rules. A rule's place is its rank (`Place`), which is a
  bijection, so the sorted list holds each rule once. The parser accepts one rule per method and one
  wildcard, so one rule decides, wherever it stands (`OneSpeaker`, `SpeakerDecides`, `NoSpeaker`). The
  meaning it is compared with knows no order and no width of integers.
- `ToldAllowIsPermitted` joins the request path to that meaning: from the reply to the log, to the grant,
  to the snapshot of the request, to the rule in the file. No run states it; it follows from invariants
  that the `VerifyOnce` run checks and from the lemmas on the policy.
- `RequestsKeepContracts` closes the composition. The store implements `NonceLedger` and, without short
  writes, the log implements `AuditLedger`; the request path is written against these two and is shown to
  take no step with them that they do not promise.
- `RateBound` counts. A span of a window length meets two windows of a user at most; a pass is a record
  of its own in `passes`, so each of the two contributes at most a budget.

Assumptions. Each module names what it takes of its constants. Those the proofs rest on beyond "limits are
natural numbers": timestamps, ages and clock readings are natural numbers and flags are Boolean, as their
Rust types say, and a confidence is an integer, as above (`PolicyAssumption`, `EngineAssumption`,
`VerifyOnceAssumption`); the connections are finitely many, as their permits are, and a reload installs only
files the parser accepts (`VerifyOnceAssumption`); PAM's argument lists are finite sequences, and the default
timeout and the first buffer are within their limits (`PamBridgeAssumption`); the wait for the mutex is short
(`RateLimiterAssumption`, see above).

Only model-checked: the liveness properties (`EventuallyRemoved`, `RequestsEnd`, `AnsweringIsRoutable`,
`ComesToResponse`, `ShutdownEnds`, `SignalsServed`, `ServedInTurn`, `CallReturns`, `AdapterServes`,
`FinishedAreJoined`, `SoundStarts`, `OneReachable`). They rest on fairness, which is beyond this prover.

## Not modelled

- Metrics: relaxed counters that are only logged; no decision reads them. (The gauge of active
  connections is not restored by an aborted task.)
- The watchdog task sends a datagram on a timer and reads no state of the daemon.
- The start of the demo adapter (arguments, key file, stale socket) is the daemon's with fewer checks; its
  answer to a ping has no state.
- The entry points of the PAM module other than `pam_sm_authenticate` return `PAM_IGNORE`.
- The `audit-verify` command is I/O around `VerifyReader` of `AuditLog`.
- The Python client: the models let clients send any request at any time.
- HMAC and SHA-256 are taken as ideal; JSON and TOML appear by their outcomes.
- Two flaws at once at start, and failures of the machine there (no memory, no descriptors).

## Plan

1. Compose `RateLimiter` and `Server` with `VerifyOnce` where a property needs it.
2. Show that `Login`'s daemon is an abstraction of `VerifyOnce` by refinement; at present it repeats its
   control with one request for each connection.
3. Proofs: the safety part of `OneReachable` (a start that loses leaves the winner's socket alone).
