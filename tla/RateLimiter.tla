------------------------------ MODULE RateLimiter ------------------------------
(***************************************************************************)
(* The per-user request budget of ola-core (security/rate_limit.rs).       *)
(*                                                                         *)
(* Client tasks call check, a background task removes stale entries.  Both *)
(* read the clock BEFORE they take the mutex, so each is two steps, and    *)
(* readings may reach the table out of order; but a thread waits for the   *)
(* mutex no longer than MaxDelay (the lock is held for one pass over the   *)
(* table, and a wait near STALE_AFTER would let cleanup drop an entry that *)
(* the reading still falls into).                                          *)
(*                                                                         *)
(* Abstractions: Instant is a natural number of ticks; a count stops at    *)
(* MAX_PER_SEC + 1, which is all the code tells apart (its own saturation, *)
(* at 2^32 - 1, is further out).  The mutex is never poisoned.             *)
(***************************************************************************)
EXTENDS Naturals, FiniteSets

CONSTANTS
    Uids,              \* peer users
    Tasks,             \* client tasks that may be inside check at a time
    MAX_PER_SEC,       \* RATE_LIMIT_PER_UID, 100 in the code
    RATE_WINDOW,       \* in ticks; 1 s in the code
    STALE_AFTER,       \* in ticks; 60 s in the code
    MAX_TRACKED_UIDS,  \* 4096 in the code
    MaxDelay,          \* ticks between reading the clock and locking, at most
    MaxClock           \* bound: the clock stops here

ASSUME RateLimiterAssumption ==
    /\ MAX_PER_SEC \in Nat \ {0} /\ MAX_TRACKED_UIDS \in Nat \ {0}
    /\ RATE_WINDOW \in Nat /\ STALE_AFTER \in Nat /\ MaxDelay \in Nat
    /\ RATE_WINDOW + MaxDelay < STALE_AFTER
    /\ MaxClock \in Nat

VARIABLES
    clock,    \* Instant::now()
    limits,   \* uid -> RateEntry, for the tracked users
    check,    \* task -> outside, or inside check with its user and its `now`
    cleanup,  \* the cleanup task: asleep, or about to lock with its `now`
    passes    \* observation only: the checks that passed, numbered, with the time
              \* they were counted at: their reading, or the start of their user's
              \* window where that is newer

limiterVars == <<clock, limits, check, cleanup, passes>>

Outside == [in |-> FALSE]
Asleep == [awake |-> FALSE]

\* Instant::duration_since saturates at zero.
DurationSince(t, earlier) == IF t >= earlier THEN t - earlier ELSE 0

Later(t, s) == IF t >= s THEN t ELSE s

\* Mutant: an entry is kept no longer than its window.
RetainWindow(m, now) ==
    [u \in {v \in DOMAIN m : DurationSince(now, m[v].last_reset) < RATE_WINDOW} |-> m[u]]

\* cleanup_stale_locked
CleanupStaleLocked(m, now) ==
    [u \in {v \in DOMAIN m : DurationSince(now, m[v].last_reset) < STALE_AFTER} |-> m[u]]

-----------------------------------------------------------------------------

LimiterInit ==
    /\ clock = 0
    /\ limits = [u \in {} |-> Outside]
    /\ check = [t \in Tasks |-> Outside]
    /\ cleanup = Asleep
    /\ passes = {}

Tick ==
    /\ clock < MaxClock
    /\ \A t \in Tasks : check[t].in => clock < check[t].now + MaxDelay
    /\ cleanup.awake => clock < cleanup.now + MaxDelay
    /\ clock' = clock + 1
    /\ UNCHANGED <<limits, check, cleanup, passes>>

\* check reads the clock ...
CheckRead(t, u) ==
    /\ check[t] = Outside
    /\ check' = [check EXCEPT ![t] = [in |-> TRUE, uid |-> u, now |-> clock]]
    /\ UNCHANGED <<clock, limits, cleanup, passes>>

\* Mutant: the cleanup is taken to have made room.
MakeRoomOptimistic(u, now) ==
    [full |-> FALSE,
     map  |-> IF u \notin DOMAIN limits /\ Cardinality(DOMAIN limits) >= MAX_TRACKED_UIDS
              THEN CleanupStaleLocked(limits, now) ELSE limits]

\* A new user in a full table: clean up first, and give up if it is still full.
MakeRoom(u, now) ==
    LET needed  == u \notin DOMAIN limits /\ Cardinality(DOMAIN limits) >= MAX_TRACKED_UIDS
        cleaned == CleanupStaleLocked(limits, now)
    IN  [full |-> needed /\ Cardinality(DOMAIN cleaned) >= MAX_TRACKED_UIDS,
         map  |-> IF needed THEN cleaned ELSE limits]

\* The user's entry after this check: a new one, a restarted window, or one more.
Counted(m, u, now) ==
    LET e == IF u \in DOMAIN m /\ DurationSince(now, m[u].last_reset) <= RATE_WINDOW
             THEN m[u] ELSE [last_reset |-> now, count |-> 0]
    IN  [e EXCEPT !.count = IF @ <= MAX_PER_SEC THEN @ + 1 ELSE @]

\* ... and does the rest under the lock.
CheckLocked(t) ==
    LET u == check[t].uid  now == check[t].now  room == MakeRoom(u, now)
        entry == Counted(room.map, u, now)
        at == Later(now, entry.last_reset)
        nth == Cardinality({p \in passes : p.uid = u /\ p.at = at}) + 1 IN
    /\ check[t].in
    /\ check' = [check EXCEPT ![t] = Outside]
    /\ limits' = IF room.full THEN room.map
                 ELSE [v \in DOMAIN room.map \cup {u} |-> IF v = u THEN entry ELSE room.map[v]]
    /\ passes' = IF ~room.full /\ entry.count <= MAX_PER_SEC
                 THEN passes \cup {[uid |-> u, at |-> at, nth |-> nth]} ELSE passes
    /\ UNCHANGED <<clock, cleanup>>

\* cleanup_stale, every STALE_AFTER: reads the clock, then locks.
CleanupRead ==
    /\ cleanup = Asleep
    /\ cleanup' = [awake |-> TRUE, now |-> clock]
    /\ UNCHANGED <<clock, limits, check, passes>>

CleanupLocked ==
    /\ cleanup.awake
    /\ limits' = CleanupStaleLocked(limits, cleanup.now)
    /\ cleanup' = Asleep
    /\ UNCHANGED <<clock, check, passes>>

LimiterNext ==
    \/ Tick \/ CleanupRead \/ CleanupLocked
    \/ \E t \in Tasks : CheckLocked(t) \/ \E u \in Uids : CheckRead(t, u)

LimiterSpec == LimiterInit /\ [][LimiterNext]_limiterVars

-----------------------------------------------------------------------------
(***************************************************************************)
(* Properties                                                              *)
(***************************************************************************)

\* The shape of the state.
LimiterTypeOK ==
    /\ clock \in 0..MaxClock
    /\ DOMAIN limits \subseteq Uids
    /\ \A u \in DOMAIN limits :
         limits[u] \in [last_reset : 0..clock, count : 1..MAX_PER_SEC + 1]
    /\ check \in [Tasks -> {Outside} \cup [in : {TRUE}, uid : Uids, now : 0..clock]]
    /\ cleanup \in {Asleep} \cup [awake : {TRUE}, now : 0..clock]
    /\ passes \subseteq [uid : Uids, at : 0..clock, nth : Nat]

\* "The hard cap is the real bound": the table never outgrows it, though entries
\* come from checks and go by two kinds of cleanup.
TableBounded == LimiterTypeOK /\ Cardinality(DOMAIN limits) <= MAX_TRACKED_UIDS

\* A fixed window that starts with a user's first check lets no more than twice
\* the budget through in any span of RATE_WINDOW, however readings and cleanups
\* reach the table: no entry is dropped or restarted inside its window.
RateBound ==
    \A u \in Uids, i \in 0..MaxClock :
        Cardinality({p \in passes : p.uid = u /\ i <= p.at /\ p.at <= i + RATE_WINDOW}) <= 2 * MAX_PER_SEC
=============================================================================
