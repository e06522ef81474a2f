------------------------------ MODULE GateProofs ------------------------------
(***************************************************************************)
(* Proofs about the two gates in front of a request: the permits of the    *)
(* main loop (Server), for any number of clients and permits, and the rate *)
(* limiter (RateLimiter), for any number of users and tasks, any budget,   *)
(* window and cap.                                                         *)
(***************************************************************************)
EXTENDS Server, RateLimiter, FiniteSetTheorems, TLAPS

-----------------------------------------------------------------------------
(* The main loop.  That a spawned task takes exactly one permit needs to be *)
(* told that a waiting connection has no task yet: Fresh.                   *)

\* A connection in the backlog or in the accept arm's hand has no task.
Fresh ==
    /\ \A i \in DOMAIN backlog : task[backlog[i]] = "none" /\ backlog[i] # hand
    /\ main = "permit" => task[hand] = "none"

ServerInv == TypeOK /\ PermitsExact /\ Fresh

-----------------------------------------------------------------------------

\* The set of running tasks is finite, so it can be counted.
LEMMA RunningFinite ==
  ASSUME TypeOK
  PROVE  IsFiniteSet(Running) /\ Cardinality(Running) \in Nat
BY ServerAssumption, FS_Subset, FS_CardinalityType DEF Running

\* run_server starts with all permits, no connection and no task.
LEMMA InitServer == Init => ServerInv
<1> SUFFICES ASSUME Init PROVE ServerInv
  OBVIOUS
<1>1. Running = {}
  BY DEF Init, Running
<1>2. TypeOK
  <2>1. backlog \in Seq(Clients) /\ IsInjective(backlog)
    BY DEF Init, IsInjective
  <2>2. hand \in Clients \cup {NoClient} /\ (hand # NoClient <=> main = "permit")
    BY DEF Init
  <2>3. task \in [Clients -> {"none", "running", "ended"}] /\ permits \in 0..MAX_CONNECTIONS
    BY ServerAssumption DEF Init
  <2> QED
    BY <2>1, <2>2, <2>3, Zenon DEF Init, TypeOK
<1>3. PermitsExact
  BY <1>1, FS_EmptySet, ServerAssumption DEF Init, PermitsExact
<1> QED
  BY <1>1, <1>2, <1>3 DEF ServerInv, Fresh, Init

\* A step that leaves tasks and permits alone keeps their count.
LEMMA CountUnchanged ==
  ASSUME PermitsExact, UNCHANGED <<task, permits>>
  PROVE  PermitsExact'
BY DEF PermitsExact, Running

\* A connection enters the kernel's backlog.
LEMMA ArriveStep ==
  ASSUME ServerInv, NEW c \in Clients, Arrive(c)
  PROVE  ServerInv'
<1> USE DEF ServerInv, Arrive
<1>1. \A i \in DOMAIN backlog : backlog[i] # c
  BY DEF TypeOK, Range
<1>2. /\ backlog' \in Seq(Clients) /\ DOMAIN backlog' = 1..(Len(backlog) + 1)
      /\ \A i \in 1..Len(backlog) : backlog'[i] = backlog[i]
      /\ backlog'[Len(backlog) + 1] = c
  BY DEF TypeOK
<1>3. IsInjective(backlog')
  BY <1>1, <1>2 DEF TypeOK, IsInjective
<1>4. TypeOK'
  BY <1>2, <1>3 DEF TypeOK
<1>5. Fresh'
  BY <1>1, <1>2 DEF TypeOK, Fresh
<1> QED
  BY <1>4, <1>5, CountUnchanged

\* The accept arm takes the oldest connection in its hand.
LEMMA AcceptStep ==
  ASSUME ServerInv, Accept
  PROVE  ServerInv'
<1> USE DEF ServerInv, Accept
<1>1. /\ backlog' \in Seq(Clients) /\ DOMAIN backlog' = 1..(Len(backlog) - 1)
      /\ \A i \in 1..(Len(backlog) - 1) : backlog'[i] = backlog[i + 1]
      /\ hand' = backlog[1] /\ hand' \in Clients /\ 1 \in DOMAIN backlog
      /\ Len(backlog) \in Nat /\ DOMAIN backlog = 1..Len(backlog)
  BY DEF TypeOK
<1>2. IsInjective(backlog')
  BY <1>1 DEF TypeOK, IsInjective
<1>3. TypeOK'
  BY <1>1, <1>2, ServerAssumption DEF TypeOK
<1>4. Fresh'
  <2>1. task'[hand'] = "none"
    BY <1>1 DEF Fresh
  <2>2. ASSUME NEW i \in DOMAIN backlog'
        PROVE  task'[backlog'[i]] = "none" /\ backlog'[i] # hand'
    BY <1>1, <2>2 DEF Fresh, TypeOK, IsInjective
  <2> QED
    BY <2>1, <2>2 DEF Fresh
<1> QED
  BY <1>3, <1>4, CountUnchanged

\* A task is spawned: one more runs, with one permit.
LEMMA AcquireStep ==
  ASSUME ServerInv, Acquire
  PROVE  ServerInv'
<1> USE DEF ServerInv, Acquire
<1>1. hand \in Clients /\ hand \notin Running /\ Running' = Running \cup {hand}
  BY ServerAssumption DEF TypeOK, Fresh, Running
<1>2. Cardinality(Running') = Cardinality(Running) + 1
  BY <1>1, RunningFinite, FS_AddElement
<1>3. PermitsExact'
  BY <1>2, RunningFinite, ServerAssumption DEF PermitsExact, TypeOK
<1>4. TypeOK'
  BY <1>1, ServerAssumption DEF TypeOK
<1>5. Fresh'
  BY <1>1, ServerAssumption DEF Fresh, TypeOK
<1> QED
  BY <1>3, <1>4, <1>5

\* A task ends, by itself or aborted: one less runs, and its permit is back.
LEMMA TaskEndsStep ==
  ASSUME ServerInv, NEW c \in Clients, TaskEnds(c)
  PROVE  ServerInv'
<1> USE DEF ServerInv, TaskEnds
<1>1. c \in Running /\ Running' = Running \ {c}
  BY DEF TypeOK, Running
<1>2. Cardinality(Running') = Cardinality(Running) - 1 /\ Cardinality(Running') \in Nat
  <2>1. IsFiniteSet(Running') /\ Cardinality(Running') = Cardinality(Running) - 1
    BY <1>1, RunningFinite, FS_RemoveElement
  <2> QED
    BY <2>1, FS_CardinalityType
<1>3. PermitsExact'
  BY <1>2, RunningFinite, ServerAssumption DEF PermitsExact, TypeOK
<1>4. permits' \in 0..MAX_CONNECTIONS
  BY <1>2, <1>3, ServerAssumption DEF PermitsExact, TypeOK
<1>5. TypeOK'
  BY <1>4 DEF TypeOK
<1>6. Fresh'
  BY <1>1 DEF Fresh, TypeOK, Running
<1> QED
  BY <1>3, <1>5, <1>6

\* A task that has ended is joined; the running ones are the same.
LEMMA JoinStep ==
  ASSUME ServerInv, NEW c \in Clients, Join(c)
  PROVE  ServerInv'
<1> USE DEF ServerInv, Join
<1>1. Running' = Running
  BY DEF TypeOK, Running
<1>2. PermitsExact'
  BY <1>1 DEF PermitsExact
<1>3. TypeOK'
  BY DEF TypeOK
<1>4. Fresh'
  BY DEF Fresh, TypeOK
<1> QED
  BY <1>2, <1>3, <1>4

\* Signals, the end of the loop, the drain's timeout and the return move only
\* run_server itself.
LEMMA MainStep ==
  ASSUME ServerInv, Signal \/ Stop \/ Hangup \/ DrainTimeout \/ Finish
  PROVE  ServerInv'
<1>1. UNCHANGED <<hand, backlog, task, permits>> /\ (main' # "permit" \/ UNCHANGED main)
  BY DEF Signal, Stop, Hangup, DrainTimeout, Finish
<1>2. TypeOK'
  BY DEF ServerInv, TypeOK, Signal, Stop, Hangup, DrainTimeout, Finish
<1>3. Fresh'
  BY <1>1 DEF ServerInv, Fresh
<1> QED
  BY <1>1, <1>2, <1>3, CountUnchanged DEF ServerInv

\* Every step of the daemon preserves the invariant.
LEMMA NextServer == ServerInv /\ [Next]_vars => ServerInv'
<1> SUFFICES ASSUME ServerInv, [Next]_vars PROVE ServerInv'
  OBVIOUS
<1>1. CASE Signal \/ Stop \/ Hangup \/ DrainTimeout \/ Finish
  BY <1>1, MainStep
<1>2. CASE Accept
  BY <1>2, AcceptStep
<1>3. CASE Acquire
  BY <1>3, AcquireStep
<1>4. CASE \E c \in Clients : Arrive(c) \/ Join(c) \/ TaskEnds(c)
  BY <1>4, ArriveStep, JoinStep, TaskEndsStep
<1>5. CASE UNCHANGED vars
  BY <1>5 DEF vars, ServerInv, TypeOK, PermitsExact, Fresh, Running
<1> QED
  BY <1>1, <1>2, <1>3, <1>4, <1>5 DEF Next

-----------------------------------------------------------------------------

\* The inductive invariant holds in every behaviour of the daemon.
THEOREM ServerInvariant == Spec => []ServerInv
BY InitServer, NextServer, PTL DEF Spec

\* run_server's variables keep their types.
THEOREM ServerTypeCorrect == Spec => []TypeOK
BY ServerInvariant, PTL DEF ServerInv

\* No permit of max_conns is lost or made up, for any limit and any clients.
THEOREM PermitsAreExact == Spec => []PermitsExact
BY ServerInvariant, PTL DEF ServerInv

-----------------------------------------------------------------------------
(* The rate limiter: the table and the windows *)

\* An entry of the table, when the clock reads c.
EntryAt(e, c) == e \in [last_reset : 0..c, count : 1..MAX_PER_SEC + 1]

\* A table that may be there when the clock reads c.
Table(m, c) ==
    /\ DOMAIN m \subseteq Uids /\ IsFiniteSet(DOMAIN m)
    /\ Cardinality(DOMAIN m) <= MAX_TRACKED_UIDS
    /\ \A u \in DOMAIN m : EntryAt(m[u], c)

Readings ==
    /\ clock \in 0..MaxClock
    /\ check \in [Tasks -> {Outside} \cup [in : {TRUE}, uid : Uids, now : 0..clock]]
    /\ cleanup \in {Asleep} \cup [awake : {TRUE}, now : 0..clock]
    /\ passes \subseteq [uid : Uids, at : 0..clock, nth : Nat]
    /\ IsFiniteSet(passes)
    /\ \A t \in Tasks : check[t].in => clock <= check[t].now + MaxDelay
    /\ cleanup.awake => clock <= cleanup.now + MaxDelay

\* The passes of a user counted in a window that starts at s, and in the time
\* before it that shares a span of RATE_WINDOW with s.
Since(ps, u, s) == {p \in ps : p.uid = u /\ s <= p.at}
Before(ps, u, s) == {p \in ps : p.uid = u /\ p.at < s /\ s <= p.at + RATE_WINDOW}
Span(ps, u, i) == {p \in ps : p.uid = u /\ i <= p.at /\ p.at <= i + RATE_WINDOW}

\* A window may start at s: the last one is over, and left at most its budget.
MayStart(ps, u, s) ==
    /\ \A p \in ps : p.uid = u => p.at < s
    /\ Cardinality(Before(ps, u, s)) <= MAX_PER_SEC

\* The user's window e has let through no more than it has counted, nor than the
\* budget; nor did the one before.
Budgeted(ps, u, e) ==
    /\ \A p \in ps : p.uid = u => p.at <= e.last_reset + RATE_WINDOW
    /\ Cardinality(Since(ps, u, e.last_reset)) <= e.count
    /\ Cardinality(Since(ps, u, e.last_reset)) <= MAX_PER_SEC
    /\ Cardinality(Before(ps, u, e.last_reset)) <= MAX_PER_SEC

\* A user without an entry may start a window with every reading still to come.
WindowOf(ps, m, c, u) ==
    IF u \in DOMAIN m THEN Budgeted(ps, u, m[u])
    ELSE \A s \in 0..MaxClock : c <= s + MaxDelay => MayStart(ps, u, s)

Spans(ps) == \A u \in Uids, i \in 0..MaxClock : Cardinality(Span(ps, u, i)) <= 2 * MAX_PER_SEC

WindowsInv == Spans(passes) /\ \A u \in Uids : WindowOf(passes, limits, clock, u)

LimiterInv == Readings /\ Table(limits, clock)

-----------------------------------------------------------------------------
(* Operators *)

\* cleanup_stale_locked only takes entries away.
LEMMA CleanupShrinks ==
    ASSUME NEW m, NEW c, NEW now, Table(m, c)
    PROVE  /\ Table(CleanupStaleLocked(m, now), c)
           /\ DOMAIN CleanupStaleLocked(m, now) \subseteq DOMAIN m
<1> DEFINE n == CleanupStaleLocked(m, now)
<1>1. DOMAIN n \subseteq DOMAIN m /\ \A u \in DOMAIN n : n[u] = m[u]
  BY DEF CleanupStaleLocked
<1>2. IsFiniteSet(DOMAIN n) /\ Cardinality(DOMAIN n) <= Cardinality(DOMAIN m)
  BY <1>1, FS_Subset DEF Table
<1>3. Cardinality(DOMAIN n) \in Nat /\ Cardinality(DOMAIN m) \in Nat
  BY <1>2, FS_CardinalityType DEF Table
<1>4. Cardinality(DOMAIN n) <= MAX_TRACKED_UIDS
  <2> HIDE DEF n
  <2> QED BY <1>2, <1>3, RateLimiterAssumption DEF Table
<1> QED BY <1>1, <1>2, <1>4 DEF Table

\* When check goes on to insert a new user, there is room for one.
LEMMA RoomIsMade ==
    ASSUME NEW u, NEW now, NEW c, Table(limits, c)
    PROVE  /\ Table(MakeRoom(u, now).map, c)
           /\ ~MakeRoom(u, now).full /\ u \notin DOMAIN MakeRoom(u, now).map
                => Cardinality(DOMAIN MakeRoom(u, now).map) < MAX_TRACKED_UIDS
<1> DEFINE cleaned == CleanupStaleLocked(limits, now)
           needed  == u \notin DOMAIN limits /\ Cardinality(DOMAIN limits) >= MAX_TRACKED_UIDS
<1>1. Table(cleaned, c)
  BY CleanupShrinks
<1>2. /\ Cardinality(DOMAIN limits) \in Nat
      /\ Cardinality(DOMAIN cleaned) \in Nat
  BY <1>1, FS_CardinalityType DEF Table
<1> HIDE DEF cleaned
<1>3. CASE needed
  <2>1. /\ MakeRoom(u, now).map = cleaned
        /\ MakeRoom(u, now).full <=> Cardinality(DOMAIN cleaned) >= MAX_TRACKED_UIDS
    BY <1>3 DEF MakeRoom, cleaned
  <2> QED BY <1>1, <1>2, <2>1, RateLimiterAssumption
<1>4. CASE ~needed
  <2>1. MakeRoom(u, now).map = limits
    BY <1>4 DEF MakeRoom
  <2> QED BY <1>2, <1>4, <2>1, RateLimiterAssumption
<1> QED BY <1>3, <1>4

\* The entry check writes: its count is one more, and stops past the budget.
LEMMA CountedIsEntry ==
    ASSUME NEW m, NEW c \in Nat, NEW u, NEW now \in 0..c, Table(m, c)
    PROVE  EntryAt(Counted(m, u, now), c)
<1> DEFINE e == IF u \in DOMAIN m /\ DurationSince(now, m[u].last_reset) <= RATE_WINDOW
                THEN m[u] ELSE [last_reset |-> now, count |-> 0]
<1>1. e \in [last_reset : 0..c, count : 0..MAX_PER_SEC + 1]
  <2>1. u \in DOMAIN m => m[u] \in [last_reset : 0..c, count : 1..MAX_PER_SEC + 1]
    BY DEF Table, EntryAt
  <2>2. [last_reset : 0..c, count : 1..MAX_PER_SEC + 1] \subseteq [last_reset : 0..c, count : 0..MAX_PER_SEC + 1]
    BY RateLimiterAssumption
  <2>3. [last_reset |-> now, count |-> 0] \in [last_reset : 0..c, count : 0..MAX_PER_SEC + 1]
    BY RateLimiterAssumption
  <2> QED BY <2>1, <2>2, <2>3
<1>2. Counted(m, u, now) = [e EXCEPT !.count = IF e.count <= MAX_PER_SEC THEN e.count + 1 ELSE e.count]
  BY DEF Counted
<1> HIDE DEF e
<1> QED BY <1>1, <1>2, RateLimiterAssumption DEF EntryAt

\* One entry more, or a new one in place of an old one.
LEMMA InsertFits ==
    ASSUME NEW m, NEW c, NEW u \in Uids, NEW e, Table(m, c), EntryAt(e, c),
           u \notin DOMAIN m => Cardinality(DOMAIN m) < MAX_TRACKED_UIDS
    PROVE  Table([v \in DOMAIN m \cup {u} |-> IF v = u THEN e ELSE m[v]], c)
<1> DEFINE n == [v \in DOMAIN m \cup {u} |-> IF v = u THEN e ELSE m[v]]
<1>1. DOMAIN n = DOMAIN m \cup {u} /\ \A v \in DOMAIN n : EntryAt(n[v], c)
  BY DEF Table
<1> HIDE DEF n
<1>2. IsFiniteSet(DOMAIN n) /\ Cardinality(DOMAIN m) \in Nat
  BY <1>1, FS_AddElement, FS_CardinalityType DEF Table
<1>3. Cardinality(DOMAIN n) = IF u \in DOMAIN m THEN Cardinality(DOMAIN m) ELSE Cardinality(DOMAIN m) + 1
  BY <1>1, FS_AddElement DEF Table
<1>4. Cardinality(DOMAIN n) <= MAX_TRACKED_UIDS
  BY <1>2, <1>3, RateLimiterAssumption DEF Table
<1>5. Table(n, c)
  BY <1>1, <1>2, <1>4 DEF Table
<1> QED BY <1>5 DEF n

-----------------------------------------------------------------------------
(* Steps *)

\* A task that is outside holds no reading.
LEMMA OutsideIsOut == Outside.in = FALSE /\ Asleep.awake = FALSE
BY DEF Outside, Asleep

LEMMA TableInit == LimiterInit => LimiterInv
<1> SUFFICES ASSUME LimiterInit PROVE LimiterInv
  OBVIOUS
<1>1. Readings
  BY FS_EmptySet, RateLimiterAssumption DEF LimiterInit, Readings, Outside, Asleep
<1>2. DOMAIN limits = {}
  BY DEF LimiterInit
<1>3. Table(limits, clock)
  BY <1>2, FS_EmptySet, RateLimiterAssumption DEF Table
<1> QED BY <1>1, <1>3 DEF LimiterInv

\* check under the lock.
LEMMA CheckLockedKeeps ==
    ASSUME LimiterInv, NEW t \in Tasks, CheckLocked(t)
    PROVE  LimiterInv'
<1>1. PICK c \in 0..MaxClock : c = clock /\ c \in Nat /\ clock' = c
  <2>1. clock \in 0..MaxClock /\ clock \in Nat
    BY RateLimiterAssumption DEF LimiterInv, Readings
  <2>2. clock' = clock
    BY DEF CheckLocked
  <2> QED BY <2>1, <2>2
<1>2. check[t] \in [in : {TRUE}, uid : Uids, now : 0..clock]
  <2>1. check[t] \in {Outside} \cup [in : {TRUE}, uid : Uids, now : 0..clock] /\ check[t].in
    BY DEF LimiterInv, Readings, CheckLocked
  <2>2. Outside.in = FALSE
    BY DEF Outside
  <2> QED BY <2>1, <2>2
<1>3. PICK u \in Uids, now \in 0..c : u = check[t].uid /\ now = check[t].now
  BY <1>1, <1>2
<1>4. PICK room, entry : room = MakeRoom(u, now) /\ entry = Counted(room.map, u, now)
  OBVIOUS
<1>5. /\ check' = [check EXCEPT ![t] = Outside] /\ UNCHANGED <<clock, cleanup>>
      /\ limits' = IF room.full THEN room.map
                   ELSE [v \in DOMAIN room.map \cup {u} |-> IF v = u THEN entry ELSE room.map[v]]
      /\ passes' = passes \/ \E n \in Nat : passes' = passes \cup {[uid |-> u, at |-> Later(now, entry.last_reset), nth |-> n]}
  <2> DEFINE at == Later(now, entry.last_reset)
             nth == Cardinality({p \in passes : p.uid = u /\ p.at = at}) + 1
  <2>1. nth \in Nat
    <3>1. IsFiniteSet({p \in passes : p.uid = u /\ p.at = at})
      BY FS_Subset DEF LimiterInv, Readings
    <3> QED BY <3>1, FS_CardinalityType
  <2>2. passes' = passes \/ passes' = passes \cup {[uid |-> u, at |-> at, nth |-> nth]}
    BY <1>3, <1>4 DEF CheckLocked
  <2> HIDE DEF nth
  <2> QED BY <1>3, <1>4, <2>1, <2>2 DEF CheckLocked
<1>6. /\ Table(room.map, c)
      /\ ~room.full /\ u \notin DOMAIN room.map => Cardinality(DOMAIN room.map) < MAX_TRACKED_UIDS
  BY <1>1, <1>4, RoomIsMade DEF LimiterInv
<1>7. EntryAt(entry, c)
  BY <1>1, <1>4, <1>6, CountedIsEntry
<1>8. Table(limits', c)
  <2>1. CASE room.full
    BY <1>5, <1>6, <2>1
  <2>2. CASE ~room.full
    <3>1. u \notin DOMAIN room.map => Cardinality(DOMAIN room.map) < MAX_TRACKED_UIDS
      BY <1>6, <2>2
    <3>2. Table([v \in DOMAIN room.map \cup {u} |-> IF v = u THEN entry ELSE room.map[v]], c)
      BY <1>6, <1>7, <3>1, InsertFits
    <3>3. limits' = [v \in DOMAIN room.map \cup {u} |-> IF v = u THEN entry ELSE room.map[v]]
      BY <1>5, <2>2
    <3> QED BY <3>2, <3>3
  <2> QED BY <2>1, <2>2
<1>9. Readings'
  <2>1. passes' \subseteq [uid : Uids, at : 0..clock, nth : Nat] /\ IsFiniteSet(passes')
    <3>1. Later(now, entry.last_reset) \in 0..clock
      BY <1>1, <1>7 DEF Later, EntryAt
    <3>2. ASSUME NEW n \in Nat
          PROVE  [uid |-> u, at |-> Later(now, entry.last_reset), nth |-> n] \in [uid : Uids, at : 0..clock, nth : Nat]
      BY <3>1
    <3>3. passes \subseteq [uid : Uids, at : 0..clock, nth : Nat] /\ IsFiniteSet(passes)
      BY DEF LimiterInv, Readings
    <3>4. PICK r : r \in [uid : Uids, at : 0..clock, nth : Nat] /\ passes' \in {passes, passes \cup {r}}
      BY <1>5, <3>2
    <3>5. IsFiniteSet(passes \cup {r})
      BY <3>3, FS_AddElement
    <3> QED BY <3>3, <3>4, <3>5
  <2>2. check' \in [Tasks -> {Outside} \cup [in : {TRUE}, uid : Uids, now : 0..clock]]
    BY <1>5 DEF LimiterInv, Readings
  <2>3. \A q \in Tasks : check'[q].in => clock <= check'[q].now + MaxDelay
    BY <1>5 DEF LimiterInv, Readings, Outside
  <2> QED BY <1>5, <2>1, <2>2, <2>3 DEF LimiterInv, Readings
<1> QED BY <1>1, <1>8, <1>9 DEF LimiterInv, Table

LEMMA TableNext == LimiterInv /\ [LimiterNext]_limiterVars => LimiterInv'
<1> SUFFICES ASSUME LimiterInv, [LimiterNext]_limiterVars PROVE LimiterInv'
  OBVIOUS
<1>1. CASE Tick
  <2>1. /\ clock \in Nat /\ clock' = clock + 1 /\ clock' \in 0..MaxClock /\ 0..clock \subseteq 0..clock'
        /\ UNCHANGED <<limits, check, cleanup, passes>>
    BY <1>1, RateLimiterAssumption DEF Tick, LimiterInv, Readings
  <2>0. /\ \A t \in Tasks : check[t].in => clock' <= check[t].now + MaxDelay
        /\ cleanup.awake => clock' <= cleanup.now + MaxDelay
    <3>1. ASSUME NEW t \in Tasks, check[t].in PROVE clock' <= check[t].now + MaxDelay
      <4>1. clock < check[t].now + MaxDelay /\ check[t] \in {Outside} \cup [in : {TRUE}, uid : Uids, now : 0..clock]
        BY <1>1, <3>1 DEF Tick, LimiterInv, Readings
      <4>2. check[t] \in [in : {TRUE}, uid : Uids, now : 0..clock]
        BY <3>1, <4>1, OutsideIsOut
      <4>4. check[t].now \in 0..clock
        BY <4>2
      <4>3. check[t].now \in Nat
        BY <2>1, <4>4
      <4> QED BY <2>1, <4>1, <4>3, RateLimiterAssumption
    <3>2. ASSUME cleanup.awake PROVE clock' <= cleanup.now + MaxDelay
      <4>1. clock < cleanup.now + MaxDelay /\ cleanup \in {Asleep} \cup [awake : {TRUE}, now : 0..clock]
        BY <1>1, <3>2 DEF Tick, LimiterInv, Readings
      <4>2. cleanup \in [awake : {TRUE}, now : 0..clock]
        BY <3>2, <4>1, OutsideIsOut
      <4>3. cleanup.now \in Nat
        BY <2>1, <4>2
      <4> QED BY <2>1, <4>1, <4>3, RateLimiterAssumption
    <3> QED BY <3>1, <3>2
  <2>2. /\ [in : {TRUE}, uid : Uids, now : 0..clock] \subseteq [in : {TRUE}, uid : Uids, now : 0..clock']
        /\ [uid : Uids, at : 0..clock, nth : Nat] \subseteq [uid : Uids, at : 0..clock', nth : Nat]
        /\ [awake : {TRUE}, now : 0..clock] \subseteq [awake : {TRUE}, now : 0..clock']
        /\ [last_reset : 0..clock, count : 1..MAX_PER_SEC + 1] \subseteq [last_reset : 0..clock', count : 1..MAX_PER_SEC + 1]
    BY <2>1
  <2>3. Readings'
    BY <2>0, <2>1, <2>2 DEF LimiterInv, Readings
  <2>4. Table(limits, clock)'
    BY <2>1, <2>2 DEF LimiterInv, Table, EntryAt
  <2> QED BY <2>3, <2>4 DEF LimiterInv
<1>2. ASSUME NEW t \in Tasks, NEW u \in Uids, CheckRead(t, u) PROVE LimiterInv'
  <2>1. /\ check' = [check EXCEPT ![t] = [in |-> TRUE, uid |-> u, now |-> clock]]
        /\ UNCHANGED <<clock, limits, cleanup, passes>> /\ clock \in 0..clock /\ clock <= clock + MaxDelay
    BY <1>2, RateLimiterAssumption DEF CheckRead, LimiterInv, Readings
  <2>3. check' \in [Tasks -> {Outside} \cup [in : {TRUE}, uid : Uids, now : 0..clock]]
    BY <2>1 DEF LimiterInv, Readings
  <2>4. \A q \in Tasks : check'[q].in => clock <= check'[q].now + MaxDelay
    BY <2>1 DEF LimiterInv, Readings
  <2>2. Readings'
    BY <2>1, <2>3, <2>4 DEF LimiterInv, Readings
  <2> QED BY <2>1, <2>2 DEF LimiterInv, Table, EntryAt
<1>3. CASE CleanupRead
  <2>1. /\ cleanup' = [awake |-> TRUE, now |-> clock]
        /\ UNCHANGED <<clock, limits, check, passes>> /\ clock \in 0..clock /\ clock <= clock + MaxDelay
    BY <1>3, RateLimiterAssumption DEF CleanupRead, LimiterInv, Readings
  <2>2. Readings'
    BY <2>1 DEF LimiterInv, Readings
  <2> QED BY <2>1, <2>2 DEF LimiterInv, Table, EntryAt
<1>4. CASE CleanupLocked
  <2>1. PICK now, c : now = cleanup.now /\ c = clock
    OBVIOUS
  <2>2. /\ limits' = CleanupStaleLocked(limits, now) /\ cleanup' = Asleep
        /\ UNCHANGED <<clock, check, passes>>
    BY <1>4, <2>1 DEF CleanupLocked
  <2>3. Table(limits', c)
    BY <2>1, <2>2, CleanupShrinks DEF LimiterInv
  <2>4. Readings'
    BY <2>2 DEF LimiterInv, Readings, Asleep
  <2> QED BY <2>1, <2>2, <2>3, <2>4 DEF LimiterInv, Table
<1>5. CASE UNCHANGED limiterVars
  BY <1>5 DEF limiterVars, LimiterInv, Readings, Table, EntryAt
<1> QED BY <1>1, <1>2, <1>3, <1>4, <1>5, CheckLockedKeeps DEF LimiterNext

\* "The hard cap is the real bound": for any cap, users and tasks, the table that
\* check and both cleanups work on never outgrows it.
THEOREM TableIsBounded == LimiterSpec => []TableBounded
<1>1. LimiterInv => TableBounded
  BY DEF LimiterInv, Readings, Table, EntryAt, TableBounded, LimiterTypeOK
<1> QED BY <1>1, TableInit, TableNext, PTL DEF LimiterSpec

-----------------------------------------------------------------------------
(* Windows *)

\* What is known of the passes.
Passes(ps) == IsFiniteSet(ps) /\ \A p \in ps : p.at \in Nat

\* One more pass is at most one more.
LEMMA OneMore ==
    ASSUME NEW S, NEW T, NEW r, IsFiniteSet(S), T \subseteq S \cup {r}
    PROVE  /\ IsFiniteSet(T) /\ Cardinality(T) \in Nat /\ Cardinality(S) \in Nat
           /\ Cardinality(T) <= Cardinality(S) + 1
<1>1. IsFiniteSet(S \cup {r}) /\ Cardinality(S \cup {r}) \in {Cardinality(S), Cardinality(S) + 1}
  BY FS_AddElement
<1>2. IsFiniteSet(T) /\ Cardinality(T) <= Cardinality(S \cup {r})
  BY <1>1, FS_Subset
<1>3. Cardinality(T) \in Nat /\ Cardinality(S) \in Nat
  BY <1>2, FS_CardinalityType
<1> QED BY <1>1, <1>2, <1>3

\* What is part of a set within the budget is within it.
LEMMA PartFits ==
    ASSUME NEW S, NEW T, IsFiniteSet(S), T \subseteq S, NEW n \in Nat, Cardinality(S) <= n
    PROVE  Cardinality(T) <= n
<1>1. Cardinality(T) <= Cardinality(S) /\ Cardinality(T) \in Nat /\ Cardinality(S) \in Nat
  BY FS_Subset, FS_CardinalityType
<1> QED BY <1>1

\* After a window is over, another may start.
LEMMA WindowEnds ==
    ASSUME NEW ps, Passes(ps), NEW u, NEW e, e.last_reset \in Nat, Budgeted(ps, u, e),
           NEW s \in Nat, e.last_reset + RATE_WINDOW < s
    PROVE  MayStart(ps, u, s)
<1>1. ASSUME NEW p \in ps, p.uid = u PROVE p.at < s
  BY <1>1, RateLimiterAssumption DEF Budgeted, Passes
<1>2. Before(ps, u, s) \subseteq Since(ps, u, e.last_reset)
  <2>1. ASSUME NEW p \in ps, s <= p.at + RATE_WINDOW PROVE e.last_reset <= p.at
    BY <2>1, RateLimiterAssumption DEF Passes
  <2> QED BY <2>1 DEF Before, Since
<1>3. IsFiniteSet(Since(ps, u, e.last_reset))
  BY FS_Subset DEF Passes, Since
<1>4. Cardinality(Before(ps, u, s)) <= MAX_PER_SEC
  BY <1>2, <1>3, PartFits, RateLimiterAssumption DEF Budgeted
<1> QED BY <1>1, <1>4 DEF MayStart

\* A window that starts has let nothing through.
LEMMA WindowStarts ==
    ASSUME NEW ps, Passes(ps), NEW u, NEW s \in Nat, MayStart(ps, u, s)
    PROVE  Budgeted(ps, u, [last_reset |-> s, count |-> 0])
<1>1. ASSUME NEW p \in ps, p.uid = u PROVE p.at <= s + RATE_WINDOW /\ ~(s <= p.at)
  BY <1>1, RateLimiterAssumption DEF MayStart, Passes
<1>2. Since(ps, u, s) = {}
  BY <1>1 DEF Since
<1>3. Cardinality(Since(ps, u, s)) = 0
  BY <1>2, FS_EmptySet
<1> QED BY <1>1, <1>3, RateLimiterAssumption DEF Budgeted, MayStart

\* A check that is counted: it passes if the count stays within the budget.
LEMMA WindowCounts ==
    ASSUME NEW ps, Passes(ps), NEW u, NEW e, Budgeted(ps, u, e), NEW f,
           e.last_reset \in Nat, f.last_reset = e.last_reset,
           e.count \in Nat, f.count \in Nat, e.count <= f.count
    PROVE  /\ Budgeted(ps, u, f)
           /\ \A r : /\ r.uid = u /\ r.at \in Nat /\ f.count = e.count + 1 /\ f.count <= MAX_PER_SEC
                     /\ e.last_reset <= r.at /\ r.at <= e.last_reset + RATE_WINDOW
                     => Budgeted(ps \cup {r}, u, f)
<1>0. IsFiniteSet(Since(ps, u, e.last_reset)) /\ Cardinality(Since(ps, u, e.last_reset)) \in Nat
  BY FS_Subset, FS_CardinalityType DEF Passes, Since
<1>1. Cardinality(Since(ps, u, e.last_reset)) <= f.count
  BY <1>0 DEF Budgeted
<1>2. Budgeted(ps, u, f)
  BY <1>1 DEF Budgeted
<1>3. ASSUME NEW r, r.uid = u, r.at \in Nat, f.count = e.count + 1, f.count <= MAX_PER_SEC,
             e.last_reset <= r.at, r.at <= e.last_reset + RATE_WINDOW
      PROVE  Budgeted(ps \cup {r}, u, f)
  <2>1. Since(ps \cup {r}, u, e.last_reset) \subseteq Since(ps, u, e.last_reset) \cup {r}
    BY DEF Since
  <2>2. /\ Cardinality(Since(ps \cup {r}, u, e.last_reset)) \in Nat
        /\ Cardinality(Since(ps \cup {r}, u, e.last_reset)) <= Cardinality(Since(ps, u, e.last_reset)) + 1
    BY <1>0, <2>1, OneMore
  <2>3. Cardinality(Since(ps, u, e.last_reset)) <= e.count
    BY DEF Budgeted
  <2>4. Cardinality(Since(ps \cup {r}, u, e.last_reset)) <= f.count
    BY <1>0, <1>3, <2>2, <2>3
  <2>5. Cardinality(Since(ps \cup {r}, u, e.last_reset)) <= MAX_PER_SEC
    BY <1>3, <2>2, <2>4, RateLimiterAssumption
  <2>6. Before(ps \cup {r}, u, e.last_reset) = Before(ps, u, e.last_reset)
    <3>1. ~(r.at < e.last_reset)
      BY <1>3
    <3> QED BY <3>1 DEF Before
  <2> QED BY <1>3, <2>4, <2>5, <2>6 DEF Budgeted
<1> QED BY <1>2, <1>3

\* A span that reaches into a window is shared by it and the one before.
LEMMA SpanOfTwo ==
    ASSUME NEW ps, Passes(ps), NEW u, NEW e, e.last_reset \in Nat, Budgeted(ps, u, e),
           NEW i \in Nat, e.last_reset <= i + RATE_WINDOW
    PROVE  Cardinality(Span(ps, u, i)) <= 2 * MAX_PER_SEC
<1> DEFINE A == Since(ps, u, e.last_reset)
           B == Before(ps, u, e.last_reset)
           S == Span(ps, u, i)
<1>1. IsFiniteSet(A) /\ IsFiniteSet(B)
  BY FS_Subset DEF Passes, Since, Before
<1>2. S \subseteq A \cup B
  <2>1. ASSUME NEW p \in ps, p.uid = u, i <= p.at, p.at <= i + RATE_WINDOW
        PROVE  e.last_reset <= p.at \/ (p.at < e.last_reset /\ e.last_reset <= p.at + RATE_WINDOW)
    BY <2>1, RateLimiterAssumption DEF Passes
  <2> QED BY <2>1 DEF Span, Since, Before
<1>3. Cardinality(A) <= MAX_PER_SEC /\ Cardinality(B) <= MAX_PER_SEC
  BY DEF Budgeted
<1> HIDE DEF A, B, S
<1>4. /\ IsFiniteSet(A \cup B)
      /\ Cardinality(A \cup B) = Cardinality(A) + Cardinality(B) - Cardinality(A \cap B)
  BY <1>1, FS_Union
<1>5. IsFiniteSet(A \cap B)
  <2>1. A \cap B \subseteq A
    OBVIOUS
  <2> QED BY <1>1, <2>1, FS_Subset
<1>6. /\ Cardinality(A) \in Nat /\ Cardinality(B) \in Nat /\ Cardinality(A \cap B) \in Nat
      /\ Cardinality(A \cup B) \in Nat
  BY <1>1, <1>4, <1>5, FS_CardinalityType
<1>7. Cardinality(A \cup B) <= 2 * MAX_PER_SEC
  BY <1>3, <1>4, <1>6, RateLimiterAssumption
<1>8. Cardinality(S) <= 2 * MAX_PER_SEC
  BY <1>2, <1>4, <1>7, PartFits, RateLimiterAssumption
<1> QED BY <1>8 DEF S

\* A pass counted in a user's current window makes no span too full.
LEMMA SpansStay ==
    ASSUME NEW ps, Passes(ps), Spans(ps), NEW u, NEW e, e.last_reset \in Nat,
           NEW r, r.uid = u, r.at \in Nat, e.last_reset <= r.at, Budgeted(ps \cup {r}, u, e)
    PROVE  Spans(ps \cup {r})
<1>0. Passes(ps \cup {r})
  BY FS_AddElement DEF Passes
<1> SUFFICES ASSUME NEW v \in Uids, NEW i \in 0..MaxClock
             PROVE  Cardinality(Span(ps \cup {r}, v, i)) <= 2 * MAX_PER_SEC
  BY DEF Spans
<1>1. CASE v = u /\ r.at <= i + RATE_WINDOW
  <2>1. e.last_reset <= i + RATE_WINDOW /\ i \in Nat
    BY <1>1, RateLimiterAssumption
  <2> QED BY <1>0, <1>1, <2>1, SpanOfTwo
<1>2. CASE ~(v = u /\ r.at <= i + RATE_WINDOW)
  <2>1. Span(ps \cup {r}, v, i) = Span(ps, v, i)
    BY <1>2 DEF Span
  <2> QED BY <2>1 DEF Spans
<1> QED BY <1>1, <1>2

\* A pass of one user's is none of another's.
LEMMA OthersStay ==
    ASSUME NEW ps, NEW r, NEW m, NEW n, NEW c, NEW v, WindowOf(ps, m, c, v), r.uid # v,
           v \in DOMAIN m <=> v \in DOMAIN n, v \in DOMAIN m => m[v] = n[v]
    PROVE  WindowOf(ps, n, c, v) /\ WindowOf(ps \cup {r}, n, c, v)
<1>1. \A s : Since(ps \cup {r}, v, s) = Since(ps, v, s) /\ Before(ps \cup {r}, v, s) = Before(ps, v, s)
  BY DEF Since, Before
<1>2. ASSUME NEW e, Budgeted(ps, v, e) PROVE Budgeted(ps \cup {r}, v, e)
  BY <1>1, <1>2 DEF Budgeted
<1>3. ASSUME NEW s, MayStart(ps, v, s) PROVE MayStart(ps \cup {r}, v, s)
  BY <1>1, <1>3 DEF MayStart
<1> QED BY <1>2, <1>3 DEF WindowOf

\* cleanup_stale_locked drops an entry only when its window is over for every
\* reading that may still come.
LEMMA CleanupWaits ==
    ASSUME NEW ps, Passes(ps), NEW c \in Nat, NEW now \in 0..c, NEW m, NEW v,
           v \in DOMAIN m => m[v].last_reset \in Nat, WindowOf(ps, m, c, v)
    PROVE  WindowOf(ps, CleanupStaleLocked(m, now), c, v)
<1> DEFINE n == CleanupStaleLocked(m, now)
<1>1. /\ v \in DOMAIN n <=> v \in DOMAIN m /\ DurationSince(now, m[v].last_reset) < STALE_AFTER
      /\ v \in DOMAIN n => n[v] = m[v]
  BY DEF CleanupStaleLocked
<1> HIDE DEF n
<1>2. CASE v \in DOMAIN n
  BY <1>1, <1>2 DEF WindowOf, n
<1>3. CASE v \notin DOMAIN m
  BY <1>1, <1>3 DEF WindowOf, n
<1>4. CASE v \in DOMAIN m /\ v \notin DOMAIN n
  <2>1. PICK e : e = m[v]
    OBVIOUS
  <2>2. Budgeted(ps, v, e) /\ e.last_reset \in Nat
    BY <1>4, <2>1 DEF WindowOf
  <2>3. e.last_reset + STALE_AFTER <= c
    BY <1>1, <1>4, <2>1, <2>2, RateLimiterAssumption DEF DurationSince
  <2>4. ASSUME NEW s \in 0..MaxClock, c <= s + MaxDelay PROVE MayStart(ps, v, s)
    <3>1. s \in Nat /\ e.last_reset + RATE_WINDOW < s
      BY <2>2, <2>3, <2>4, RateLimiterAssumption
    <3> QED BY <2>2, <3>1, WindowEnds
  <2> QED BY <1>4, <2>4 DEF WindowOf, n
<1> QED BY <1>2, <1>3, <1>4

\* The entry that check writes, from a window that has let through its budget at
\* most: the user's current one, or one that starts with this check.
LEMMA CountedIsBudgeted ==
    ASSUME NEW ps, Passes(ps), NEW c \in 0..MaxClock, NEW m, NEW u, NEW now \in 0..c, c <= now + MaxDelay,
           u \in DOMAIN m => EntryAt(m[u], c), WindowOf(ps, m, c, u)
    PROVE  LET f == Counted(m, u, now)  at == Later(now, f.last_reset) IN
           /\ Budgeted(ps, u, f) /\ f.last_reset \in Nat /\ at \in Nat /\ f.last_reset <= at
           /\ \A r : r.uid = u /\ r.at = at /\ f.count <= MAX_PER_SEC => Budgeted(ps \cup {r}, u, f)
<1> DEFINE inside == u \in DOMAIN m /\ DurationSince(now, m[u].last_reset) <= RATE_WINDOW
           e0 == IF inside THEN m[u] ELSE [last_reset |-> now, count |-> 0]
           f0 == Counted(m, u, now)
<1>0. c \in Nat /\ now \in Nat /\ now \in 0..MaxClock
  BY RateLimiterAssumption
<1>1. u \in DOMAIN m => /\ m[u] \in [last_reset : 0..c, count : 1..MAX_PER_SEC + 1]
                        /\ m[u].last_reset \in Nat
  <2>1. ASSUME u \in DOMAIN m PROVE m[u] \in [last_reset : 0..c, count : 1..MAX_PER_SEC + 1]
    BY <2>1 DEF EntryAt
  <2>2. ASSUME u \in DOMAIN m PROVE m[u].last_reset \in 0..c
    BY <2>1, <2>2
  <2> QED BY <1>0, <2>1, <2>2
<1>2. PICK e : e = e0
  OBVIOUS
<1>3. /\ DOMAIN e = {"last_reset", "count"} /\ e.last_reset \in Nat /\ e.count \in Nat
      /\ e.last_reset <= Later(now, e.last_reset) /\ Later(now, e.last_reset) \in Nat
      /\ Later(now, e.last_reset) <= e.last_reset + RATE_WINDOW
      /\ Budgeted(ps, u, e)
  <2>1. CASE inside
    <3>1. e = m[u] /\ e \in [last_reset : 0..c, count : 1..MAX_PER_SEC + 1]
      BY <1>1, <1>2, <2>1
    <3>2. e.last_reset \in Nat /\ e.count \in Nat /\ DOMAIN e = {"last_reset", "count"}
      BY <1>0, <3>1, RateLimiterAssumption
    <3>3. DurationSince(now, e.last_reset) <= RATE_WINDOW
      BY <2>1, <3>1
    <3>4. /\ e.last_reset <= Later(now, e.last_reset) /\ Later(now, e.last_reset) \in Nat
          /\ Later(now, e.last_reset) <= e.last_reset + RATE_WINDOW
      BY <1>0, <3>2, <3>3, RateLimiterAssumption DEF DurationSince, Later
    <3>5. Budgeted(ps, u, e)
      BY <2>1, <3>1 DEF WindowOf
    <3> QED BY <3>2, <3>4, <3>5
  <2>2. CASE ~inside
    <3>1. e = [last_reset |-> now, count |-> 0]
      BY <1>2, <2>2
    <3>2. e.last_reset = now /\ e.count = 0 /\ DOMAIN e = {"last_reset", "count"}
      BY <3>1
    <3>3. MayStart(ps, u, now)
      <4>1. CASE u \in DOMAIN m
        <5>1. PICK d : d = m[u] /\ d.last_reset \in Nat
          BY <1>1, <4>1
        <5>2. Budgeted(ps, u, d)
          BY <4>1, <5>1 DEF WindowOf
        <5>3. d.last_reset + RATE_WINDOW < now
          BY <1>0, <2>2, <4>1, <5>1, RateLimiterAssumption DEF DurationSince
        <5> QED BY <1>0, <5>1, <5>2, <5>3, WindowEnds
      <4>2. CASE u \notin DOMAIN m
        BY <1>0, <4>2 DEF WindowOf
      <4> QED BY <4>1, <4>2
    <3>4. Budgeted(ps, u, e)
      BY <1>0, <3>1, <3>3, WindowStarts
    <3>5. /\ e.last_reset <= Later(now, e.last_reset) /\ Later(now, e.last_reset) \in Nat
          /\ Later(now, e.last_reset) <= e.last_reset + RATE_WINDOW
      BY <1>0, <3>2, RateLimiterAssumption DEF Later
    <3> QED BY <3>2, <3>4, <3>5
  <2> QED BY <2>1, <2>2
<1>4. PICK f : f = f0
  OBVIOUS
<1>5. f = [e EXCEPT !.count = IF e.count <= MAX_PER_SEC THEN e.count + 1 ELSE e.count]
  BY <1>2, <1>4 DEF Counted
<1>6. /\ f.last_reset = e.last_reset /\ f.count \in Nat /\ e.count <= f.count
      /\ f.count <= MAX_PER_SEC => f.count = e.count + 1
  <2>1. f.last_reset = e.last_reset /\ f.count = IF e.count <= MAX_PER_SEC THEN e.count + 1 ELSE e.count
    BY <1>3, <1>5
  <2> QED BY <1>3, <2>1, RateLimiterAssumption
<1>7. /\ Budgeted(ps, u, f)
      /\ \A r : /\ r.uid = u /\ r.at \in Nat /\ f.count = e.count + 1 /\ f.count <= MAX_PER_SEC
                /\ e.last_reset <= r.at /\ r.at <= e.last_reset + RATE_WINDOW
                => Budgeted(ps \cup {r}, u, f)
  BY <1>3, <1>6, WindowCounts
<1> HIDE DEF inside, e0, f0
<1>8. /\ Budgeted(ps, u, f) /\ f.last_reset \in Nat /\ Later(now, f.last_reset) \in Nat
      /\ f.last_reset <= Later(now, f.last_reset)
      /\ \A r : r.uid = u /\ r.at = Later(now, f.last_reset) /\ f.count <= MAX_PER_SEC => Budgeted(ps \cup {r}, u, f)
  BY <1>3, <1>6, <1>7
<1> QED BY <1>4, <1>8 DEF f0

\* check under the lock keeps every window.
LEMMA CheckLockedBudgets ==
    ASSUME LimiterInv, WindowsInv, NEW t \in Tasks, CheckLocked(t)
    PROVE  WindowsInv'
<1>1. PICK c \in 0..MaxClock : c = clock /\ c \in Nat /\ clock' = c
  <2>1. clock \in 0..MaxClock /\ clock \in Nat
    BY RateLimiterAssumption DEF LimiterInv, Readings
  <2>2. clock' = clock
    BY DEF CheckLocked
  <2> QED BY <2>1, <2>2
<1>2. check[t] \in [in : {TRUE}, uid : Uids, now : 0..clock] /\ clock <= check[t].now + MaxDelay
  <2>1. check[t] \in {Outside} \cup [in : {TRUE}, uid : Uids, now : 0..clock] /\ check[t].in
    BY DEF LimiterInv, Readings, CheckLocked
  <2> QED BY <2>1, OutsideIsOut DEF LimiterInv, Readings
<1>3. PICK u \in Uids, now \in 0..c : u = check[t].uid /\ now = check[t].now /\ c <= now + MaxDelay
  BY <1>1, <1>2
<1>4. PICK ps, m, full : ps = passes /\ m = MakeRoom(u, now).map /\ full = MakeRoom(u, now).full
  OBVIOUS
<1>5. PICK f : f = Counted(m, u, now)
  OBVIOUS
<1>6. PICK r : r.uid = u /\ r.at = Later(now, f.last_reset)
               /\ passes' = IF ~full /\ f.count <= MAX_PER_SEC THEN ps \cup {r} ELSE ps
  <2> DEFINE at == Later(now, f.last_reset)
             r == [uid |-> u, at |-> at, nth |-> Cardinality({p \in passes : p.uid = u /\ p.at = at}) + 1]
  <2>1. passes' = IF ~full /\ f.count <= MAX_PER_SEC THEN ps \cup {r} ELSE ps
    BY <1>3, <1>4, <1>5 DEF CheckLocked
  <2>2. r.uid = u /\ r.at = at
    OBVIOUS
  <2> HIDE DEF r
  <2> QED BY <2>1, <2>2
<1>7. limits' = IF full THEN m ELSE [v \in DOMAIN m \cup {u} |-> IF v = u THEN f ELSE m[v]]
  BY <1>3, <1>4, <1>5 DEF CheckLocked
<1>8. Passes(ps)
  BY <1>1, <1>4 DEF Passes, LimiterInv, Readings
<1>9. \A v \in DOMAIN m : EntryAt(m[v], c)
  BY <1>1, <1>4, RoomIsMade DEF LimiterInv, Table
<1>10. \A v \in Uids : WindowOf(ps, m, c, v)
  <2> SUFFICES ASSUME NEW v \in Uids PROVE WindowOf(ps, m, c, v)
    OBVIOUS
  <2>1. PICK l : l = limits
    OBVIOUS
  <2>2. WindowOf(ps, l, c, v)
    BY <1>1, <1>4, <2>1 DEF WindowsInv
  <2>3. m = l \/ m = CleanupStaleLocked(l, now)
    BY <1>4, <2>1 DEF MakeRoom
  <2>4. v \in DOMAIN l => l[v].last_reset \in Nat
    <3>1. ASSUME v \in DOMAIN l PROVE l[v].last_reset \in 0..c
      BY <1>1, <2>1, <3>1 DEF LimiterInv, Table, EntryAt
    <3> QED BY <1>1, <3>1
  <2> QED BY <1>1, <1>8, <2>2, <2>3, <2>4, CleanupWaits
<1>11. Spans(ps)
  BY <1>4 DEF WindowsInv
<1>12. CASE full
  BY <1>1, <1>6, <1>7, <1>10, <1>11, <1>12 DEF WindowsInv
<1>13. CASE ~full
  <2>1. PICK n : n = limits'
    OBVIOUS
  <2>2. /\ u \in DOMAIN n /\ n[u] = f
        /\ \A v \in Uids \ {u} : (v \in DOMAIN m <=> v \in DOMAIN n) /\ (v \in DOMAIN m => m[v] = n[v])
    BY <1>7, <1>13, <2>1
  <2>3. /\ Budgeted(ps, u, f) /\ f.last_reset \in Nat /\ r.at \in Nat /\ f.last_reset <= r.at
        /\ f.count <= MAX_PER_SEC => Budgeted(ps \cup {r}, u, f)
    BY <1>3, <1>5, <1>6, <1>8, <1>9, <1>10, CountedIsBudgeted
  <2>4. ASSUME NEW v \in Uids \ {u} PROVE WindowOf(ps, n, c, v) /\ WindowOf(ps \cup {r}, n, c, v)
    BY <1>6, <1>10, <2>2, OthersStay
  <2>5. CASE f.count <= MAX_PER_SEC
    <3>1. passes' = ps \cup {r}
      BY <1>6, <1>13, <2>5
    <3>2. WindowOf(ps \cup {r}, n, c, u)
      BY <2>2, <2>3, <2>5 DEF WindowOf
    <3>3. Spans(ps \cup {r})
      BY <1>6, <1>8, <1>11, <2>3, <2>5, SpansStay
    <3>4. \A v \in Uids : WindowOf(ps \cup {r}, n, c, v)
      BY <2>4, <3>2
    <3> QED BY <1>1, <2>1, <3>1, <3>3, <3>4 DEF WindowsInv
  <2>6. CASE ~(f.count <= MAX_PER_SEC)
    <3>1. passes' = ps
      BY <1>6, <2>6
    <3>2. WindowOf(ps, n, c, u)
      BY <2>2, <2>3 DEF WindowOf
    <3>3. \A v \in Uids : WindowOf(ps, n, c, v)
      BY <2>4, <3>2
    <3> QED BY <1>1, <1>11, <2>1, <3>1, <3>3 DEF WindowsInv
  <2> QED BY <2>5, <2>6
<1> QED BY <1>12, <1>13

LEMMA WindowsNext == LimiterInv /\ WindowsInv /\ [LimiterNext]_limiterVars => WindowsInv'
<1> SUFFICES ASSUME LimiterInv, WindowsInv, [LimiterNext]_limiterVars PROVE WindowsInv'
  OBVIOUS
<1>1. CASE Tick
  <2>1. clock \in Nat /\ clock' = clock + 1 /\ UNCHANGED <<limits, passes>>
    BY <1>1, RateLimiterAssumption DEF Tick, LimiterInv, Readings
  <2>2. PICK ps, m, c : c \in Nat /\ ps = passes /\ m = limits /\ c = clock
    BY <2>1
  <2>3. ASSUME NEW u \in Uids PROVE WindowOf(ps, m, c + 1, u)
    <3>1. WindowOf(ps, m, c, u)
      BY <2>2 DEF WindowsInv
    <3>2. ASSUME NEW s \in 0..MaxClock, c + 1 <= s + MaxDelay PROVE c <= s + MaxDelay
      BY <2>2, <3>2, RateLimiterAssumption
    <3> QED BY <3>1, <3>2 DEF WindowOf
  <2> QED BY <2>1, <2>2, <2>3 DEF WindowsInv
<1>2. CASE CleanupLocked
  <2>1. PICK c \in 0..MaxClock : c = clock /\ c \in Nat /\ clock' = c
    BY <1>2, RateLimiterAssumption DEF LimiterInv, Readings, CleanupLocked
  <2>2. cleanup \in [awake : {TRUE}, now : 0..clock]
    <3>1. cleanup \in {Asleep} \cup [awake : {TRUE}, now : 0..clock] /\ cleanup.awake
      BY <1>2 DEF LimiterInv, Readings, CleanupLocked
    <3> QED BY <3>1, OutsideIsOut
  <2>3. PICK ps, m, now : now \in 0..c /\ ps = passes /\ m = limits /\ now = cleanup.now
    BY <2>1, <2>2
  <2>4. limits' = CleanupStaleLocked(m, now) /\ passes' = ps
    BY <1>2, <2>3 DEF CleanupLocked
  <2>5. Passes(ps)
    BY <2>1, <2>3 DEF Passes, LimiterInv, Readings
  <2>6. ASSUME NEW v \in Uids PROVE WindowOf(ps, CleanupStaleLocked(m, now), c, v)
    <3>1. WindowOf(ps, m, c, v)
      BY <2>1, <2>3 DEF WindowsInv
    <3>2. ASSUME v \in DOMAIN m PROVE m[v].last_reset \in 0..c
      BY <2>1, <2>3, <3>2 DEF LimiterInv, Table, EntryAt
    <3>3. v \in DOMAIN m => m[v].last_reset \in Nat
      BY <2>1, <3>2
    <3> QED BY <2>1, <2>3, <2>5, <3>1, <3>3, CleanupWaits
  <2> QED BY <2>1, <2>3, <2>4, <2>6 DEF WindowsInv
<1>3. CASE CleanupRead \/ (\E t \in Tasks : \E u \in Uids : CheckRead(t, u)) \/ UNCHANGED limiterVars
  BY <1>3 DEF CleanupRead, CheckRead, limiterVars, WindowsInv
<1> QED BY <1>1, <1>2, <1>3, CheckLockedBudgets DEF LimiterNext

\* However readings and cleanups reach the table, for every budget, window, cap
\* and number of users and tasks, no span of a window's length lets more than
\* twice a user's budget through, provided the mutex is not waited for as long as
\* an entry is kept.
THEOREM BudgetsHold == LimiterSpec => []RateBound
<1>1. LimiterInit => WindowsInv
  <2> SUFFICES ASSUME LimiterInit PROVE WindowsInv
    OBVIOUS
  <2>1. passes = {} /\ DOMAIN limits = {}
    BY DEF LimiterInit
  <2>2. ASSUME NEW u, NEW s PROVE Before(passes, u, s) = {} /\ Span(passes, u, s) = {}
    BY <2>1 DEF Before, Span
  <2>3. ASSUME NEW u, NEW s PROVE Cardinality(Before(passes, u, s)) = 0 /\ Cardinality(Span(passes, u, s)) = 0
    BY <2>2, FS_EmptySet
  <2>4. Spans(passes)
    BY <2>3, RateLimiterAssumption DEF Spans
  <2>5. \A u \in Uids : WindowOf(passes, limits, clock, u)
    BY <2>1, <2>3, RateLimiterAssumption DEF WindowOf, MayStart
  <2> QED BY <2>4, <2>5 DEF WindowsInv
<1>2. WindowsInv => RateBound
  BY DEF WindowsInv, Spans, Span, RateBound
<1> QED BY <1>1, <1>2, TableInit, TableNext, WindowsNext, PTL DEF LimiterSpec
=============================================================================
