------------------------------ MODULE NonceStore ------------------------------
(***************************************************************************)
(* The single-use challenge store of ola-core (security/nonce.rs).         *)
(*                                                                         *)
(* Request tasks call generate and consume, the background task sweeps     *)
(* what has expired.  Each call holds the store's mutex from its first     *)
(* read to its last write, so it is one step; the sweep reads the clock    *)
(* BEFORE it takes the mutex, so it is two.                                *)
(*                                                                         *)
(* Abstractions: 32 random bytes are a member of Nonces, and the random    *)
(* source may return a value it has returned before (nothing below relies  *)
(* on it not doing so); Instant is a natural number of ticks; a uid that   *)
(* has no entry in pending_per_uid has the count 0, as unwrap_or(0) reads  *)
(* it.  The mutex is never poisoned: nothing panics while it is held.      *)
(***************************************************************************)
EXTENDS Naturals, FiniteSets

CONSTANTS
    Nonces,               \* the values the random source can return
    Uids,                 \* target users
    NONCE_TTL,            \* in ticks; 30 s in the code
    MAX_PENDING,          \* MAX_PENDING_NONCES, 1024 in the code
    MAX_PENDING_PER_UID,  \* MAX_PENDING_NONCES_PER_UID, 32 in the code
    MaxClock,             \* bound: the clock stops here
    MaxIssued             \* bound: successful generate calls per nonce value

ASSUME NonceStoreAssumption ==
    /\ NONCE_TTL \in Nat \ {0}
    /\ MAX_PENDING \in Nat \ {0}
    /\ MAX_PENDING_PER_UID \in Nat \ {0}
    /\ MaxClock \in Nat
    /\ MaxIssued \in Nat

VARIABLES
    clock,            \* Instant::now()
    pending,          \* nonce -> (issued_at, uid), for the pending nonces
    pending_per_uid,  \* uid -> number of pending nonces
    sweep,            \* the cleanup task: asleep, or about to lock with `now`
    \* Observation only: no guard reads these.
    issued,           \* nonce -> successful generate calls
    honoured,         \* nonce -> successful consume calls
    swept,            \* nonces whose latest removal was by the sweep
    last              \* the latest call and what it returned

storeVars == <<clock, pending, pending_per_uid, sweep>>
obsVars == <<issued, honoured, swept, last>>
vars == <<storeVars, obsVars>>

Asleep == [awake |-> FALSE, now |-> 0]

\* Instant::duration_since saturates at zero.
DurationSince(t, earlier) == IF t >= earlier THEN t - earlier ELSE 0

PendingOf(u) == {n \in DOMAIN pending : pending[n].uid = u}

\* The map without the keys in S.
Without(f, S) == [n \in DOMAIN f \ S |-> f[n]]

\* decrement_uid_count, saturating, once for each nonce of S that is removed.
DecrementUidCounts(S) ==
    [u \in Uids |-> LET k == Cardinality(PendingOf(u) \cap S)
                    IN  IF pending_per_uid[u] > k THEN pending_per_uid[u] - k ELSE 0]

-----------------------------------------------------------------------------

\* NonceStore::new
Init ==
    /\ clock = 0
    /\ pending = [n \in {} |-> [issued_at |-> 0, uid |-> 0]]
    /\ pending_per_uid = [u \in Uids |-> 0]
    /\ sweep = Asleep
    /\ issued = [n \in Nonces |-> 0]
    /\ honoured = [n \in Nonces |-> 0]
    /\ swept = {}
    /\ last = [op |-> "new", res |-> "Ok"]

Tick ==
    /\ clock < MaxClock
    /\ clock' = clock + 1
    /\ UNCHANGED <<pending, pending_per_uid, sweep, obsVars>>

\* Mutant: both limits off by one.
RefusalOffByOne(u) ==
    IF Cardinality(DOMAIN pending) > MAX_PENDING THEN "TableFull"
    ELSE IF pending_per_uid[u] > MAX_PENDING_PER_UID THEN "TooManyForUid"
    ELSE "none"

\* What generate returns without issuing, if anything.
Refusal(u) ==
    IF Cardinality(DOMAIN pending) >= MAX_PENDING THEN "TableFull"
    ELSE IF pending_per_uid[u] >= MAX_PENDING_PER_UID THEN "TooManyForUid"
    ELSE "none"

GenerateRefused(u) ==
    /\ Refusal(u) # "none"
    /\ last' = [op |-> "generate", uid |-> u, res |-> Refusal(u)]
    /\ UNCHANGED <<storeVars, issued, honoured, swept>>

\* The random source is unavailable, or repeats pending values sixteen times.
GenerateFails(u) ==
    /\ Refusal(u) = "none"
    /\ \/ last' = [op |-> "generate", uid |-> u, res |-> "RandomUnavailable"]
       \/ /\ DOMAIN pending # {}
          /\ last' = [op |-> "generate", uid |-> u, res |-> "TableFull"]
    /\ UNCHANGED <<storeVars, issued, honoured, swept>>

Generate(u, n) ==
    /\ Refusal(u) = "none"
    /\ n \notin DOMAIN pending
    /\ issued[n] < MaxIssued
    /\ pending' = [m \in DOMAIN pending \cup {n} |->
                     IF m = n THEN [issued_at |-> clock, uid |-> u] ELSE pending[m]]
    /\ pending_per_uid' = [pending_per_uid EXCEPT ![u] = @ + 1]
    /\ issued' = [issued EXCEPT ![n] = @ + 1]
    /\ swept' = swept \ {n}
    /\ last' = [op |-> "generate", uid |-> u, nonce |-> n, res |-> "Ok"]
    /\ UNCHANGED <<clock, sweep, honoured>>

\* What consume finds once the nonce is removed: expiry first, then the uid.
ConsumeResult(n, u) ==
    IF DurationSince(clock, pending[n].issued_at) > NONCE_TTL THEN "Expired"
    ELSE IF pending[n].uid # u THEN "UidMismatch"
    ELSE "Ok"

ConsumeMissing(n, u) ==
    /\ n \notin DOMAIN pending
    /\ last' = [op |-> "consume", uid |-> u, nonce |-> n, res |-> "NotFound"]
    /\ UNCHANGED <<storeVars, issued, honoured, swept>>

\* Mutant: the early returns for an unusable nonce come before the decrement.
ConsumeDecrementsLast(n, u) ==
    /\ n \in DOMAIN pending
    /\ pending' = Without(pending, {n})
    /\ pending_per_uid' = IF ConsumeResult(n, u) = "Ok" THEN DecrementUidCounts({n})
                          ELSE pending_per_uid
    /\ UNCHANGED <<clock, sweep, issued, honoured, swept, last>>

\* Mutant: the nonce is looked up, and removed only when it is unusable.
ConsumeKeeps(n, u) ==
    /\ n \in DOMAIN pending
    /\ honoured[n] < MaxIssued
    /\ IF ConsumeResult(n, u) = "Ok"
       THEN /\ honoured' = [honoured EXCEPT ![n] = @ + 1]
            /\ UNCHANGED <<pending, pending_per_uid>>
       ELSE /\ pending' = Without(pending, {n})
            /\ pending_per_uid' = DecrementUidCounts({n})
            /\ UNCHANGED honoured
    /\ UNCHANGED <<clock, sweep, issued, swept, last>>

ConsumePending(n, u) ==
    /\ n \in DOMAIN pending
    /\ pending' = Without(pending, {n})
    /\ pending_per_uid' = DecrementUidCounts({n})
    /\ honoured' = IF ConsumeResult(n, u) = "Ok"
                   THEN [honoured EXCEPT ![n] = @ + 1] ELSE honoured
    /\ last' = [op |-> "consume", uid |-> u, nonce |-> n, res |-> ConsumeResult(n, u)]
    /\ UNCHANGED <<clock, sweep, issued, swept>>

\* The cleanup task wakes and reads the clock, outside the lock.
SweepWake ==
    /\ ~sweep.awake
    /\ sweep' = [awake |-> TRUE, now |-> clock]
    /\ UNCHANGED <<clock, pending, pending_per_uid, obsVars>>

\* Mutant: the age is rounded up.
ExpiredEarly(now) ==
    {n \in DOMAIN pending : DurationSince(now, pending[n].issued_at) + 1 >= NONCE_TTL}

ExpiredAt(now) ==
    {n \in DOMAIN pending : DurationSince(now, pending[n].issued_at) >= NONCE_TTL}

\* Mutant: the clock is read once, before the loop.
SweepHoistedNow ==
    /\ sweep.awake
    /\ pending' = Without(pending, ExpiredAt(sweep.now))
    /\ pending_per_uid' = DecrementUidCounts(ExpiredAt(sweep.now))
    /\ swept' = swept \cup ExpiredAt(sweep.now)
    /\ UNCHANGED <<clock, sweep, issued, honoured, last>>

\* Under the lock it removes what had expired at that reading.
SweepRemove ==
    /\ sweep.awake
    /\ pending' = Without(pending, ExpiredAt(sweep.now))
    /\ pending_per_uid' = DecrementUidCounts(ExpiredAt(sweep.now))
    /\ sweep' = Asleep
    /\ swept' = swept \cup ExpiredAt(sweep.now)
    /\ UNCHANGED <<clock, issued, honoured, last>>

Next ==
    \/ Tick
    \/ \E u \in Uids : GenerateRefused(u) \/ GenerateFails(u)
    \/ \E u \in Uids, n \in Nonces : Generate(u, n)
    \/ \E u \in Uids, n \in Nonces : ConsumeMissing(n, u) \/ ConsumePending(n, u)
    \/ SweepWake
    \/ SweepRemove

Spec == Init /\ [][Next]_vars

\* Time passes and the runtime keeps polling the cleanup task.
FairSpec == Spec /\ WF_vars(Tick) /\ WF_vars(SweepWake) /\ WF_vars(SweepRemove)

-----------------------------------------------------------------------------
(***************************************************************************)
(* Properties                                                              *)
(***************************************************************************)

\* The type invariant.
TypeOK ==
    /\ clock \in 0..MaxClock
    /\ DOMAIN pending \subseteq Nonces
    /\ pending \in [DOMAIN pending -> [issued_at : 0..MaxClock, uid : Uids]]
    /\ pending_per_uid \in [Uids -> Nat]
    /\ sweep \in [awake : BOOLEAN, now : 0..MaxClock]
    /\ issued \in [Nonces -> 0..MaxIssued]
    /\ honoured \in [Nonces -> 0..MaxIssued]
    /\ swept \subseteq Nonces

\* pending_per_uid counts exactly the pending nonces of each uid, whichever of
\* consume (right uid, wrong uid, expired) and the sweep removed the others: a
\* count that drifts up locks the user out for good, one that drifts down
\* disables the per-uid limit (the saturating_sub would hide it).
CountsExact == \A u \in Uids : pending_per_uid[u] = Cardinality(PendingOf(u))

\* Neither table limit is ever exceeded: not the 1024 in all, not the 32 a uid.
WithinLimits ==
    /\ Cardinality(DOMAIN pending) <= MAX_PENDING
    /\ \A u \in Uids : Cardinality(PendingOf(u)) <= MAX_PENDING_PER_UID

\* consume returns Ok at most once for each Ok of generate, and never again
\* while the nonce is pending anew, even if the random source repeats itself.
SingleUse ==
    \A n \in Nonces :
        honoured[n] + (IF n \in DOMAIN pending THEN 1 ELSE 0) <= issued[n]

\* A nonce honoured at this step was issued to the same uid no more than
\* NONCE_TTL ago, and the sweep only ever takes nonces that have reached
\* NONCE_TTL, although its clock reading is stale when it takes the lock.
RemovalsTimely ==
    [][\A n \in DOMAIN pending \ DOMAIN pending' :
          IF n \in swept' \ swept
          THEN clock - pending[n].issued_at >= NONCE_TTL
          ELSE honoured'[n] # honoured[n] =>
                 /\ clock - pending[n].issued_at <= NONCE_TTL
                 /\ last'.uid = pending[n].uid]_vars

\* Every nonce whose time to live ends within the model's clock is removed in
\* the end, also when the task that owns it was aborted and never consumes it.
EventuallyRemoved ==
    \A n \in Nonces :
        (n \in DOMAIN pending /\ pending[n].issued_at + NONCE_TTL <= MaxClock)
            ~> n \notin DOMAIN pending

\* The store implements the abstract ledger the request handler relies on.
Ledger ==
    INSTANCE NonceLedger WITH outstanding <- [n \in DOMAIN pending |-> pending[n].uid]
LedgerSpec == Ledger!Spec
=============================================================================
