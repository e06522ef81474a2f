--------------------------- MODULE NonceStoreProofs ---------------------------
(***************************************************************************)
(* For every set of nonces and uids and every value of the limits: the     *)
(* per-uid counts are exact, the limits hold, and a nonce is honoured at   *)
(* most once for each time it was issued.                                  *)
(*                                                                         *)
(* None of the three is inductive by itself: the limit of generate is      *)
(* tested on the counts, so WithinLimits needs CountsExact, and both need  *)
(* the table to be finite.  NonceInv is their conjunction.                 *)
(***************************************************************************)
EXTENDS NonceStore, FiniteSetTheorems, TLAPS

\* The inductive invariant.
NonceInv ==
    /\ TypeOK
    /\ IsFiniteSet(DOMAIN pending)
    /\ CountsExact
    /\ WithinLimits
    /\ SingleUse

-----------------------------------------------------------------------------

\* A uid's pending nonces are a finite part of the table.
LEMMA PendingOfFinite ==
  ASSUME IsFiniteSet(DOMAIN pending), NEW u
  PROVE  /\ IsFiniteSet(PendingOf(u))
         /\ Cardinality(PendingOf(u)) \in Nat
         /\ Cardinality(PendingOf(u)) <= Cardinality(DOMAIN pending)
<1>1. PendingOf(u) \in SUBSET DOMAIN pending
  BY DEF PendingOf
<1> QED
  BY <1>1, FS_Subset, FS_CardinalityType

\* What consume and the sweep share: removing a set S of pending nonces and
\* decrementing the counts keeps the counts exact and the limits respected.
LEMMA RemovalKeepsCounts ==
  ASSUME NonceInv, NEW S, S \subseteq DOMAIN pending,
         pending' = Without(pending, S),
         pending_per_uid' = DecrementUidCounts(S)
  PROVE  /\ IsFiniteSet(DOMAIN pending')
         /\ pending_per_uid' \in [Uids -> Nat]
         /\ CountsExact'
         /\ WithinLimits'
<1> USE NonceStoreAssumption
<1>1. DOMAIN pending' = DOMAIN pending \ S /\ \A n \in DOMAIN pending' : pending'[n] = pending[n]
  BY DEF Without
<1>2. IsFiniteSet(DOMAIN pending')
  BY <1>1, FS_Difference DEF NonceInv
<1>3. /\ DOMAIN pending' \in SUBSET DOMAIN pending
      /\ Cardinality(DOMAIN pending') <= Cardinality(DOMAIN pending)
  BY <1>1, FS_Subset DEF NonceInv
<1>4. Cardinality(DOMAIN pending') \in Nat /\ Cardinality(DOMAIN pending) \in Nat
  BY <1>2, FS_CardinalityType DEF NonceInv
<1>5. ASSUME NEW u \in Uids
      PROVE  /\ pending_per_uid'[u] = Cardinality(PendingOf(u)')
             /\ Cardinality(PendingOf(u)') \in Nat
             /\ Cardinality(PendingOf(u)') <= Cardinality(PendingOf(u))
  <2>1. PendingOf(u)' = PendingOf(u) \ (PendingOf(u) \cap S)
    BY <1>1 DEF PendingOf
  <2>2. IsFiniteSet(PendingOf(u)) /\ Cardinality(PendingOf(u)) \in Nat
    BY PendingOfFinite DEF NonceInv
  <2> DEFINE R == PendingOf(u) \cap S
  <2>3. IsFiniteSet(R) /\ Cardinality(R) \in Nat /\ Cardinality(R) <= Cardinality(PendingOf(u))
    BY <2>2, FS_Intersection, FS_CardinalityType
  <2>4. PendingOf(u) \cap R = R
    OBVIOUS
  <2>5. Cardinality(PendingOf(u)') = Cardinality(PendingOf(u)) - Cardinality(R)
    BY <2>1, <2>2, <2>4, FS_Difference
  <2>6. pending_per_uid[u] = Cardinality(PendingOf(u))
    BY DEF NonceInv, CountsExact
  <2>7. pending_per_uid'[u] = IF pending_per_uid[u] > Cardinality(R)
                              THEN pending_per_uid[u] - Cardinality(R) ELSE 0
    BY DEF DecrementUidCounts
  <2> HIDE DEF R
  <2> QED
    BY <2>2, <2>3, <2>5, <2>6, <2>7
<1>6. pending_per_uid' \in [Uids -> Nat]
  <2>1. DOMAIN pending_per_uid' = Uids /\ pending_per_uid' = [u \in Uids |-> pending_per_uid'[u]]
    BY DEF DecrementUidCounts
  <2> QED
    BY <1>5, <2>1
<1>7. CountsExact'
  BY <1>5 DEF CountsExact
<1>8. WithinLimits'
  <2>1. Cardinality(DOMAIN pending') <= MAX_PENDING
    BY <1>3, <1>4 DEF NonceInv, WithinLimits
  <2>2. ASSUME NEW u \in Uids
        PROVE  Cardinality(PendingOf(u)') <= MAX_PENDING_PER_UID
    <3>1. Cardinality(PendingOf(u)) \in Nat /\ Cardinality(PendingOf(u)) <= MAX_PENDING_PER_UID
      BY PendingOfFinite DEF NonceInv, WithinLimits
    <3> QED
      BY <1>5, <3>1
  <2> QED
    BY <2>1, <2>2 DEF WithinLimits
<1> QED
  BY <1>2, <1>6, <1>7, <1>8

-----------------------------------------------------------------------------

\* NonceStore::new establishes the invariant.
LEMMA InitNonceInv == Init => NonceInv
<1> SUFFICES ASSUME Init PROVE NonceInv
  OBVIOUS
<1> USE NonceStoreAssumption
<1>1. DOMAIN pending = {}
  BY DEF Init
<1>2. \A u : PendingOf(u) = {}
  BY <1>1 DEF PendingOf
<1>3. IsFiniteSet(DOMAIN pending) /\ Cardinality({}) = 0
  BY <1>1, FS_EmptySet
<1>4. TypeOK
  BY <1>1 DEF Init, TypeOK, Asleep
<1>5. CountsExact /\ WithinLimits
  <2>1. \A u \in Uids : pending_per_uid[u] = 0 /\ Cardinality(PendingOf(u)) = 0
    BY <1>2, <1>3 DEF Init
  <2>2. Cardinality(DOMAIN pending) = 0
    BY <1>1, <1>3
  <2> QED
    BY <2>1, <2>2 DEF CountsExact, WithinLimits
<1>6. SingleUse
  BY <1>1 DEF Init, SingleUse
<1> QED
  BY <1>3, <1>4, <1>5, <1>6 DEF NonceInv

\* Every step of the store keeps it.
LEMMA NextNonceInv == NonceInv /\ [Next]_vars => NonceInv'
<1> SUFFICES ASSUME NonceInv, [Next]_vars PROVE NonceInv'
  OBVIOUS
<1> USE NonceStoreAssumption
<1>1. CASE Tick
  <2>1. TypeOK'
    BY <1>1 DEF NonceInv, TypeOK, Tick, obsVars
  <2>2. \A u : PendingOf(u)' = PendingOf(u)
    BY <1>1 DEF Tick, PendingOf
  <2> QED
    BY <1>1, <2>1, <2>2 DEF NonceInv, Tick, obsVars, CountsExact, WithinLimits, SingleUse
<1>2. ASSUME NEW u \in Uids, GenerateRefused(u) \/ GenerateFails(u)
      PROVE  NonceInv'
  <2>1. UNCHANGED <<clock, pending, pending_per_uid, sweep, issued, honoured, swept>>
    BY <1>2 DEF GenerateRefused, GenerateFails, storeVars
  <2>2. \A v : PendingOf(v)' = PendingOf(v)
    BY <2>1 DEF PendingOf
  <2> QED
    BY <2>1, <2>2 DEF NonceInv, TypeOK, CountsExact, WithinLimits, SingleUse
<1>3. ASSUME NEW u \in Uids, NEW n \in Nonces, Generate(u, n)
      PROVE  NonceInv'
  <2> USE <1>3 DEF Generate
  <2>1. DOMAIN pending' = DOMAIN pending \cup {n} /\ n \notin DOMAIN pending
    OBVIOUS
  <2>2. TypeOK'
    <3>1. pending' \in [DOMAIN pending' -> [issued_at : 0..MaxClock, uid : Uids]]
      BY <2>1 DEF NonceInv, TypeOK
    <3>2. issued' \in [Nonces -> 0..MaxIssued]
      BY DEF NonceInv, TypeOK
    <3> QED
      BY <2>1, <3>1, <3>2 DEF NonceInv, TypeOK
  <2>3. /\ IsFiniteSet(DOMAIN pending')
        /\ Cardinality(DOMAIN pending') = Cardinality(DOMAIN pending) + 1
    BY <2>1, FS_AddElement DEF NonceInv
  <2>4. /\ ~(Cardinality(DOMAIN pending) >= MAX_PENDING)
        /\ ~(pending_per_uid[u] >= MAX_PENDING_PER_UID)
    BY DEF Refusal
  <2>5. Cardinality(DOMAIN pending) \in Nat
    BY FS_CardinalityType DEF NonceInv
  <2>6. ASSUME NEW v \in Uids
        PROVE  /\ pending_per_uid'[v] = Cardinality(PendingOf(v)')
               /\ Cardinality(PendingOf(v)') <= MAX_PENDING_PER_UID
    <3>1. /\ IsFiniteSet(PendingOf(v))
          /\ Cardinality(PendingOf(v)) \in Nat
          /\ pending_per_uid[v] = Cardinality(PendingOf(v))
          /\ Cardinality(PendingOf(v)) <= MAX_PENDING_PER_UID
      BY PendingOfFinite DEF NonceInv, CountsExact, WithinLimits
    <3>2. n \notin PendingOf(v)
      BY DEF PendingOf
    <3>3. CASE v = u
      <4>1. PendingOf(v)' = PendingOf(v) \cup {n}
        BY <2>1, <3>3 DEF PendingOf
      <4>2. Cardinality(PendingOf(v)') = Cardinality(PendingOf(v)) + 1
        BY <3>1, <3>2, <4>1, FS_AddElement
      <4>3. pending_per_uid'[v] = pending_per_uid[v] + 1
        BY <3>3 DEF NonceInv, TypeOK
      <4> QED
        BY <2>4, <3>1, <3>3, <4>2, <4>3, SMTT(60)
    <3>4. CASE v # u
      <4>1. PendingOf(v)' = PendingOf(v)
        BY <2>1, <3>4 DEF PendingOf
      <4>2. pending_per_uid'[v] = pending_per_uid[v]
        BY <3>4 DEF NonceInv, TypeOK
      <4> QED
        BY <3>1, <4>1, <4>2
    <3> QED
      BY <3>3, <3>4
  <2>7. CountsExact' /\ WithinLimits'
    BY <2>3, <2>4, <2>5, <2>6, SMTT(60) DEF CountsExact, WithinLimits
  <2>8. SingleUse'
    BY <2>1 DEF NonceInv, TypeOK, SingleUse
  <2> QED
    BY <2>2, <2>3, <2>7, <2>8 DEF NonceInv
<1>4. ASSUME NEW u \in Uids, NEW n \in Nonces, ConsumeMissing(n, u)
      PROVE  NonceInv'
  <2>1. UNCHANGED <<clock, pending, pending_per_uid, sweep, issued, honoured, swept>>
    BY <1>4 DEF ConsumeMissing, storeVars
  <2>2. \A v : PendingOf(v)' = PendingOf(v)
    BY <2>1 DEF PendingOf
  <2> QED
    BY <2>1, <2>2 DEF NonceInv, TypeOK, CountsExact, WithinLimits, SingleUse
<1>5. ASSUME NEW u \in Uids, NEW n \in Nonces, ConsumePending(n, u)
      PROVE  NonceInv'
  <2> USE <1>5 DEF ConsumePending
  <2>1. DOMAIN pending' = DOMAIN pending \ {n} /\ n \in DOMAIN pending
    BY DEF Without
  <2>2. /\ IsFiniteSet(DOMAIN pending')
        /\ pending_per_uid' \in [Uids -> Nat]
        /\ CountsExact'
        /\ WithinLimits'
    <3>1. {n} \subseteq DOMAIN pending
      BY <2>1
    <3> QED
      BY <3>1, RemovalKeepsCounts
  <2>3. honoured[n] + 1 <= issued[n]
    BY <2>1 DEF NonceInv, SingleUse
  <2>4. honoured' \in [Nonces -> 0..MaxIssued]
    BY <2>3 DEF NonceInv, TypeOK
  <2>5. TypeOK'
    BY <2>1, <2>2, <2>4 DEF NonceInv, TypeOK, Without
  <2>6. SingleUse'
    <3> SUFFICES ASSUME NEW m \in Nonces
                 PROVE  honoured'[m] + (IF m \in DOMAIN pending' THEN 1 ELSE 0) <= issued'[m]
      BY DEF SingleUse
    <3>1. /\ honoured[m] \in Nat /\ issued[m] \in Nat
          /\ honoured[m] + (IF m \in DOMAIN pending THEN 1 ELSE 0) <= issued[m]
      BY DEF NonceInv, TypeOK, SingleUse
    <3>2. CASE m = n
      BY <2>1, <2>3, <3>1, <3>2, SMTT(60) DEF NonceInv, TypeOK
    <3>3. CASE m # n
      BY <2>1, <3>1, <3>3 DEF NonceInv, TypeOK
    <3> QED
      BY <3>2, <3>3
  <2> QED
    BY <2>2, <2>5, <2>6 DEF NonceInv
<1>6. CASE SweepWake
  <2>1. TypeOK'
    BY <1>6 DEF NonceInv, TypeOK, SweepWake, obsVars
  <2>2. \A u : PendingOf(u)' = PendingOf(u)
    BY <1>6 DEF SweepWake, PendingOf
  <2> QED
    BY <1>6, <2>1, <2>2 DEF NonceInv, SweepWake, obsVars, CountsExact, WithinLimits, SingleUse
<1>7. CASE SweepRemove
  <2> USE <1>7 DEF SweepRemove
  <2> DEFINE S == ExpiredAt(sweep.now)
  <2>1. S \subseteq DOMAIN pending /\ DOMAIN pending' = DOMAIN pending \ S
    BY DEF ExpiredAt, Without
  <2>2. /\ IsFiniteSet(DOMAIN pending')
        /\ pending_per_uid' \in [Uids -> Nat]
        /\ CountsExact'
        /\ WithinLimits'
    BY <2>1, RemovalKeepsCounts
  <2>3. TypeOK'
    BY <2>1, <2>2 DEF NonceInv, TypeOK, Without, Asleep
  <2>4. SingleUse'
    BY <2>1 DEF NonceInv, TypeOK, SingleUse
  <2> QED
    BY <2>2, <2>3, <2>4 DEF NonceInv
<1>8. CASE UNCHANGED vars
  <2>1. \A u : PendingOf(u)' = PendingOf(u)
    BY <1>8 DEF vars, storeVars, PendingOf
  <2> QED
    BY <1>8, <2>1 DEF NonceInv, vars, storeVars, obsVars, TypeOK, CountsExact, WithinLimits, SingleUse
<1> QED
  BY <1>1, <1>2, <1>3, <1>4, <1>5, <1>6, <1>7, <1>8 DEF Next

\* NonceInv holds of every reachable state of the store.
LEMMA NonceInvariant == Spec => []NonceInv
BY InitNonceInv, NextNonceInv, PTL DEF Spec

\* generate, consume and the sweep keep the store well typed.
THEOREM StoreTypeCorrect == Spec => []TypeOK
BY NonceInvariant, PTL DEF NonceInv

\* pending_per_uid never drifts from the table, whatever path removed a nonce.
THEOREM CountsAlwaysExact == Spec => []CountsExact
BY NonceInvariant, PTL DEF NonceInv

\* The global and the per-uid limit of generate are never exceeded.
THEOREM LimitsAlwaysHold == Spec => []WithinLimits
BY NonceInvariant, PTL DEF NonceInv

\* consume returns Ok at most once for each nonce issued.
THEOREM SingleUseHolds == Spec => []SingleUse
BY NonceInvariant, PTL DEF NonceInv

-----------------------------------------------------------------------------

\* No recorded instant lies in the future, so that an age computed from the
\* sweep's stale reading never exceeds the real one; and what is pending was
\* not swept since it was issued.
TimesSound ==
    /\ sweep.now <= clock
    /\ \A n \in DOMAIN pending : pending[n].issued_at <= clock /\ n \notin swept

\* It holds of every reachable state.
LEMMA TimesInvariant == Spec => []TimesSound
<1>1. Init => TimesSound
  BY DEF Init, TimesSound, Asleep
<1>2. NonceInv /\ TimesSound /\ [Next]_vars => TimesSound'
  <2> SUFFICES ASSUME NonceInv, TimesSound, [Next]_vars PROVE TimesSound'
    OBVIOUS
  <2> USE NonceStoreAssumption DEF TimesSound
  <2>0. clock \in Nat /\ sweep.now \in Nat /\ \A n \in DOMAIN pending : pending[n].issued_at \in Nat
    BY DEF NonceInv, TypeOK
  <2>1. CASE Tick
    BY <2>0, <2>1 DEF Tick, obsVars
  <2>2. ASSUME NEW u \in Uids, GenerateRefused(u) \/ GenerateFails(u)
        PROVE  TimesSound'
    BY <2>2 DEF GenerateRefused, GenerateFails, storeVars
  <2>3. ASSUME NEW u \in Uids, NEW n \in Nonces, Generate(u, n)
        PROVE  TimesSound'
    <3>1. clock' = clock /\ sweep' = sweep /\ swept' = swept \ {n}
      BY <2>3 DEF Generate
    <3>2. DOMAIN pending' = DOMAIN pending \cup {n}
      BY <2>3 DEF Generate
    <3>3. pending'[n].issued_at = clock
      BY <2>3 DEF Generate
    <3>4. \A m \in DOMAIN pending : m # n => pending'[m] = pending[m]
      BY <2>3 DEF Generate
    <3>5. \A m \in DOMAIN pending' : pending'[m].issued_at <= clock
      BY <2>0, <3>2, <3>3, <3>4
    <3>6. \A m \in DOMAIN pending' : m \notin swept'
      BY <3>1, <3>2
    <3> QED
      BY <3>1, <3>5, <3>6
  <2>4. ASSUME NEW u \in Uids, NEW n \in Nonces, ConsumeMissing(n, u) \/ ConsumePending(n, u)
        PROVE  TimesSound'
    BY <2>4 DEF ConsumeMissing, ConsumePending, storeVars, Without
  <2>5. CASE SweepWake
    BY <2>0, <2>5 DEF SweepWake, obsVars
  <2>6. CASE SweepRemove
    BY <2>0, <2>6 DEF SweepRemove, Without, Asleep
  <2>7. CASE UNCHANGED vars
    BY <2>7 DEF vars, storeVars, obsVars
  <2> QED
    BY <2>1, <2>2, <2>3, <2>4, <2>5, <2>6, <2>7 DEF Next
<1> QED
  BY <1>1, <1>2, NonceInvariant, PTL DEF Spec

\* The sweep takes no nonce before its time and consume honours none after it,
\* although the sweep's clock reading is stale once it holds the lock.
THEOREM RemovalsAreTimely == Spec => RemovalsTimely
<1> DEFINE Timely ==
      \A n \in DOMAIN pending \ DOMAIN pending' :
          IF n \in swept' \ swept
          THEN clock - pending[n].issued_at >= NONCE_TTL
          ELSE honoured'[n] # honoured[n] =>
                 /\ clock - pending[n].issued_at <= NONCE_TTL
                 /\ last'.uid = pending[n].uid
<1>1. NonceInv /\ TimesSound /\ [Next]_vars => [Timely]_vars
  <2> SUFFICES ASSUME NonceInv, TimesSound, Next,
                      NEW n \in DOMAIN pending, n \notin DOMAIN pending'
               PROVE  IF n \in swept' \ swept
                      THEN clock - pending[n].issued_at >= NONCE_TTL
                      ELSE honoured'[n] # honoured[n] =>
                             /\ clock - pending[n].issued_at <= NONCE_TTL
                             /\ last'.uid = pending[n].uid
    OBVIOUS
  <2> USE NonceStoreAssumption
  <2>0. /\ clock \in Nat /\ sweep.now \in Nat /\ sweep.now <= clock /\ n \in Nonces
        /\ pending[n].issued_at \in Nat /\ pending[n].issued_at <= clock /\ n \notin swept
    BY DEF NonceInv, TypeOK, TimesSound
  <2>1. CASE Tick \/ SweepWake
    BY <2>1 DEF Tick, SweepWake
  <2>2. ASSUME NEW u \in Uids,
               GenerateRefused(u) \/ GenerateFails(u) \/ (\E m \in Nonces : Generate(u, m) \/ ConsumeMissing(m, u))
        PROVE  FALSE
    BY <2>2 DEF GenerateRefused, GenerateFails, Generate, ConsumeMissing, storeVars
  <2>3. ASSUME NEW u \in Uids, NEW m \in Nonces, ConsumePending(m, u)
        PROVE  /\ n \notin swept'
               /\ honoured'[n] # honoured[n] => /\ clock - pending[n].issued_at <= NONCE_TTL
                                                /\ last'.uid = pending[n].uid
    <3>1. m = n /\ swept' = swept
      BY <2>3 DEF ConsumePending, Without
    <3>2. honoured'[n] # honoured[n] => ConsumeResult(n, u) = "Ok"
      BY <2>3, <3>1 DEF ConsumePending
    <3>3. ConsumeResult(n, u) = "Ok" => /\ clock - pending[n].issued_at <= NONCE_TTL
                                       /\ pending[n].uid = u
      BY <2>0 DEF ConsumeResult, DurationSince
    <3>4. last'.uid = u
      BY <2>3 DEF ConsumePending
    <3> QED
      BY <2>0, <3>1, <3>2, <3>3, <3>4
  <2>4. CASE SweepRemove
    <3>1. n \in ExpiredAt(sweep.now) /\ n \in swept'
      BY <2>4 DEF SweepRemove, Without
    <3>2. DurationSince(sweep.now, pending[n].issued_at) >= NONCE_TTL
      BY <3>1 DEF ExpiredAt
    <3>3. clock - pending[n].issued_at >= NONCE_TTL
      BY <2>0, <3>2 DEF DurationSince
    <3> QED
      BY <2>0, <3>1, <3>3
  <2> QED
    BY <2>1, <2>2, <2>3, <2>4 DEF Next
<1> QED
  BY <1>1, NonceInvariant, TimesInvariant, PTL DEF Spec, RemovalsTimely

-----------------------------------------------------------------------------

\* The store implements the ledger that the request handler is built on.
THEOREM StoreImplementsLedger == Spec => LedgerSpec
<1> DEFINE out == [n \in DOMAIN pending |-> pending[n].uid]
<1>1. Init => Ledger!Init
  <2> SUFFICES ASSUME Init PROVE Ledger!Init
    OBVIOUS
  <2>1. DOMAIN pending = {}
    BY DEF Init
  <2>2. out = [n \in {} |-> 0]
    BY <2>1
  <2> QED
    BY <2>2 DEF Init, Ledger!Init
<1>2. NonceInv /\ [Next]_vars => [Ledger!Next]_(Ledger!vars)
  <2> SUFFICES ASSUME NonceInv, [Next]_vars PROVE [Ledger!Next]_(Ledger!vars)
    OBVIOUS
  <2>0. DOMAIN pending \subseteq Nonces /\ \A n \in DOMAIN pending : pending[n].uid \in Uids
    BY DEF NonceInv, TypeOK
  <2>1. ASSUME UNCHANGED <<pending, honoured>> PROVE UNCHANGED Ledger!vars
    BY <2>1 DEF Ledger!vars
  <2>2. ASSUME NEW S \in SUBSET DOMAIN pending, pending' = Without(pending, S)
        PROVE  Ledger!Dropped(S)
    <3>1. DOMAIN out = DOMAIN pending /\ DOMAIN pending' = DOMAIN pending \ S
      BY <2>2 DEF Without
    <3>2. \A n \in DOMAIN pending \ S : pending'[n].uid = out[n]
      BY <2>2 DEF Without
    <3>3. out' = [m \in DOMAIN out \ S |-> out[m]]
      BY <3>1, <3>2
    <3> QED
      BY <3>3 DEF Ledger!Dropped
  <2>3. ASSUME NEW u \in Uids, NEW n \in Nonces, Generate(u, n)
        PROVE  Ledger!Issue(n, u)
    <3>1. DOMAIN out = DOMAIN pending /\ DOMAIN pending' = DOMAIN pending \cup {n}
      BY <2>3 DEF Generate
    <3>2. \A m \in DOMAIN pending \cup {n} : pending'[m].uid = IF m = n THEN u ELSE out[m]
      BY <2>3 DEF Generate
    <3>3. out' = [m \in DOMAIN out \cup {n} |-> IF m = n THEN u ELSE out[m]]
      BY <3>1, <3>2
    <3> QED
      BY <2>3, <3>1, <3>3 DEF Generate, Ledger!Issue
  <2>4. ASSUME NEW u \in Uids, NEW n \in Nonces, ConsumePending(n, u)
        PROVE  Ledger!Honour(n, u) \/ Ledger!Discard({n})
    <3>1. n \in DOMAIN pending /\ {n} \in SUBSET DOMAIN pending /\ DOMAIN out = DOMAIN pending
      BY <2>4 DEF ConsumePending
    <3>2. Ledger!Dropped({n})
      BY <2>2, <2>4, <3>1 DEF ConsumePending
    <3>3. CASE ConsumeResult(n, u) = "Ok"
      <4>1. out[n] = u
        BY <3>1, <3>3 DEF ConsumeResult
      <4> QED
        BY <2>4, <3>1, <3>2, <3>3, <4>1 DEF ConsumePending, Ledger!Honour
    <3>4. CASE ConsumeResult(n, u) # "Ok"
      BY <2>4, <3>1, <3>2, <3>4 DEF ConsumePending, Ledger!Discard
    <3> QED
      BY <3>3, <3>4
  <2>5. ASSUME SweepRemove PROVE \E S \in SUBSET Nonces : Ledger!Discard(S)
    <3>0. PICK S : S = ExpiredAt(sweep.now)
      OBVIOUS
    <3>1. S \in SUBSET DOMAIN pending /\ S \in SUBSET Nonces /\ DOMAIN out = DOMAIN pending
      BY <2>0, <3>0 DEF ExpiredAt
    <3>2. pending' = Without(pending, S) /\ honoured' = honoured
      BY <2>5, <3>0 DEF SweepRemove
    <3>3. Ledger!Dropped(S)
      BY <2>2, <3>1, <3>2
    <3>4. Ledger!Discard(S)
      BY <3>1, <3>2, <3>3 DEF Ledger!Discard
    <3> QED
      BY <3>1, <3>4
  <2>6. CASE Tick \/ SweepWake \/ UNCHANGED vars
    BY <2>1, <2>6 DEF Tick, SweepWake, vars, storeVars, obsVars
  <2>7. ASSUME NEW u \in Uids,
               GenerateRefused(u) \/ GenerateFails(u) \/ (\E n \in Nonces : ConsumeMissing(n, u))
        PROVE  UNCHANGED Ledger!vars
    BY <2>1, <2>7 DEF GenerateRefused, GenerateFails, ConsumeMissing, storeVars
  <2>8. ASSUME NEW n \in Nonces PROVE {n} \in SUBSET Nonces
    OBVIOUS
  <2> QED
    BY <2>3, <2>4, <2>5, <2>6, <2>7, <2>8 DEF Next, Ledger!Next
<1> QED
  BY <1>1, <1>2, NonceInvariant, PTL DEF Spec, LedgerSpec, Ledger!Spec
=============================================================================
