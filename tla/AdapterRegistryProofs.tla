------------------------- MODULE AdapterRegistryProofs -------------------------
(***************************************************************************)
(* For every set of adapters, methods and requests: an adapter has at most *)
(* one request at a time and its permit is never lost, a request is routed *)
(* only to an adapter that has answered a probe, and health changes only   *)
(* as health.rs says.                                                      *)
(*                                                                         *)
(* The semaphore's queue and the health map are independent, so are the    *)
(* two halves of the invariant; they meet in the requests that wait, whose *)
(* adapter has answered although it may be Down by now.                    *)
(***************************************************************************)
EXTENDS AdapterRegistry, SequenceTheorems, TLAPS

Health == [status : {"Up", "Degraded", "Down"}, consecutive_failures : 0..DOWN_AFTER,
           last_success : BOOLEAN]

\* The three states are determined by the probes: Up after a success, Degraded
\* after one or two failures since, Down after more or before any success.
Sound(h) ==
    /\ h.status = "Up" => h.last_success /\ h.consecutive_failures = 0
    /\ h.status = "Degraded" => h.last_success
    /\ h.status = "Down" => ~h.last_success \/ h.consecutive_failures = DOWN_AFTER

HealthSound == \A a \in Adapters : Sound(health[a])

\* The inductive invariant.
RegistryInv ==
    /\ TypeOK
    /\ HealthSound
    /\ RoutedAfterProbe
    /\ PermitAccounted

-----------------------------------------------------------------------------
(* Operators *)

\* record_probe keeps a health record sound and moves it as the comment on
\* HealthStatus says; a success is never forgotten.
LEMMA RecordProbeFacts ==
  ASSUME NEW h \in Health, Sound(h), NEW is_up \in BOOLEAN
  PROVE  LET g == RecordProbe(h, is_up)
         IN  /\ g \in Health /\ Sound(g)
             /\ h.last_success => g.last_success
             /\ h.status = "Up" => g.status # "Down"
             /\ h.status = "Down" => g.status # "Degraded"
<1> DEFINE n == OneMore(h.consecutive_failures)
           g == RecordProbe(h, is_up)
<1>1. n \in 1..DOWN_AFTER /\ (h.consecutive_failures = 0 => n < DOWN_AFTER)
      /\ (h.consecutive_failures = DOWN_AFTER => n = DOWN_AFTER)
  BY DEF OneMore, DOWN_AFTER, Health
<1>2. CASE is_up
  <2>1. g = [status |-> "Up", consecutive_failures |-> 0, last_success |-> TRUE]
    BY <1>2 DEF RecordProbe
  <2> QED
    BY <2>1 DEF Health, Sound, DOWN_AFTER
<1>3. CASE ~is_up
  <2> DEFINE st == IF h.last_success /\ n < DOWN_AFTER THEN "Degraded" ELSE "Down"
  <2>1. g = [h EXCEPT !.consecutive_failures = n, !.status = st]
    BY <1>3 DEF RecordProbe
  <2>2. st \in {"Degraded", "Down"} /\ (st = "Degraded" => h.last_success)
        /\ (st = "Down" => ~h.last_success \/ n = DOWN_AFTER)
    BY <1>1 DEF DOWN_AFTER
  <2>3. (h.status = "Up" => st = "Degraded") /\ (h.status = "Down" => st = "Down")
    BY <1>1 DEF Sound, DOWN_AFTER
  <2> HIDE DEF n, st, g
  <2>4. n \in 0..DOWN_AFTER /\ st \in {"Up", "Degraded", "Down"}
    BY <1>1, <2>2 DEF DOWN_AFTER
  <2>5. g.consecutive_failures = n /\ g.status = st /\ g.last_success = h.last_success
    BY <2>1 DEF Health
  <2>6. g \in Health
    BY <2>1, <2>4 DEF Health
  <2> QED
    BY <2>2, <2>3, <2>5, <2>6 DEF Sound, g
<1> QED
  BY <1>2, <1>3

\* Taking one element out of a sequence without repetitions takes out that
\* element and no other.
LEMMA RemoveAtFacts ==
  ASSUME NEW S, NEW s \in Seq(S), IsInjective(s), NEW i \in DOMAIN s
  PROVE  LET t == RemoveAt(s, i)
         IN  t \in Seq(S) /\ IsInjective(t) /\ Range(t) = Range(s) \ {s[i]}
<1> DEFINE t == RemoveAt(s, i)
<1>1. Len(s) \in Nat /\ DOMAIN s = 1..Len(s) /\ i \in 1..Len(s)
  OBVIOUS
<1>2. t \in Seq(S) /\ Len(t) = Len(s) - 1 /\ DOMAIN t = 1..(Len(s) - 1)
      /\ \A j \in 1..(Len(s) - 1) : t[j] = IF j < i THEN s[j] ELSE s[j + 1]
  <2> DEFINE u == SubSeq(s, 1, i - 1)
             v == SubSeq(s, i + 1, Len(s))
  <2>1. u \in Seq(S) /\ Len(u) = i - 1 /\ \A j \in 1..(i - 1) : u[j] = s[j]
    BY <1>1
  <2>2. v \in Seq(S) /\ Len(v) = Len(s) - i /\ \A j \in 1..(Len(s) - i) : v[j] = s[i + j]
    BY <1>1
  <2>3. t = u \o v
    BY DEF RemoveAt
  <2> HIDE DEF u, v, t
  <2>4. t \in Seq(S) /\ Len(t) = Len(s) - 1
    <3>1. t \in Seq(S) /\ Len(t) = Len(u) + Len(v)
      BY <2>1, <2>2, <2>3, ConcatProperties
    <3> QED
      BY <1>1, <2>1, <2>2, <3>1
  <2>5. ASSUME NEW j \in 1..(Len(s) - 1) PROVE t[j] = IF j < i THEN s[j] ELSE s[j + 1]
    <3>1. CASE j < i
      BY <1>1, <2>1, <2>2, <2>3, <3>1
    <3>2. CASE ~(j < i)
      <4>1. t[j] = v[j - (i - 1)] /\ j - (i - 1) \in 1..(Len(s) - i) /\ i + (j - (i - 1)) = j + 1
        BY <1>1, <2>1, <2>2, <2>3, <3>2, SMTT(60)
      <4>2. v[j - (i - 1)] = s[i + (j - (i - 1))]
        BY <2>2, <4>1
      <4> QED
        BY <3>2, <4>1, <4>2
    <3> QED
      BY <3>1, <3>2
  <2> QED
    BY <1>1, <2>4, <2>5
<1> HIDE DEF t
<1>3. IsInjective(t)
  <2> SUFFICES ASSUME NEW j \in 1..(Len(s) - 1), NEW k \in 1..(Len(s) - 1), t[j] = t[k]
               PROVE  j = k
    BY <1>2 DEF IsInjective
  <2>1. PICK x \in 1..Len(s) : t[j] = s[x] /\ x = IF j < i THEN j ELSE j + 1
    BY <1>1, <1>2
  <2>2. PICK y \in 1..Len(s) : t[k] = s[y] /\ y = IF k < i THEN k ELSE k + 1
    BY <1>1, <1>2
  <2>3. x = y
    BY <1>1, <2>1, <2>2 DEF IsInjective
  <2> QED
    BY <1>1, <2>1, <2>2, <2>3
<1>4. ASSUME NEW x PROVE x \in Range(t) <=> x \in Range(s) /\ x # s[i]
  <2>1. ASSUME NEW j \in 1..(Len(s) - 1) PROVE t[j] \in Range(s) /\ t[j] # s[i]
    <3>1. PICK k \in 1..Len(s) : t[j] = s[k] /\ k # i
      BY <1>1, <1>2
    <3> QED
      BY <1>1, <3>1 DEF IsInjective, Range
  <2>2. ASSUME NEW k \in 1..Len(s), k # i PROVE s[k] \in Range(t)
    <3>1. CASE k < i
      BY <1>1, <1>2, <2>2, <3>1 DEF Range
    <3>2. CASE k > i
      <4>1. k - 1 \in 1..(Len(s) - 1) /\ ~(k - 1 < i) /\ (k - 1) + 1 = k
        BY <1>1, <2>2, <3>2
      <4>2. t[k - 1] = s[k]
        BY <1>2, <4>1
      <4> QED
        BY <1>2, <4>1, <4>2 DEF Range
    <3> QED
      BY <1>1, <2>2, <3>1, <3>2
  <2> QED
    BY <1>1, <1>2, <2>1, <2>2 DEF Range
<1> QED
  BY <1>2, <1>3, <1>4 DEF t

\* The same for the first element, and for adding one at the end.
LEMMA QueueFacts ==
  ASSUME NEW S, NEW s \in Seq(S), IsInjective(s)
  PROVE  /\ s # <<>> => /\ Head(s) \in Range(s)
                        /\ Tail(s) \in Seq(S) /\ IsInjective(Tail(s))
                        /\ Range(Tail(s)) = Range(s) \ {Head(s)}
         /\ \A x \in S : x \notin Range(s) =>
              /\ Append(s, x) \in Seq(S) /\ IsInjective(Append(s, x))
              /\ Range(Append(s, x)) = Range(s) \cup {x}
              /\ Append(s, x) # <<>>
<1>1. Len(s) \in Nat /\ DOMAIN s = 1..Len(s)
  OBVIOUS
<1>2. ASSUME s # <<>>
      PROVE  /\ Head(s) \in Range(s)
             /\ Tail(s) \in Seq(S) /\ IsInjective(Tail(s))
             /\ Range(Tail(s)) = Range(s) \ {Head(s)}
  <2> DEFINE t == Tail(s)
  <2>1. Len(s) > 0 /\ Head(s) = s[1] /\ t \in Seq(S) /\ Len(t) = Len(s) - 1
        /\ DOMAIN t = 1..(Len(s) - 1) /\ \A j \in 1..(Len(s) - 1) : t[j] = s[j + 1]
    BY <1>1, <1>2
  <2> HIDE DEF t
  <2>2. Head(s) \in Range(s)
    BY <1>1, <2>1 DEF Range
  <2>6. IsInjective(t)
    <3> SUFFICES ASSUME NEW j \in 1..(Len(s) - 1), NEW k \in 1..(Len(s) - 1), t[j] = t[k]
                 PROVE  j = k
      BY <2>1 DEF IsInjective
    <3>1. s[j + 1] = s[k + 1] /\ j + 1 \in DOMAIN s /\ k + 1 \in DOMAIN s
      BY <1>1, <2>1
    <3>2. j + 1 = k + 1
      BY <3>1 DEF IsInjective
    <3> QED
      BY <1>1, <3>2
  <2>3. ASSUME NEW j \in 1..(Len(s) - 1) PROVE t[j] \in Range(s) /\ t[j] # s[1]
    BY <1>1, <2>1 DEF IsInjective, Range
  <2>4. ASSUME NEW k \in 1..Len(s), k # 1 PROVE s[k] \in Range(t)
    <3>1. k - 1 \in 1..(Len(s) - 1) /\ (k - 1) + 1 = k
      BY <1>1, <2>4
    <3>2. t[k - 1] = s[k]
      BY <2>1, <3>1
    <3> QED
      BY <2>1, <3>1, <3>2 DEF Range
  <2>5. \A x : x \in Range(t) <=> x \in Range(s) /\ x # Head(s)
    BY <1>1, <2>1, <2>3, <2>4 DEF Range
  <2> QED
    BY <2>1, <2>2, <2>5, <2>6 DEF t
<1>3. ASSUME NEW x \in S, x \notin Range(s)
      PROVE  /\ Append(s, x) \in Seq(S) /\ IsInjective(Append(s, x))
             /\ Range(Append(s, x)) = Range(s) \cup {x}
             /\ Append(s, x) # <<>>
  <2> DEFINE t == Append(s, x)
  <2>1. t \in Seq(S) /\ Len(t) = Len(s) + 1 /\ DOMAIN t = 1..(Len(s) + 1)
        /\ t[Len(s) + 1] = x /\ \A j \in 1..Len(s) : t[j] = s[j]
    BY <1>1
  <2>2. t # <<>>
    BY <1>1
  <2> HIDE DEF t
  <2>3. \A j \in 1..Len(s) : s[j] \in Range(s) /\ s[j] # x
    BY <1>1, <1>3 DEF Range
  <2>4. IsInjective(t)
    BY <1>1, <2>1, <2>3 DEF IsInjective
  <2>5. \A y : y \in Range(t) <=> y \in Range(s) \/ y = x
    BY <1>1, <2>1 DEF Range
  <2> QED
    BY <2>1, <2>2, <2>4, <2>5 DEF t
<1> QED
  BY <1>2, <1>3

-----------------------------------------------------------------------------
(* The health map *)

Queued(a) == {r \in Requests : req[r].pc = "queued" /\ req[r].adapter = a}

\* PermitAccounted, for one adapter.
AccountedAt(a) ==
    /\ \A r, s \in Holders(a) : r = s
    /\ waiters[a] # <<>> => Holders(a) # {}
    /\ IsInjective(waiters[a])
    /\ Range(waiters[a]) = Queued(a)

\* PermitAccounted is AccountedAt of every adapter.
LEMMA Accounted == PermitAccounted <=> \A a \in Adapters : AccountedAt(a)
BY DEF PermitAccounted, AccountedAt, Queued, PermitFree

\* The same in the next state.
LEMMA AccountedNext == PermitAccounted' <=> \A a \in Adapters : AccountedAt(a)'
BY DEF PermitAccounted, AccountedAt, Queued, PermitFree

\* The monitor at its next client, or asleep.
LEMMA NextClientType ==
  ASSUME TypeOK
  PROVE  NextClient \in [at : 0..Len(Clients), pinging : BOOLEAN, overlap : BOOLEAN]
<1>1. Len(Clients) \in Nat
  BY RegistryAssumption
<1>2. monitor.at \in 0..Len(Clients)
  BY DEF TypeOK
<1> QED
  BY <1>1, <1>2 DEF NextClient, MonitorAsleep

\* The steps of the monitor: a probe's result keeps the health map sound and
\* forgets no success, so whoever was routed stays rightly routed.
LEMMA MonitorStep ==
  ASSUME RegistryInv, Monitor
  PROVE  RegistryInv'
<1>1. UNCHANGED <<req, waiters, healthy>>
  BY DEF Monitor, MonitorTick, MonitorLook, MonitorRecord
<1>2. PermitAccounted'
  BY <1>1 DEF RegistryInv, PermitAccounted, PermitFree, Holders
<1>3. monitor' \in [at : 0..Len(Clients), pinging : BOOLEAN, overlap : BOOLEAN]
  <2>1. monitor' = NextClient \/ monitor' = [monitor EXCEPT !.pinging = TRUE]
    BY DEF Monitor, MonitorTick, MonitorLook, MonitorRecord
  <2> QED
    BY <2>1, NextClientType DEF RegistryInv, TypeOK
<1>4. \/ health' = health
      \/ \E a, b : b \in BOOLEAN /\ health' = [health EXCEPT ![a] = RecordProbe(health[a], b)]
  BY DEF Monitor, MonitorTick, MonitorLook, MonitorRecord
<1>5. /\ health' \in [Adapters -> Health]
      /\ \A a \in Adapters : Sound(health'[a]) /\ (health[a].last_success => health'[a].last_success)
  <2>1. health \in [Adapters -> Health] /\ \A a \in Adapters : Sound(health[a])
    BY DEF RegistryInv, TypeOK, HealthSound, Health
  <2>2. CASE health' = health
    BY <2>1, <2>2
  <2>3. ASSUME NEW a, NEW b \in BOOLEAN, health' = [health EXCEPT ![a] = RecordProbe(health[a], b)]
        PROVE  <1>5!1 /\ <1>5!2
    <3>1. CASE a \notin Adapters
      <4>1. health' = health
        BY <2>1, <2>3, <3>1
      <4> QED
        BY <2>1, <4>1
    <3>2. CASE a \in Adapters
      <4>1. PICK h \in Health : h = health[a] /\ Sound(h)
        BY <2>1, <3>2
      <4>2. PICK g : g = RecordProbe(h, b)
        OBVIOUS
      <4>3. g \in Health /\ Sound(g) /\ (h.last_success => g.last_success)
        BY <4>1, <4>2, RecordProbeFacts
      <4>4. health' = [health EXCEPT ![a] = g]
        BY <2>3, <4>1, <4>2
      <4> QED
        BY <2>1, <3>2, <4>1, <4>3, <4>4
    <3> QED
      BY <3>1, <3>2
  <2> QED
    BY <1>4, <2>2, <2>3
<1>6. TypeOK'
  BY <1>1, <1>3, <1>5 DEF RegistryInv, TypeOK, Health
<1>7. HealthSound'
  BY <1>5 DEF HealthSound
<1>8. RoutedAfterProbe'
  <2> SUFFICES ASSUME NEW r \in Requests, req[r].pc \in {"checked", "queued", "holding", "sent"}
               PROVE  health'[req[r].adapter].last_success
    BY <1>1 DEF RoutedAfterProbe
  <2>1. req[r].adapter \in Adapters /\ health[req[r].adapter].last_success
    BY DEF RegistryInv, TypeOK, RoutedAfterProbe
  <2> QED
    BY <1>5, <2>1
<1> QED
  BY <1>2, <1>6, <1>7, <1>8 DEF RegistryInv

-----------------------------------------------------------------------------
(* The requests and the queues *)

ReqType == [pc : {"idle", "resolved", "checked", "queued", "holding", "sent"},
            adapter : Adapters \cup {NoAdapter}]

\* What a step of a request must keep, when it leaves the health map, the
\* monitor's type and the adapters alone.
LEMMA RequestStep ==
  ASSUME RegistryInv,
         UNCHANGED <<health, healthy>>,
         monitor' \in [at : 0..Len(Clients), pinging : BOOLEAN, overlap : BOOLEAN],
         req' \in [Requests -> ReqType],
         \A r \in Requests :
             /\ req'[r].pc # "idle" => req'[r].adapter \in Adapters
             /\ req'[r].pc \in {"checked", "queued", "holding", "sent"}
                  => health[req'[r].adapter].last_success,
         DOMAIN waiters' = Adapters,
         \A a \in Adapters : waiters'[a] \in Seq(Requests) /\ AccountedAt(a)'
  PROVE  RegistryInv'
<1>1. TypeOK'
  BY DEF RegistryInv, TypeOK, ReqType
<1>2. HealthSound'
  BY DEF RegistryInv, HealthSound
<1>3. RoutedAfterProbe'
  BY DEF RoutedAfterProbe
<1> QED
  BY <1>1, <1>2, <1>3, AccountedNext DEF RegistryInv

\* A step of a request that is not at the semaphore, to a place that is not
\* either: resolve, the check, and the end of a task before it waits.
LEMMA QuietStep ==
  ASSUME RegistryInv, NEW r \in Requests, NEW x \in ReqType,
         req[r].pc \in {"idle", "resolved", "checked"},
         x.pc \in {"idle", "resolved", "checked"},
         x.pc # "idle" => x.adapter \in Adapters,
         x.pc = "checked" => health[x.adapter].last_success,
         req' = [req EXCEPT ![r] = x],
         UNCHANGED <<health, monitor, waiters, healthy>>
  PROVE  RegistryInv'
<1>1. req \in [Requests -> ReqType] /\ req' \in [Requests -> ReqType]
  BY DEF RegistryInv, TypeOK, ReqType
<1>2. \A q \in Requests : req'[q] = IF q = r THEN x ELSE req[q]
  BY <1>1
<1>3. \A a \in Adapters : Holders(a)' = Holders(a) /\ Queued(a)' = Queued(a)
  BY <1>1, <1>2 DEF Holders, Queued
<1>4. \A a \in Adapters : AccountedAt(a)'
  BY <1>3, Accounted DEF RegistryInv, AccountedAt
<1>5. \A q \in Requests :
         /\ req'[q].pc # "idle" => req'[q].adapter \in Adapters
         /\ req'[q].pc \in {"checked", "queued", "holding", "sent"}
              => health[req'[q].adapter].last_success
  BY <1>2 DEF RegistryInv, TypeOK, RoutedAfterProbe
<1> QED
  BY <1>1, <1>4, <1>5, RequestStep DEF RegistryInv, TypeOK

\* resolve: a registered method's adapter.
LEMMA ResolveStep ==
  ASSUME RegistryInv, NEW r \in Requests, NEW i \in DOMAIN MethodOrder, NEW any \in BOOLEAN,
         Resolve(r, i, any)
  PROVE  RegistryInv'
<1>1. Owner[MethodOrder[i]] \in Adapters
  <2>1. MethodOrder[i] \in Methods
    BY DEF Methods, Range
  <2> QED
    BY <2>1, RegistryAssumption
<1> DEFINE x == [pc |-> "resolved", adapter |-> Owner[MethodOrder[i]]]
<1>2. x \in ReqType /\ x.pc = "resolved" /\ x.adapter \in Adapters
  BY <1>1 DEF ReqType
<1>3. req[r].pc = "idle" /\ req' = [req EXCEPT ![r] = x] /\ UNCHANGED <<health, monitor, waiters, healthy>>
  BY DEF Resolve
<1> HIDE DEF x
<1> QED
  BY <1>2, <1>3, QuietStep

\* The check: an adapter that is not Down has answered a probe.
LEMMA CheckDownStep ==
  ASSUME RegistryInv, NEW r \in Requests, CheckDown(r)
  PROVE  RegistryInv'
<1> DEFINE a == req[r].adapter
<1>1. req[r] \in ReqType /\ req[r].pc = "resolved" /\ a \in Adapters
  BY DEF CheckDown, RegistryInv, TypeOK, ReqType
<1>2. CASE AdapterDown(a)
  <2>1. req' = [req EXCEPT ![r] = Idle] /\ Idle \in ReqType /\ Idle.pc = "idle"
    BY <1>2 DEF CheckDown, Idle, ReqType
  <2> QED
    BY <1>1, <2>1, QuietStep DEF CheckDown
<1>3. CASE ~AdapterDown(a)
  <2>1. health[a].last_success
    <3>1. health[a].status \in {"Up", "Degraded"} /\ Sound(health[a])
      BY <1>1, <1>3 DEF RegistryInv, TypeOK, HealthSound, AdapterDown
    <3> QED
      BY <3>1 DEF Sound
  <2> DEFINE x == [pc |-> "checked", adapter |-> a]
  <2>2. x = [req[r] EXCEPT !.pc = "checked"]
    BY <1>1 DEF ReqType
  <2>3. req' = [req EXCEPT ![r] = x]
    BY <1>3, <2>2 DEF CheckDown
  <2>4. x \in ReqType /\ x.pc = "checked" /\ x.adapter = a
    BY <1>1 DEF ReqType
  <2> HIDE DEF x
  <2> QED
    BY <1>1, <2>1, <2>3, <2>4, QuietStep DEF CheckDown
<1> QED
  BY <1>2, <1>3

\* A step of a request to another place with the same adapter, past the check.
LEMMA PcStep ==
  ASSUME RegistryInv, NEW r \in Requests, NEW p \in {"queued", "holding", "sent"},
         req[r].pc \in {"checked", "queued", "holding", "sent"},
         req' = [req EXCEPT ![r].pc = p]
  PROVE  /\ req' \in [Requests -> ReqType]
         /\ \A q \in Requests : req'[q] = IF q = r THEN [pc |-> p, adapter |-> req[r].adapter]
                                          ELSE req[q]
         /\ \A q \in Requests :
              /\ req'[q].pc # "idle" => req'[q].adapter \in Adapters
              /\ req'[q].pc \in {"checked", "queued", "holding", "sent"}
                   => health[req'[q].adapter].last_success
<1> DEFINE x == [pc |-> p, adapter |-> req[r].adapter]
<1>1. req \in [Requests -> ReqType] /\ req[r] \in ReqType
  BY DEF RegistryInv, TypeOK, ReqType
<1>2. x = [req[r] EXCEPT !.pc = p] /\ x \in ReqType /\ x.adapter = req[r].adapter
  BY <1>1 DEF ReqType
<1>3. req' = [req EXCEPT ![r] = x]
  BY <1>2
<1>4. req' \in [Requests -> ReqType] /\ \A q \in Requests : req'[q] = IF q = r THEN x ELSE req[q]
  <2> HIDE DEF x
  <2> QED
    BY <1>1, <1>2, <1>3
<1>5. req[r].adapter \in Adapters /\ health[req[r].adapter].last_success
  BY DEF RegistryInv, TypeOK, RoutedAfterProbe
<1>6. \A q \in Requests :
        /\ req'[q].pc # "idle" => req'[q].adapter \in Adapters
        /\ req'[q].pc \in {"checked", "queued", "holding", "sent"}
             => health[req'[q].adapter].last_success
  <2> HIDE DEF x
  <2> QED
    BY <1>2, <1>4, <1>5 DEF RegistryInv, TypeOK, RoutedAfterProbe
<1> QED
  BY <1>4, <1>6

\* The permit is free and taken, or the request joins the end of the queue.
LEMMA AcquireStep ==
  ASSUME RegistryInv, NEW r \in Requests, Acquire(r)
  PROVE  RegistryInv'
<1> DEFINE a == req[r].adapter
<1>1. req[r].pc = "checked" /\ a \in Adapters /\ UNCHANGED <<health, healthy>>
  BY DEF Acquire, RegistryInv, TypeOK
<1>2. /\ DOMAIN waiters = Adapters
      /\ \A b \in Adapters : waiters[b] \in Seq(Requests) /\ AccountedAt(b)
  BY Accounted DEF RegistryInv, TypeOK
<1>3. CASE PermitFree(a)
  <2>1. req' = [req EXCEPT ![r].pc = "holding"] /\ waiters' = waiters
    BY <1>3 DEF Acquire
  <2>2. /\ req' \in [Requests -> ReqType]
        /\ \A q \in Requests : req'[q] = IF q = r THEN [pc |-> "holding", adapter |-> a] ELSE req[q]
        /\ \A q \in Requests :
             /\ req'[q].pc # "idle" => req'[q].adapter \in Adapters
             /\ req'[q].pc \in {"checked", "queued", "holding", "sent"}
                  => health[req'[q].adapter].last_success
    BY <1>1, <2>1, PcStep
  <2>3. monitor' \in [at : 0..Len(Clients), pinging : BOOLEAN, overlap : BOOLEAN]
    <3>1. PICK b \in BOOLEAN : monitor' = [monitor EXCEPT !.overlap = b]
      BY <1>3 DEF Acquire
    <3> QED
      BY <3>1 DEF RegistryInv, TypeOK
  <2>4. ASSUME NEW b \in Adapters PROVE AccountedAt(b)'
    <3>1. Queued(b)' = Queued(b)
      BY <1>1, <2>2 DEF Queued
    <3>2. Holders(b)' = IF b = a THEN {r} ELSE Holders(b)
      <4>1. CASE b = a
        BY <1>3, <2>2, <4>1 DEF Holders, PermitFree
      <4>2. CASE b # a
        BY <1>1, <2>2, <4>2 DEF Holders
      <4> QED
        BY <4>1, <4>2
    <3> QED
      BY <1>2, <2>1, <3>1, <3>2 DEF AccountedAt
  <2> QED
    BY <1>1, <1>2, <2>1, <2>2, <2>3, <2>4, RequestStep
<1>4. CASE ~PermitFree(a)
  <2>1. /\ req' = [req EXCEPT ![r].pc = "queued"]
        /\ waiters' = [waiters EXCEPT ![a] = Append(waiters[a], r)]
        /\ monitor' = monitor
    BY <1>4 DEF Acquire
  <2>2. /\ req' \in [Requests -> ReqType]
        /\ \A q \in Requests : req'[q] = IF q = r THEN [pc |-> "queued", adapter |-> a] ELSE req[q]
        /\ \A q \in Requests :
             /\ req'[q].pc # "idle" => req'[q].adapter \in Adapters
             /\ req'[q].pc \in {"checked", "queued", "holding", "sent"}
                  => health[req'[q].adapter].last_success
    BY <1>1, <2>1, PcStep
  <2>3. PICK w \in Seq(Requests) : w = waiters[a]
    BY <1>1, <1>2
  <2>4. IsInjective(w) /\ Range(w) = Queued(a) /\ r \notin Range(w)
    BY <1>1, <1>2, <2>3 DEF AccountedAt, Queued
  <2>5. PICK v : v = Append(w, r)
    OBVIOUS
  <2>6. v \in Seq(Requests) /\ IsInjective(v) /\ Range(v) = Range(w) \cup {r} /\ v # <<>>
    BY <2>4, <2>5, QueueFacts
  <2>7. DOMAIN waiters' = Adapters /\ \A b \in Adapters : waiters'[b] = IF b = a THEN v ELSE waiters[b]
    BY <1>1, <1>2, <2>1, <2>3, <2>5
  <2>8. ASSUME NEW b \in Adapters PROVE waiters'[b] \in Seq(Requests) /\ AccountedAt(b)'
    <3>1. Holders(b)' = Holders(b)
      BY <1>1, <2>2 DEF Holders
    <3>2. CASE b = a
      <4>1. Queued(b)' = Queued(b) \cup {r}
        BY <2>2, <3>2, SMTT(60) DEF Queued
      <4> QED
        BY <1>2, <1>4, <2>4, <2>6, <2>7, <3>1, <3>2, <4>1, SMTT(60) DEF AccountedAt, PermitFree
    <3>3. CASE b # a
      <4>1. Queued(b)' = Queued(b)
        BY <1>1, <2>2, <3>3 DEF Queued
      <4> QED
        BY <1>2, <2>7, <3>1, <3>3, <4>1 DEF AccountedAt
    <3> QED
      BY <3>2, <3>3
  <2> QED
    BY <1>1, <2>1, <2>2, <2>7, <2>8, RequestStep DEF RegistryInv, TypeOK
<1> QED
  BY <1>3, <1>4

\* A request that stops waiting leaves the queue, and the others keep their places.
LEMMA QueueTimeoutStep ==
  ASSUME RegistryInv, NEW r \in Requests, QueueTimeout(r)
  PROVE  RegistryInv'
<1> DEFINE a == req[r].adapter
<1>1. req[r].pc = "queued" /\ a \in Adapters /\ UNCHANGED <<health, monitor, healthy>>
      /\ req' = [req EXCEPT ![r] = Idle]
  BY DEF QueueTimeout, RegistryInv, TypeOK
<1>2. /\ DOMAIN waiters = Adapters
      /\ \A b \in Adapters : waiters[b] \in Seq(Requests) /\ AccountedAt(b)
  BY Accounted DEF RegistryInv, TypeOK
<1>3. PICK w \in Seq(Requests) : w = waiters[a]
  BY <1>1, <1>2
<1>4. IsInjective(w) /\ Range(w) = Queued(a)
  BY <1>1, <1>2, <1>3 DEF AccountedAt
<1>5. PICK i \in DOMAIN w : w[i] = r /\ waiters' = [waiters EXCEPT ![a] = RemoveAt(w, i)]
  BY <1>3 DEF QueueTimeout
<1>6. PICK v : v = RemoveAt(w, i)
  OBVIOUS
<1>7. v \in Seq(Requests) /\ IsInjective(v) /\ Range(v) = Range(w) \ {r} /\ w # <<>>
  BY <1>4, <1>5, <1>6, RemoveAtFacts
<1>8. DOMAIN waiters' = Adapters /\ \A b \in Adapters : waiters'[b] = IF b = a THEN v ELSE waiters[b]
  BY <1>1, <1>2, <1>5, <1>6
<1>9. /\ req' \in [Requests -> ReqType]
      /\ \A q \in Requests : req'[q] = IF q = r THEN Idle ELSE req[q]
      /\ Idle.pc = "idle"
  BY <1>1 DEF RegistryInv, TypeOK, ReqType, Idle
<1>10. \A q \in Requests :
         /\ req'[q].pc # "idle" => req'[q].adapter \in Adapters
         /\ req'[q].pc \in {"checked", "queued", "holding", "sent"}
              => health[req'[q].adapter].last_success
  BY <1>9 DEF RegistryInv, TypeOK, RoutedAfterProbe
<1>11. ASSUME NEW b \in Adapters PROVE waiters'[b] \in Seq(Requests) /\ AccountedAt(b)'
  <2>1. Holders(b)' = Holders(b)
    BY <1>1, <1>9 DEF Holders
  <2>2. Queued(b)' = Queued(b) \ {r}
    BY <1>9 DEF Queued
  <2>3. CASE b = a
    <3>1. waiters'[b] = v /\ waiters[b] = w
      BY <1>3, <1>8, <2>3
    <3>2. (\A q, s \in Holders(b) : q = s) /\ Holders(b) # {}
      BY <1>2, <1>7, <3>1 DEF AccountedAt
    <3>3. Range(v) = Queued(b) \ {r}
      BY <1>4, <1>7, <2>3
    <3> QED
      BY <1>7, <2>1, <2>2, <3>1, <3>2, <3>3 DEF AccountedAt
  <2>4. CASE b # a
    <3>1. r \notin Queued(b)
      BY <2>4 DEF Queued
    <3>2. Queued(b)' = Queued(b)
      BY <2>2, <3>1
    <3> QED
      BY <1>2, <1>8, <2>1, <2>4, <3>2 DEF AccountedAt
  <2> QED
    BY <2>3, <2>4
<1> QED
  BY <1>1, <1>8, <1>9, <1>10, <1>11, RequestStep DEF RegistryInv, TypeOK

\* The nonce is sent by the one that holds the permit.
LEMMA SendStep ==
  ASSUME RegistryInv, NEW r \in Requests, Send(r)
  PROVE  RegistryInv'
<1> DEFINE a == req[r].adapter
<1>1. req[r].pc = "holding" /\ UNCHANGED <<health, monitor, waiters, healthy>>
      /\ req' = [req EXCEPT ![r].pc = "sent"]
  BY DEF Send
<1>2. /\ req' \in [Requests -> ReqType]
      /\ \A q \in Requests : req'[q] = IF q = r THEN [pc |-> "sent", adapter |-> a] ELSE req[q]
      /\ \A q \in Requests :
           /\ req'[q].pc # "idle" => req'[q].adapter \in Adapters
           /\ req'[q].pc \in {"checked", "queued", "holding", "sent"}
                => health[req'[q].adapter].last_success
  BY <1>1, PcStep
<1>3. ASSUME NEW b \in Adapters PROVE AccountedAt(b)'
  <2>1. Holders(b)' = Holders(b) /\ Queued(b)' = Queued(b)
    BY <1>1, <1>2 DEF Holders, Queued
  <2> QED
    BY <1>1, <2>1, Accounted DEF RegistryInv, AccountedAt
<1> QED
  BY <1>1, <1>2, <1>3, RequestStep DEF RegistryInv, TypeOK

\* The permit is given back, or handed to the first that waits.
LEMMA ReleaseStep ==
  ASSUME RegistryInv, NEW r \in Requests, Release(r)
  PROVE  RegistryInv'
<1> DEFINE a == req[r].adapter
<1>1. req[r].pc \in {"holding", "sent"} /\ a \in Adapters /\ UNCHANGED <<health, monitor, healthy>>
  BY DEF Release, RegistryInv, TypeOK
<1>2. /\ DOMAIN waiters = Adapters
      /\ \A b \in Adapters : waiters[b] \in Seq(Requests) /\ AccountedAt(b)
  BY Accounted DEF RegistryInv, TypeOK
<1>3. Holders(a) = {r} /\ \A b \in Adapters : b # a => r \notin Holders(b)
  BY <1>1, <1>2, SMTT(60) DEF Holders, AccountedAt
<1>4. Idle \in ReqType /\ Idle.pc = "idle" /\ req \in [Requests -> ReqType]
  BY DEF Idle, ReqType, RegistryInv, TypeOK
<1>5. CASE waiters[a] = <<>>
  <2>1. waiters' = waiters /\ req' = [req EXCEPT ![r] = Idle]
    BY <1>5 DEF Release
  <2>2. req' \in [Requests -> ReqType] /\ \A q \in Requests : req'[q] = IF q = r THEN Idle ELSE req[q]
    BY <1>4, <2>1
  <2>3. \A q \in Requests :
          /\ req'[q].pc # "idle" => req'[q].adapter \in Adapters
          /\ req'[q].pc \in {"checked", "queued", "holding", "sent"}
               => health[req'[q].adapter].last_success
    BY <1>4, <2>2 DEF RegistryInv, TypeOK, RoutedAfterProbe
  <2>4. ASSUME NEW b \in Adapters PROVE AccountedAt(b)'
    <3>1. Holders(b)' = Holders(b) \ {r}
      BY <1>4, <2>2 DEF Holders
    <3>2. Queued(b)' = Queued(b)
      BY <1>1, <1>4, <2>2 DEF Queued
    <3>3. CASE b = a
      BY <1>2, <1>5, <2>1, <3>1, <3>2, <3>3 DEF AccountedAt
    <3>4. CASE b # a
      <4>1. Holders(b)' = Holders(b)
        BY <1>3, <3>1, <3>4
      <4> QED
        BY <1>2, <2>1, <3>2, <4>1 DEF AccountedAt
    <3> QED
      BY <3>3, <3>4
  <2> QED
    BY <1>1, <1>2, <2>1, <2>2, <2>3, <2>4, RequestStep DEF RegistryInv, TypeOK
<1>6. CASE waiters[a] # <<>>
  <2>1. PICK w \in Seq(Requests) : w = waiters[a]
    BY <1>1, <1>2
  <2>2. IsInjective(w) /\ Range(w) = Queued(a) /\ w # <<>>
    BY <1>1, <1>2, <1>6, <2>1 DEF AccountedAt
  <2>3. PICK h, v : h = Head(w) /\ v = Tail(w)
    OBVIOUS
  <2>4. h \in Range(w) /\ v \in Seq(Requests) /\ IsInjective(v) /\ Range(v) = Range(w) \ {h}
    BY <2>2, <2>3, QueueFacts
  <2>5. h \in Requests /\ req[h].pc = "queued" /\ req[h].adapter = a /\ h # r
    BY <1>1, <2>2, <2>4 DEF Queued
  <2>6. req' = [req EXCEPT ![r] = Idle, ![h].pc = "holding"] /\ waiters' = [waiters EXCEPT ![a] = v]
    BY <1>6, <2>1, <2>3 DEF Release
  <2> DEFINE x == [pc |-> "holding", adapter |-> a]
  <2>7. x = [req[h] EXCEPT !.pc = "holding"] /\ x \in ReqType /\ x.pc = "holding" /\ x.adapter = a
    <3>1. req[h] \in ReqType
      BY <1>4, <2>5
    <3> QED
      BY <1>1, <2>5, <3>1 DEF ReqType
  <2> HIDE DEF x
  <2>8. req' = [req EXCEPT ![r] = Idle, ![h] = x]
    BY <1>4, <2>5, <2>6, <2>7
  <2>9. /\ req' \in [Requests -> ReqType]
        /\ \A q \in Requests : req'[q] = IF q = h THEN x ELSE IF q = r THEN Idle ELSE req[q]
    BY <1>4, <2>5, <2>7, <2>8
  <2>10. health[a].last_success
    BY <2>5 DEF RegistryInv, RoutedAfterProbe
  <2>11. \A q \in Requests :
          /\ req'[q].pc # "idle" => req'[q].adapter \in Adapters
          /\ req'[q].pc \in {"checked", "queued", "holding", "sent"}
               => health[req'[q].adapter].last_success
    <3> SUFFICES ASSUME NEW q \in Requests
                 PROVE  /\ req'[q].pc # "idle" => req'[q].adapter \in Adapters
                        /\ req'[q].pc \in {"checked", "queued", "holding", "sent"}
                             => health[req'[q].adapter].last_success
      OBVIOUS
    <3>1. CASE q = h
      BY <1>1, <2>7, <2>9, <2>10, <3>1
    <3>2. CASE q # h /\ q = r
      BY <2>9, <3>2 DEF Idle
    <3>3. CASE q # h /\ q # r
      <4>1. req'[q] = req[q]
        BY <2>9, <3>3
      <4> QED
        BY <4>1 DEF RegistryInv, TypeOK, RoutedAfterProbe
    <3> QED
      BY <3>1, <3>2, <3>3
  <2>12. DOMAIN waiters' = Adapters /\ \A b \in Adapters : waiters'[b] = IF b = a THEN v ELSE waiters[b]
    BY <1>1, <1>2, <2>6
  <2>13. ASSUME NEW b \in Adapters PROVE waiters'[b] \in Seq(Requests) /\ AccountedAt(b)'
    <3>1. Queued(b)' = Queued(b) \ {h}
      BY <1>1, <1>4, <2>7, <2>9 DEF Queued
    <3>2. CASE b = a
      <4>1. Holders(b)' = {h}
        <5>1. ASSUME NEW q \in Requests PROVE q \in Holders(b)' <=> q = h
          <6>1. CASE q = h
            BY <2>5, <2>7, <2>9, <3>2, <6>1 DEF Holders
          <6>2. CASE q = r
            BY <1>4, <2>5, <2>9, <6>2 DEF Holders
          <6>3. CASE q # h /\ q # r
            <7>1. q \notin Holders(b)
              BY <1>3, <3>2, <6>3
            <7>2. req'[q] = req[q]
              BY <2>9, <6>3
            <7> QED
              BY <6>3, <7>1, <7>2 DEF Holders
          <6> QED
            BY <6>1, <6>2, <6>3
        <5> QED
          BY <2>5, <5>1 DEF Holders
      <4> QED
        BY <2>2, <2>4, <2>12, <3>1, <3>2, <4>1 DEF AccountedAt
    <3>3. CASE b # a
      <4>1. Holders(b)' = Holders(b)
        BY <1>1, <1>4, <2>5, <2>7, <2>9, <3>3 DEF Holders
      <4>2. Queued(b)' = Queued(b)
        BY <2>5, <3>1, <3>3 DEF Queued
      <4> QED
        BY <1>2, <2>12, <3>3, <4>1, <4>2 DEF AccountedAt
    <3> QED
      BY <3>2, <3>3
  <2> QED
    BY <1>1, <2>9, <2>11, <2>12, <2>13, RequestStep DEF RegistryInv, TypeOK
<1> QED
  BY <1>5, <1>6

-----------------------------------------------------------------------------
(* Theorems *)

\* Before the first probe and the first request.
LEMMA InitRegistry == Init => RegistryInv
<1> SUFFICES ASSUME Init PROVE RegistryInv
  OBVIOUS
<1>1. NewHealth \in Health /\ Sound(NewHealth)
  BY DEF NewHealth, Health, Sound, DOWN_AFTER
<1>2. health \in [Adapters -> Health] /\ HealthSound
  BY <1>1 DEF Init, HealthSound
<1>3. monitor \in [at : 0..Len(Clients), pinging : BOOLEAN, overlap : BOOLEAN]
  <2>1. Len(Clients) \in Nat
    BY RegistryAssumption
  <2> QED
    BY <2>1 DEF Init, MonitorAsleep
<1>4. Idle \in ReqType /\ Idle.pc = "idle"
  BY DEF Idle, ReqType
<1>5. req \in [Requests -> ReqType] /\ \A r \in Requests : req[r].pc = "idle"
  BY <1>4 DEF Init
<1>6. DOMAIN waiters = Adapters /\ \A a \in Adapters : waiters[a] = <<>>
  BY DEF Init
<1>7. TypeOK
  BY <1>2, <1>3, <1>5, <1>6 DEF Init, TypeOK, Health, ReqType
<1>8. ASSUME NEW a \in Adapters PROVE AccountedAt(a)
  <2>1. Holders(a) = {} /\ Queued(a) = {}
    BY <1>5 DEF Holders, Queued
  <2>2. IsInjective(<<>>) /\ Range(<<>>) = {}
    BY DEF IsInjective, Range
  <2> QED
    BY <1>6, <2>1, <2>2 DEF AccountedAt
<1>9. RoutedAfterProbe
  BY <1>5 DEF RoutedAfterProbe
<1> QED
  BY <1>2, <1>7, <1>8, <1>9, Accounted DEF RegistryInv

\* A step that changes none of what the invariant reads but an adapter's own
\* willingness to answer, or nothing.
LEMMA FlipStep ==
  ASSUME RegistryInv, UNCHANGED <<health, monitor, req, waiters>>,
         healthy' \in [Adapters -> BOOLEAN]
  PROVE  RegistryInv'
<1>1. TypeOK' /\ HealthSound' /\ RoutedAfterProbe'
  BY DEF RegistryInv, TypeOK, HealthSound, RoutedAfterProbe
<1>2. \A a \in Adapters : Holders(a)' = Holders(a)
  BY DEF Holders
<1>3. PermitAccounted'
  BY <1>2 DEF RegistryInv, PermitAccounted, PermitFree
<1> QED
  BY <1>1, <1>3 DEF RegistryInv

\* Every step keeps the invariant.
LEMMA NextRegistry == RegistryInv /\ [Next]_vars => RegistryInv'
<1> SUFFICES ASSUME RegistryInv, [Next]_vars PROVE RegistryInv'
  OBVIOUS
<1>1. CASE Monitor
  BY <1>1, MonitorStep
<1>2. ASSUME NEW r \in Requests, NEW i \in DOMAIN MethodOrder, NEW any \in BOOLEAN, Resolve(r, i, any)
      PROVE  RegistryInv'
  BY <1>2, ResolveStep
<1>3. ASSUME NEW r \in Requests, CheckDown(r) PROVE RegistryInv'
  BY <1>3, CheckDownStep
<1>4. ASSUME NEW r \in Requests, Acquire(r) PROVE RegistryInv'
  BY <1>4, AcquireStep
<1>5. ASSUME NEW r \in Requests, QueueTimeout(r) PROVE RegistryInv'
  BY <1>5, QueueTimeoutStep
<1>6. ASSUME NEW r \in Requests, Send(r) PROVE RegistryInv'
  BY <1>6, SendStep
<1>7. ASSUME NEW r \in Requests, VerifyEnds(r) PROVE RegistryInv'
  BY <1>7, ReleaseStep DEF VerifyEnds
<1>8. ASSUME NEW r \in Requests, Abort(r) PROVE RegistryInv'
  <2>1. CASE /\ req[r].pc \in {"resolved", "checked"}
             /\ req' = [req EXCEPT ![r] = Idle]
             /\ UNCHANGED <<health, monitor, waiters, healthy>>
    <3>1. Idle \in ReqType /\ Idle.pc = "idle"
      BY DEF Idle, ReqType
    <3> QED
      BY <2>1, <3>1, QuietStep
  <2> QED
    BY <1>8, <2>1, QueueTimeoutStep, ReleaseStep DEF Abort
<1>9. ASSUME NEW a \in Adapters, Flip(a) PROVE RegistryInv'
  <2>1. healthy' \in [Adapters -> BOOLEAN]
    BY <1>9 DEF Flip, RegistryInv, TypeOK
  <2> QED
    BY <1>9, <2>1, FlipStep DEF Flip
<1>10. CASE UNCHANGED vars
  BY <1>10, FlipStep DEF vars, RegistryInv, TypeOK
<1> QED
  BY <1>1, <1>2, <1>3, <1>4, <1>5, <1>6, <1>7, <1>8, <1>9, <1>10 DEF Next

\* The invariant of the registry, for any number of adapters and requests.
THEOREM RegistryInvariant == Spec => []RegistryInv
BY InitRegistry, NextRegistry, PTL DEF Spec

\* The registry's variables keep their types.
THEOREM RegistryTypeCorrect == Spec => []TypeOK
BY RegistryInvariant, PTL DEF RegistryInv

\* An adapter serves one request at a time and no abort, timeout or answer
\* loses its permit or leaves a dead waiter in its queue.
THEOREM PermitsAccounted == Spec => []PermitAccounted
BY RegistryInvariant, PTL DEF RegistryInv

\* No request gets past dispatch_resolved's check to an adapter that never
\* answered a probe, whatever happens to its health while the request waits.
THEOREM RoutingFollowsProbes == Spec => []RoutedAfterProbe
BY RegistryInvariant, PTL DEF RegistryInv

\* A step moves an adapter's health only along the arrows health.rs allows.
LEMMA HealthMoves ==
  RegistryInv /\ [Next]_vars =>
    \A a \in Adapters :
         /\ health[a].status = "Up" => health'[a].status # "Down"
         /\ health[a].status = "Down" => health'[a].status # "Degraded"
<1> SUFFICES ASSUME RegistryInv, [Next]_vars, NEW a \in Adapters
             PROVE  /\ health[a].status = "Up" => health'[a].status # "Down"
                    /\ health[a].status = "Down" => health'[a].status # "Degraded"
  OBVIOUS
<1>1. PICK h \in Health : h = health[a] /\ Sound(h)
  BY DEF RegistryInv, TypeOK, HealthSound, Health
<1>2. CASE health' = health
  BY <1>2
<1>3. ASSUME NEW b \in BOOLEAN, MonitorRecord(b)
      PROVE  health'[a] = h \/ health'[a] = RecordProbe(h, b)
  <2>1. PICK c : health' = [health EXCEPT ![c] = RecordProbe(health[c], b)]
    BY <1>3 DEF MonitorRecord
  <2>2. a \in DOMAIN health
    BY DEF RegistryInv, TypeOK
  <2> QED
    BY <1>1, <2>1, <2>2
<1>4. ASSUME NEW b \in BOOLEAN, MonitorRecord(b)
      PROVE  /\ health[a].status = "Up" => health'[a].status # "Down"
             /\ health[a].status = "Down" => health'[a].status # "Degraded"
  BY <1>1, <1>3, <1>4, RecordProbeFacts
<1>5. health' = health \/ \E b \in BOOLEAN : MonitorRecord(b)
  BY DEF Next, Monitor, MonitorTick, MonitorLook, Resolve, CheckDown, Acquire, QueueTimeout, Send,
         VerifyEnds, Release, Abort, Flip, vars
<1> QED
  BY <1>2, <1>4, <1>5

\* Up never becomes Down at one probe, and Down becomes Up or stays Down.
THEOREM HealthMovesAsDocumented == Spec => HealthTransitions
BY RegistryInvariant, HealthMoves, PTL DEF Spec, HealthTransitions
=============================================================================
