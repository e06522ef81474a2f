---------------------------- MODULE AdapterRegistry ----------------------------
(***************************************************************************)
(* Routing of verification requests to adapters: the registry              *)
(* (adapters/registry.rs), the health monitor (adapters/health.rs) and the *)
(* one-connection-per-request client (adapters/client.rs).                 *)
(*                                                                         *)
(* Request tasks resolve a method, check the adapter's health, wait for    *)
(* its single permit and talk to it; the monitor task walks the adapters   *)
(* and pings the ones whose permit is free.  Nothing locks the health map  *)
(* and the permit together, so check, wait and send are separate steps.    *)
(*                                                                         *)
(* Abstractions: time is the possibility of a timeout; what an adapter     *)
(* answers matters here only in that it ends the request; a count of       *)
(* failures stops at DOWN_AFTER, which is all the code compares it with;   *)
(* available_methods reads the health of all methods at one instant.       *)
(***************************************************************************)
EXTENDS Naturals, Sequences, Functions

CONSTANTS
    Clients,      \* the adapters, as the sequence the monitor walks
    MethodOrder,  \* the registered methods, in alphabetical order
    Owner,        \* method -> the adapter that serves it
    Requests,     \* tasks that run verify_once, again and again
    NoAdapter

Adapters == Range(Clients)
Methods == Range(MethodOrder)

\* load_from_dir refuses a duplicate adapter name and a duplicate method.
ASSUME RegistryAssumption ==
    /\ Clients \in Seq(Adapters) /\ IsInjective(Clients)
    /\ MethodOrder \in Seq(Methods) /\ IsInjective(MethodOrder)
    /\ Owner \in [Methods -> Adapters]
    /\ NoAdapter \notin Adapters

VARIABLES
    health,   \* adapter -> AdapterHealth
    monitor,  \* which client the monitor is at (0: asleep), whether it pings it,
              \* and whether a verification began during the ping
    req,      \* request -> how far it is, and its resolved adapter
    waiters,  \* adapter -> the queue of its semaphore
    healthy   \* adapter -> it would answer, if it is not busy

vars == <<health, monitor, req, waiters, healthy>>

DOWN_AFTER == 3

\* A waiter that gives up leaves the queue.
RemoveAt(s, i) == SubSeq(s, 1, i - 1) \o SubSeq(s, i + 1, Len(s))

Idle == [pc |-> "idle", adapter |-> NoAdapter]

\* The requests that hold the adapter's permit: Semaphore::new(1).
Holders(a) == {r \in Requests : req[r].pc \in {"holding", "sent"} /\ req[r].adapter = a}
PermitFree(a) == Holders(a) = {}

-----------------------------------------------------------------------------
(* Health *)

NewHealth == [status |-> "Down", consecutive_failures |-> 0, last_success |-> FALSE]

OneMore(n) == IF n < DOWN_AFTER THEN n + 1 ELSE DOWN_AFTER

AdapterDown(a) == health[a].status = "Down"

\* Mutant: an adapter that never answered is given three tries as well.
RecordProbeUntested(h, is_up) ==
    LET n == OneMore(h.consecutive_failures)
    IN  IF is_up
        THEN [status |-> "Up", consecutive_failures |-> 0, last_success |-> TRUE]
        ELSE [h EXCEPT !.consecutive_failures = n,
                       !.status = IF n < DOWN_AFTER THEN "Degraded" ELSE "Down"]

\* Mutant: an adapter that is Down stays Down.
RecordProbeLatched(h, is_up) ==
    LET n == OneMore(h.consecutive_failures)
    IN  IF is_up /\ h.consecutive_failures < DOWN_AFTER
        THEN [status |-> "Up", consecutive_failures |-> 0, last_success |-> TRUE]
        ELSE [h EXCEPT !.consecutive_failures = n,
                       !.status = IF h.last_success /\ n < DOWN_AFTER THEN "Degraded" ELSE "Down"]

RecordProbe(h, is_up) ==
    LET n == OneMore(h.consecutive_failures)
    IN  IF is_up
        THEN [status |-> "Up", consecutive_failures |-> 0, last_success |-> TRUE]
        ELSE [h EXCEPT !.consecutive_failures = n,
                       !.status = IF h.last_success /\ n < DOWN_AFTER THEN "Degraded" ELSE "Down"]

MonitorAsleep == [at |-> 0, pinging |-> FALSE, overlap |-> FALSE]

\* The loop over the clients.
NextClient ==
    IF monitor.at = Len(Clients) THEN MonitorAsleep
    ELSE [at |-> monitor.at + 1, pinging |-> FALSE, overlap |-> FALSE]

\* interval.tick()
MonitorTick ==
    /\ monitor.at = 0
    /\ monitor' = NextClient
    /\ UNCHANGED <<health, req, waiters, healthy>>

\* A client whose permit is taken is skipped; another is pinged.
MonitorLook ==
    /\ monitor.at # 0 /\ ~monitor.pinging
    /\ monitor' = IF PermitFree(Clients[monitor.at]) THEN [monitor EXCEPT !.pinging = TRUE]
                  ELSE NextClient
    /\ UNCHANGED <<health, req, waiters, healthy>>

\* ping returns, by an answer or by its timeout.  A healthy adapter answers,
\* unless a verification that began meanwhile keeps it busy.
Ping(a, is_up) == IF is_up THEN healthy[a] ELSE ~healthy[a] \/ monitor.overlap

\* The result is recorded and the loop goes on.
MonitorRecord(is_up) ==
    /\ monitor.pinging
    /\ LET a == Clients[monitor.at]
       IN  /\ Ping(a, is_up)
           /\ health' = [health EXCEPT ![a] = RecordProbe(@, is_up)]
    /\ monitor' = NextClient
    /\ UNCHANGED <<req, waiters, healthy>>

-----------------------------------------------------------------------------
(* Requests *)

\* The first of available_methods, which is sorted.
FirstAvailable(i) ==
    /\ ~AdapterDown(Owner[MethodOrder[i]])
    /\ \A j \in 1..(i - 1) : AdapterDown(Owner[MethodOrder[j]])

\* resolve: a named method whatever its adapter's health, or for "any" the
\* first that is available.  MethodNotFound ends the request: no step.
Resolve(r, i, any) ==
    /\ req[r].pc = "idle"
    /\ any => FirstAvailable(i)
    /\ req' = [req EXCEPT ![r] = [pc |-> "resolved", adapter |-> Owner[MethodOrder[i]]]]
    /\ UNCHANGED <<health, monitor, waiters, healthy>>

\* dispatch_resolved: AdapterDown, or on to the semaphore.
CheckDown(r) ==
    /\ req[r].pc = "resolved"
    /\ req' = [req EXCEPT ![r] = IF AdapterDown(req[r].adapter) THEN Idle
                                 ELSE [@ EXCEPT !.pc = "checked"]]
    /\ UNCHANGED <<health, monitor, waiters, healthy>>

\* Mutant: the permit is bound to _ and so dropped at once.
AcquireAlways(r) ==
    /\ req[r].pc = "checked"
    /\ req' = [req EXCEPT ![r].pc = "holding"]
    /\ UNCHANGED <<health, monitor, waiters, healthy>>

\* concurrency.acquire(): at once, or at the end of the queue.
Acquire(r) ==
    LET a == req[r].adapter IN
    /\ req[r].pc = "checked"
    /\ IF PermitFree(a)
       THEN /\ req' = [req EXCEPT ![r].pc = "holding"]
            /\ monitor' = [monitor EXCEPT !.overlap =
                             @ \/ (monitor.pinging /\ Clients[monitor.at] = a)]
            /\ UNCHANGED waiters
       ELSE /\ req' = [req EXCEPT ![r].pc = "queued"]
            /\ waiters' = [waiters EXCEPT ![a] = Append(@, r)]
            /\ UNCHANGED monitor
    /\ UNCHANGED <<health, healthy>>

\* ADAPTER_QUEUE_TIMEOUT: AdapterBusy.
QueueTimeout(r) ==
    /\ req[r].pc = "queued"
    /\ req' = [req EXCEPT ![r] = Idle]
    /\ \E i \in DOMAIN waiters[req[r].adapter] :
         /\ waiters[req[r].adapter][i] = r
         /\ waiters' = [waiters EXCEPT ![req[r].adapter] = RemoveAt(@, i)]
    /\ UNCHANGED <<health, monitor, healthy>>

\* AdapterClient::verify connects, checks the peer's uid and sends the nonce.
Send(r) ==
    /\ req[r].pc = "holding"
    /\ req' = [req EXCEPT ![r].pc = "sent"]
    /\ UNCHANGED <<health, monitor, waiters, healthy>>

\* The permit is dropped: the first waiter has it from here on.
Release(r) ==
    LET a == req[r].adapter IN
    /\ req[r].pc \in {"holding", "sent"}
    /\ IF waiters[a] = <<>>
       THEN /\ req' = [req EXCEPT ![r] = Idle]
            /\ UNCHANGED waiters
       ELSE /\ req' = [req EXCEPT ![r] = Idle, ![Head(waiters[a])].pc = "holding"]
            /\ waiters' = [waiters EXCEPT ![a] = Tail(@)]
    /\ UNCHANGED <<health, monitor, healthy>>

\* Mutant: an exchange that is under way is not bounded by the deadline.
VerifyEndsUnbounded(r) == (req[r].pc = "sent" => healthy[req[r].adapter]) /\ Release(r)

\* verify returns a result, an error or, at the deadline, Timeout.
VerifyEnds(r) == Release(r)

\* The task is aborted at an await: its future, with the permit or the place in
\* the queue it has, is dropped.
Abort(r) ==
    \/ /\ req[r].pc \in {"resolved", "checked"}
       /\ req' = [req EXCEPT ![r] = Idle]
       /\ UNCHANGED <<health, monitor, waiters, healthy>>
    \/ QueueTimeout(r)
    \/ Release(r)

\* An adapter stops or starts answering.
Flip(a) ==
    /\ healthy' = [healthy EXCEPT ![a] = ~@]
    /\ UNCHANGED <<health, monitor, req, waiters>>

-----------------------------------------------------------------------------

Init ==
    /\ health = [a \in Adapters |-> NewHealth]
    /\ monitor = MonitorAsleep
    /\ req = [r \in Requests |-> Idle]
    /\ waiters = [a \in Adapters |-> <<>>]
    /\ healthy \in [Adapters -> BOOLEAN]

Monitor == MonitorTick \/ MonitorLook \/ \E b \in BOOLEAN : MonitorRecord(b)

Next ==
    \/ Monitor
    \/ \E r \in Requests :
         \/ \E i \in DOMAIN MethodOrder, any \in BOOLEAN : Resolve(r, i, any)
         \/ CheckDown(r) \/ Acquire(r) \/ QueueTimeout(r)
         \/ Send(r) \/ VerifyEnds(r) \/ Abort(r)
    \/ \E a \in Adapters : Flip(a)

Spec == Init /\ [][Next]_vars

\* The runtime polls every task that can go on; every exchange with an adapter
\* ends by its deadline.
FairSpec ==
    /\ Spec
    /\ WF_vars(Monitor)
    /\ \A r \in Requests :
         WF_vars(CheckDown(r)) /\ WF_vars(Acquire(r)) /\ WF_vars(VerifyEnds(r))

-----------------------------------------------------------------------------
(***************************************************************************)
(* Properties                                                              *)
(***************************************************************************)

\* The type invariant.
TypeOK ==
    /\ health \in [Adapters -> [status : {"Up", "Degraded", "Down"},
                                consecutive_failures : 0..DOWN_AFTER,
                                last_success : BOOLEAN]]
    /\ monitor \in [at : 0..Len(Clients), pinging : BOOLEAN, overlap : BOOLEAN]
    /\ req \in [Requests -> [pc : {"idle", "resolved", "checked", "queued", "holding", "sent"},
                             adapter : Adapters \cup {NoAdapter}]]
    /\ \A r \in Requests : req[r].pc # "idle" => req[r].adapter \in Adapters
    /\ DOMAIN waiters = Adapters
    /\ \A a \in Adapters : waiters[a] \in Seq(Requests)
    /\ healthy \in [Adapters -> BOOLEAN]

\* One verification at a time for each adapter, and no permit is lost: a request
\* waits only while another holds the permit, each waiting request is in the
\* queue once, and no request that timed out or was aborted is still in it.
PermitAccounted ==
    \A a \in Adapters :
        /\ \A r, s \in Holders(a) : r = s
        /\ waiters[a] # <<>> => ~PermitFree(a)
        /\ IsInjective(waiters[a])
        /\ Range(waiters[a]) = {r \in Requests : req[r].pc = "queued" /\ req[r].adapter = a}

\* health.rs: "An adapter must answer one ping before list_methods or dispatch
\* can route to it": whoever is past the check has an adapter that answered.
RoutedAfterProbe ==
    \A r \in Requests :
        req[r].pc \in {"checked", "queued", "holding", "sent"} => health[req[r].adapter].last_success

\* health.rs: Up never becomes Down without being Degraded first, and an adapter
\* that is Down is not routed to again before a probe succeeds.
HealthTransitions ==
    [][\A a \in Adapters :
         /\ health[a].status = "Up" => health'[a].status # "Down"
         /\ health[a].status = "Down" => health'[a].status # "Degraded"]_vars

\* Every request ends, although the adapter it was sent to may never answer and
\* other requests wait for the same permit.
RequestsEnd == \A r \in Requests : req[r].pc # "idle" ~> req[r].pc = "idle"

\* An adapter that answers from some time on is routable again and again,
\* however busy it is kept, although the monitor skips it whenever it is busy
\* and its pings may fail while it serves a request.
AnsweringIsRoutable ==
    \A a \in Adapters : <>[]healthy[a] => []<>(health[a].status # "Down")

=============================================================================
