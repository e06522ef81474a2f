-------------------------------- MODULE Server --------------------------------
(***************************************************************************)
(* The main loop of ola-core (run_server of infrastructure/ipc/            *)
(* unix_socket.rs): signals, the accept loop with its limit on             *)
(* connections, and the drain at shutdown.  What a client task does is     *)
(* VerifyOnce; here it runs, ends and gives its permit back.               *)
(*                                                                         *)
(* The select arms run to their end before the next select: while the      *)
(* accept arm waits for a permit no signal is served and no task joined.   *)
(*                                                                         *)
(* Abstractions: a task that panicked ends like any other; a failed accept *)
(* only counts a metric: no step.                                          *)
(***************************************************************************)
EXTENDS Naturals, Sequences, FiniteSets, Functions

CONSTANTS
    Clients,          \* who may connect, again and again
    MAX_CONNECTIONS,  \* 16 in the code
    NoClient

ASSUME ServerAssumption ==
    /\ IsFiniteSet(Clients) /\ NoClient \notin Clients
    /\ MAX_CONNECTIONS \in Nat \ {0}

VARIABLES
    main,     \* where run_server is: "select", waiting for a "permit", "drain",
              \* "abort" of what is left, or "done"
    hand,     \* the connection the accept arm holds while it waits
    backlog,  \* connections the kernel keeps, in their order
    task,     \* client -> its task in the JoinSet: "none", "running" or "ended"
    permits,  \* free permits of max_conns
    term,     \* SIGTERM or SIGINT is pending
    hup       \* SIGHUP is pending

vars == <<main, hand, backlog, task, permits, term, hup>>

Running == {c \in Clients : task[c] = "running"}
Unjoined == {c \in Clients : task[c] # "none"}

Init ==
    /\ main = "select" /\ hand = NoClient /\ backlog = <<>>
    /\ task = [c \in Clients |-> "none"]
    /\ permits = MAX_CONNECTIONS
    /\ term = FALSE /\ hup = FALSE

-----------------------------------------------------------------------------
(* The outside: clients and the service manager *)

Arrive(c) ==
    /\ main # "done"
    /\ c # hand /\ c \notin Range(backlog) /\ task[c] = "none"
    /\ backlog' = Append(backlog, c)
    /\ UNCHANGED <<main, hand, task, permits, term, hup>>

Signal ==
    /\ main # "done"
    /\ \/ ~term /\ term' = TRUE /\ UNCHANGED hup
       \/ ~hup /\ hup' = TRUE /\ UNCHANGED term
    /\ UNCHANGED <<main, hand, backlog, task, permits>>

-----------------------------------------------------------------------------
(* The arms of select *)

\* Mutant: the loop is left only when no client is connected.
StopWhenIdle ==
    /\ main = "select" /\ term /\ Running = {}
    /\ main' = "drain"
    /\ UNCHANGED <<hand, backlog, task, permits, term, hup>>

\* SIGTERM, SIGINT: leave the loop.
Stop ==
    /\ main = "select" /\ term
    /\ main' = "drain"
    /\ UNCHANGED <<hand, backlog, task, permits, term, hup>>

\* SIGHUP: reload_state (see Reload of VerifyOnce and Reopen of AuditLog).
Hangup ==
    /\ main = "select" /\ hup
    /\ hup' = FALSE
    /\ UNCHANGED <<main, hand, backlog, task, permits, term>>

Accept ==
    /\ main = "select" /\ backlog # <<>>
    /\ main' = "permit" /\ hand' = Head(backlog) /\ backlog' = Tail(backlog)
    /\ UNCHANGED <<task, permits, term, hup>>

\* Mutant: the permit is bound to _ and dropped at once.
AcquireDropped ==
    /\ main = "permit" /\ permits > 0
    /\ task' = [task EXCEPT ![hand] = "running"]
    /\ main' = "select" /\ hand' = NoClient
    /\ UNCHANGED <<backlog, permits, term, hup>>

\* Mutant: try_acquire; without a permit the connection is dropped.
AcquireOrDrop ==
    /\ main = "permit"
    /\ permits' = IF permits > 0 THEN permits - 1 ELSE 0
    /\ task' = IF permits > 0 THEN [task EXCEPT ![hand] = "running"] ELSE task
    /\ main' = "select" /\ hand' = NoClient
    /\ UNCHANGED <<backlog, term, hup>>

\* acquire_owned returns, and the client's task is spawned with the permit.
Acquire ==
    /\ main = "permit" /\ permits > 0
    /\ permits' = permits - 1
    /\ task' = [task EXCEPT ![hand] = "running"]
    /\ main' = "select" /\ hand' = NoClient
    /\ UNCHANGED <<backlog, term, hup>>

\* join_next, in the loop, in the drain and after the abort.
Join(c) ==
    /\ main \in {"select", "drain", "abort"} /\ task[c] = "ended"
    /\ task' = [task EXCEPT ![c] = "none"]
    /\ UNCHANGED <<main, hand, backlog, permits, term, hup>>

-----------------------------------------------------------------------------
(* Client tasks and the drain *)

\* Mutant: the permit is part of what the task returns.
TaskEndsHolding(c) ==
    /\ main # "done" /\ task[c] = "running"
    /\ task' = [task EXCEPT ![c] = "ended"]
    /\ UNCHANGED <<main, hand, backlog, permits, term, hup>>

\* handle_client returns, and the permit is dropped with the task's future.
TaskEnds(c) ==
    /\ main # "done" /\ task[c] = "running"
    /\ task' = [task EXCEPT ![c] = "ended"]
    /\ permits' = permits + 1
    /\ UNCHANGED <<main, hand, backlog, term, hup>>

\* Mutant: the drain waits without a limit.
DrainForever == main = "drain" /\ FALSE /\ UNCHANGED vars

\* drain_secs have passed: abort_all.
DrainTimeout ==
    /\ main = "drain" /\ Unjoined # {}
    /\ main' = "abort"
    /\ UNCHANGED <<hand, backlog, task, permits, term, hup>>

\* An aborted task is dropped at the await it is in, permit and all.
AbortTask(c) == main = "abort" /\ TaskEnds(c)

\* No task is left: run_server returns.
Finish ==
    /\ main \in {"drain", "abort"} /\ Unjoined = {}
    /\ main' = "done"
    /\ UNCHANGED <<hand, backlog, task, permits, term, hup>>

Next ==
    \/ Signal \/ Stop \/ Hangup \/ Accept \/ Acquire \/ DrainTimeout \/ Finish
    \/ \E c \in Clients : Arrive(c) \/ Join(c) \/ TaskEnds(c)

Spec == Init /\ [][Next]_vars

\* select polls its arms in random order, so an arm that is ready again and
\* again is taken; the drain has a timeout; an abort takes effect.  A client may
\* keep its connection for ever: nothing is assumed of TaskEnds.
FairSpec ==
    /\ Spec
    /\ SF_vars(Stop) /\ SF_vars(Hangup) /\ SF_vars(Accept) /\ SF_vars(Acquire)
    /\ WF_vars(DrainTimeout) /\ WF_vars(Finish)
    /\ \A c \in Clients : SF_vars(Join(c)) /\ WF_vars(AbortTask(c))

-----------------------------------------------------------------------------
(***************************************************************************)
(* Properties                                                              *)
(***************************************************************************)

\* The type invariant.
TypeOK ==
    /\ main \in {"select", "permit", "drain", "abort", "done"}
    /\ hand \in Clients \cup {NoClient} /\ (hand # NoClient <=> main = "permit")
    /\ backlog \in Seq(Clients) /\ IsInjective(backlog)
    /\ task \in [Clients -> {"none", "running", "ended"}]
    /\ permits \in 0..MAX_CONNECTIONS
    /\ term \in BOOLEAN /\ hup \in BOOLEAN

\* "Backpressure beats task explosion": no permit is lost or made up over
\* accepts, ends, panics and aborts, so no more than MAX_CONNECTIONS tasks run.
PermitsExact == permits + Cardinality(Running) = MAX_CONNECTIONS

\* A shutdown that has begun comes to its end, whatever clients do.
ShutdownEnds == main = "drain" ~> main = "done"

\* If a permit is free again and again, signals are served and no connection
\* waits for ever: the accept arm, which blocks them all, does not win for ever.
SignalsServed ==
    []<>(permits > 0) => (term ~> main = "done") /\ (hup ~> ~hup \/ main \in {"drain", "abort", "done"})

\* ... and every connection the kernel took gets its task, unless the daemon stops.
ServedInTurn ==
    []<>(permits > 0) =>
        \A c \in Clients : c \in Range(backlog) ~> task[c] = "running" \/ main \in {"drain", "abort", "done"}

\* If clients hang up sooner or later, every finished task is joined: join_next has
\* to wait while the accept arm waits for a permit, and the permits come back
\* without it, when the tasks end.
FinishedAreJoined ==
    (\A c \in Clients : []<>(task[c] # "running")) =>
        \A c \in Clients : task[c] = "ended" ~> task[c] = "none"
=============================================================================
