------------------------------ MODULE VerifyOnce ------------------------------
(***************************************************************************)
(* The request path of ola-core (infrastructure/ipc/unix_socket.rs):       *)
(* handle_client and handle_verify_once for several connections at once,   *)
(* the reload of policy and allowlist, and the abort of client tasks at    *)
(* the end of a shutdown.                                                  *)
(*                                                                         *)
(* It composes the other components by what they promise: the nonce store  *)
(* is NonceLedger, the audit log is AuditLedger, the policy engine is      *)
(* Policy.  A dispatch to an adapter ends in an error or in a reply that   *)
(* may say anything.  A task is interleaved with the others at each lock   *)
(* it takes and at each await.                                             *)
(*                                                                         *)
(* Abstractions: the HMAC is the bit `signed`, TRUE when it was made over  *)
(* the reply with the adapter's key; the wall clock may be set, so reading *)
(* it yields any of Nows and the deadline check may go either way.         *)
(***************************************************************************)
EXTENDS Policy, FiniteSets

CONSTANTS
    Conns,                \* connections the daemon can serve at a time
    Callers,              \* connection -> uids its peer may have (SO_PEERCRED)
    AlwaysAllowed,        \* root and the service user, whom is_allowed lets pass
    Root,
    Methods,              \* registered methods
    Nonces,
    Snapshots,            \* contents of allowlist and policy file that load
    REQUIRE_ATTESTATION,
    MAX_RESULT_AGE_SECS,
    MaxRequests,          \* bound: verify_once requests over all connections
    MaxReloads,           \* bound: successful reloads
    Nil                   \* for a field that has no value

ASSUME VerifyOnceAssumption ==
    /\ IsFiniteSet(Conns) /\ Root \in AlwaysAllowed
    /\ REQUIRE_ATTESTATION \in BOOLEAN
    /\ MaxRequests \in Nat /\ MaxReloads \in Nat
    /\ MAX_RESULT_AGE_SECS \in Nat
    /\ \A s \in Snapshots :
         /\ Accepts(s.file) /\ Len(s.file) \in Nat /\ DOMAIN s.file = 1..Len(s.file)
         /\ \A i \in DOMAIN s.file :
              s.file[i].max_age_secs \in Nat /\ s.file[i].require_uid_match \in BOOLEAN

VARIABLES
    reloadable,   \* the ArcSwap: allowlist and policy
    reloads,      \* bound counter
    serving,      \* the accept loop runs; FALSE once SIGTERM has ended it
    conn,         \* connection -> its task
    outstanding,  \* the nonce store
    honoured,
    recorded,     \* the audit log
    returned,
    unsettled,    \* entries of failed or abandoned log calls, perhaps written
    \* Observation only: no guard reads these.
    replies,      \* allow, deny and error responses sent to clients
    grants        \* what each Allow of the policy engine was based on

auditVars == <<recorded, returned, unsettled>>
nonceVars == <<outstanding, honoured>>
obsVars == <<replies, grants>>
vars == <<reloadable, reloads, serving, conn, nonceVars, auditVars, obsVars>>

Ids == Conns \X (1..MaxRequests)
Received == {id \in Ids : id[2] <= conn[id[1]].count}
Entries == [id : Ids, decision : {"allow", "deny"}]

Store == INSTANCE NonceLedger
Audit == INSTANCE AuditLedger

\* A task without a request, and one without a connection.
Waiting(t) == [pc |-> "reading", caller |-> t.caller, count |-> t.count, uid |-> Nil,
               method |-> Nil, snap |-> Nil, nonce |-> Nil, outcome |-> Nil]
Gone(t) == [Waiting(t) EXCEPT !.pc = "closed", !.caller = Nil]

Entry(c, decision) == [id |-> <<c, conn[c].count>>, decision |-> decision]

\* The task goes on with its deny, which it must log first.
Denied(c) == conn' = [conn EXCEPT ![c].pc = "audit", ![c].outcome = "deny"]

-----------------------------------------------------------------------------
(* handle_client *)

IsAllowed(allowlist, uid) == uid \in AlwaysAllowed \cup allowlist

\* A new connection of a caller who is not allowed is closed silently: no step.
Connect(c, caller) ==
    /\ serving
    /\ conn[c].pc = "closed"
    /\ IsAllowed(reloadable.allowlist, caller)
    /\ conn' = [conn EXCEPT ![c].pc = "reading", ![c].caller = caller]
    /\ UNCHANGED <<reloadable, reloads, serving, nonceVars, auditVars, obsVars>>

\* The connection ends without a decision: end of stream, idle timeout, an
\* unreadable line, a caller no longer allowed, the rate limit, bad parameters.
\* (Requests other than verify_once are answered at once and change nothing.)
Disconnect(c) ==
    /\ conn[c].pc = "reading"
    /\ conn' = [conn EXCEPT ![c] = Gone(@)]
    /\ UNCHANGED <<reloadable, reloads, serving, nonceVars, auditVars, obsVars>>

\* request_uid: only root may name another user.
RequestUids(caller) == IF caller = Root THEN Uids ELSE {caller}

\* A verify_once request: one snapshot of the reloadable state serves it from
\* here on.  The method is the one resolve found, or Nil: MethodNotFound.
Receive(c, uid, method) ==
    /\ conn[c].pc = "reading" /\ Cardinality(Received) < MaxRequests
    /\ IsAllowed(reloadable.allowlist, conn[c].caller)
    /\ uid \in RequestUids(conn[c].caller)
    /\ conn' = [conn EXCEPT ![c] =
                  [@ EXCEPT !.pc = IF method = Nil THEN "audit" ELSE "generate",
                            !.outcome = IF method = Nil THEN "deny" ELSE Nil,
                            !.count = conn[c].count + 1, !.uid = uid, !.method = method,
                            !.snap = reloadable]]
    /\ UNCHANGED <<reloadable, reloads, serving, nonceVars, auditVars, obsVars>>

-----------------------------------------------------------------------------
(* handle_verify_once *)

Generate(c, n) ==
    /\ conn[c].pc = "generate"
    /\ Store!Issue(n, conn[c].uid)
    /\ conn' = [conn EXCEPT ![c].pc = "dispatch", ![c].nonce = n]
    /\ UNCHANGED <<reloadable, reloads, serving, auditVars, obsVars>>

\* The store is full, the user has too many nonces, or there is no randomness.
GenerateFails(c) ==
    /\ conn[c].pc = "generate"
    /\ Denied(c)
    /\ UNCHANGED <<reloadable, reloads, serving, nonceVars, auditVars, obsVars>>

\* consume(nonce, uid): honoured, or refused and gone all the same.
Consume(c, ok) ==
    LET n == conn[c].nonce IN
    IF ok THEN Store!Honour(n, conn[c].uid)
    ELSE IF n \in DOMAIN outstanding THEN Store!Discard({n}) ELSE UNCHANGED nonceVars

\* Mutant: the error path forgets the nonce.
DispatchFailsKeepsNonce(c) ==
    /\ conn[c].pc = "dispatch"
    /\ Denied(c)
    /\ UNCHANGED <<reloadable, reloads, serving, nonceVars, auditVars, obsVars>>

\* Mutant: a failed dispatch is tried again with a new nonce.
DispatchFailsRetries(c) ==
    /\ conn[c].pc = "dispatch"
    /\ \E ok \in BOOLEAN : Consume(c, ok)
    /\ conn' = [conn EXCEPT ![c].pc = "generate", ![c].nonce = Nil]
    /\ UNCHANGED <<reloadable, reloads, serving, auditVars, obsVars>>

\* dispatch_resolved returns an error: the nonce is spent, whatever consume says.
DispatchFails(c) ==
    /\ conn[c].pc = "dispatch"
    /\ \E ok \in BOOLEAN : Consume(c, ok)
    /\ Denied(c)
    /\ UNCHANGED <<reloadable, reloads, serving, auditVars, obsVars>>

\* Mutant: the policy that is live when the adapter answers.
DecisionLive(c, reply, spent) ==
    IF reply.nonce # conn[c].nonce THEN "nonce_mismatch"
    ELSE IF reply.late THEN "request_deadline_expired"
    ELSE IF ~spent THEN "nonce_refused"
    ELSE IF REQUIRE_ATTESTATION /\ ~reply.result.signed THEN "attestation"
    ELSE IF reply.result.method # conn[c].method THEN "method_mismatch"
    ELSE Evaluate(SortedRules(reloadable.file), MAX_RESULT_AGE_SECS,
                  reply.result, conn[c].uid, reply.now)

\* Mutant: what consume returns is ignored here too.
DecisionUnspent(c, reply, spent) ==
    IF reply.nonce # conn[c].nonce THEN "nonce_mismatch"
    ELSE IF reply.late THEN "request_deadline_expired"
    ELSE IF REQUIRE_ATTESTATION /\ ~reply.result.signed THEN "attestation"
    ELSE IF reply.result.method # conn[c].method THEN "method_mismatch"
    ELSE Evaluate(SortedRules(conn[c].snap.file), MAX_RESULT_AGE_SECS,
                  reply.result, conn[c].uid, reply.now)

\* The checks on an adapter's reply, in their order; "Allow" or a reason.
Decision(c, reply, spent) ==
    IF reply.nonce # conn[c].nonce THEN "nonce_mismatch"
    ELSE IF reply.late THEN "request_deadline_expired"
    ELSE IF ~spent THEN "nonce_refused"
    ELSE IF REQUIRE_ATTESTATION /\ ~reply.result.signed THEN "attestation"
    ELSE IF reply.result.method # conn[c].method THEN "method_mismatch"
    ELSE Evaluate(SortedRules(conn[c].snap.file), MAX_RESULT_AGE_SECS,
                  reply.result, conn[c].uid, reply.now)

Replies == [nonce : Nonces, result : Results, late : BOOLEAN, now : Nows]

\* The adapter's reply is checked; on every path the nonce is spent first.
DispatchReturns(c, reply) ==
    /\ conn[c].pc = "dispatch"
    /\ \E ok \in BOOLEAN :
         /\ Consume(c, ok)
         /\ IF Decision(c, reply, ok) = "Allow"
            THEN /\ conn' = [conn EXCEPT ![c].pc = "audit", ![c].outcome = "allow"]
                 /\ grants' = grants \cup {[id |-> <<c, conn[c].count>>, caller |-> conn[c].caller,
                                            uid |-> conn[c].uid, snap |-> conn[c].snap,
                                            nonce |-> conn[c].nonce, method |-> conn[c].method,
                                            reply |-> reply]}
            ELSE Denied(c) /\ UNCHANGED grants
    /\ UNCHANGED <<reloadable, reloads, serving, auditVars, replies>>

\* Mutant: a failed write is logged and the decision returned all the same.
LogFailsOpen(c) ==
    /\ conn[c].pc = "audit"
    /\ conn' = [conn EXCEPT ![c].pc = "respond"]
    /\ unsettled' = unsettled \cup {Entry(c, conn[c].outcome)}
    /\ UNCHANGED <<reloadable, reloads, serving, nonceVars, recorded, returned, obsVars>>

\* AuditLogger::log returns Ok, then the decision may be sent.
LogOk(c) ==
    /\ conn[c].pc = "audit"
    /\ Audit!RecordAndReturn({Entry(c, conn[c].outcome)}, Entry(c, conn[c].outcome))
    /\ conn' = [conn EXCEPT ![c].pc = "respond"]
    /\ UNCHANGED <<reloadable, reloads, serving, nonceVars, unsettled, obsVars>>

\* ... or fails: "audit failed" is all the client is told.
LogFails(c) ==
    /\ conn[c].pc = "audit"
    /\ conn' = [conn EXCEPT ![c].pc = "respond", ![c].outcome = "error"]
    /\ unsettled' = unsettled \cup {Entry(c, conn[c].outcome)}
    /\ UNCHANGED <<reloadable, reloads, serving, nonceVars, recorded, returned, obsVars>>

\* The response is sent and the next line awaited, or the client has gone.
Respond(c, sent) ==
    /\ conn[c].pc = "respond"
    /\ replies' = IF sent THEN replies \cup {[id |-> <<c, conn[c].count>>, verdict |-> conn[c].outcome]}
                  ELSE replies
    /\ conn' = [conn EXCEPT ![c] = IF sent THEN Waiting(@) ELSE Gone(@)]
    /\ UNCHANGED <<reloadable, reloads, serving, nonceVars, auditVars, grants>>

-----------------------------------------------------------------------------
(* The rest of the daemon *)

\* reload_state: both files loaded, one store; if either is bad the old state
\* stays.  The reopening of the log that follows is a stuttering step of
\* AuditLedger (see Reopen of AuditLog).
Reload(s) ==
    /\ serving
    /\ reloads < MaxReloads
    /\ reloadable' = s
    /\ reloads' = reloads + 1
    /\ UNCHANGED <<serving, conn, nonceVars, auditVars, obsVars>>

\* The sweep discards nonces that reached their time to live.
Sweep(n) ==
    /\ n \in DOMAIN outstanding
    /\ Store!Discard({n})
    /\ UNCHANGED <<reloadable, reloads, serving, conn, auditVars, obsVars>>

\* A line whose log call did not return Ok can become durable later.
Settle(e) ==
    /\ e \in unsettled
    /\ Audit!Record({e})
    /\ unsettled' = unsettled \ {e}
    /\ UNCHANGED <<reloadable, reloads, serving, conn, nonceVars, obsVars>>

\* SIGTERM or SIGINT ends the accept loop; client tasks go on.
Shutdown ==
    /\ serving
    /\ serving' = FALSE
    /\ UNCHANGED <<reloadable, reloads, conn, nonceVars, auditVars, obsVars>>

\* The drain timeout: a task is dropped at its await.  A write it had begun goes
\* on in the blocking pool.
Abort(c) ==
    /\ ~serving
    /\ conn[c].pc \in {"reading", "dispatch", "audit", "respond"}
    /\ conn' = [conn EXCEPT ![c].pc = "aborted"]
    /\ unsettled' = IF conn[c].pc = "audit" THEN unsettled \cup {Entry(c, conn[c].outcome)}
                    ELSE unsettled
    /\ UNCHANGED <<reloadable, reloads, serving, nonceVars, recorded, returned, obsVars>>

-----------------------------------------------------------------------------

Init ==
    /\ reloadable \in Snapshots
    /\ reloads = 0
    /\ serving = TRUE
    /\ conn = [c \in Conns |-> Gone([caller |-> Nil, count |-> 0])]
    /\ Store!Init /\ Audit!Init
    /\ unsettled = {} /\ replies = {} /\ grants = {}

Handle(c) ==
    \/ \E n \in Nonces : Generate(c, n)
    \/ GenerateFails(c)
    \/ DispatchFails(c)
    \/ \E reply \in Replies : DispatchReturns(c, reply)
    \/ LogOk(c) \/ LogFails(c)

Next ==
    \/ \E c \in Conns :
         \/ \E caller \in Callers[c] : Connect(c, caller)
         \/ \E uid \in Uids, method \in Methods \cup {Nil} : Receive(c, uid, method)
         \/ Disconnect(c) \/ Abort(c) \/ Handle(c)
         \/ \E sent \in BOOLEAN : Respond(c, sent)
    \/ \E s \in Snapshots : Reload(s)
    \/ \E n \in Nonces : Sweep(n)
    \/ \E e \in Entries : Settle(e)
    \/ Shutdown

Spec == Init /\ [][Next]_vars

\* Every await of handle_verify_once ends: a dispatch at its deadline, a log call
\* when the disk answers.  (The send of the response has no timeout.)
FairSpec == Spec /\ \A c \in Conns : WF_vars(Handle(c))

-----------------------------------------------------------------------------
(***************************************************************************)
(* Properties                                                              *)
(***************************************************************************)

\* The comment in handle_client: "The allowlist check and policy decision must
\* not come from different reloads."  Each Allow rests on one snapshot in which
\* the caller is allowed and whose policy allows the attested reply to the very
\* nonce and method of the request, however reloads fall into the request.
GrantsJustified ==
    \A g \in grants :
        /\ IsAllowed(g.snap.allowlist, g.caller)
        /\ g.caller # Root => g.uid = g.caller
        /\ g.reply.nonce = g.nonce /\ ~g.reply.late
        /\ g.reply.result.method = g.method
        /\ REQUIRE_ATTESTATION => g.reply.result.signed
        /\ Evaluate(SortedRules(g.snap.file), MAX_RESULT_AGE_SECS, g.reply.result, g.uid, g.reply.now) = "Allow"

\* "Single-use": the Allows that rest on a nonce value are no more than the
\* times the store honoured it, although sweeps race with replies and another
\* request may be issued the same value.
OneGrantPerNonce ==
    \A n \in Nonces : Cardinality({g \in grants : g.nonce = n}) <= honoured[n]

\* "Every Allow or Deny has a durable audit entry": what a client is told is what
\* the log has for its request, and the log has nothing else for it; a client
\* that is told of an Allow had one from the policy engine.
RepliesRecorded ==
    \A r \in replies : r.verdict \in {"allow", "deny"} =>
        /\ {e \in recorded \cup unsettled : e.id = r.id} = {[id |-> r.id, decision |-> r.verdict]}
        /\ [id |-> r.id, decision |-> r.verdict] \in recorded
        /\ r.verdict = "allow" <=> \E g \in grants : g.id = r.id

\* No path through the handler leaves its nonce behind: a nonce is pending only
\* while its request waits for an adapter, or if its task was aborted.
NoNonceLeft ==
    \A n \in DOMAIN outstanding :
        \E c \in Conns : conn[c].nonce = n /\ conn[c].pc \in {"dispatch", "aborted"}

\* Every request comes to a response, although nonces may run out, adapters may
\* not answer and the log may fail.
ComesToResponse ==
    \A c \in Conns : conn[c].pc \in {"generate", "dispatch", "audit"} ~> conn[c].pc \in {"respond", "aborted"}
=============================================================================
