-------------------------------- MODULE Login --------------------------------
(***************************************************************************)
(* A login from end to end: the PAM module, the daemon, the demo adapter.  *)
(*                                                                         *)
(* The daemon is here what VerifyOnce shows of it: handle_client takes a   *)
(* request, asks the adapter, decides, records, and only then writes the   *)
(* response.  It may fail at each step, be killed and be started again     *)
(* (systemd: Restart=on-failure), any number of times.  The record stays.  *)
(*                                                                         *)
(* The daemon knows its peer by SO_PEERCRED (PeerUid).  Only a process of  *)
(* root is believed about whom it asks for; for any other one the daemon   *)
(* decides about the process's own user, whatever name PAM was given.      *)
(*                                                                         *)
(* Nonces and request ids are random and never repeat, so both are named   *)
(* by the session.                                                         *)
(***************************************************************************)
EXTENDS PamBridge, DemoAdapter

CONSTANTS
    SocketPath,     \* where the daemon listens
    AdapterName,
    Keys            \* the daemon's key files: adapter -> key

ASSUME LoginAssumption == Calls = Sessions

VARIABLES
    task,      \* session -> the daemon's task for its connection
    recorded   \* durable audit entries

daemonVars == <<task, recorded>>
vars == <<bridgeVars, adapterVars, daemonVars>>

Nonce(s) == <<"nonce", s>>

\* evidence, the adapter's result behind the decision, is there for the properties.
NewTask == [pc |-> "new", decision |-> Nil, evidence |-> None, rest |-> <<>>]

\* Mutant: every caller is believed.
RequestUidParams(caller, uid) == uid

\* request_uid: a process that is not root's can ask for its own user only.
RequestUid(caller, uid) == IF caller # 0 THEN caller ELSE uid

Uid(s) == RequestUid(PeerUid[s], up[s].uid)

Entry(s) == [id |-> s, caller |-> PeerUid[s], uid |-> Uid(s),
             decision |-> task[s].decision, evidence |-> task[s].evidence]

\* The bridge's view of the daemon.
Listening(s) == pam[s].cfg.socket = SocketPath
Eof(s) == task[s].pc = "closed"

\* The daemon's view of the bridge: its end of the connection is open.
OnLine(s) == pam[s].pc \in {"poll", "sockopt"} \/ pam[s].stream # Nil

-----------------------------------------------------------------------------
(* The daemon *)

\* The task must record its decision before anything else.
Decide(s, decision, evidence) ==
    task' = [task EXCEPT ![s].pc = "log", ![s].decision = decision, ![s].evidence = evidence]

Answer(s, resp) == task' = [task EXCEPT ![s] = [NewTask EXCEPT !.pc = "write", !.rest = Wire(resp)]]

\* handle_client closes without a word: the peer is not on the allowlist, has
\* sent no line for too long, or one that is too long.
Refuse(s) ==
    /\ task[s].pc = "new" /\ OnLine(s)
    /\ task' = [task EXCEPT ![s].pc = "closed"]
    /\ UNCHANGED <<bridgeVars, adapterVars, recorded>>

\* The line is read and leads to an error response, without the
\* id of the request (rate limit, invalid JSON) or with it (bad parameters) ...
TakeFails(s) ==
    /\ task[s].pc = "new" /\ up[s] # Nil
    /\ \E id \in {s, Nil} : Answer(s, ResponseError(id))
    /\ UNCHANGED <<bridgeVars, adapterVars, recorded>>

\* ... or to handle_verify_once: to the adapter of the method, or to a deny if
\* there is none or no nonce can be had.
Take(s) ==
    /\ task[s].pc = "new" /\ up[s] # Nil
    /\ IF up[s].method = AdapterMethod THEN task' = [task EXCEPT ![s].pc = "dispatch"]
       ELSE Decide(s, "deny", None)
    /\ UNCHANGED <<bridgeVars, adapterVars, recorded>>

\* dispatch_resolved: the one permit of the adapter, then verify connects.
Dispatch(s) ==
    /\ task[s].pc = "dispatch"
    /\ \A t \in Sessions : task[t].pc # "verify"
    /\ CallConnect(s)
    /\ task' = [task EXCEPT ![s].pc = "verify"]
    /\ UNCHANGED <<bridgeVars, recorded>>

\* The adapter is down or busy, the connection or the nonce store fails.
DispatchFails(s) ==
    /\ task[s].pc = "dispatch"
    /\ Decide(s, "deny", None)
    /\ UNCHANGED <<bridgeVars, adapterVars, recorded>>

\* verify: the peer is whom the configuration names.
VerifySend(s) ==
    /\ task[s].pc = "verify"
    /\ CallSend(s, [id |-> s, nonce |-> Nonce(s), uid |-> Uid(s)])
    /\ UNCHANGED <<bridgeVars, daemonVars>>

\* verify fails: the peer is another, the adapter has closed, or time is out.
VerifyFails(s) ==
    /\ task[s].pc = "verify"
    /\ \/ call[s].stage = "connected"
       \/ call[s].stage = "asked" /\ call[s].served /\ call[s].reply = None
       \/ call[s].expired
    /\ CallDrop(s)
    /\ Decide(s, "deny", None)
    /\ UNCHANGED <<bridgeVars, recorded>>

\* The result is checked against request, deadline, key and method; the policy
\* has the last word.
VerifyReturns(s, policy) ==
    /\ task[s].pc = "verify" /\ call[s].reply # None
    /\ LET r == call[s].reply IN
       IF /\ r.id = s /\ r.nonce = Nonce(s) /\ ~call[s].expired
          /\ Verify(Keys, AdapterName, r) /\ r.method = up[s].method /\ policy
       THEN Decide(s, "allow", r) ELSE Decide(s, "deny", None)
    /\ CallDrop(s)
    /\ UNCHANGED <<bridgeVars, recorded>>

LogOk(s) ==
    /\ task[s].pc = "log"
    /\ recorded' = recorded \cup {Entry(s)}
    /\ Answer(s, ResponseDecision(s, task[s].decision))
    /\ UNCHANGED <<bridgeVars, adapterVars>>

\* "audit failed"; the entry may be on disk all the same.
LogFails(s) ==
    /\ task[s].pc = "log"
    /\ recorded' \in {recorded, recorded \cup {Entry(s)}}
    /\ Answer(s, ResponseError(s))
    /\ UNCHANGED <<bridgeVars, adapterVars>>

\* The response leaves piece by piece; if the bridge has gone, the write fails.
Write(s) ==
    /\ task[s].pc = "write"
    /\ IF ~OnLine(s) \/ task[s].rest = <<>>
       THEN task' = [task EXCEPT ![s] = [NewTask EXCEPT !.pc = "answered"]] /\ UNCHANGED down
       ELSE /\ down' = [down EXCEPT ![s] = Append(@, Head(task[s].rest))]
            /\ task' = [task EXCEPT ![s].rest = Tail(@)]
    /\ UNCHANGED <<pam, fds, up, adapterVars, recorded>>

\* The daemon is killed and started again: its connections end, on both sides;
\* an entry whose write had begun may be on disk or not.  (A bridge that connects
\* while it is down fails, see ConnectRefused.)
Crash ==
    /\ task' = [s \in Sessions |->
                  IF OnLine(s) THEN [NewTask EXCEPT !.pc = "closed"]
                  ELSE IF up[s] # Nil THEN [NewTask EXCEPT !.pc = "answered"]
                  ELSE task[s]]
    /\ \E S \in SUBSET {s \in Sessions : task[s].pc = "log"} :
         recorded' = recorded \cup {Entry(s) : s \in S}
    /\ call' = [c \in Calls |-> IF call[c].stage \in {"connected", "asked"}
                                THEN Closed([call[c] EXCEPT !.stage = "over"]) ELSE call[c]]
    /\ UNCHANGED <<bridgeVars, adapter, backlog>>

-----------------------------------------------------------------------------

Init ==
    /\ BridgeInit /\ AdapterInit
    /\ task = [s \in Sessions |-> NewTask]
    /\ recorded = {}

Bridge(s) == BridgeStep(s, Listening(s), Eof(s)) /\ UNCHANGED <<adapterVars, daemonVars>>

\* verify waits for the adapter no longer than until its deadline.
Client(s) == VerifySend(s) \/ VerifyFails(s) \/ \E policy \in BOOLEAN : VerifyReturns(s, policy)

Expire(s) == CallExpire(s) /\ UNCHANGED <<bridgeVars, daemonVars>>
Adapter == AdapterStep /\ UNCHANGED <<bridgeVars, daemonVars>>

Next ==
    \/ \E s \in Sessions :
         \/ \E argv \in Argvs, user \in Users \cup {Nil} :
              Begin(s, argv, user) /\ UNCHANGED <<adapterVars, daemonVars>>
         \/ Bridge(s)
         \/ Refuse(s) \/ TakeFails(s) \/ Take(s) \/ Dispatch(s) \/ DispatchFails(s)
         \/ LogOk(s) \/ LogFails(s) \/ Write(s) \/ Client(s) \/ Expire(s)
    \/ Adapter \/ Crash

Spec == Init /\ [][Next]_vars

\* A thread of the PAM process runs; system calls that wait have timeouts.  The
\* adapter runs, and so does the daemon's end of a connection to it: it sends at
\* once, and tokio's timers end it at the deadline.  Nothing is assumed of the
\* daemon towards the bridge.
FairSpec ==
    /\ Spec
    /\ \A s \in Sessions : WF_vars(Bridge(s)) /\ WF_vars(Client(s)) /\ WF_vars(Expire(s))
    /\ WF_vars(Adapter)

-----------------------------------------------------------------------------
(* Properties *)

\* The type invariant.
TypeOK ==
    /\ BridgeTypeOK /\ AdapterTypeOK
    /\ \A s \in Sessions : task[s].pc \in {"new", "dispatch", "verify", "log", "write", "answered", "closed"}
    /\ \A e \in recorded : e.id \in Sessions /\ e.decision \in {"allow", "deny"}

\* Whom a call is decided for: the user PAM named, if root's process asks, and
\* otherwise the user whose process it is (request_uid).
Subject(s) == IF PeerUid[s] = 0 THEN pam[s].uid ELSE PeerUid[s]

\* PAM_SUCCESS and PAM_PERM_DENIED are returned only for a decision on record for
\* this very call, its caller and its subject, whatever part of a response has
\* arrived when the daemon dies, a write fails or time runs out.  (So what a
\* process of another user than root is told is about that user, and says
\* nothing of the one PAM named.)
ReturnsWhatIsRecorded ==
    \A s \in Sessions : pam[s].code \in {"SUCCESS", "PERM_DENIED"} =>
        LET entries == {e \in recorded : e.id = s} IN
        /\ entries # {}
        /\ \A e \in entries :
             /\ e.caller = PeerUid[s] /\ e.uid = Subject(s)
             /\ e.decision = IF pam[s].code = "SUCCESS" THEN "allow" ELSE "deny"

\* Every allow on record rests on evidence the adapter signed with the key the
\* daemon has for it, for the subject of the call, the method its configuration
\* names and the nonce of this request, before the deadline; late answers of a
\* slow adapter, or a name in the request of a process that is not root's, serve
\* no other login.
AllowsRestOnEvidence ==
    \A e \in recorded : e.decision = "allow" =>
        /\ e.uid = Subject(e.id)
        /\ e.evidence.hash = EvidenceHash(Keys[AdapterName], Nonce(e.id), Subject(e.id),
                                 pam[e.id].cfg.method, Confidence, "in time")

\* Every call of pam_sm_authenticate returns, whatever the daemon does.
CallReturns == \A s \in Sessions : pam[s].pc # "idle" ~> pam[s].pc = "done"
=============================================================================
