-------------------------- MODULE VerifyOnceProofs --------------------------
(***************************************************************************)
(* Proofs about VerifyOnce, for any number of connections, requests,       *)
(* nonces, users and reloads, and about the policy engine inside it.       *)
(***************************************************************************)
EXTENDS VerifyOnce, PolicyEngineProofs, FiniteSetTheorems, TLAPS

ConnFields == {"pc", "caller", "count", "uid", "method", "snap", "nonce", "outcome"}

\* The tasks have their fields, and their requests are numbered.
ConnShape ==
    /\ DOMAIN conn = Conns
    /\ \A c \in Conns : DOMAIN conn[c] = ConnFields /\ conn[c].count \in Nat

-----------------------------------------------------------------------------
(* The ledger of a request: its entries, its replies, its grants *)

Id(c) == <<c, conn[c].count>>
Logged(id) == {e \in recorded \cup unsettled : e.id = id}
Told(id) == {r \in replies : r.id = id}
Granted(id) == {g \in grants : g.id = id}

\* The request has been received.
Known(id) == \E c \in Conns, k \in Nat : id = <<c, k>> /\ k <= conn[c].count

AllKnown ==
    /\ \A e \in recorded \cup unsettled : Known(e.id)
    /\ \A r \in replies : Known(r.id)
    /\ \A g \in grants : Known(g.id)

\* The caller was allowed to ask, in the very snapshot the request works with.
Admitted(c) ==
    /\ IsAllowed(conn[c].snap.allowlist, conn[c].caller)
    /\ conn[c].caller # Root => conn[c].uid = conn[c].caller

\* What there is of the request a task is at work on.
Request(c) ==
    /\ conn[c].pc \in {"generate", "dispatch"} => Admitted(c) /\ Granted(Id(c)) = {}
    /\ conn[c].pc \in {"generate", "dispatch", "audit"} => Logged(Id(c)) = {}
    /\ conn[c].pc \in {"generate", "dispatch", "audit", "respond"} => Told(Id(c)) = {}
    /\ conn[c].pc = "audit" =>
         /\ conn[c].outcome \in {"allow", "deny"}
         /\ conn[c].outcome = "allow" <=> Granted(Id(c)) # {}
    /\ conn[c].pc = "respond" /\ conn[c].outcome \in {"allow", "deny"} =>
         /\ Logged(Id(c)) = {Entry(c, conn[c].outcome)} /\ Entry(c, conn[c].outcome) \in recorded
         /\ conn[c].outcome = "allow" <=> Granted(Id(c)) # {}

RequestInv == ConnShape /\ AllKnown /\ (\A c \in Conns : Request(c)) /\ GrantsJustified /\ RepliesRecorded

-----------------------------------------------------------------------------
(* Steps that leave ledgers alone *)

\* A step adds nothing to the ledger of this request.
Untouched(id) == Logged(id)' = Logged(id) /\ Told(id)' = Told(id) /\ Granted(id)' = Granted(id)

\* A step of others, from the point of view of a task.
LEMMA RequestFrame ==
    ASSUME NEW c \in Conns, Request(c), conn'[c] = conn[c], recorded \subseteq recorded',
           \A id : id = Id(c) => Untouched(id)
    PROVE  Request(c)'
<1>1. PICK id : id = Id(c)
  OBVIOUS
<1>2. Id(c)' = id /\ Entry(c, conn[c].outcome)' = Entry(c, conn[c].outcome)
  BY <1>1 DEF Id, Entry
<1>3. Admitted(c)' <=> Admitted(c)
  BY DEF Admitted
<1>4. Logged(id)' = Logged(id) /\ Told(id)' = Told(id) /\ Granted(id)' = Granted(id)
  BY <1>1 DEF Untouched
<1>5. Logged(Id(c))' = Logged(Id(c)) /\ Told(Id(c))' = Told(Id(c)) /\ Granted(Id(c))' = Granted(Id(c))
  BY <1>1, <1>2, <1>4 DEF Logged, Told, Granted
<1> QED BY <1>2, <1>3, <1>5 DEF Request

\* A task takes a step that touches no ledger but that of its own request.
LEMMA TaskStep ==
    ASSUME RequestInv, NEW c \in Conns, NEW k, conn' = [conn EXCEPT ![c] = k],
           DOMAIN k = ConnFields, k.count \in Nat, conn[c].count <= k.count,
           recorded \subseteq recorded', \A id : id # Id(c) => Untouched(id), Request(c)'
    PROVE  ConnShape' /\ (\A d \in Conns : Request(d)') /\ (\A id : Known(id) => Known(id)')
<1>1. /\ conn'[c] = k /\ DOMAIN conn' = Conns /\ \A d \in Conns \ {c} : conn'[d] = conn[d]
      /\ ConnShape /\ \A d \in Conns : Request(d)
  BY DEF RequestInv, ConnShape
<1>2. ConnShape'
  BY <1>1 DEF ConnShape
<1>3. ASSUME NEW d \in Conns \ {c} PROVE Request(d)'
  <2>1. Id(d) # Id(c)
    BY DEF Id
  <2> QED BY <1>1, <2>1, RequestFrame
<1>4. ASSUME NEW id, Known(id) PROVE Known(id)'
  <2>1. PICK d \in Conns, n \in Nat : id = <<d, n>> /\ n <= conn[d].count
    BY <1>4 DEF Known
  <2>2. n <= conn'[d].count
    BY <1>1, <2>1 DEF ConnShape
  <2> QED BY <2>1, <2>2 DEF Known
<1> QED BY <1>2, <1>3, <1>4

\* What clients have been told stays true while nothing is added to its ledgers.
LEMMA RepliesFrame ==
    ASSUME RepliesRecorded, recorded \subseteq recorded', replies' = replies,
           \A r \in replies : Untouched(r.id)
    PROVE  RepliesRecorded'
<1> SUFFICES ASSUME NEW r \in replies, r.verdict \in {"allow", "deny"}
             PROVE  /\ {e \in recorded' \cup unsettled' : e.id = r.id} = {[id |-> r.id, decision |-> r.verdict]}
                    /\ [id |-> r.id, decision |-> r.verdict] \in recorded'
                    /\ r.verdict = "allow" <=> \E g \in grants' : g.id = r.id
  BY DEF RepliesRecorded
<1>1. /\ {e \in recorded \cup unsettled : e.id = r.id} = {[id |-> r.id, decision |-> r.verdict]}
      /\ [id |-> r.id, decision |-> r.verdict] \in recorded
      /\ r.verdict = "allow" <=> \E g \in grants : g.id = r.id
  BY DEF RepliesRecorded
<1>2. {e \in recorded' \cup unsettled' : e.id = r.id} = {e \in recorded \cup unsettled : e.id = r.id}
  BY DEF Untouched, Logged
<1>3. {g \in grants' : g.id = r.id} = {g \in grants : g.id = r.id}
  BY DEF Untouched, Granted
<1> QED BY <1>1, <1>2, <1>3

\* Steps that touch no ledger at all keep it, whatever the task does.
LEMMA QuietStep ==
    ASSUME RequestInv, NEW c \in Conns, NEW k, conn' = [conn EXCEPT ![c] = k],
           DOMAIN k = ConnFields, k.count \in Nat, conn[c].count <= k.count,
           UNCHANGED <<recorded, unsettled, replies, grants>>, Request(c)'
    PROVE  RequestInv'
<1>1. \A id : Untouched(id)
  BY DEF Untouched, Logged, Told, Granted
<1>2. ConnShape' /\ (\A d \in Conns : Request(d)') /\ (\A id : Known(id) => Known(id)')
  BY <1>1, TaskStep, Zenon
<1>3. AllKnown'
  BY <1>2 DEF AllKnown, RequestInv
<1>4. RepliesRecorded'
  BY <1>1, RepliesFrame DEF RequestInv
<1>5. GrantsJustified'
  BY DEF RequestInv, GrantsJustified
<1> QED BY <1>2, <1>3, <1>4, <1>5 DEF RequestInv

-----------------------------------------------------------------------------
(* handle_client and handle_verify_once *)

\* The request of a task stays the same one.
LEMMA SameRequest ==
    ASSUME NEW c \in Conns, conn'[c].count = conn[c].count,
           UNCHANGED <<recorded, unsettled, replies, grants>>
    PROVE  /\ Id(c)' = Id(c) /\ Logged(Id(c))' = Logged(Id(c))
           /\ Told(Id(c))' = Told(Id(c)) /\ Granted(Id(c))' = Granted(Id(c))
<1>1. Id(c)' = Id(c)
  BY DEF Id
<1> QED BY <1>1 DEF Logged, Told, Granted

\* A task without a request, or one that goes on to its nonce, its adapter or its
\* deny (Connect, Disconnect, Generate, GenerateFails, DispatchFails).
LEMMA TaskMoves ==
    ASSUME RequestInv, NEW c \in Conns, NEW k, conn' = [conn EXCEPT ![c] = k],
           DOMAIN k = ConnFields, k.count = conn[c].count,
           UNCHANGED <<recorded, unsettled, replies, grants>>,
           \/ k.pc \in {"closed", "reading", "aborted"}
           \/ /\ conn[c].pc = "generate" /\ k.pc = "dispatch"
              /\ k.caller = conn[c].caller /\ k.uid = conn[c].uid /\ k.snap = conn[c].snap
           \/ /\ conn[c].pc \in {"generate", "dispatch"} /\ k.pc = "audit" /\ k.outcome = "deny"
    PROVE  RequestInv'
<1>1. /\ conn'[c] = k /\ Request(c)
      /\ conn[c].count \in Nat /\ k.count \in Nat /\ conn[c].count <= k.count
  BY DEF RequestInv, ConnShape
<1>2. /\ Id(c)' = Id(c) /\ Logged(Id(c))' = Logged(Id(c))
      /\ Told(Id(c))' = Told(Id(c)) /\ Granted(Id(c))' = Granted(Id(c))
  BY <1>1, SameRequest
<1>3. CASE k.pc \in {"closed", "reading", "aborted"}
  <2>1. Request(c)'
    BY <1>1, <1>3 DEF Request
  <2> QED BY <1>1, <2>1, QuietStep, Zenon
<1>4. CASE /\ conn[c].pc = "generate" /\ k.pc = "dispatch"
           /\ k.caller = conn[c].caller /\ k.uid = conn[c].uid /\ k.snap = conn[c].snap
  <2>1. Admitted(c)'
    BY <1>1, <1>4 DEF Request, Admitted
  <2>2. Request(c)'
    BY <1>1, <1>2, <1>4, <2>1 DEF Request
  <2> QED BY <1>1, <2>2, QuietStep, Zenon
<1>5. CASE conn[c].pc \in {"generate", "dispatch"} /\ k.pc = "audit" /\ k.outcome = "deny"
  <2>1. Request(c)'
    BY <1>1, <1>2, <1>5 DEF Request
  <2> QED BY <1>1, <2>1, QuietStep, Zenon
<1> QED BY <1>3, <1>4, <1>5

\* These are such steps.
LEMMA QuietActions ==
    ASSUME RequestInv, NEW c \in Conns,
           \/ \E caller \in Callers[c] : Connect(c, caller)
           \/ Disconnect(c) \/ (\E n \in Nonces : Generate(c, n)) \/ GenerateFails(c) \/ DispatchFails(c)
           \/ Abort(c) /\ conn[c].pc # "audit"
           \/ Respond(c, FALSE)
    PROVE  RequestInv'
<1>1. DOMAIN conn = Conns /\ DOMAIN conn[c] = ConnFields
  BY DEF RequestInv, ConnShape
<1>2. DOMAIN Gone(conn[c]) = ConnFields /\ Gone(conn[c]).pc = "closed" /\ Gone(conn[c]).count = conn[c].count
  BY DEF Gone, Waiting, ConnFields
<1>3. CASE Disconnect(c) \/ Respond(c, FALSE)
  <2>1. conn' = [conn EXCEPT ![c] = Gone(conn[c])] /\ UNCHANGED <<recorded, unsettled, replies, grants>>
    BY <1>3 DEF Disconnect, Respond, auditVars, obsVars
  <2> QED BY <1>2, <2>1, TaskMoves, Zenon
<1>4. ASSUME NEW caller \in Callers[c], Connect(c, caller) PROVE RequestInv'
  <2> DEFINE k == [conn[c] EXCEPT !.pc = "reading", !.caller = caller]
  <2>1. conn' = [conn EXCEPT ![c] = k] /\ UNCHANGED <<recorded, unsettled, replies, grants>>
    BY <1>4, Zenon DEF Connect, auditVars, obsVars
  <2>2. DOMAIN k = ConnFields /\ k.pc = "reading" /\ k.count = conn[c].count
    BY <1>1 DEF ConnFields
  <2> HIDE DEF k
  <2> QED BY <2>1, <2>2, TaskMoves, Zenon
<1>5. ASSUME NEW n \in Nonces, Generate(c, n) PROVE RequestInv'
  <2> DEFINE k == [conn[c] EXCEPT !.pc = "dispatch", !.nonce = n]
  <2>1. /\ conn' = [conn EXCEPT ![c] = k] /\ UNCHANGED <<recorded, unsettled, replies, grants>>
        /\ conn[c].pc = "generate"
    BY <1>5, Zenon DEF Generate, auditVars, obsVars
  <2>2. /\ DOMAIN k = ConnFields /\ k.pc = "dispatch" /\ k.count = conn[c].count
        /\ k.caller = conn[c].caller /\ k.uid = conn[c].uid /\ k.snap = conn[c].snap
    BY <1>1 DEF ConnFields
  <2> HIDE DEF k
  <2> QED BY <2>1, <2>2, TaskMoves, Zenon
<1>6. CASE GenerateFails(c) \/ DispatchFails(c)
  <2> DEFINE k == [conn[c] EXCEPT !.pc = "audit", !.outcome = "deny"]
  <2>1. /\ conn' = [conn EXCEPT ![c] = k] /\ UNCHANGED <<recorded, unsettled, replies, grants>>
        /\ conn[c].pc \in {"generate", "dispatch"}
    BY <1>6, Zenon DEF GenerateFails, DispatchFails, Denied, auditVars, obsVars
  <2>2. DOMAIN k = ConnFields /\ k.pc = "audit" /\ k.count = conn[c].count /\ k.outcome = "deny"
    BY <1>1 DEF ConnFields
  <2> HIDE DEF k
  <2> QED BY <2>1, <2>2, TaskMoves, Zenon
<1>7. CASE Abort(c) /\ conn[c].pc # "audit"
  <2> DEFINE k == [conn[c] EXCEPT !.pc = "aborted"]
  <2>1. conn' = [conn EXCEPT ![c] = k] /\ UNCHANGED <<recorded, unsettled, replies, grants>>
    BY <1>7 DEF Abort, obsVars
  <2>2. DOMAIN k = ConnFields /\ k.pc = "aborted" /\ k.count = conn[c].count
    BY <1>1 DEF ConnFields
  <2> HIDE DEF k
  <2> QED BY <2>1, <2>2, TaskMoves, Zenon
<1> QED BY <1>3, <1>4, <1>5, <1>6, <1>7, Zenon

\* A request is received: it is a new one, and its snapshot admits the caller.
LEMMA ReceiveKeeps ==
    ASSUME RequestInv, NEW c \in Conns, NEW uid, NEW method, Receive(c, uid, method)
    PROVE  RequestInv'
<1> DEFINE k == [conn[c] EXCEPT !.pc = IF method = Nil THEN "audit" ELSE "generate",
                                !.outcome = IF method = Nil THEN "deny" ELSE Nil,
                                !.count = conn[c].count + 1, !.uid = uid, !.method = method,
                                !.snap = reloadable]
<1>1. DOMAIN conn = Conns /\ DOMAIN conn[c] = ConnFields /\ conn[c].count \in Nat
  BY DEF RequestInv, ConnShape
<1>2. /\ conn' = [conn EXCEPT ![c] = k]
      /\ IsAllowed(reloadable.allowlist, conn[c].caller) /\ uid \in RequestUids(conn[c].caller)
      /\ UNCHANGED <<auditVars, obsVars>>
  <2> USE DEF Receive
  <2>1. conn' = [conn EXCEPT ![c] = k]
    BY Zenon
  <2>2. IsAllowed(reloadable.allowlist, conn[c].caller) /\ uid \in RequestUids(conn[c].caller)
    OBVIOUS
  <2>3. UNCHANGED <<auditVars, obsVars>>
    OBVIOUS
  <2> QED BY <2>1, <2>2, <2>3
<1>3. /\ DOMAIN k = ConnFields /\ k.count = conn[c].count + 1 /\ k.pc \in {"audit", "generate"}
      /\ k.uid = uid /\ k.snap = reloadable /\ k.caller = conn[c].caller
      /\ k.pc = "audit" => k.outcome = "deny"
  BY <1>1 DEF ConnFields
<1> HIDE DEF k
<1>4. /\ conn'[c] = k /\ UNCHANGED <<recorded, unsettled, replies, grants>>
      /\ k.count \in Nat /\ conn[c].count <= k.count
  BY <1>1, <1>2, <1>3 DEF auditVars, obsVars
<1>5. Id(c)' = <<c, conn[c].count + 1>> /\ ~Known(<<c, conn[c].count + 1>>)
  BY <1>1, <1>3, <1>4 DEF Id, Known
<1>6. Logged(Id(c))' = {} /\ Told(Id(c))' = {} /\ Granted(Id(c))' = {}
  BY <1>4, <1>5 DEF RequestInv, AllKnown, Logged, Told, Granted
<1>7. Admitted(c)'
  BY <1>2, <1>3, <1>4 DEF Admitted, RequestUids
<1>8. Request(c)'
  BY <1>3, <1>4, <1>6, <1>7 DEF Request
<1> QED BY <1>2, <1>3, <1>4, <1>8, QuietStep, Zenon
\* A step that adds an entry or a grant to the request a task is at work on:
\* what clients have been told is about other requests.
LEMMA LedgerStep ==
    ASSUME RequestInv, NEW c \in Conns, NEW k, conn' = [conn EXCEPT ![c] = k],
           DOMAIN k = ConnFields, k.count = conn[c].count, Told(Id(c)) = {},
           recorded \subseteq recorded', \A id : id # Id(c) => Untouched(id), Request(c)',
           replies' = replies, GrantsJustified',
           \A e \in recorded' \cup unsettled' : e \in recorded \cup unsettled \/ e.id = Id(c),
           \A g \in grants' : g \in grants \/ g.id = Id(c)
    PROVE  RequestInv'
<1>1. conn[c].count \in Nat /\ k.count \in Nat /\ conn[c].count <= k.count
  BY DEF RequestInv, ConnShape
<1>2. ConnShape' /\ (\A d \in Conns : Request(d)') /\ (\A id : Known(id) => Known(id)')
  BY <1>1, TaskStep, Zenon
<1>3. Known(Id(c))
  BY <1>1 DEF Known, Id
<1>4. PICK me : me = Id(c)
  OBVIOUS
<1>5. Known(me)'
  BY <1>2, <1>3, <1>4
<1>6. /\ \A e \in recorded' \cup unsettled' : Known(e.id)'
      /\ \A r \in replies' : Known(r.id)'
      /\ \A g \in grants' : Known(g.id)'
  BY <1>2, <1>4, <1>5 DEF AllKnown, RequestInv
<1>7. AllKnown'
  BY <1>6 DEF AllKnown
<1>8. \A r \in replies : Untouched(r.id)
  BY DEF Told
<1>9. RepliesRecorded'
  BY <1>8, RepliesFrame DEF RequestInv
<1> QED BY <1>2, <1>7, <1>9 DEF RequestInv

\* The checks of handle_verify_once in the order of the code: an Allow has passed
\* all of them.
LEMMA AllowMeans ==
    ASSUME NEW c \in Conns, NEW reply, NEW ok \in BOOLEAN, Decision(c, reply, ok) = "Allow"
    PROVE  /\ ok /\ reply.nonce = conn[c].nonce /\ ~reply.late
           /\ REQUIRE_ATTESTATION => reply.result.signed
           /\ reply.result.method = conn[c].method
           /\ Evaluate(SortedRules(conn[c].snap.file), MAX_RESULT_AGE_SECS,
                       reply.result, conn[c].uid, reply.now) = "Allow"
BY DEF Decision

LEMMA DispatchReturnsKeeps ==
    ASSUME RequestInv, NEW c \in Conns, NEW reply, DispatchReturns(c, reply)
    PROVE  RequestInv'
<1>1. DOMAIN conn = Conns /\ DOMAIN conn[c] = ConnFields /\ conn[c].pc = "dispatch" /\ Request(c)
  BY DEF RequestInv, ConnShape, DispatchReturns
<1>2. UNCHANGED <<recorded, unsettled, replies>>
  BY DEF DispatchReturns, auditVars
<1>3. PICK ok \in BOOLEAN :
        IF Decision(c, reply, ok) = "Allow"
        THEN /\ conn' = [conn EXCEPT ![c].pc = "audit", ![c].outcome = "allow"]
             /\ grants' = grants \cup {[id |-> <<c, conn[c].count>>, caller |-> conn[c].caller,
                                        uid |-> conn[c].uid, snap |-> conn[c].snap,
                                        nonce |-> conn[c].nonce, method |-> conn[c].method,
                                        reply |-> reply]}
        ELSE Denied(c) /\ UNCHANGED grants
  BY DEF DispatchReturns
<1>4. CASE Decision(c, reply, ok) # "Allow"
  <2> DEFINE k == [conn[c] EXCEPT !.pc = "audit", !.outcome = "deny"]
  <2>1. conn' = [conn EXCEPT ![c] = k] /\ UNCHANGED <<recorded, unsettled, replies, grants>>
    BY <1>2, <1>3, <1>4, Zenon DEF Denied
  <2>2. DOMAIN k = ConnFields /\ k.pc = "audit" /\ k.count = conn[c].count /\ k.outcome = "deny"
    BY <1>1 DEF ConnFields
  <2> HIDE DEF k
  <2> QED BY <1>1, <2>1, <2>2, TaskMoves, Zenon
<1>5. CASE Decision(c, reply, ok) = "Allow"
  <2> DEFINE k == [conn[c] EXCEPT !.pc = "audit", !.outcome = "allow"]
  <2>1. PICK g : g = [id |-> <<c, conn[c].count>>, caller |-> conn[c].caller,
                      uid |-> conn[c].uid, snap |-> conn[c].snap,
                      nonce |-> conn[c].nonce, method |-> conn[c].method, reply |-> reply]
    BY Zenon
  <2>2. conn' = [conn EXCEPT ![c] = k] /\ grants' = grants \cup {g}
    BY <1>3, <1>5, <2>1, Zenon
  <2>3. DOMAIN k = ConnFields /\ k.pc = "audit" /\ k.count = conn[c].count /\ k.outcome = "allow"
    BY <1>1 DEF ConnFields
  <2> HIDE DEF k
  <2>4. conn'[c] = k /\ g.id = Id(c) /\ Id(c)' = Id(c)
    BY <1>1, <2>1, <2>2, <2>3 DEF Id
  <2>5. Logged(Id(c)) = {} /\ Told(Id(c)) = {} /\ Admitted(c)
    BY <1>1 DEF Request
  <2>6. \A id : id # Id(c) => Untouched(id)
    BY <1>2, <2>2, <2>4 DEF Untouched, Logged, Told, Granted
  <2>7. Logged(Id(c))' = {} /\ Told(Id(c))' = {} /\ Granted(Id(c))' # {}
    BY <1>2, <2>2, <2>4, <2>5 DEF Logged, Told, Granted
  <2>8. Request(c)'
    BY <2>3, <2>4, <2>7 DEF Request
  <2>9. GrantsJustified'
    <3>1. /\ g.caller = conn[c].caller /\ g.uid = conn[c].uid /\ g.snap = conn[c].snap
          /\ g.nonce = conn[c].nonce /\ g.method = conn[c].method /\ g.reply = reply
      BY <2>1
    <3>2. IsAllowed(g.snap.allowlist, g.caller) /\ (g.caller # Root => g.uid = g.caller)
      BY <2>5, <3>1 DEF Admitted
    <3>3. /\ g.reply.nonce = g.nonce /\ ~g.reply.late
          /\ g.reply.result.method = g.method
          /\ REQUIRE_ATTESTATION => g.reply.result.signed
          /\ Evaluate(SortedRules(g.snap.file), MAX_RESULT_AGE_SECS, g.reply.result, g.uid, g.reply.now) = "Allow"
      <4>1. /\ reply.nonce = conn[c].nonce /\ ~reply.late
            /\ REQUIRE_ATTESTATION => reply.result.signed
            /\ reply.result.method = conn[c].method
            /\ Evaluate(SortedRules(conn[c].snap.file), MAX_RESULT_AGE_SECS,
                        reply.result, conn[c].uid, reply.now) = "Allow"
        BY <1>5, AllowMeans
      <4> QED BY <3>1, <4>1, Zenon
    <3> QED BY <2>2, <3>2, <3>3 DEF RequestInv, GrantsJustified
  <2> QED BY <1>2, <2>2, <2>3, <2>4, <2>5, <2>6, <2>8, <2>9, LedgerStep, Zenon
<1> QED BY <1>4, <1>5

LEMMA LogOkKeeps ==
    ASSUME RequestInv, NEW c \in Conns, LogOk(c)
    PROVE  RequestInv'
<1> DEFINE k == [conn[c] EXCEPT !.pc = "respond"]
<1>1. DOMAIN conn = Conns /\ DOMAIN conn[c] = ConnFields /\ conn[c].pc = "audit" /\ Request(c)
  BY DEF RequestInv, ConnShape, LogOk
<1>2. PICK e : e = Entry(c, conn[c].outcome)
  OBVIOUS
<1>3. /\ conn' = [conn EXCEPT ![c] = k] /\ recorded' = recorded \cup {e}
      /\ UNCHANGED <<unsettled, replies, grants>>
  BY <1>2 DEF LogOk, Audit!RecordAndReturn, obsVars
<1>4. /\ DOMAIN k = ConnFields /\ k.pc = "respond" /\ k.count = conn[c].count
      /\ k.outcome = conn[c].outcome
  BY <1>1 DEF ConnFields
<1> HIDE DEF k
<1>5. conn'[c] = k /\ e.id = Id(c) /\ Id(c)' = Id(c) /\ Entry(c, conn[c].outcome)' = e
  BY <1>1, <1>2, <1>3, <1>4 DEF Id, Entry
<1>6. Logged(Id(c)) = {} /\ Told(Id(c)) = {}
  BY <1>1 DEF Request
<1>7. \A id : id # Id(c) => Untouched(id)
  BY <1>3, <1>5 DEF Untouched, Logged, Told, Granted
<1>8. Logged(Id(c))' = {e} /\ Told(Id(c))' = {} /\ Granted(Id(c))' = Granted(Id(c))
  BY <1>3, <1>5, <1>6 DEF Logged, Told, Granted
<1>9. Request(c)'
  BY <1>1, <1>3, <1>4, <1>5, <1>8 DEF Request
<1>10. GrantsJustified'
  BY <1>3, Zenon DEF RequestInv, GrantsJustified
<1> QED BY <1>3, <1>4, <1>5, <1>6, <1>7, <1>9, <1>10, LedgerStep, Zenon

\* The log call fails or is abandoned: its entry may be in the log or not, and
\* the decision goes to no one.
LEMMA UnsettledKeeps ==
    ASSUME RequestInv, NEW c \in Conns, conn[c].pc = "audit", LogFails(c) \/ Abort(c)
    PROVE  RequestInv'
<1>1. DOMAIN conn = Conns /\ DOMAIN conn[c] = ConnFields /\ Request(c)
  BY DEF RequestInv, ConnShape
<1>2. PICK e : e = Entry(c, conn[c].outcome)
  OBVIOUS
<1>3. unsettled' = unsettled \cup {e} /\ UNCHANGED <<recorded, replies, grants>>
  BY <1>2 DEF LogFails, Abort, obsVars
<1>4. PICK k : /\ conn' = [conn EXCEPT ![c] = k] /\ DOMAIN k = ConnFields /\ k.count = conn[c].count
               /\ k.pc = "aborted" \/ (k.pc = "respond" /\ k.outcome = "error")
  <2>1. CASE LogFails(c)
    <3> DEFINE k == [conn[c] EXCEPT !.pc = "respond", !.outcome = "error"]
    <3>1. conn' = [conn EXCEPT ![c] = k]
      BY <2>1, Zenon DEF LogFails
    <3>2. DOMAIN k = ConnFields /\ k.count = conn[c].count /\ k.pc = "respond" /\ k.outcome = "error"
      BY <1>1 DEF ConnFields
    <3> HIDE DEF k
    <3> QED BY <3>1, <3>2, Zenon
  <2>2. CASE Abort(c)
    <3> DEFINE k == [conn[c] EXCEPT !.pc = "aborted"]
    <3>1. conn' = [conn EXCEPT ![c] = k]
      BY <2>2 DEF Abort
    <3>2. DOMAIN k = ConnFields /\ k.count = conn[c].count /\ k.pc = "aborted"
      BY <1>1 DEF ConnFields
    <3> HIDE DEF k
    <3> QED BY <3>1, <3>2, Zenon
  <2> QED BY <2>1, <2>2
<1>5. conn'[c] = k /\ e.id = Id(c) /\ Id(c)' = Id(c)
  BY <1>1, <1>2, <1>4 DEF Id, Entry
<1>6. Told(Id(c)) = {}
  BY <1>1 DEF Request
<1>7. \A id : id # Id(c) => Untouched(id)
  BY <1>3, <1>5 DEF Untouched, Logged, Told, Granted
<1>8. Told(Id(c))' = {}
  BY <1>3, <1>5, <1>6 DEF Told
<1>9. Request(c)'
  BY <1>4, <1>5, <1>8 DEF Request
<1>10. GrantsJustified'
  BY <1>3 DEF RequestInv, GrantsJustified
<1> QED BY <1>3, <1>4, <1>5, <1>6, <1>7, <1>9, <1>10, LedgerStep, Zenon
\* The response is sent: the log has the decision, and nothing else.
LEMMA RespondKeeps ==
    ASSUME RequestInv, NEW c \in Conns, Respond(c, TRUE)
    PROVE  RequestInv'
<1> DEFINE k == Waiting(conn[c])
<1>1. /\ DOMAIN conn = Conns /\ DOMAIN conn[c] = ConnFields /\ conn[c].count \in Nat
      /\ conn[c].pc = "respond" /\ Request(c)
  BY DEF RequestInv, ConnShape, Respond
<1>2. PICK r : r = [id |-> <<c, conn[c].count>>, verdict |-> conn[c].outcome]
  BY Zenon
<1>3. /\ conn' = [conn EXCEPT ![c] = k] /\ replies' = replies \cup {r}
      /\ UNCHANGED <<recorded, unsettled, grants>>
  BY <1>2 DEF Respond, auditVars
<1>4. DOMAIN k = ConnFields /\ k.pc = "reading" /\ k.count = conn[c].count
  BY DEF ConnFields, Waiting
<1> HIDE DEF k
<1>5. /\ conn'[c] = k /\ r.id = Id(c) /\ r.verdict = conn[c].outcome
      /\ k.count \in Nat /\ conn[c].count <= k.count
  BY <1>1, <1>2, <1>3, <1>4 DEF Id
<1>6. \A id : id # Id(c) => Untouched(id)
  BY <1>3, <1>5 DEF Untouched, Logged, Told, Granted
<1>7. Request(c)'
  BY <1>4, <1>5 DEF Request
<1>8. ConnShape' /\ (\A d \in Conns : Request(d)') /\ (\A id : Known(id) => Known(id)')
  BY <1>3, <1>4, <1>5, <1>6, <1>7, TaskStep, Zenon
<1>9. Known(r.id)
  BY <1>1, <1>5 DEF Known, Id
<1>10. AllKnown'
  BY <1>3, <1>8, <1>9 DEF AllKnown, RequestInv
<1>11. RepliesRecorded'
  <2>1. ASSUME r.verdict \in {"allow", "deny"}
        PROVE  /\ {e \in recorded \cup unsettled : e.id = r.id} = {[id |-> r.id, decision |-> r.verdict]}
               /\ [id |-> r.id, decision |-> r.verdict] \in recorded
               /\ r.verdict = "allow" <=> \E g \in grants : g.id = r.id
    <3>1. Entry(c, conn[c].outcome) = [id |-> r.id, decision |-> r.verdict]
      BY <1>5 DEF Entry, Id
    <3>2. /\ Logged(Id(c)) = {Entry(c, conn[c].outcome)} /\ Entry(c, conn[c].outcome) \in recorded
          /\ conn[c].outcome = "allow" <=> Granted(Id(c)) # {}
      BY <1>1, <1>5, <2>1, Zenon DEF Request
    <3> QED BY <1>5, <3>1, <3>2 DEF Logged, Granted
  <2> QED BY <1>3, <2>1 DEF RepliesRecorded, RequestInv
<1>12. GrantsJustified'
  BY <1>3, Zenon DEF RequestInv, GrantsJustified
<1> QED BY <1>8, <1>10, <1>11, <1>12 DEF RequestInv

\* Steps of the rest of the daemon: a settled entry was already in the ledger.
LEMMA OthersKeep ==
    ASSUME RequestInv, conn' = conn, recorded \subseteq recorded',
           recorded' \cup unsettled' = recorded \cup unsettled, UNCHANGED <<replies, grants>>
    PROVE  RequestInv'
<1>1. \A id : Untouched(id)
  BY DEF Untouched, Logged, Told, Granted
<1>2. \A c \in Conns : Request(c)'
  BY <1>1, RequestFrame DEF RequestInv
<1>3. ConnShape' /\ AllKnown'
  BY DEF RequestInv, ConnShape, AllKnown, Known
<1>4. RepliesRecorded'
  BY <1>1, RepliesFrame DEF RequestInv
<1>5. GrantsJustified'
  BY DEF RequestInv, GrantsJustified
<1> QED BY <1>2, <1>3, <1>4, <1>5 DEF RequestInv

LEMMA RequestInit == Init => RequestInv
<1> SUFFICES ASSUME Init PROVE RequestInv
  OBVIOUS
<1>1. /\ conn = [c \in Conns |-> Gone([caller |-> Nil, count |-> 0])]
      /\ recorded = {} /\ unsettled = {} /\ replies = {} /\ grants = {}
  BY DEF Init, Audit!Init
<1>2. ASSUME NEW c \in Conns
      PROVE  DOMAIN conn[c] = ConnFields /\ conn[c].count = 0 /\ conn[c].pc = "closed"
  BY <1>1, Zenon DEF Gone, Waiting, ConnFields
<1>3. ConnShape
  BY <1>1, <1>2 DEF ConnShape
<1>4. \A c \in Conns : Request(c)
  BY <1>2 DEF Request
<1>5. AllKnown /\ GrantsJustified /\ RepliesRecorded
  BY <1>1, Zenon DEF AllKnown, GrantsJustified, RepliesRecorded
<1> QED BY <1>3, <1>4, <1>5 DEF RequestInv

LEMMA RequestNext == RequestInv /\ [Next]_vars => RequestInv'
<1> SUFFICES ASSUME RequestInv, [Next]_vars PROVE RequestInv'
  OBVIOUS
<1>1. ASSUME NEW c \in Conns,
             \/ \E caller \in Callers[c] : Connect(c, caller)
             \/ \E uid \in Uids, method \in Methods \cup {Nil} : Receive(c, uid, method)
             \/ Disconnect(c) \/ Abort(c) \/ Handle(c)
             \/ \E sent \in BOOLEAN : Respond(c, sent)
      PROVE  RequestInv'
  <2>1. CASE \/ \E caller \in Callers[c] : Connect(c, caller)
             \/ Disconnect(c) \/ (\E n \in Nonces : Generate(c, n)) \/ GenerateFails(c) \/ DispatchFails(c)
    BY <2>1, QuietActions, Zenon
  <2>2. CASE \E uid \in Uids, method \in Methods \cup {Nil} : Receive(c, uid, method)
    BY <2>2, ReceiveKeeps
  <2>3. CASE Abort(c)
    BY <2>3, QuietActions, UnsettledKeeps, Zenon
  <2>4. CASE \E reply \in Replies : DispatchReturns(c, reply)
    BY <2>4, DispatchReturnsKeeps
  <2>5. CASE LogOk(c)
    BY <2>5, LogOkKeeps
  <2>6. CASE LogFails(c)
    BY <2>6, UnsettledKeeps, Zenon DEF LogFails
  <2>7. CASE \E sent \in BOOLEAN : Respond(c, sent)
    BY <2>7, QuietActions, RespondKeeps, Zenon
  <2> QED BY <1>1, <2>1, <2>2, <2>3, <2>4, <2>5, <2>6, <2>7, Zenon DEF Handle
<1>2. CASE (\E s \in Snapshots : Reload(s)) \/ (\E n \in Nonces : Sweep(n)) \/ Shutdown \/ UNCHANGED vars
  <2>1. UNCHANGED <<conn, recorded, unsettled, replies, grants>>
    BY <1>2, Zenon DEF Reload, Sweep, Shutdown, auditVars, obsVars, vars
  <2> QED BY <2>1, OthersKeep
<1>3. ASSUME NEW e \in Entries, Settle(e) PROVE RequestInv'
  <2>1. /\ conn' = conn /\ UNCHANGED <<replies, grants>>
        /\ e \in unsettled /\ recorded' = recorded \cup {e} /\ unsettled' = unsettled \ {e}
    BY <1>3 DEF Settle, Audit!Record, obsVars
  <2>2. recorded \subseteq recorded' /\ recorded' \cup unsettled' = recorded \cup unsettled
    BY <2>1
  <2> QED BY <2>1, <2>2, OthersKeep
<1> QED BY <1>1, <1>2, <1>3, Zenon DEF Next
-----------------------------------------------------------------------------
(* Nonces *)

\* The store knows only nonces, and the grants are counted against it.
NonceInv ==
    /\ DOMAIN outstanding \subseteq Nonces /\ honoured \in [Nonces -> Nat]
    /\ NoNonceLeft
    /\ IsFiniteSet(grants) /\ OneGrantPerNonce

\* The grants that rest on a nonce.
LEMMA GrantsOfNonce ==
    ASSUME IsFiniteSet(grants), NEW n
    PROVE  IsFiniteSet({g \in grants : g.nonce = n}) /\ Cardinality({g \in grants : g.nonce = n}) \in Nat
<1>1. IsFiniteSet({g \in grants : g.nonce = n})
  BY FS_Subset, {g \in grants : g.nonce = n} \subseteq grants
<1> QED BY <1>1, FS_CardinalityType

\* Steps in which the store honours nothing and the policy allows nothing.
LEMMA CountsFrame ==
    ASSUME NonceInv, UNCHANGED <<honoured, grants>>
    PROVE  honoured' \in [Nonces -> Nat] /\ IsFiniteSet(grants)' /\ OneGrantPerNonce'
BY DEF NonceInv, OneGrantPerNonce

\* A task takes a step, and the nonces left in the store are those whose tasks
\* were not this one, or that this one still waits with.
LEMMA PendingStep ==
    ASSUME ConnShape, NonceInv, NEW c \in Conns, NEW k, conn' = [conn EXCEPT ![c] = k],
           \A n \in DOMAIN outstanding' :
               \/ n \in DOMAIN outstanding
                    /\ (conn[c].nonce = n /\ conn[c].pc \in {"dispatch", "aborted"}
                          => k.nonce = n /\ k.pc \in {"dispatch", "aborted"})
               \/ k.nonce = n /\ k.pc = "dispatch"
    PROVE  NoNonceLeft'
<1>1. conn'[c] = k /\ \A d \in Conns \ {c} : conn'[d] = conn[d]
  BY DEF ConnShape
<1> SUFFICES ASSUME NEW n \in DOMAIN outstanding'
             PROVE  \E d \in Conns : conn'[d].nonce = n /\ conn'[d].pc \in {"dispatch", "aborted"}
  BY DEF NoNonceLeft
<1>2. CASE k.nonce = n /\ k.pc = "dispatch"
  BY <1>1, <1>2
<1>3. CASE n \in DOMAIN outstanding
             /\ (conn[c].nonce = n /\ conn[c].pc \in {"dispatch", "aborted"}
                   => k.nonce = n /\ k.pc \in {"dispatch", "aborted"})
  <2>1. PICK d \in Conns : conn[d].nonce = n /\ conn[d].pc \in {"dispatch", "aborted"}
    BY <1>3 DEF NonceInv, NoNonceLeft
  <2> QED BY <1>1, <1>3, <2>1
<1> QED BY <1>2, <1>3

\* consume: whatever it says, the nonce is not in the store afterwards.
LEMMA ConsumeTakes ==
    ASSUME NonceInv, NEW c \in Conns, NEW ok \in BOOLEAN, Consume(c, ok)
    PROVE  /\ DOMAIN outstanding' = DOMAIN outstanding \ {conn[c].nonce}
           /\ IF ok THEN /\ conn[c].nonce \in Nonces
                         /\ honoured' = [honoured EXCEPT ![conn[c].nonce] = honoured[conn[c].nonce] + 1]
                    ELSE honoured' = honoured
<1>1. CASE ok
  BY <1>1 DEF Consume, Store!Honour, Store!Dropped, NonceInv
<1>2. CASE ~ok /\ conn[c].nonce \in DOMAIN outstanding
  BY <1>2 DEF Consume, Store!Discard, Store!Dropped
<1>3. CASE ~ok /\ conn[c].nonce \notin DOMAIN outstanding
  BY <1>3 DEF Consume, nonceVars
<1> QED BY <1>1, <1>2, <1>3

\* A nonce honoured backs one more grant, or none.
LEMMA HonouredCounts ==
    ASSUME NonceInv, NEW n \in Nonces, honoured' = [honoured EXCEPT ![n] = honoured[n] + 1],
           NEW g, g.nonce = n, grants' \in {grants, grants \cup {g}}
    PROVE  honoured' \in [Nonces -> Nat] /\ IsFiniteSet(grants)' /\ OneGrantPerNonce'
<1>1. honoured' \in [Nonces -> Nat]
  BY DEF NonceInv
<1>2. IsFiniteSet(grants)'
  BY FS_AddElement DEF NonceInv
<1>3. ASSUME NEW m \in Nonces
      PROVE  Cardinality({h \in grants' : h.nonce = m}) <= honoured'[m]
  <2> DEFINE old == {h \in grants : h.nonce = m}
             new == {h \in grants' : h.nonce = m}
  <2>1. IsFiniteSet(old) /\ Cardinality(old) \in Nat /\ Cardinality(old) <= honoured[m] /\ honoured[m] \in Nat
    BY GrantsOfNonce, Zenon DEF NonceInv, OneGrantPerNonce
  <2>2. CASE new = old
    <3>1. honoured'[m] \in {honoured[m], honoured[m] + 1}
      BY DEF NonceInv
    <3> HIDE DEF old, new
    <3>2. Cardinality(new) <= honoured'[m]
      BY <2>1, <2>2, <3>1
    <3> QED BY <3>2 DEF new
  <2>3. CASE new # old
    <3>1. m = n /\ new = old \cup {g}
      BY <2>3
    <3> HIDE DEF old, new
    <3>2. Cardinality(new) \in {Cardinality(old), Cardinality(old) + 1}
      BY <2>1, <3>1, FS_AddElement
    <3>3. honoured'[m] = honoured[m] + 1
      BY <3>1 DEF NonceInv
    <3>4. Cardinality(new) <= honoured'[m]
      BY <2>1, <3>2, <3>3
    <3> QED BY <3>4 DEF new
  <2> QED BY <2>2, <2>3
<1>4. OneGrantPerNonce'
  BY <1>3 DEF OneGrantPerNonce
<1> QED BY <1>1, <1>2, <1>4
LEMMA NonceInit == Init => NonceInv
<1> SUFFICES ASSUME Init PROVE NonceInv
  OBVIOUS
<1>1. DOMAIN outstanding = {} /\ honoured = [n \in Nonces |-> 0] /\ grants = {}
  BY DEF Init, Store!Init
<1>2. IsFiniteSet(grants)
  BY <1>1, FS_EmptySet
<1>3. ASSUME NEW n \in Nonces PROVE Cardinality({g \in grants : g.nonce = n}) <= honoured[n]
  <2>1. {g \in grants : g.nonce = n} = {}
    BY <1>1
  <2> QED BY <1>1, <2>1, FS_EmptySet
<1> QED BY <1>1, <1>2, <1>3 DEF NonceInv, NoNonceLeft, OneGrantPerNonce

\* The adapter is done with, by an error or a reply: the nonce is spent first.
LEMMA DispatchSpends ==
    ASSUME ConnShape, NonceInv, NEW c \in Conns, NEW reply, DispatchFails(c) \/ DispatchReturns(c, reply)
    PROVE  NonceInv'
<1>1. DOMAIN conn = Conns /\ DOMAIN conn[c] = ConnFields
  BY DEF ConnShape
<1>2. PICK g : g = [id |-> <<c, conn[c].count>>, caller |-> conn[c].caller,
                    uid |-> conn[c].uid, snap |-> conn[c].snap,
                    nonce |-> conn[c].nonce, method |-> conn[c].method, reply |-> reply]
  BY Zenon
<1>3. PICK ok \in BOOLEAN, o \in {"allow", "deny"} :
        /\ Consume(c, ok)
        /\ conn' = [conn EXCEPT ![c].pc = "audit", ![c].outcome = o]
        /\ grants' \in {grants, grants \cup {g}} /\ (grants' # grants => ok)
  <2>1. CASE DispatchFails(c)
    BY <2>1 DEF DispatchFails, Denied, obsVars
  <2>2. CASE DispatchReturns(c, reply)
    <3>1. PICK ok \in BOOLEAN :
            /\ Consume(c, ok)
            /\ IF Decision(c, reply, ok) = "Allow"
               THEN /\ conn' = [conn EXCEPT ![c].pc = "audit", ![c].outcome = "allow"]
                    /\ grants' = grants \cup {g}
               ELSE /\ conn' = [conn EXCEPT ![c].pc = "audit", ![c].outcome = "deny"]
                    /\ grants' = grants
      BY <1>2, <2>2, Zenon DEF DispatchReturns, Denied
    <3>2. CASE Decision(c, reply, ok) = "Allow"
      <4>1. ok
        BY <3>2, AllowMeans
      <4> QED BY <3>1, <3>2, <4>1, Zenon
    <3>3. CASE Decision(c, reply, ok) # "Allow"
      BY <3>1, <3>3
    <3> QED BY <3>2, <3>3
  <2> QED BY <2>1, <2>2
<1> DEFINE k == [conn[c] EXCEPT !.pc = "audit", !.outcome = o]
<1>4. conn' = [conn EXCEPT ![c] = k]
  BY <1>3, Zenon
<1> HIDE DEF k
<1>5. /\ DOMAIN outstanding' = DOMAIN outstanding \ {conn[c].nonce}
      /\ IF ok THEN /\ conn[c].nonce \in Nonces
                    /\ honoured' = [honoured EXCEPT ![conn[c].nonce] = honoured[conn[c].nonce] + 1]
               ELSE honoured' = honoured
  BY <1>3, ConsumeTakes, Zenon
<1>6. NoNonceLeft'
  BY <1>4, <1>5, PendingStep, Zenon
<1>7. honoured' \in [Nonces -> Nat] /\ IsFiniteSet(grants)' /\ OneGrantPerNonce'
  <2>1. CASE ok
    <3>1. PICK n \in Nonces : n = conn[c].nonce
      BY <1>5, <2>1
    <3>2. g.nonce = n /\ honoured' = [honoured EXCEPT ![n] = honoured[n] + 1]
      BY <1>2, <1>5, <2>1, <3>1, Zenon
    <3> QED BY <1>3, <3>2, HonouredCounts, Zenon
  <2>2. CASE ~ok
    BY <1>3, <1>5, <2>2, CountsFrame
  <2> QED BY <2>1, <2>2
<1>8. DOMAIN outstanding' \subseteq Nonces
  BY <1>5 DEF NonceInv
<1> QED BY <1>6, <1>7, <1>8 DEF NonceInv

\* The task waits for the adapter with the nonce it was issued.
LEMMA GenerateIssues ==
    ASSUME ConnShape, NonceInv, NEW c \in Conns, NEW n \in Nonces, Generate(c, n)
    PROVE  NonceInv'
<1> DEFINE k == [conn[c] EXCEPT !.pc = "dispatch", !.nonce = n]
<1>1. /\ conn' = [conn EXCEPT ![c] = k] /\ conn[c].pc = "generate"
      /\ DOMAIN outstanding' = DOMAIN outstanding \cup {n} /\ UNCHANGED <<honoured, grants>>
  BY Zenon DEF Generate, Store!Issue, obsVars
<1>2. k.pc = "dispatch" /\ k.nonce = n
  BY DEF ConnShape, ConnFields
<1> HIDE DEF k
<1>3. NoNonceLeft'
  BY <1>1, <1>2, PendingStep, Zenon
<1>4. honoured' \in [Nonces -> Nat] /\ IsFiniteSet(grants)' /\ OneGrantPerNonce'
  BY <1>1, CountsFrame
<1>5. DOMAIN outstanding' \subseteq Nonces
  BY <1>1 DEF NonceInv
<1> QED BY <1>3, <1>4, <1>5 DEF NonceInv

\* A task that waits for no adapter leaves the store alone.
LEMMA TaskAwayFromStore ==
    ASSUME ConnShape, NonceInv, NEW c \in Conns,
           \/ \E caller \in Callers[c] : Connect(c, caller)
           \/ \E uid \in Uids, method \in Methods \cup {Nil} : Receive(c, uid, method)
           \/ Disconnect(c) \/ Abort(c) \/ GenerateFails(c) \/ LogOk(c) \/ LogFails(c)
           \/ \E sent \in BOOLEAN : Respond(c, sent)
    PROVE  NonceInv'
<1>1. UNCHANGED <<outstanding, honoured, grants>>
  BY Zenon DEF Connect, Receive, Disconnect, Abort, GenerateFails, LogOk, LogFails, Respond, nonceVars, obsVars
<1>2. PICK k : /\ conn' = [conn EXCEPT ![c] = k]
               /\ \/ conn[c].pc \notin {"dispatch", "aborted"}
                  \/ k.nonce = conn[c].nonce /\ k.pc = "aborted"
  <2>1. CASE Abort(c)
    <3> DEFINE k == [conn[c] EXCEPT !.pc = "aborted"]
    <3>1. conn' = [conn EXCEPT ![c] = k]
      BY <2>1 DEF Abort
    <3>2. k.nonce = conn[c].nonce /\ k.pc = "aborted"
      BY DEF ConnShape, ConnFields
    <3> HIDE DEF k
    <3> QED BY <3>1, <3>2, Zenon
  <2>2. CASE \E caller \in Callers[c] : Connect(c, caller)
    BY <2>2, Zenon DEF Connect
  <2>3. CASE \E uid \in Uids, method \in Methods \cup {Nil} : Receive(c, uid, method)
    BY <2>3, Zenon DEF Receive
  <2>4. CASE Disconnect(c)
    BY <2>4, Zenon DEF Disconnect
  <2>5. CASE GenerateFails(c)
    BY <2>5, Zenon DEF GenerateFails, Denied
  <2>6. CASE LogOk(c) \/ LogFails(c)
    BY <2>6 DEF LogOk, LogFails
  <2>7. CASE \E sent \in BOOLEAN : Respond(c, sent)
    BY <2>7, Zenon DEF Respond
  <2> QED BY <2>1, <2>2, <2>3, <2>4, <2>5, <2>6, <2>7, Zenon
<1>3. NoNonceLeft'
  <2>1. \A n \in DOMAIN outstanding' :
          /\ n \in DOMAIN outstanding
          /\ (conn[c].nonce = n /\ conn[c].pc \in {"dispatch", "aborted"}
                => k.nonce = n /\ k.pc \in {"dispatch", "aborted"})
    BY <1>1, <1>2, Zenon
  <2> QED BY <1>2, <2>1, PendingStep, Zenon
<1>4. honoured' \in [Nonces -> Nat] /\ IsFiniteSet(grants)' /\ OneGrantPerNonce'
  BY <1>1, CountsFrame
<1> QED BY <1>1, <1>3, <1>4, Zenon DEF NonceInv

LEMMA NonceNext == ConnShape /\ NonceInv /\ [Next]_vars => NonceInv'
<1> SUFFICES ASSUME ConnShape, NonceInv, [Next]_vars PROVE NonceInv'
  OBVIOUS
<1>1. ASSUME NEW c \in Conns,
             \/ \E caller \in Callers[c] : Connect(c, caller)
             \/ \E uid \in Uids, method \in Methods \cup {Nil} : Receive(c, uid, method)
             \/ Disconnect(c) \/ Abort(c) \/ Handle(c)
             \/ \E sent \in BOOLEAN : Respond(c, sent)
      PROVE  NonceInv'
  BY <1>1, DispatchSpends, GenerateIssues, TaskAwayFromStore, Zenon DEF Handle
<1>2. CASE \E n \in Nonces : Sweep(n)
  <2>1. /\ UNCHANGED <<conn, honoured, grants>> /\ DOMAIN outstanding' \subseteq DOMAIN outstanding
    BY <1>2 DEF Sweep, Store!Discard, Store!Dropped, obsVars
  <2>2. honoured' \in [Nonces -> Nat] /\ IsFiniteSet(grants)' /\ OneGrantPerNonce'
    BY <2>1, CountsFrame
  <2> QED BY <2>1, <2>2 DEF NonceInv, NoNonceLeft
<1>3. CASE \/ (\E s \in Snapshots : Reload(s)) \/ (\E e \in Entries : Settle(e))
           \/ Shutdown \/ UNCHANGED vars
  <2>1. UNCHANGED <<conn, outstanding, honoured, grants>>
    BY <1>3, Zenon DEF Reload, Settle, Shutdown, nonceVars, obsVars, vars
  <2>2. honoured' \in [Nonces -> Nat] /\ IsFiniteSet(grants)' /\ OneGrantPerNonce'
    BY <2>1, CountsFrame
  <2> QED BY <2>1, <2>2 DEF NonceInv, NoNonceLeft
<1> QED BY <1>1, <1>2, <1>3 DEF Next

-----------------------------------------------------------------------------
(* Theorems *)

LEMMA Invariants == Spec => [](RequestInv /\ NonceInv)
<1>1. Init => RequestInv /\ NonceInv
  BY RequestInit, NonceInit
<1>2. RequestInv /\ NonceInv /\ [Next]_vars => RequestInv' /\ NonceInv'
  BY RequestNext, NonceNext DEF RequestInv
<1> QED BY <1>1, <1>2, PTL DEF Spec

\* Each Allow of handle_verify_once rests on one snapshot that admits its caller
\* and allows the checked reply, for any interleaving of reloads and requests.
THEOREM AllowsAreJustified == Spec => []GrantsJustified
<1>1. RequestInv /\ NonceInv => GrantsJustified
  BY DEF RequestInv
<1> QED BY <1>1, Invariants, PTL

\* What handle_client tells a client is what the log has for the request, and all
\* that it has, for any number of requests, failed log calls and aborts.
THEOREM RepliesAreRecorded == Spec => []RepliesRecorded
<1>1. RequestInv /\ NonceInv => RepliesRecorded
  BY DEF RequestInv
<1> QED BY <1>1, Invariants, PTL

\* A nonce value backs no more Allows than the store honoured it, for any number
\* of requests that are issued it.
THEOREM NoncesBackOneGrant == Spec => []OneGrantPerNonce
<1>1. RequestInv /\ NonceInv => OneGrantPerNonce
  BY DEF NonceInv
<1> QED BY <1>1, Invariants, PTL

\* No path of handle_verify_once leaves its nonce in the store.
THEOREM NoncesAreSpent == Spec => []NoNonceLeft
<1>1. RequestInv /\ NonceInv => NoNonceLeft
  BY DEF NonceInv
<1> QED BY <1>1, Invariants, PTL

-----------------------------------------------------------------------------
(* What a request works with *)

\* A request has a number, works with contents that were loaded, for a user the
\* daemon knows, and has a nonce of the store while the adapter is at work.
TaskOK(k) ==
    /\ k.count \in 0..MaxRequests
    /\ k.pc \in {"generate", "dispatch", "audit"} => k.count \in 1..MaxRequests
    /\ k.pc \in {"generate", "dispatch"} => k.snap \in Snapshots /\ k.uid \in Uids
    /\ k.pc = "dispatch" => k.nonce \in Nonces

\* ... and every Allow rests on contents that were loaded.
WorkInv ==
    /\ reloadable \in Snapshots
    /\ \A c \in Conns : TaskOK(conn[c])
    /\ \A g \in grants : g.snap \in Snapshots /\ g.reply \in Replies

\* The bound on requests bounds the requests of each connection.
LEMMA RoomForRequest ==
    ASSUME NEW c \in Conns, conn[c].count \in 0..MaxRequests, Cardinality(Received) < MaxRequests
    PROVE  conn[c].count + 1 \in 1..MaxRequests
<1>1. MaxRequests \in Nat /\ IsFiniteSet(Conns)
  BY VerifyOnceAssumption
<1>2. SUFFICES ASSUME conn[c].count = MaxRequests PROVE FALSE
  BY <1>1
<1> DEFINE Mine == {c} \X (1..MaxRequests)
<1>3. Mine \subseteq Received
  BY <1>1, <1>2 DEF Received, Ids
<1>4. IsFiniteSet(1..MaxRequests) /\ Cardinality(1..MaxRequests) = MaxRequests
  BY <1>1, FS_Interval
<1>5. IsFiniteSet({c}) /\ Cardinality({c}) = 1
  BY FS_Singleton, Zenon
<1>6. Cardinality(Mine) = MaxRequests
  <2>1. Cardinality(Mine) = Cardinality({c}) * Cardinality(1..MaxRequests)
    BY <1>4, <1>5, FS_Product, Zenon
  <2> QED BY <1>1, <1>4, <1>5, <2>1
<1>7. IsFiniteSet(Ids)
  BY <1>1, <1>4, FS_Product DEF Ids
<1>8. IsFiniteSet(Received)
  <2>1. Received \subseteq Ids
    BY DEF Received
  <2> QED BY <1>7, <2>1, FS_Subset
<1>9. Cardinality(Mine) <= Cardinality(Received)
  BY <1>3, <1>8, FS_Subset
<1>10. Cardinality(Received) \in Nat
  BY <1>8, FS_CardinalityType
<1> HIDE DEF Mine
<1> QED BY <1>1, <1>6, <1>9, <1>10

\* A task takes a step and no Allow is given.
LEMMA TaskWorks ==
    ASSUME ConnShape, WorkInv, NEW c \in Conns, NEW k, conn' = [conn EXCEPT ![c] = k],
           UNCHANGED <<reloadable, grants>>, TaskOK(k)
    PROVE  WorkInv'
<1>1. conn'[c] = k /\ \A d \in Conns \ {c} : conn'[d] = conn[d]
  BY DEF ConnShape
<1>2. ASSUME NEW d \in Conns PROVE TaskOK(conn'[d])
  BY <1>1 DEF WorkInv
<1>3. \A g \in grants' : g.snap \in Snapshots /\ g.reply \in Replies
  BY DEF WorkInv
<1>4. reloadable' \in Snapshots
  BY DEF WorkInv
<1> QED BY <1>2, <1>3, <1>4, Zenon DEF WorkInv, TaskOK, Replies

\* A task leaves the part of a request in which it works with contents and nonce.
LEMMA TaskLeaves ==
    ASSUME ConnShape, WorkInv, NEW c \in Conns, NEW k, conn' = [conn EXCEPT ![c] = k],
           UNCHANGED <<reloadable, grants>>, k.count = conn[c].count,
           \/ k.pc \notin {"generate", "dispatch", "audit"}
           \/ k.pc = "audit" /\ conn[c].pc \in {"generate", "dispatch"}
    PROVE  WorkInv'
<1>1. TaskOK(conn[c])
  BY DEF WorkInv
<1>2. TaskOK(k)
  BY <1>1 DEF TaskOK
<1> QED BY <1>2, TaskWorks, Zenon

\* The steps by which a task leaves that part, or stays outside of it.
LEMMA LeavingKeeps ==
    ASSUME ConnShape, WorkInv, NEW c \in Conns,
           \/ \E caller \in Callers[c] : Connect(c, caller)
           \/ Disconnect(c) \/ Abort(c) \/ GenerateFails(c) \/ DispatchFails(c) \/ LogOk(c) \/ LogFails(c)
           \/ \E sent \in BOOLEAN : Respond(c, sent)
    PROVE  WorkInv'
<1>0. c \in DOMAIN conn /\ DOMAIN conn[c] = ConnFields
  BY DEF ConnShape
<1>1. UNCHANGED <<reloadable, grants>>
  <2>1. CASE (\E caller \in Callers[c] : Connect(c, caller)) \/ Disconnect(c) \/ Abort(c) \/ GenerateFails(c)
    BY <2>1 DEF Connect, Disconnect, Abort, GenerateFails, obsVars
  <2>2. CASE DispatchFails(c) \/ LogOk(c) \/ LogFails(c) \/ \E sent \in BOOLEAN : Respond(c, sent)
    BY <2>2 DEF DispatchFails, LogOk, LogFails, Respond, obsVars
  <2> QED BY <2>1, <2>2
<1>2. ASSUME NEW caller, Connect(c, caller) PROVE WorkInv'
  <2> DEFINE k == [conn[c] EXCEPT !.pc = "reading", !.caller = caller]
  <2>1. conn' = [conn EXCEPT ![c] = k] /\ k.pc = "reading" /\ k.count = conn[c].count
    BY <1>0, <1>2, Zenon DEF Connect, ConnFields
  <2> QED BY <1>1, <2>1, TaskLeaves, Zenon
<1>3. CASE Disconnect(c) \/ \E sent \in BOOLEAN : Respond(c, sent)
  <2>1. conn' = [conn EXCEPT ![c] = Gone(conn[c])] \/ conn' = [conn EXCEPT ![c] = Waiting(conn[c])]
    BY <1>3, Zenon DEF Disconnect, Respond
  <2>2. /\ Gone(conn[c]).pc = "closed" /\ Gone(conn[c]).count = conn[c].count
        /\ Waiting(conn[c]).pc = "reading" /\ Waiting(conn[c]).count = conn[c].count
    BY DEF Gone, Waiting
  <2> QED BY <1>1, <2>1, <2>2, TaskLeaves, Zenon
<1>4. CASE Abort(c)
  <2> DEFINE k == [conn[c] EXCEPT !.pc = "aborted"]
  <2>1. conn' = [conn EXCEPT ![c] = k] /\ k.pc = "aborted" /\ k.count = conn[c].count
    BY <1>0, <1>4, Zenon DEF Abort, ConnFields
  <2> QED BY <1>1, <2>1, TaskLeaves, Zenon
<1>5. CASE GenerateFails(c) \/ DispatchFails(c)
  <2> DEFINE k == [conn[c] EXCEPT !.pc = "audit", !.outcome = "deny"]
  <2>1. conn' = [conn EXCEPT ![c] = k] /\ k.pc = "audit" /\ k.count = conn[c].count
    BY <1>0, <1>5, Zenon DEF GenerateFails, DispatchFails, Denied, ConnFields
  <2>2. conn[c].pc \in {"generate", "dispatch"}
    BY <1>5, Zenon DEF GenerateFails, DispatchFails
  <2> QED BY <1>1, <2>1, <2>2, TaskLeaves, Zenon
<1>6. CASE LogOk(c)
  <2> DEFINE k == [conn[c] EXCEPT !.pc = "respond"]
  <2>1. conn' = [conn EXCEPT ![c] = k] /\ k.pc = "respond" /\ k.count = conn[c].count
    BY <1>0, <1>6, Zenon DEF LogOk, ConnFields
  <2> QED BY <1>1, <2>1, TaskLeaves, Zenon
<1>7. CASE LogFails(c)
  <2> DEFINE k == [conn[c] EXCEPT !.pc = "respond", !.outcome = "error"]
  <2>1. conn' = [conn EXCEPT ![c] = k] /\ k.pc = "respond" /\ k.count = conn[c].count
    BY <1>0, <1>7, Zenon DEF LogFails, ConnFields
  <2> QED BY <1>1, <2>1, TaskLeaves, Zenon
<1> QED BY <1>2, <1>3, <1>4, <1>5, <1>6, <1>7, Zenon

\* No handler step takes up a policy that no (re)load published, and handle_verify_once
\* evaluates under the one it loaded when the request came in.
LEMMA WorkNext == ConnShape /\ WorkInv /\ [Next]_vars => WorkInv'
<1> SUFFICES ASSUME ConnShape, WorkInv, [Next]_vars PROVE WorkInv'
  OBVIOUS
<1>0. ASSUME NEW c \in Conns
      PROVE  c \in DOMAIN conn /\ DOMAIN conn[c] = ConnFields /\ conn[c].count \in Nat /\ TaskOK(conn[c])
  BY DEF ConnShape, WorkInv
<1>1. ASSUME NEW c \in Conns, NEW uid \in Uids, NEW method, Receive(c, uid, method) PROVE WorkInv'
  <2> DEFINE k == [conn[c] EXCEPT !.pc = IF method = Nil THEN "audit" ELSE "generate",
                                  !.outcome = IF method = Nil THEN "deny" ELSE Nil,
                                  !.count = conn[c].count + 1, !.uid = uid, !.method = method, !.snap = reloadable]
  <2>1. conn' = [conn EXCEPT ![c] = k] /\ UNCHANGED <<reloadable, grants>> /\ Cardinality(Received) < MaxRequests
    BY <1>1 DEF Receive, obsVars
  <2>2. k.snap = reloadable /\ k.uid = uid /\ k.count = conn[c].count + 1 /\ k.pc # "dispatch"
    BY <1>0 DEF ConnFields
  <2>3. conn[c].count + 1 \in 1..MaxRequests
    BY <1>0, <2>1, RoomForRequest DEF TaskOK
  <2> HIDE DEF k
  <2>4. TaskOK(k)
    BY <2>2, <2>3 DEF TaskOK, WorkInv
  <2> QED BY <2>1, <2>4, TaskWorks, Zenon
<1>2. ASSUME NEW c \in Conns, NEW n \in Nonces, Generate(c, n) PROVE WorkInv'
  <2> DEFINE k == [conn[c] EXCEPT !.pc = "dispatch", !.nonce = n]
  <2>1. conn' = [conn EXCEPT ![c] = k] /\ UNCHANGED <<reloadable, grants>> /\ conn[c].pc = "generate"
    BY <1>2, Zenon DEF Generate, obsVars
  <2>2. /\ k.snap = conn[c].snap /\ k.uid = conn[c].uid /\ k.count = conn[c].count
        /\ k.pc = "dispatch" /\ k.nonce = n
    BY <1>0 DEF ConnFields
  <2> HIDE DEF k
  <2>3. TaskOK(k)
    BY <1>0, <2>1, <2>2 DEF TaskOK
  <2> QED BY <2>1, <2>3, TaskWorks, Zenon
<1>3. ASSUME NEW c \in Conns, NEW reply \in Replies, DispatchReturns(c, reply) PROVE WorkInv'
  <2>1. PICK o : conn' = [conn EXCEPT ![c].pc = "audit", ![c].outcome = o] /\ reloadable' = reloadable
    BY <1>3 DEF DispatchReturns, Denied
  <2>2. /\ conn'[c].pc = "audit" /\ conn'[c].count = conn[c].count
        /\ \A d \in Conns \ {c} : conn'[d] = conn[d]
    BY <1>0, <2>1 DEF ConnFields
  <2>3. PICK g : grants' \in {grants, grants \cup {g}} /\ g.snap = conn[c].snap /\ g.reply = reply
    <3> DEFINE g == [id |-> <<c, conn[c].count>>, caller |-> conn[c].caller, uid |-> conn[c].uid, snap |-> conn[c].snap,
                     nonce |-> conn[c].nonce, method |-> conn[c].method, reply |-> reply]
    <3>1. grants' \in {grants, grants \cup {g}}
      BY <1>3 DEF DispatchReturns
    <3>2. g.snap = conn[c].snap /\ g.reply = reply
      OBVIOUS
    <3> HIDE DEF g
    <3> QED BY <3>1, <3>2
  <2>4. conn[c].pc = "dispatch" /\ conn[c].snap \in Snapshots
    BY <1>0, <1>3 DEF DispatchReturns, TaskOK
  <2>5. TaskOK(conn'[c])
    BY <1>0, <2>2, <2>4, Zenon DEF TaskOK
  <2>6. \A d \in Conns : TaskOK(conn'[d])
    BY <1>0, <2>2, <2>5, Zenon
  <2>7. \A h \in grants' : h.snap \in Snapshots /\ h.reply \in Replies
    BY <1>3, <2>3, <2>4 DEF WorkInv
  <2> QED BY <2>1, <2>6, <2>7, Zenon DEF WorkInv, TaskOK, Replies
<1>4. ASSUME NEW s \in Snapshots, Reload(s) PROVE WorkInv'
  BY <1>4, Zenon DEF Reload, obsVars, WorkInv, TaskOK, Replies
<1>5. CASE (\E n \in Nonces : Sweep(n)) \/ (\E e \in Entries : Settle(e)) \/ Shutdown \/ UNCHANGED vars
  <2>1. UNCHANGED <<reloadable, conn, grants>>
    BY <1>5, Zenon DEF Sweep, Settle, Shutdown, vars, obsVars
  <2> QED BY <2>1, Zenon DEF WorkInv, TaskOK, Replies
<1> QED BY <1>1, <1>2, <1>3, <1>4, <1>5, LeavingKeeps, Zenon DEF Next, Handle

\* The invariant of the request path, with what its requests work with.
LEMMA WorkInvariant == Spec => [](RequestInv /\ WorkInv)
<1>1. Init => WorkInv
  <2> SUFFICES ASSUME Init PROVE WorkInv
    OBVIOUS
  <2>1. ASSUME NEW c \in Conns PROVE conn[c].pc = "closed" /\ conn[c].count = 0
    BY Zenon DEF Init, Gone, Waiting
  <2>2. ASSUME NEW c \in Conns PROVE TaskOK(conn[c])
    BY <2>1, VerifyOnceAssumption DEF TaskOK
  <2> QED BY <2>2 DEF Init, WorkInv
<1>2. RequestInv /\ NonceInv /\ WorkInv /\ [Next]_vars => WorkInv'
  BY WorkNext DEF RequestInv
<1> QED BY <1>1, <1>2, Invariants, PTL DEF Spec

-----------------------------------------------------------------------------
(* The contracts of the store and the log *)

\* A step of a task with its nonce is one the store promises.
LEMMA ConsumeIsPromised ==
    ASSUME WorkInv, NEW c \in Conns, conn[c].pc = "dispatch", NEW ok, Consume(c, ok)
    PROVE  [Store!Next]_(Store!vars)
<1>1. PICK n \in Nonces, u \in Uids : n = conn[c].nonce /\ u = conn[c].uid
  BY DEF WorkInv, TaskOK
<1>2. Store!Honour(n, u) \/ Store!Discard({n}) \/ UNCHANGED nonceVars
  BY <1>1, Zenon DEF Consume
<1>3. CASE Store!Honour(n, u)
  BY <1>3, Zenon DEF Store!Next
<1>4. CASE Store!Discard({n})
  <2>1. {n} \in SUBSET Nonces
    OBVIOUS
  <2> QED BY <1>4, <2>1, Zenon DEF Store!Next
<1>5. CASE UNCHANGED nonceVars
  BY <1>5 DEF nonceVars, Store!vars
<1> QED BY <1>2, <1>3, <1>4, <1>5

\* The request path, the sweep included, takes no step with the store other than
\* those NonceLedger promises.
LEMMA StoreStep == WorkInv /\ [Next]_vars => [Store!Next]_(Store!vars)
<1> SUFFICES ASSUME WorkInv, [Next]_vars PROVE [Store!Next]_(Store!vars)
  OBVIOUS
<1>1. ASSUME NEW c \in Conns, NEW n \in Nonces, Generate(c, n) PROVE Store!Next
  <2>1. PICK u \in Uids : u = conn[c].uid
    BY <1>1 DEF Generate, WorkInv, TaskOK
  <2>2. Store!Issue(n, u)
    BY <1>1, <2>1, Zenon DEF Generate
  <2> QED BY <2>2, Zenon DEF Store!Next
<1>2. ASSUME NEW c \in Conns, DispatchFails(c) \/ \E reply \in Replies : DispatchReturns(c, reply)
      PROVE  [Store!Next]_(Store!vars)
  <2>1. conn[c].pc = "dispatch" /\ \E ok \in BOOLEAN : Consume(c, ok)
    BY <1>2, Zenon DEF DispatchFails, DispatchReturns
  <2> QED BY <2>1, ConsumeIsPromised
<1>3. ASSUME NEW n \in Nonces, Sweep(n) PROVE Store!Next
  <2>1. {n} \in SUBSET Nonces /\ Store!Discard({n})
    BY <1>3 DEF Sweep
  <2> QED BY <2>1, Zenon DEF Store!Next
<1>4. CASE \/ \E c \in Conns :
                \/ \E caller \in Callers[c] : Connect(c, caller)
                \/ \E uid \in Uids, method \in Methods \cup {Nil} : Receive(c, uid, method)
                \/ Disconnect(c) \/ Abort(c) \/ GenerateFails(c) \/ LogOk(c) \/ LogFails(c)
                \/ \E sent \in BOOLEAN : Respond(c, sent)
           \/ (\E s \in Snapshots : Reload(s)) \/ (\E e \in Entries : Settle(e)) \/ Shutdown \/ UNCHANGED vars
  <2>1. UNCHANGED nonceVars
    BY <1>4, Zenon DEF Connect, Receive, Disconnect, Abort, GenerateFails, LogOk, LogFails, Respond, Reload,
                       Settle, Shutdown, vars
  <2> QED BY <2>1 DEF nonceVars, Store!vars
<1> QED BY <1>1, <1>2, <1>3, <1>4, Zenon DEF Next, Handle

\* It takes none with the log other than those AuditLedger promises, the entries
\* that become durable after their call has failed or was abandoned included.
LEMMA AuditStep == RequestInv /\ WorkInv /\ [Next]_vars => [Audit!Next]_(Audit!vars)
<1> SUFFICES ASSUME RequestInv, WorkInv, [Next]_vars PROVE [Audit!Next]_(Audit!vars)
  OBVIOUS
<1>1. ASSUME NEW c \in Conns, LogOk(c) PROVE Audit!Next
  <2>1. PICK e : e = Entry(c, conn[c].outcome)
    OBVIOUS
  <2>2. e \in Entries
    <3>1. conn[c].outcome \in {"allow", "deny"} /\ conn[c].count \in 1..MaxRequests
      BY <1>1 DEF LogOk, RequestInv, Request, WorkInv, TaskOK
    <3> QED BY <2>1, <3>1 DEF Entry, Entries, Ids
  <2>3. {e} \in SUBSET Entries /\ Audit!RecordAndReturn({e}, e)
    BY <1>1, <2>1, <2>2 DEF LogOk
  <2> QED BY <2>2, <2>3, Zenon DEF Audit!Next
<1>2. ASSUME NEW e \in Entries, Settle(e) PROVE Audit!Next
  <2>1. {e} \in SUBSET Entries /\ Audit!Record({e})
    BY <1>2 DEF Settle
  <2> QED BY <2>1, Zenon DEF Audit!Next
<1>3. CASE \/ \E c \in Conns :
                \/ \E caller \in Callers[c] : Connect(c, caller)
                \/ \E uid \in Uids, method \in Methods \cup {Nil} : Receive(c, uid, method)
                \/ Disconnect(c) \/ Abort(c) \/ GenerateFails(c) \/ DispatchFails(c) \/ LogFails(c)
                \/ (\E n \in Nonces : Generate(c, n)) \/ (\E reply \in Replies : DispatchReturns(c, reply))
                \/ \E sent \in BOOLEAN : Respond(c, sent)
           \/ (\E s \in Snapshots : Reload(s)) \/ (\E n \in Nonces : Sweep(n)) \/ Shutdown \/ UNCHANGED vars
  <2>1. UNCHANGED <<recorded, returned>>
    BY <1>3, Zenon DEF Connect, Receive, Disconnect, Abort, GenerateFails, DispatchFails, LogFails, Generate,
                       DispatchReturns, Respond, Reload, Sweep, Shutdown, auditVars, vars
  <2> QED BY <2>1 DEF Audit!vars
<1> QED BY <1>1, <1>2, <1>3, Zenon DEF Next, Handle

\* handle_verify_once, the sweep and the drain keep to the contracts that NonceStore
\* and AuditLog implement (StoreImplementsLedger, LogImplementsLedger): what the
\* request path is shown to do with the ledgers, it does with their implementations.
THEOREM RequestsKeepContracts == Spec => Store!Spec /\ Audit!Spec
<1>1. Init => Store!Init /\ Audit!Init
  BY DEF Init
<1> QED BY <1>1, StoreStep, AuditStep, WorkInvariant, PTL DEF Spec, Store!Spec, Audit!Spec

-----------------------------------------------------------------------------
(* From the request to the rule *)

\* Whoever is told "allow" has it in the log, and one policy file that was loaded
\* permits, by the rule for the method of the request, what the adapter reported
\* of the user asked for.
ToldIsPermitted ==
    \A r \in replies : r.verdict = "allow" =>
        /\ [id |-> r.id, decision |-> "allow"] \in recorded
        /\ \E g \in grants :
             /\ g.id = r.id /\ g.snap \in Snapshots /\ g.reply.result.method = g.method
             /\ PermittedBy(g.snap.file, MAX_RESULT_AGE_SECS, g.reply.result, g.uid, g.reply.now)

\* From the line a client reads back to the rule the operator wrote, through
\* handle_verify_once, sort_by_key and evaluate, however requests, reloads,
\* sweeps, failures and aborts interleave.
THEOREM ToldAllowIsPermitted == Spec => []ToldIsPermitted
<1>1. RequestInv /\ WorkInv => ToldIsPermitted
  <2> SUFFICES ASSUME RequestInv, WorkInv, NEW r \in replies, r.verdict = "allow"
               PROVE  /\ [id |-> r.id, decision |-> "allow"] \in recorded
                      /\ \E g \in grants :
                           /\ g.id = r.id /\ g.snap \in Snapshots /\ g.reply.result.method = g.method
                           /\ PermittedBy(g.snap.file, MAX_RESULT_AGE_SECS, g.reply.result, g.uid, g.reply.now)
    BY Zenon DEF ToldIsPermitted
  <2>1. [id |-> r.id, decision |-> "allow"] \in recorded /\ \E g \in grants : g.id = r.id
    BY Zenon DEF RequestInv, RepliesRecorded
  <2>2. PICK g \in grants : g.id = r.id
    BY <2>1
  <2>3. PICK f, result, uid, now :
           f = g.snap.file /\ result = g.reply.result /\ uid = g.uid /\ now = g.reply.now
    OBVIOUS
  <2>4. /\ g.snap \in Snapshots /\ result \in Results /\ now \in Nows
    BY <2>3 DEF WorkInv, Replies
  <2>5. PICK n \in Nat : DOMAIN f = 1..n /\ Accepts(f)
    BY <2>3, <2>4, VerifyOnceAssumption
  <2>6. /\ Evaluate(SortedRules(f), MAX_RESULT_AGE_SECS, result, uid, now) = "Allow"
        /\ result.method = g.method
    BY <2>3, Zenon DEF RequestInv, GrantsJustified
  <2>7. PermittedBy(f, MAX_RESULT_AGE_SECS, result, uid, now)
    <3>1. PICK cap : cap = MAX_RESULT_AGE_SECS /\ cap \in Nat
      BY VerifyOnceAssumption
    <3>2. /\ \A i \in 1..n : f[i].max_age_secs \in Nat /\ f[i].require_uid_match \in BOOLEAN
          /\ result.timestamp \in Nat /\ result.confidence \in Int /\ now \in Nat
      BY <2>3, <2>4, <2>5, VerifyOnceAssumption, PolicyAssumption
    <3>3. PermittedBy(f, cap, result, uid, now)
      BY <2>5, <2>6, <3>1, <3>2, AllowedIsPermitted, Zenon
    <3> QED BY <3>1, <3>3
  <2> QED BY <2>1, <2>2, <2>3, <2>4, <2>6, <2>7, Zenon
<1> QED BY <1>1, WorkInvariant, PTL
=============================================================================
