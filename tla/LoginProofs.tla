----------------------------- MODULE LoginProofs -----------------------------
(***************************************************************************)
(* Proofs about Login, for any number of calls, descriptors, users and     *)
(* argument lists.                                                         *)
(***************************************************************************)
EXTENDS Login, WellFoundedInduction, TLAPS

PamFields == {"pc", "cfg", "uid", "user", "buf_len", "fd", "stream", "left", "line", "code"}
TaskFields == {"pc", "decision", "evidence", "rest"}
CallFields == {"stage", "line", "expired", "served", "reply"}

-----------------------------------------------------------------------------
(* Steps of the bridge *)

\* A step of the bridge begins a call or goes on with it.
BridgeNext ==
    /\ \E s \in Sessions :
         \/ \E argv \in Argvs, user \in Users \cup {Nil} : Begin(s, argv, user)
         \/ BridgeStep(s, Listening(s), Eof(s))
    /\ UNCHANGED <<adapterVars, daemonVars>>

\* The steps of the daemon and of the adapter.
TaskNext(s) ==
    \/ Refuse(s) \/ TakeFails(s) \/ Take(s) \/ Dispatch(s) \/ DispatchFails(s)
    \/ LogOk(s) \/ LogFails(s) \/ Write(s) \/ Client(s) \/ Expire(s)

\* Every step is one of the bridge, one of a task, one of the adapter or a crash.
LEMMA NextCases ==
    ASSUME Next
    PROVE  BridgeNext \/ (\E s \in Sessions : TaskNext(s)) \/ Adapter \/ Crash
BY DEF Next, BridgeNext, TaskNext, Bridge

\* The daemon and the adapter do not touch the bridge's call or descriptors.
LEMMA OthersLeaveBridge ==
    ASSUME (\E s \in Sessions : TaskNext(s)) \/ Adapter \/ Crash
    PROVE  UNCHANGED <<pam, fds, up>>
BY Zenon DEF TaskNext, Refuse, TakeFails, Take, Dispatch, DispatchFails, LogOk, LogFails, Write, Client, VerifySend, VerifyFails,
       VerifyReturns, Expire, Adapter, Crash, bridgeVars

\* Where connect_with_timeout holds the number itself, and where nothing does or
\* a stream owns it.
RawPcs == {"connect", "poll", "sockopt"}
CalmPcs == {"idle", "lookup", "socket", "send", "read"}

\* parse_argv has accepted the arguments, and there is a name.
Begun(s, argv, user) ==
    /\ pam[s].pc = "idle" /\ ParseArgv(argv) # Nil
    /\ pam' = [pam EXCEPT ![s].pc = "lookup", ![s].cfg = ParseArgv(argv),
                          ![s].user = user, ![s].buf_len = PASSWD_BUF]
    /\ UNCHANGED <<fds, up, down>>

\* The call gives up with an error.
GivesUp(s) == pam[s].pc \in CalmPcs /\ (Leave(s, "AUTH_ERR") \/ Leave(s, "USER_UNKNOWN"))

\* What the steps of a call come to.
BridgeCase(s) ==
    \/ \E argv \in Argvs, user \in Users \cup {Nil} : Begun(s, argv, user)
    \/ GivesUp(s)
    \/ pam[s].pc \in RawPcs /\ CloseFd(s)
    \/ pam[s].pc \in RawPcs /\ StreamFromFd(s)
    \/ LookupRange(s) \/ LookupFound(s) \/ NewSocket(s)
    \/ ConnectPending(s, Listening(s)) \/ PollInterrupted(s) \/ PollReady(s)
    \/ Send(s) \/ ReadPiece(s) \/ ReadEnd(s, Eof(s)) \/ Return(s)

\* Every error path of connect_with_timeout and wait_connected ends in close_fd,
\* and every error path of authenticate in giving up.
LEMMA BridgeCases ==
    ASSUME BridgeNext
    PROVE  \E s \in Sessions : BridgeCase(s)
<1>1. PICK s \in Sessions :
         \/ \E argv \in Argvs, user \in Users \cup {Nil} : Begin(s, argv, user)
         \/ BridgeStep(s, Listening(s), Eof(s))
  BY DEF BridgeNext
<1>2. ASSUME NEW argv \in Argvs, NEW user \in Users \cup {Nil}, Begin(s, argv, user)
      PROVE  GivesUp(s) \/ Begun(s, argv, user)
  BY <1>2, Zenon DEF Begin, Begun, GivesUp, CalmPcs
<1>3. CASE \/ AddrRefused(s) \/ ConnectRefused(s) \/ PollExpired(s) \/ PollTimedOut(s) \/ PollError(s)
           \/ SockoptFails(s) \/ SocketError(s)
  BY <1>3, Zenon DEF AddrRefused, ConnectRefused, PollExpired, PollTimedOut, PollError, SockoptFails, SocketError,
              BridgeCase, RawPcs
<1>4. CASE ConnectNow(s, Listening(s)) \/ Connected(s)
  BY <1>4, Zenon DEF ConnectNow, Connected, BridgeCase, RawPcs
<1>5. CASE LookupFails(s) \/ NewSocketFails(s) \/ SendFails(s) \/ ReadFails(s)
  BY <1>5, Zenon DEF LookupFails, NewSocketFails, SendFails, ReadFails, GivesUp, CalmPcs, BridgeCase
<1> QED BY <1>1, <1>2, <1>3, <1>4, <1>5, Zenon DEF BridgeStep, BridgeCase

-----------------------------------------------------------------------------
(* Descriptors *)

\* Where a number is held, and by what.
HeldAt(k) ==
    /\ k.fd \in Fds \cup {Nil} /\ k.stream \in Fds \cup {Nil}
    /\ k.fd # Nil => k.pc \in RawPcs
    /\ k.stream # Nil => k.pc \in {"send", "read", "return"}

\* Only the bridge's own records matter here.
BridgeShape ==
    /\ DOMAIN pam = Sessions /\ \A s \in Sessions : DOMAIN pam[s] = PamFields /\ HeldAt(pam[s])
    /\ fds \in [Fds -> Sessions \cup {Nil}]

\* One call takes a step, with its record afterwards.
StepTo(s, k) ==
    /\ pam' = [pam EXCEPT ![s] = k]
    /\ DOMAIN k = PamFields /\ HeldAt(k)

\* A step takes one record to another.
LEMMA StepShape ==
    ASSUME BridgeShape, NEW s \in Sessions, NEW k, StepTo(s, k)
    PROVE  /\ DOMAIN pam' = Sessions /\ pam'[s] = k /\ \A t \in Sessions \ {s} : pam'[t] = pam[t]
           /\ \A t \in Sessions : DOMAIN pam'[t] = PamFields /\ HeldAt(pam'[t])
<1>1. DOMAIN pam' = Sessions /\ pam'[s] = k /\ \A t \in Sessions \ {s} : pam'[t] = pam[t]
  BY DEF BridgeShape, StepTo
<1> QED BY <1>1 DEF BridgeShape, StepTo

\* HoldsOwnFd, number by number.
LEMMA HoldsEach ==
    HoldsOwnFd <=>
        /\ \A s \in Sessions : /\ pam[s].fd # Nil => fds[pam[s].fd] = s
                               /\ pam[s].stream # Nil => fds[pam[s].stream] = s
        /\ \A f \in Fds : fds[f] # Nil => pam[fds[f]].fd = f \/ pam[fds[f]].stream = f
BY DEF HoldsOwnFd

\* A step that neither opens nor closes: the numbers stay, or the one
\* connect_with_timeout holds becomes the stream's.
LEMMA InsideKeepsFds ==
    ASSUME BridgeShape, HoldsOwnFd, NEW s \in Sessions, NEW k, StepTo(s, k), UNCHANGED fds,
           \/ k.fd = pam[s].fd /\ k.stream = pam[s].stream
           \/ k.fd = Nil /\ k.stream = pam[s].fd /\ pam[s].stream = Nil
    PROVE  BridgeShape' /\ HoldsOwnFd'
<1>1. /\ DOMAIN pam' = Sessions /\ pam'[s] = k /\ \A t \in Sessions \ {s} : pam'[t] = pam[t]
      /\ \A t \in Sessions : DOMAIN pam'[t] = PamFields /\ HeldAt(pam'[t])
  BY StepShape
<1>2. BridgeShape'
  BY <1>1 DEF BridgeShape
<1>3. \A f \in Fds : fds[f] # Nil => fds[f] \in Sessions /\ f # Nil
  BY PamBridgeAssumption DEF BridgeShape
<1>4. \A t \in Sessions : /\ pam'[t].fd # Nil => fds[pam'[t].fd] = t
                          /\ pam'[t].stream # Nil => fds[pam'[t].stream] = t
  BY <1>1, HoldsEach
<1>5. \A f \in Fds : fds[f] # Nil => pam'[fds[f]].fd = f \/ pam'[fds[f]].stream = f
  BY <1>1, <1>3, HoldsEach
<1>6. HoldsOwnFd'
  BY <1>4, <1>5 DEF HoldsOwnFd
<1> QED BY <1>2, <1>6

\* A step that closes what the call holds, and gives up the number.
LEMMA CloseKeepsFds ==
    ASSUME BridgeShape, HoldsOwnFd, NEW s \in Sessions, NEW k, StepTo(s, k), k.fd = Nil, k.stream = Nil,
           fds' = [f \in Fds |-> IF f \in {pam[s].fd, pam[s].stream} THEN Nil ELSE fds[f]]
    PROVE  BridgeShape' /\ HoldsOwnFd'
<1>1. /\ DOMAIN pam' = Sessions /\ pam'[s] = k /\ \A t \in Sessions \ {s} : pam'[t] = pam[t]
      /\ \A t \in Sessions : DOMAIN pam'[t] = PamFields /\ HeldAt(pam'[t])
  BY StepShape
<1>2. fds' \in [Fds -> Sessions \cup {Nil}]
  BY DEF BridgeShape
<1>3. BridgeShape'
  BY <1>1, <1>2 DEF BridgeShape
<1>4. ASSUME NEW t \in Sessions, NEW f \in {pam'[t].fd, pam'[t].stream} \ {Nil} PROVE fds'[f] = t
  <2>1. t # s /\ pam'[t] = pam[t]
    BY <1>1, <1>4
  <2>2. fds[f] = t /\ f \in Fds
    BY <2>1, <1>4, HoldsEach DEF BridgeShape, HeldAt
  <2>3. f # pam[s].fd /\ f # pam[s].stream
    BY <1>4, <2>1, <2>2, HoldsEach
  <2> QED BY <2>2, <2>3
<1>5. ASSUME NEW f \in Fds, fds'[f] # Nil PROVE pam'[fds'[f]].fd = f \/ pam'[fds'[f]].stream = f
  <2>1. f \notin {pam[s].fd, pam[s].stream} /\ fds'[f] = fds[f]
    BY <1>5
  <2>2. fds[f] \in Sessions /\ (pam[fds[f]].fd = f \/ pam[fds[f]].stream = f)
    BY <1>5, <2>1, HoldsEach DEF BridgeShape
  <2> QED BY <1>1, <2>1, <2>2
<1>6. HoldsOwnFd'
  BY <1>4, <1>5 DEF HoldsOwnFd
<1> QED BY <1>3, <1>6

\* new_socket takes a descriptor nobody has.
LEMMA SocketTakesFree ==
    ASSUME BridgeShape, HoldsOwnFd, NEW s \in Sessions, NEW k, StepTo(s, k),
           NEW fd \in Fds, fds[fd] = Nil, fds' = [fds EXCEPT ![fd] = s],
           pam[s].fd = Nil, pam[s].stream = Nil, k.fd = fd, k.stream = Nil
    PROVE  BridgeShape' /\ HoldsOwnFd'
<1>1. /\ DOMAIN pam' = Sessions /\ pam'[s] = k /\ \A t \in Sessions \ {s} : pam'[t] = pam[t]
      /\ \A t \in Sessions : DOMAIN pam'[t] = PamFields /\ HeldAt(pam'[t])
  BY StepShape
<1>2. /\ fds' \in [Fds -> Sessions \cup {Nil}] /\ fds'[fd] = s
      /\ \A f \in Fds \ {fd} : fds'[f] = fds[f]
  BY DEF BridgeShape
<1>3. BridgeShape'
  BY <1>1, <1>2 DEF BridgeShape
<1>4. ASSUME NEW t \in Sessions, NEW f \in {pam'[t].fd, pam'[t].stream} \ {Nil} PROVE fds'[f] = t
  <2>1. CASE t = s
    BY <1>1, <1>2, <1>4, <2>1
  <2>2. CASE t # s
    <3>1. fds[f] = t /\ f \in Fds
      BY <1>1, <1>4, <2>2, HoldsEach DEF BridgeShape, HeldAt
    <3>2. f # fd
      BY <3>1, PamBridgeAssumption
    <3> QED BY <3>1, <3>2, <1>2
  <2> QED BY <2>1, <2>2
<1>5. ASSUME NEW f \in Fds, fds'[f] # Nil PROVE pam'[fds'[f]].fd = f \/ pam'[fds'[f]].stream = f
  <2>1. CASE f = fd
    BY <1>1, <1>2, <2>1
  <2>2. CASE f # fd
    <3>1. fds'[f] = fds[f] /\ fds[f] \in Sessions /\ (pam[fds[f]].fd = f \/ pam[fds[f]].stream = f)
      BY <1>2, <1>5, <2>2, HoldsEach DEF BridgeShape
    <3>2. fds[f] # s
      BY <3>1, PamBridgeAssumption, Zenon
    <3> QED BY <3>1, <3>2, <1>1
  <2> QED BY <2>1, <2>2
<1>6. HoldsOwnFd'
  BY <1>4, <1>5 DEF HoldsOwnFd
<1> QED BY <1>3, <1>6

\* Every step of the bridge is of one of these three kinds.
LEMMA BridgeKeepsFds ==
    ASSUME BridgeShape, HoldsOwnFd, BridgeNext
    PROVE  BridgeShape' /\ HoldsOwnFd'
<1>1. PICK s \in Sessions : BridgeCase(s)
  BY BridgeCases
<1>2. PICK k : k = pam[s]
  OBVIOUS
<1>3. DOMAIN k = PamFields /\ HeldAt(k) /\ Nil \notin Fds
  BY <1>2, PamBridgeAssumption DEF BridgeShape
<1>4. ASSUME NEW argv, NEW user, Begun(s, argv, user)
      PROVE  BridgeShape' /\ HoldsOwnFd'
  <2> DEFINE j == [k EXCEPT !.pc = "lookup", !.cfg = ParseArgv(argv), !.user = user, !.buf_len = PASSWD_BUF]
  <2>1. k.pc = "idle" /\ pam' = [pam EXCEPT ![s] = j] /\ fds' = fds
    BY <1>2, <1>4, Zenon DEF Begun
  <2>2. DOMAIN j = PamFields /\ j.pc = "lookup" /\ j.fd = k.fd /\ j.stream = k.stream
    BY <1>3 DEF PamFields
  <2> HIDE DEF j
  <2>3. HeldAt(j)
    BY <1>3, <2>1, <2>2 DEF HeldAt, RawPcs
  <2> QED BY <1>2, <2>1, <2>2, <2>3, InsideKeepsFds, Zenon DEF StepTo
<1>5. ASSUME NEW code, Leave(s, code), pam[s].pc \in CalmPcs
      PROVE  BridgeShape' /\ HoldsOwnFd'
  <2> DEFINE j == [k EXCEPT !.pc = "return", !.code = code, !.line = <<>>]
  <2>1. k.pc \in CalmPcs /\ pam' = [pam EXCEPT ![s] = j] /\ fds' = fds
    BY <1>2, <1>5, Zenon DEF Leave
  <2>2. DOMAIN j = PamFields /\ j.pc = "return" /\ j.fd = k.fd /\ j.stream = k.stream
    BY <1>3 DEF PamFields
  <2> HIDE DEF j
  <2>3. HeldAt(j)
    BY <1>3, <2>1, <2>2 DEF HeldAt, RawPcs, CalmPcs
  <2> QED BY <1>2, <2>1, <2>2, <2>3, InsideKeepsFds, Zenon DEF StepTo
<1>6. CASE GivesUp(s) \/ ReadEnd(s, Eof(s))
  BY <1>5, <1>6, Zenon DEF GivesUp, ReadEnd, CalmPcs
<1>7. CASE pam[s].pc \in RawPcs /\ CloseFd(s)
  <2> DEFINE j == [k EXCEPT !.pc = "return", !.code = "AUTH_ERR", !.fd = Nil, !.left = 0]
  <2>1. k.pc \in RawPcs /\ pam' = [pam EXCEPT ![s] = j] /\ fds' = [fds EXCEPT ![k.fd] = Nil]
    BY <1>2, <1>7, Zenon DEF CloseFd
  <2>2. DOMAIN j = PamFields /\ j.pc = "return" /\ j.fd = Nil /\ j.stream = k.stream
    BY <1>3 DEF PamFields
  <2> HIDE DEF j
  <2>3. k.stream = Nil
    BY <1>3, <2>1 DEF HeldAt, RawPcs
  <2>4. HeldAt(j)
    BY <2>2, <2>3 DEF HeldAt
  <2>5. fds' = [f \in Fds |-> IF f \in {k.fd, k.stream} THEN Nil ELSE fds[f]]
    BY <1>3, <2>1, <2>3 DEF BridgeShape
  <2>6. StepTo(s, j) /\ j.stream = Nil
    BY <2>1, <2>2, <2>3, <2>4 DEF StepTo
  <2> QED BY <1>2, <2>2, <2>5, <2>6, CloseKeepsFds
<1>8. CASE pam[s].pc \in RawPcs /\ StreamFromFd(s)
  <2> DEFINE j == [k EXCEPT !.pc = "send", !.stream = k.fd, !.fd = Nil]
  <2>1. k.pc \in RawPcs /\ pam' = [pam EXCEPT ![s] = j] /\ fds' = fds
    BY <1>2, <1>8, Zenon DEF StreamFromFd
  <2>2. DOMAIN j = PamFields /\ j.pc = "send" /\ j.fd = Nil /\ j.stream = k.fd
    BY <1>3 DEF PamFields
  <2> HIDE DEF j
  <2>3. k.stream = Nil /\ HeldAt(j)
    BY <1>3, <2>1, <2>2 DEF HeldAt, RawPcs
  <2> QED BY <1>2, <2>1, <2>2, <2>3, InsideKeepsFds, Zenon DEF StepTo
<1>9. CASE NewSocket(s)
  <2>0. PICK fd \in Fds : /\ fds[fd] = Nil /\ pam[s].pc = "socket"
                          /\ pam' = [pam EXCEPT ![s].pc = "connect", ![s].fd = fd]
                          /\ fds' = [fds EXCEPT ![fd] = s]
    BY <1>9, Zenon DEF NewSocket, LowestFree
  <2>1. /\ fds[fd] = Nil /\ k.pc = "socket" /\ fds' = [fds EXCEPT ![fd] = s]
        /\ pam' = [pam EXCEPT ![s] = [k EXCEPT !.pc = "connect", !.fd = fd]]
    BY <1>2, <2>0, Zenon
  <2> DEFINE j == [k EXCEPT !.pc = "connect", !.fd = fd]
  <2>2. DOMAIN j = PamFields /\ j.pc = "connect" /\ j.fd = fd /\ j.stream = k.stream
    BY <1>3 DEF PamFields
  <2>3. pam' = [pam EXCEPT ![s] = j]
    BY <2>1
  <2> HIDE DEF j
  <2>4. k.fd = Nil /\ k.stream = Nil /\ HeldAt(j)
    BY <1>3, <2>1, <2>2 DEF HeldAt, RawPcs
  <2>5. StepTo(s, j)
    BY <2>2, <2>3, <2>4 DEF StepTo
  <2> QED BY <1>2, <2>1, <2>2, <2>4, <2>5, SocketTakesFree, Zenon
<1>10. CASE Return(s)
  <2>1. /\ k.pc = "return" /\ pam' = [pam EXCEPT ![s] = pam'[s]]
        /\ fds' = [f \in Fds |-> IF f = k.stream THEN Nil ELSE fds[f]]
        /\ DOMAIN pam'[s] = PamFields /\ pam'[s].pc = "done" /\ pam'[s].fd = Nil /\ pam'[s].stream = Nil
    BY <1>2, <1>10 DEF Return, Idle, PamFields, BridgeShape
  <2>2. k.fd = Nil /\ HeldAt(pam'[s])
    BY <1>3, <2>1 DEF HeldAt, RawPcs
  <2>3. fds' = [f \in Fds |-> IF f \in {k.fd, k.stream} THEN Nil ELSE fds[f]]
    BY <1>3, <2>1, <2>2
  <2>4. PICK j : j = pam'[s]
    OBVIOUS
  <2> QED BY <1>2, <2>1, <2>2, <2>3, <2>4, CloseKeepsFds, Zenon DEF StepTo
<1>11. ASSUME NEW j, pam' = [pam EXCEPT ![s] = j], DOMAIN j = PamFields, UNCHANGED fds,
              j.fd = k.fd, j.stream = k.stream,
              j.pc = k.pc \/ (k.pc = "lookup" /\ j.pc = "socket") \/ (k.pc \in RawPcs /\ j.pc \in RawPcs)
              \/ (k.pc = "send" /\ j.pc = "read")
       PROVE  BridgeShape' /\ HoldsOwnFd'
  <2>1. HeldAt(j)
    BY <1>3, <1>11 DEF HeldAt, RawPcs
  <2> QED BY <1>2, <1>11, <2>1, InsideKeepsFds, Zenon DEF StepTo
<1>12. CASE LookupRange(s) \/ LookupFound(s)
  <2>1. /\ pam' = [pam EXCEPT ![s] = pam'[s]] /\ UNCHANGED fds /\ DOMAIN pam'[s] = PamFields
        /\ pam'[s].fd = k.fd /\ pam'[s].stream = k.stream
        /\ k.pc = "lookup" /\ pam'[s].pc \in {"lookup", "socket"}
    BY <1>2, <1>3, <1>12 DEF LookupRange, LookupFound, PamFields, BridgeShape
  <2> QED BY <1>11, <2>1
<1>13. CASE ConnectPending(s, Listening(s)) \/ PollInterrupted(s) \/ PollReady(s)
  <2>1. /\ pam' = [pam EXCEPT ![s] = pam'[s]] /\ UNCHANGED fds /\ DOMAIN pam'[s] = PamFields
        /\ pam'[s].fd = k.fd /\ pam'[s].stream = k.stream
        /\ k.pc \in RawPcs /\ pam'[s].pc \in RawPcs
    BY <1>2, <1>3, <1>13 DEF ConnectPending, PollInterrupted, PollReady, PamFields, BridgeShape, RawPcs
  <2> QED BY <1>11, <2>1
<1>14. CASE Send(s) \/ ReadPiece(s)
  <2>1. /\ pam' = [pam EXCEPT ![s] = pam'[s]] /\ UNCHANGED fds /\ DOMAIN pam'[s] = PamFields
        /\ pam'[s].fd = k.fd /\ pam'[s].stream = k.stream
        /\ k.pc \in {"send", "read"} /\ pam'[s].pc = "read"
    BY <1>2, <1>3, <1>14 DEF Send, ReadPiece, Goto, PamFields, BridgeShape
  <2> QED BY <1>11, <2>1
<1> QED BY <1>1, <1>4, <1>6, <1>7, <1>8, <1>9, <1>10, <1>12, <1>13, <1>14, Zenon DEF BridgeCase

-----------------------------------------------------------------------------
(* What a call is told *)

Codes == {"SUCCESS", "PERM_DENIED"}
Decisions == {"allow", "deny"}
DecisionOf(code) == IF code = "SUCCESS" THEN "allow" ELSE "deny"

\* The entries of a call.
Rec(s) == {e \in recorded : e.id = s}

\* Something is on record, and nothing but this decision.
BackedBy(R, d) == R # {} /\ \A e \in R : e.decision = d

Responses == {ResponseError(id) : id \in Sessions \cup {Nil}}
             \cup {ResponseDecision(id, d) : id \in Sessions, d \in Decisions}
AllPieces == {Newline} \cup {Piece(r, k) : r \in Responses, k \in {1, 2}}

\* The pieces of lines that tell no decision but one the entries R back, and what
\* consists of them.
PiecesOf(R) == {p \in AllPieces : p.resp # Nil /\ ~p.resp.error => BackedBy(R, p.resp.decision)}

Backs(R, q) == q \in Seq(PiecesOf(R))

\* Silence tells nothing.
LEMMA NothingIsBacked ==
    ASSUME NEW R PROVE Backs(R, <<>>)
BY DEF Backs

\* Pieces move from a writer to a reader (write_all, read_line).
LEMMA PiecesMove ==
    ASSUME NEW R, NEW p, NEW q, Backs(R, p), Backs(R, q), q # <<>>
    PROVE  Backs(R, Append(p, Head(q))) /\ Backs(R, Tail(q))
<1>1. \A S : p \in Seq(S) /\ q \in Seq(S) => Append(p, Head(q)) \in Seq(S) /\ Tail(q) \in Seq(S)
  OBVIOUS
<1> QED BY <1>1 DEF Backs

GoodHash(s) == EvidenceHash(Keys[AdapterName], Nonce(s), Uid(s), up[s].method, Confidence, "in time")

\* An error response may always be sent.
LEMMA ErrorsTellNothing ==
    ASSUME NEW R, NEW id \in Sessions \cup {Nil}
    PROVE  Backs(R, Wire(ResponseError(id)))
<1> DEFINE r == ResponseError(id)
<1>1. r \in Responses /\ r.error = TRUE
  <2>1. r \in Responses
    BY DEF Responses
  <2>2. r.error = TRUE
    BY DEF ResponseError
  <2> QED BY <2>1, <2>2
<1>2. Piece(r, 1) \in PiecesOf(R) /\ Piece(r, 2) \in PiecesOf(R) /\ Newline \in PiecesOf(R)
  <2>1. Piece(r, 1).resp = r /\ Piece(r, 2).resp = r /\ Newline.resp = Nil
    BY DEF Piece, Newline
  <2>2. Piece(r, 1) \in AllPieces /\ Piece(r, 2) \in AllPieces /\ Newline \in AllPieces
    BY <1>1 DEF AllPieces
  <2> QED BY <1>1, <2>1, <2>2 DEF PiecesOf
<1> QED BY <1>2 DEF Wire, Backs

\* A decision may be sent once it is on record.
LEMMA DecisionsAreBacked ==
    ASSUME NEW R, NEW s \in Sessions, NEW d \in Decisions, BackedBy(R, d)
    PROVE  Backs(R, Wire(ResponseDecision(s, d)))
<1> DEFINE r == ResponseDecision(s, d)
<1>1. r \in Responses /\ r.decision = d
  <2>1. r \in Responses
    BY DEF Responses
  <2>2. r.decision = d
    BY DEF ResponseDecision
  <2> QED BY <2>1, <2>2
<1>2. Piece(r, 1) \in PiecesOf(R) /\ Piece(r, 2) \in PiecesOf(R) /\ Newline \in PiecesOf(R)
  <2>1. Piece(r, 1).resp = r /\ Piece(r, 2).resp = r /\ Newline.resp = Nil
    BY DEF Piece, Newline
  <2>2. Piece(r, 1) \in AllPieces /\ Piece(r, 2) \in AllPieces /\ Newline \in AllPieces
    BY <1>1 DEF AllPieces
  <2> QED BY <1>1, <2>1, <2>2 DEF PiecesOf
<1> QED BY <1>2 DEF Wire, Backs

\* interpret_response makes a decision only of a line that tells one.
LEMMA InterpretIsBacked ==
    ASSUME NEW R, NEW line, Backs(R, line), NEW s, InterpretResponse(line, s) \in Codes
    PROVE  BackedBy(R, DecisionOf(InterpretResponse(line, s)))
<1> DEFINE r == ParseJson(line)
<1>1. /\ r # Nil /\ ~r.error
      /\ \/ r.decision = "allow" /\ InterpretResponse(line, s) = "SUCCESS"
         \/ r.decision = "deny" /\ InterpretResponse(line, s) = "PERM_DENIED"
  BY DEF InterpretResponse, Codes
<1>2. Len(line) = 2 /\ r = line[1].resp
  BY <1>1 DEF ParseJson
<1>3. line[1] \in PiecesOf(R)
  BY <1>2 DEF Backs
<1>4. BackedBy(R, r.decision)
  BY <1>1, <1>2, <1>3 DEF PiecesOf
<1> QED BY <1>1, <1>4 DEF DecisionOf

-----------------------------------------------------------------------------
(* The state of a call at all its ends *)

\* The request on the connection is the one PAM asked for; before it is there
\* nothing has happened.
Asked(s) ==
    /\ up[s] # Nil => /\ pam[s].pc \in {"read", "return", "done"}
                      /\ up[s].uid = pam[s].uid /\ up[s].method = pam[s].cfg.method
    /\ up[s] = Nil => task[s].pc \in {"new", "closed"} /\ Rec(s) = {}

\* Until the log call ends nothing has been recorded, and nobody told anything.
Silent(s) ==
    task[s].pc \in {"new", "dispatch", "verify", "log"} =>
        down[s] = <<>> /\ pam[s].line = <<>> /\ Rec(s) = {} /\ pam[s].code \notin Codes

\* What is on its way to the bridge, has been read by it, or was made of it.
Told(s) ==
    /\ Backs(Rec(s), pam[s].line)
    /\ Backs(Rec(s), down[s])
    /\ Backs(Rec(s), task[s].rest)
    /\ pam[s].code \in Codes => BackedBy(Rec(s), DecisionOf(pam[s].code))

\* An allow has its evidence when it is decided, and keeps it on record.
Shown(s) ==
    /\ task[s].pc = "log" =>
         /\ task[s].decision \in Decisions
         /\ task[s].decision = "allow" => task[s].evidence.hash = GoodHash(s)
    /\ \A e \in Rec(s) : e.caller = PeerUid[s] /\ e.uid = Uid(s) /\ (e.decision = "allow" => e.evidence.hash = GoodHash(s))

Session(s) == Asked(s) /\ Silent(s) /\ Told(s) /\ Shown(s)

\* The records have their fields; what is in them does not matter.
Shape ==
    /\ DOMAIN pam = Sessions /\ \A s \in Sessions : DOMAIN pam[s] = PamFields
    /\ DOMAIN up = Sessions /\ DOMAIN down = Sessions
    /\ DOMAIN task = Sessions /\ \A s \in Sessions : DOMAIN task[s] = TaskFields
    /\ \A e \in recorded : e.id \in Sessions

\* A step that leaves all of a call alone.
LEMMA SessionFrame ==
    ASSUME NEW s \in Sessions, Session(s), pam'[s] = pam[s], up'[s] = up[s], down'[s] = down[s],
           task'[s] = task[s], Rec(s)' = Rec(s)
    PROVE  Session(s)'
BY Zenon DEF Session, Asked, Silent, Told, Shown, GoodHash, Uid

\* A step of the bridge inside a call that reads nothing.
LEMMA SessionInside ==
    ASSUME NEW s \in Sessions, Session(s), up'[s] = up[s], down'[s] = down[s], task'[s] = task[s],
           Rec(s)' = Rec(s), up[s] = Nil, pam'[s].line = pam[s].line,
           pam'[s].code = pam[s].code \/ pam'[s].code \notin Codes
    PROVE  Session(s)'
BY Zenon DEF Session, Asked, Silent, Told, Shown, GoodHash, Uid

\* The result is known.
LEMMA SessionLeave ==
    ASSUME Shape, NEW s \in Sessions, Session(s), NEW code, Leave(s, code), UNCHANGED daemonVars,
           code \in Codes => BackedBy(Rec(s), DecisionOf(code)) /\ task[s].pc \notin {"new", "dispatch", "verify", "log"}
    PROVE  Session(s)' /\ \A t \in Sessions \ {s} : Session(t) => Session(t)'
<1>1. /\ pam'[s].pc = "return" /\ pam'[s].line = <<>> /\ pam'[s].code = code
      /\ pam'[s].uid = pam[s].uid /\ pam'[s].cfg = pam[s].cfg
      /\ down' = down /\ up' = up /\ task' = task
      /\ \A t \in Sessions \ {s} : pam'[t] = pam[t]
  BY DEF Leave, Shape, PamFields, daemonVars
<1>2. \A t \in Sessions : Rec(t)' = Rec(t)
  BY DEF Rec, daemonVars
<1>3. Asked(s)'
  BY <1>1, <1>2 DEF Session, Asked
<1>4. Silent(s)'
  BY <1>1, <1>2 DEF Session, Silent
<1>5. Told(s)'
  BY <1>1, <1>2, NothingIsBacked DEF Session, Told
<1>6. Shown(s)'
  BY <1>1, <1>2, Zenon DEF Session, Shown, GoodHash, Uid
<1> QED BY <1>1, <1>2, <1>3, <1>4, <1>5, <1>6, SessionFrame DEF Session

\* The call returns.
LEMMA SessionReturn ==
    ASSUME Shape, NEW s \in Sessions, Session(s), Return(s), UNCHANGED daemonVars
    PROVE  Session(s)' /\ \A t \in Sessions \ {s} : Session(t) => Session(t)'
<1>1. /\ pam'[s].pc = "done" /\ pam'[s].line = <<>> /\ pam'[s].code = pam[s].code
      /\ up[s] # Nil => pam'[s].uid = pam[s].uid /\ pam'[s].cfg = pam[s].cfg
      /\ down'[s] = <<>> /\ up' = up /\ task' = task
      /\ \A t \in Sessions \ {s} : pam'[t] = pam[t] /\ down'[t] = down[t]
  BY DEF Return, Idle, Shape, PamFields, daemonVars
<1>2. \A t \in Sessions : Rec(t)' = Rec(t)
  BY DEF Rec, daemonVars
<1>3. Asked(s)'
  BY <1>1, <1>2 DEF Session, Asked
<1>4. Silent(s)'
  BY <1>1, <1>2 DEF Session, Silent
<1>5. Told(s)'
  BY <1>1, <1>2, NothingIsBacked DEF Session, Told
<1>6. Shown(s)'
  BY <1>1, <1>2, Zenon DEF Session, Shown, GoodHash, Uid
<1> QED BY <1>1, <1>2, <1>3, <1>4, <1>5, <1>6, SessionFrame DEF Session

\* Every step of the bridge.
LEMMA SessionBridge ==
    ASSUME Shape, \A s \in Sessions : Session(s), BridgeNext
    PROVE  \A s \in Sessions : Session(s)'
<1>1. PICK s \in Sessions : BridgeCase(s)
  BY BridgeCases
<1>2. UNCHANGED daemonVars /\ task' = task /\ \A t \in Sessions : Rec(t)' = Rec(t)
  BY DEF BridgeNext, daemonVars, Rec
<1>3. DOMAIN pam = Sessions /\ DOMAIN pam[s] = PamFields /\ DOMAIN up = Sessions /\ DOMAIN down = Sessions
  BY DEF Shape
<1>4. "AUTH_ERR" \notin Codes /\ "USER_UNKNOWN" \notin Codes
  BY DEF Codes
<1>5. ASSUME /\ up[s] = Nil /\ up' = up /\ down' = down
             /\ \A t \in Sessions \ {s} : pam'[t] = pam[t]
             /\ pam'[s].line = pam[s].line /\ (pam'[s].code = pam[s].code \/ pam'[s].code = "AUTH_ERR")
      PROVE  \A t \in Sessions : Session(t)'
  BY <1>2, <1>4, <1>5, SessionInside, SessionFrame
<1>6. pam[s].pc \notin {"read", "return", "done"} => up[s] = Nil
  BY DEF Session, Asked
<1>7. CASE GivesUp(s)
  BY <1>2, <1>4, <1>7, SessionLeave DEF GivesUp
<1>8. CASE Return(s)
  BY <1>2, <1>8, SessionReturn
<1>9. CASE \/ \E argv \in Argvs, user \in Users \cup {Nil} : Begun(s, argv, user)
           \/ pam[s].pc \in RawPcs /\ CloseFd(s)
           \/ pam[s].pc \in RawPcs /\ StreamFromFd(s)
           \/ LookupRange(s) \/ LookupFound(s) \/ NewSocket(s)
           \/ ConnectPending(s, Listening(s)) \/ PollInterrupted(s) \/ PollReady(s)
  <2>1. /\ pam[s].pc \notin {"read", "return", "done"} /\ up' = up /\ down' = down
        /\ \A t \in Sessions \ {s} : pam'[t] = pam[t]
        /\ pam'[s].line = pam[s].line /\ (pam'[s].code = pam[s].code \/ pam'[s].code = "AUTH_ERR")
    <3>1. CASE \E argv \in Argvs, user \in Users \cup {Nil} : Begun(s, argv, user)
      BY <3>1, <1>3 DEF Begun, PamFields
    <3>2. CASE pam[s].pc \in RawPcs /\ (CloseFd(s) \/ StreamFromFd(s))
      BY <3>2, <1>3 DEF CloseFd, StreamFromFd, PamFields, RawPcs
    <3>3. CASE LookupRange(s) \/ LookupFound(s) \/ NewSocket(s)
      BY <3>3, <1>3 DEF LookupRange, LookupFound, NewSocket, PamFields
    <3>4. CASE ConnectPending(s, Listening(s)) \/ PollInterrupted(s) \/ PollReady(s)
      BY <3>4, <1>3 DEF ConnectPending, PollInterrupted, PollReady, PamFields
    <3> QED BY <1>9, <3>1, <3>2, <3>3, <3>4, Zenon
  <2> QED BY <2>1, <1>5, <1>6
<1>10. CASE Send(s)
  <2>1. /\ up[s] = Nil /\ down' = down
        /\ \A t \in Sessions \ {s} : pam'[t] = pam[t] /\ up'[t] = up[t]
        /\ pam'[s].line = pam[s].line /\ pam'[s].code = pam[s].code /\ pam'[s].pc = "read"
        /\ pam'[s].uid = pam[s].uid /\ pam'[s].cfg = pam[s].cfg
        /\ up'[s].uid = pam[s].uid /\ up'[s].method = pam[s].cfg.method
    BY <1>10, <1>3, <1>6 DEF Send, Goto, PamFields
  <2>2. Session(s)'
    <3>1. Asked(s)' /\ Silent(s)'
      BY <1>2, <2>1 DEF Session, Asked, Silent
    <3>2. Told(s)'
      BY <1>2, <2>1 DEF Session, Told
    <3>3. Shown(s)'
      BY <1>2, <2>1 DEF Session, Asked, Shown
    <3> QED BY <3>1, <3>2, <3>3 DEF Session
  <2> QED BY <1>2, <2>1, <2>2, SessionFrame
<1>11. CASE ReadPiece(s)
  <2>1. /\ up' = up /\ down[s] # <<>>
        /\ \A t \in Sessions \ {s} : pam'[t] = pam[t] /\ down'[t] = down[t]
        /\ pam'[s].line = Append(pam[s].line, Head(down[s])) /\ down'[s] = Tail(down[s])
        /\ pam'[s].code = pam[s].code /\ pam'[s].pc = "read" /\ pam'[s].pc = pam[s].pc
        /\ pam'[s].uid = pam[s].uid /\ pam'[s].cfg = pam[s].cfg
    BY <1>11, <1>3 DEF ReadPiece, PamFields
  <2>2. Told(s)'
    <3>1. Backs(Rec(s), pam[s].line) /\ Backs(Rec(s), down[s]) /\ Backs(Rec(s), task[s].rest)
      BY DEF Session, Told
    <3>2. Backs(Rec(s), pam'[s].line) /\ Backs(Rec(s), down'[s])
      <4>1. down[s] # <<>>
        BY <2>1
      <4>2. Backs(Rec(s), Append(pam[s].line, Head(down[s]))) /\ Backs(Rec(s), Tail(down[s]))
        BY <3>1, <4>1, PiecesMove, Zenon
      <4>3. pam'[s].line = Append(pam[s].line, Head(down[s])) /\ down'[s] = Tail(down[s])
        BY <2>1
      <4> QED BY <4>2, <4>3, Zenon
    <3>3. task'[s].rest = task[s].rest /\ Rec(s)' = Rec(s)
      BY <1>2
    <3>4. pam'[s].code \in Codes => BackedBy(Rec(s), DecisionOf(pam'[s].code))
      BY <2>1 DEF Session, Told
    <3> QED BY <3>1, <3>2, <3>3, <3>4 DEF Told
  <2>3. Asked(s)'
    BY <1>2, <2>1 DEF Session, Asked
  <2>4. Silent(s)'
    BY <1>2, <2>1 DEF Session, Silent
  <2>5. Shown(s)'
    BY <1>2, <2>1, Zenon DEF Session, Shown, GoodHash, Uid
  <2> QED BY <1>2, <2>1, <2>2, <2>3, <2>4, <2>5, SessionFrame DEF Session
<1>12. CASE ReadEnd(s, Eof(s))
  <2> DEFINE code == InterpretResponse(pam[s].line, s)
  <2>1. Leave(s, code) /\ (down[s] # <<>> \/ task[s].pc = "closed")
    BY <1>12 DEF ReadEnd, Eof
  <2>2. task[s].pc \notin {"new", "dispatch", "verify", "log"}
    BY <2>1 DEF Session, Silent
  <2>3. code \in Codes => BackedBy(Rec(s), DecisionOf(code))
    BY InterpretIsBacked DEF Session, Told
  <2> HIDE DEF code
  <2> QED BY <1>2, <2>1, <2>2, <2>3, SessionLeave
<1> QED BY <1>1, <1>7, <1>8, <1>9, <1>10, <1>11, <1>12, Zenon DEF BridgeCase
-----------------------------------------------------------------------------
(* Steps of the daemon *)

\* A task decides, for an allow with its evidence.
LEMMA SessionDecide ==
    ASSUME Shape, \A s \in Sessions : Session(s), UNCHANGED <<pam, up, down, recorded>>,
           NEW s \in Sessions, NEW d \in Decisions, NEW ev, Decide(s, d, ev),
           task[s].pc \in {"new", "dispatch", "verify"}, up[s] # Nil,
           d = "allow" => ev.hash = GoodHash(s)
    PROVE  \A t \in Sessions : Session(t)'
<1>1. /\ task'[s].pc = "log" /\ task'[s].decision = d /\ task'[s].evidence = ev
      /\ task'[s].rest = task[s].rest
      /\ \A t \in Sessions \ {s} : task'[t] = task[t]
  BY DEF Decide, Shape, TaskFields
<1>2. \A t \in Sessions : Rec(t)' = Rec(t)
  BY DEF Rec
<1>3. GoodHash(s)' = GoodHash(s) /\ Uid(s)' = Uid(s)
  BY Zenon DEF GoodHash, Uid
<1>4. Asked(s)' /\ Silent(s)' /\ Told(s)'
  BY <1>1, <1>2 DEF Session, Asked, Silent, Told
<1>5. Shown(s)'
  BY <1>1, <1>2, <1>3 DEF Session, Shown
<1> QED BY <1>1, <1>2, <1>4, <1>5, SessionFrame DEF Session

\* A task answers; what it answers is backed by what is then on record.
LEMMA SessionAnswer ==
    ASSUME Shape, \A s \in Sessions : Session(s), UNCHANGED <<pam, up, down>>,
           NEW s \in Sessions, NEW resp, Answer(s, resp), Backs(Rec(s)', Wire(resp)),
           task[s].pc \in {"new", "log"}, up[s] # Nil,
           \A t \in Sessions \ {s} : Rec(t)' = Rec(t),
           \A e \in Rec(s)' : e.caller = PeerUid[s] /\ e.uid = Uid(s) /\ (e.decision = "allow" => e.evidence.hash = GoodHash(s))
    PROVE  \A t \in Sessions : Session(t)'
<1>1. /\ task'[s].pc = "write" /\ task'[s].rest = Wire(resp)
      /\ \A t \in Sessions \ {s} : task'[t] = task[t]
  BY DEF Answer, NewTask, Shape
<1>2. down[s] = <<>> /\ pam[s].line = <<>> /\ pam[s].code \notin Codes
  BY DEF Session, Silent
<1>3. GoodHash(s)' = GoodHash(s) /\ Uid(s)' = Uid(s)
  BY Zenon DEF GoodHash, Uid
<1>4. Asked(s)' /\ Silent(s)'
  BY <1>1 DEF Session, Asked, Silent
<1>5. Told(s)'
  BY <1>1, <1>2, NothingIsBacked DEF Told
<1>6. Shown(s)'
  BY <1>1, <1>3 DEF Shown
<1> QED BY <1>1, <1>4, <1>5, <1>6, SessionFrame DEF Session

\* The log call of a task ends, well or not.
LEMMA SessionLog ==
    ASSUME Shape, \A s \in Sessions : Session(s), NEW s \in Sessions, LogOk(s) \/ LogFails(s)
    PROVE  \A t \in Sessions : Session(t)'
<1>1. /\ task[s].pc = "log" /\ up[s] # Nil /\ Rec(s) = {} /\ task[s].decision \in Decisions
      /\ task[s].decision = "allow" => task[s].evidence.hash = GoodHash(s)
  BY DEF LogOk, LogFails, Session, Asked, Silent, Shown
<1>2. UNCHANGED <<pam, up, down>>
  BY DEF LogOk, LogFails, bridgeVars
<1>3. /\ Entry(s).id = s /\ Entry(s).caller = PeerUid[s] /\ Entry(s).uid = Uid(s) /\ Entry(s).decision = task[s].decision
      /\ Entry(s).evidence = task[s].evidence
  BY DEF Entry
<1>4. ASSUME recorded' \in {recorded, recorded \cup {Entry(s)}}
      PROVE  /\ \A t \in Sessions \ {s} : Rec(t)' = Rec(t)
             /\ Rec(s)' \subseteq {Entry(s)}
             /\ \A e \in Rec(s)' : e.caller = PeerUid[s] /\ e.uid = Uid(s) /\ (e.decision = "allow" => e.evidence.hash = GoodHash(s))
  <2>1. \A t \in Sessions \ {s} : Rec(t)' = Rec(t)
    BY <1>3, <1>4 DEF Rec
  <2>2. Rec(s)' \subseteq {Entry(s)}
    BY <1>1, <1>4 DEF Rec
  <2> QED BY <2>1, <2>2, <1>1, <1>3
<1>5. CASE LogFails(s)
  <2>1. recorded' \in {recorded, recorded \cup {Entry(s)}} /\ Answer(s, ResponseError(s))
    BY <1>5 DEF LogFails
  <2>2. Backs(Rec(s)', Wire(ResponseError(s)))
    BY ErrorsTellNothing
  <2> QED BY <1>1, <1>2, <1>4, <2>1, <2>2, SessionAnswer
<1>6. CASE LogOk(s)
  <2>1. recorded' = recorded \cup {Entry(s)} /\ Answer(s, ResponseDecision(s, task[s].decision))
    BY <1>6 DEF LogOk
  <2>2. Entry(s) \in Rec(s)'
    BY <2>1, <1>3 DEF Rec
  <2>3. BackedBy(Rec(s)', task[s].decision)
    BY <2>1, <2>2, <1>3, <1>4 DEF BackedBy
  <2>4. Backs(Rec(s)', Wire(ResponseDecision(s, task[s].decision)))
    BY <2>3, <1>1, DecisionsAreBacked
  <2> QED BY <1>1, <1>2, <1>4, <2>1, <2>4, SessionAnswer
<1> QED BY <1>5, <1>6

\* A piece of the response leaves, or no more can.
LEMMA SessionWrite ==
    ASSUME Shape, \A s \in Sessions : Session(s), NEW s \in Sessions, Write(s)
    PROVE  \A t \in Sessions : Session(t)'
<1>1. \A t \in Sessions : Rec(t)' = Rec(t)
  BY DEF Write, Rec
<1>2. pam' = pam /\ up' = up /\ task[s].pc = "write" /\ up[s] # Nil
  BY DEF Write, Session, Asked
<1>3. CASE ~OnLine(s) \/ task[s].rest = <<>>
  <2>1. /\ task'[s].pc = "answered" /\ task'[s].rest = <<>> /\ down' = down
        /\ \A t \in Sessions \ {s} : task'[t] = task[t]
    BY <1>3 DEF Write, NewTask, Shape
  <2>2. Asked(s)' /\ Silent(s)'
    BY <1>1, <1>2, <2>1 DEF Session, Asked, Silent
  <2>3. Told(s)'
    BY <1>1, <1>2, <2>1, NothingIsBacked DEF Session, Told
  <2>4. Shown(s)'
    BY <1>1, <1>2, <2>1, Zenon DEF Session, Shown, GoodHash, Uid
  <2> QED BY <1>1, <1>2, <2>1, <2>2, <2>3, <2>4, SessionFrame DEF Session
<1>4. CASE ~(~OnLine(s) \/ task[s].rest = <<>>)
  <2>1. /\ task'[s].pc = "write" /\ task'[s].rest = Tail(task[s].rest) /\ task[s].rest # <<>>
        /\ down'[s] = Append(down[s], Head(task[s].rest))
        /\ \A t \in Sessions \ {s} : task'[t] = task[t] /\ down'[t] = down[t]
    <3>1. /\ down' = [down EXCEPT ![s] = Append(@, Head(task[s].rest))]
          /\ task' = [task EXCEPT ![s].rest = Tail(@)]
      BY <1>4 DEF Write
    <3>2. DOMAIN task = Sessions /\ DOMAIN down = Sessions /\ DOMAIN task[s] = TaskFields
      BY DEF Shape
    <3>3. task'[s] = [task[s] EXCEPT !.rest = Tail(task[s].rest)]
      BY <3>1, <3>2
    <3> QED BY <1>2, <1>4, <3>1, <3>2, <3>3 DEF TaskFields
  <2>2. Told(s)'
    <3>1. Backs(Rec(s), pam[s].line) /\ Backs(Rec(s), down[s]) /\ Backs(Rec(s), task[s].rest)
      BY DEF Session, Told
    <3>2. Backs(Rec(s), down'[s]) /\ Backs(Rec(s), task'[s].rest)
      <4>1. task[s].rest # <<>>
        BY <2>1
      <4>2. Backs(Rec(s), Append(down[s], Head(task[s].rest))) /\ Backs(Rec(s), Tail(task[s].rest))
        BY <3>1, <4>1, PiecesMove, Zenon
      <4>3. down'[s] = Append(down[s], Head(task[s].rest)) /\ task'[s].rest = Tail(task[s].rest)
        BY <2>1
      <4> QED BY <4>2, <4>3, Zenon
    <3>3. pam'[s] = pam[s] /\ Rec(s)' = Rec(s)
      BY <1>1, <1>2
    <3>4. pam[s].code \in Codes => BackedBy(Rec(s), DecisionOf(pam[s].code))
      BY DEF Session, Told
    <3> QED BY <3>1, <3>2, <3>3, <3>4 DEF Told
  <2>3. Asked(s)' /\ Silent(s)'
    BY <1>1, <1>2, <2>1 DEF Session, Asked, Silent
  <2>4. Shown(s)'
    BY <1>1, <1>2, <2>1, Zenon DEF Session, Shown, GoodHash, Uid
  <2> QED BY <1>1, <1>2, <2>1, <2>2, <2>3, <2>4, SessionFrame DEF Session
<1> QED BY <1>3, <1>4
-----------------------------------------------------------------------------
(* The daemon's calls of the adapter *)

\* The line is this request's, and so is the reply, signed in time unless the
\* deadline has passed since.
CallOK(c) ==
    /\ call[c].stage \in {"none", "connected", "asked", "over"}
    /\ call[c].stage \in {"none", "connected"} => call[c].line = None /\ call[c].reply = None
    /\ call[c].stage = "asked" =>
         /\ up[c] # Nil /\ call[c].line.uid = Uid(c)
         /\ call[c].reply # None =>
              /\ call[c].reply.uid = Uid(c) /\ call[c].reply.confidence = Confidence
              /\ ~call[c].expired => call[c].reply.stamp = "in time"

\* The adapter signs only what was sent.
AdapterOK ==
    /\ backlog \in Seq(Calls) /\ DOMAIN adapter = {"pc", "cur"}
    /\ adapter.pc \in {"read", "sign"} => adapter.cur \in Calls
    /\ adapter.pc = "sign" => call[adapter.cur].stage \in {"asked", "over"}

CallInv == AdapterOK /\ \A c \in Calls : CallOK(c)
CallShape == DOMAIN call = Calls /\ \A c \in Calls : DOMAIN call[c] = CallFields

\* A call is what it was, or nothing is left of it.
LEMMA ClosedKeeps ==
    ASSUME NEW k, DOMAIN k = CallFields
    PROVE  /\ DOMAIN Closed(k) = CallFields
           /\ Closed(k) = k \/ (k.stage = "over" /\ Closed(k).stage = "over")
BY DEF Closed, NoCall, CallFields

\* A call is left alone, and so is its request.
LEMMA CallFrame ==
    ASSUME NEW c \in Calls, CallOK(c), call'[c] = call[c], up[c] # Nil => up'[c] = up[c]
    PROVE  CallOK(c)'
BY Zenon DEF CallOK, Uid

\* One call takes a step at the daemon's end, the adapter none.
LEMMA CallStep ==
    ASSUME CallShape, CallInv, NEW c \in Calls, NEW k, call' = [call EXCEPT ![c] = k],
           DOMAIN k = CallFields, UNCHANGED up, adapter' = adapter, backlog' \in Seq(Calls), CallOK(c)',
           call[c].stage \in {"asked", "over"} => k.stage \in {"asked", "over"}
    PROVE  CallShape' /\ CallInv'
<1>1. call'[c] = k /\ DOMAIN call' = Calls /\ \A d \in Calls \ {c} : call'[d] = call[d]
  BY DEF CallShape
<1>2. \A d \in Calls : CallOK(d)'
  BY <1>1, CallFrame DEF CallInv
<1>3. AdapterOK'
  BY <1>1 DEF CallInv, AdapterOK
<1> QED BY <1>1, <1>2, <1>3 DEF CallShape, CallInv

\* The adapter closes a connection, with a reply to what was asked or without.
LEMMA FinishKeeps ==
    ASSUME CallShape, CallInv, NEW reply, Finish(reply), UNCHANGED up,
           adapter.pc \in {"read", "sign"},
           call[adapter.cur].stage \in {"asked", "over"},
           reply # None => /\ reply.uid = call[adapter.cur].line.uid /\ reply.confidence = Confidence
                           /\ ~call[adapter.cur].expired => reply.stamp = "in time"
    PROVE  CallShape' /\ CallInv'
<1>0. PICK c \in Calls : c = adapter.cur
  BY Zenon DEF CallInv, AdapterOK
<1> DEFINE k == [call[c] EXCEPT !.served = TRUE, !.reply = IF call[c].stage = "over" THEN call[c].reply ELSE reply]
<1>1. DOMAIN call[c] = CallFields /\ CallOK(c) /\ call[c].stage \in {"asked", "over"}
  BY <1>0, Zenon DEF CallInv, CallShape
<1>2. /\ DOMAIN k = CallFields /\ k.stage = call[c].stage /\ k.line = call[c].line /\ k.expired = call[c].expired
      /\ k.reply = IF call[c].stage = "over" THEN call[c].reply ELSE reply
  BY <1>1, Zenon DEF CallFields
<1>3. call' = [call EXCEPT ![c] = Closed(k)] /\ adapter' = Accepting /\ backlog' = backlog
  BY <1>0, Zenon DEF Finish
<1> HIDE DEF k
<1>4. DOMAIN Closed(k) = CallFields /\ (Closed(k) = k \/ Closed(k).stage = "over")
  BY <1>2, ClosedKeeps, Zenon
<1>5. /\ call'[c] = Closed(k) /\ DOMAIN call' = Calls /\ \A d \in Calls \ {c} : call'[d] = call[d]
  BY <1>1, <1>3, Zenon DEF CallShape
<1>6. CallOK(c)'
  <2>1. CASE Closed(k).stage = "over"
    BY <1>5, <2>1, Zenon DEF CallOK, Uid
  <2>2. CASE Closed(k) = k /\ k.stage = "asked"
    <3>1. /\ call'[c].stage = "asked" /\ call'[c].line = call[c].line
          /\ call'[c].expired = call[c].expired /\ call'[c].reply = reply
      BY <1>2, <1>5, <2>2, Zenon
    <3>2. up[c] # Nil /\ call[c].line.uid = Uid(c)
      BY <1>1, <1>2, <2>2, Zenon DEF CallOK, Uid
    <3> QED BY <1>0, <3>1, <3>2, Zenon DEF CallOK, Uid
  <2> QED BY <1>1, <1>2, <1>4, <2>1, <2>2, Zenon
<1>7. \A d \in Calls : CallOK(d)'
  BY <1>5, <1>6, CallFrame, Zenon DEF CallInv
<1>8. AdapterOK'
  BY <1>3, Zenon DEF AdapterOK, CallInv, Accepting
<1> QED BY <1>4, <1>5, <1>7, <1>8, Zenon DEF CallShape, CallInv

\* Every step of the adapter.
LEMMA AdapterKeepsCalls ==
    ASSUME CallShape, CallInv, AdapterStep, UNCHANGED up
    PROVE  CallShape' /\ CallInv'
<1> DEFINE k == call[adapter.cur]
<1>1. CASE Accept
  <2>1. /\ backlog # <<>> /\ adapter' = [pc |-> "read", cur |-> Head(backlog)]
        /\ backlog' = Tail(backlog) /\ call' = call
    BY <1>1 DEF Accept
  <2>2. Head(backlog) \in Calls /\ Tail(backlog) \in Seq(Calls)
    BY <2>1 DEF CallInv, AdapterOK
  <2>3. AdapterOK'
    BY <2>1, <2>2 DEF AdapterOK
  <2> QED BY <2>1, <2>3, CallFrame DEF CallInv, CallShape
<1>2. CASE ReadEof
  BY <1>2, FinishKeeps, Zenon DEF ReadEof
<1>3. CASE CheckDeadline
  <2>1. adapter.cur \in Calls /\ k.line # None /\ adapter.pc = "read"
    BY <1>3 DEF CheckDeadline, CallInv, AdapterOK
  <2>2. k.stage \in {"asked", "over"}
    BY <2>1, Zenon DEF CallInv, CallOK
  <2>3. CASE k.expired
    <3>1. Finish(None)
      BY <1>3, <2>3 DEF CheckDeadline
    <3> QED BY <3>1, <2>1, <2>2, FinishKeeps, Zenon
  <2>4. CASE ~k.expired
    <3>1. adapter' = [adapter EXCEPT !.pc = "sign"] /\ backlog' = backlog /\ call' = call
      BY <1>3, <2>4 DEF CheckDeadline
    <3>2. AdapterOK'
      BY <2>1, <2>2, <3>1 DEF AdapterOK, CallInv
    <3> QED BY <3>1, <3>2, CallFrame DEF CallInv, CallShape
  <2> QED BY <2>3, <2>4
<1>4. CASE Sign
  <2> DEFINE stamp == IF k.expired THEN "late" ELSE "in time"
             reply == [id |-> k.line.id, nonce |-> k.line.nonce, uid |-> k.line.uid, method |-> AdapterMethod,
                       confidence |-> Confidence, stamp |-> stamp,
                       hash |-> EvidenceHash(AdapterKey, k.line.nonce, k.line.uid, AdapterMethod, Confidence, stamp)]
  <2>1. adapter.pc = "sign" /\ Finish(reply)
    BY <1>4, Zenon DEF Sign
  <2>2. reply.uid = k.line.uid /\ reply.confidence = Confidence /\ (~k.expired => reply.stamp = "in time")
    OBVIOUS
  <2>3. k.stage \in {"asked", "over"}
    BY <2>1, Zenon DEF CallInv, AdapterOK
  <2> HIDE DEF reply
  <2> QED BY <2>1, <2>2, <2>3, FinishKeeps, Zenon
<1> QED BY <1>1, <1>2, <1>3, <1>4 DEF AdapterStep
-----------------------------------------------------------------------------
(* All steps *)

\* What a call is told, together with what the daemon knows from the adapter.
LoginInv == Shape /\ (\A s \in Sessions : Session(s)) /\ CallShape /\ CallInv

\* A request, once sent, is not changed.
LEMMA RequestsStay ==
    ASSUME LoginInv, BridgeNext
    PROVE  /\ DOMAIN up' = Sessions /\ DOMAIN down' = Sessions
           /\ \A s \in Sessions : up[s] # Nil => up'[s] = up[s]
<1>1. PICK s \in Sessions : BridgeCase(s)
  BY BridgeCases
<1>2. DOMAIN up = Sessions /\ DOMAIN down = Sessions
  BY DEF LoginInv, Shape
<1>4. CASE Send(s)
  <2>1. up[s] = Nil
    BY <1>4 DEF Send, LoginInv, Session, Asked
  <2>2. DOMAIN up' = Sessions /\ down' = down /\ \A t \in Sessions \ {s} : up'[t] = up[t]
    BY <1>2, <1>4 DEF Send
  <2> QED BY <1>2, <2>1, <2>2
<1>5. CASE ~Send(s)
  <2>1. UNCHANGED up /\ DOMAIN down' = Sessions
    BY <1>1, <1>2, <1>5, Zenon
       DEF BridgeCase, Begun, GivesUp, Leave, CloseFd, StreamFromFd, LookupRange, LookupFound, NewSocket,
           ConnectPending, PollInterrupted, PollReady, ReadPiece, ReadEnd, Return
  <2> QED BY <1>2, <2>1
<1> QED BY <1>4, <1>5

\* A step of a task that only decides or moves on.
LEMMA TaskDecides ==
    ASSUME LoginInv, NEW s \in Sessions,
           TakeFails(s) \/ Take(s) \/ DispatchFails(s) \/ Dispatch(s)
    PROVE  \A t \in Sessions : Session(t)'
<1>1. \A t \in Sessions : Session(t)
  BY DEF LoginInv
<1>2. Shape /\ UNCHANGED <<pam, up, down, recorded>> /\ \A t \in Sessions : Rec(t)' = Rec(t)
  BY DEF LoginInv, TakeFails, Take, DispatchFails, Dispatch, bridgeVars, Rec
<1>3. task[s].pc \in {"new", "dispatch"} /\ up[s] # Nil
  BY <1>1 DEF TakeFails, Take, DispatchFails, Dispatch, Session, Asked
<1>4. "deny" \in Decisions /\ "deny" # "allow"
  BY DEF Decisions
<1>5. Decide(s, "deny", None) => \A t \in Sessions : Session(t)'
  BY <1>1, <1>2, <1>3, <1>4, SessionDecide
<1>6. CASE TakeFails(s)
  <2>1. PICK id \in {s, Nil} : Answer(s, ResponseError(id))
    BY <1>6 DEF TakeFails
  <2>2. Backs(Rec(s)', Wire(ResponseError(id)))
    BY ErrorsTellNothing
  <2>3. \A e \in Rec(s)' : e.caller = PeerUid[s] /\ e.uid = Uid(s) /\ (e.decision = "allow" => e.evidence.hash = GoodHash(s))
    BY <1>1, <1>2 DEF Session, Shown
  <2>4. task[s].pc = "new"
    BY <1>6 DEF TakeFails
  <2> QED BY <1>1, <1>2, <1>3, <2>1, <2>2, <2>3, <2>4, SessionAnswer
<1>7. ASSUME NEW pc \in {"dispatch", "verify"}, task' = [task EXCEPT ![s].pc = pc]
      PROVE  \A t \in Sessions : Session(t)'
  <2>1. /\ task'[s].pc = pc /\ task'[s].rest = task[s].rest
        /\ \A t \in Sessions \ {s} : task'[t] = task[t]
    BY <1>2, <1>7 DEF Shape, TaskFields
  <2>2. Asked(s)' /\ Silent(s)'
    BY <1>1, <1>2, <1>3, <2>1 DEF Session, Asked, Silent
  <2>3. Told(s)'
    BY <1>1, <1>2, <2>1, Zenon DEF Session, Told
  <2>4. Shown(s)'
    BY <1>1, <1>2, <2>1, Zenon DEF Session, Shown, GoodHash, Uid
  <2> QED BY <1>1, <1>2, <2>1, <2>2, <2>3, <2>4, SessionFrame DEF Session
<1>8. CASE Take(s) \/ DispatchFails(s) \/ Dispatch(s)
  BY <1>5, <1>7, <1>8 DEF Take, DispatchFails, Dispatch
<1> QED BY <1>6, <1>8

\* The verdict on what the adapter returned.
LEMMA VerdictIsBacked ==
    ASSUME LoginInv, NEW s \in Sessions, NEW policy \in BOOLEAN, VerifyReturns(s, policy)
    PROVE  \A t \in Sessions : Session(t)'
<1> DEFINE r == call[s].reply
<1>1. \A t \in Sessions : Session(t)
  BY DEF LoginInv
<1>2. Shape /\ UNCHANGED <<pam, up, down, recorded>>
  BY Zenon DEF LoginInv, VerifyReturns, bridgeVars
<1>3. task[s].pc = "verify" /\ up[s] # Nil /\ r # None
  BY <1>1 DEF VerifyReturns, Session, Asked
<1>4. call[s].stage = "asked" /\ CallOK(s)
  <2>1. CallOK(s) /\ call[s].stage \in {"connected", "asked"}
    BY LoginAssumption DEF VerifyReturns, CallDrop, LoginInv, CallInv
  <2> QED BY <2>1, <1>3, Zenon DEF CallOK, Uid
<1>5. CASE Decide(s, "deny", None)
  BY <1>1, <1>2, <1>3, <1>5, SessionDecide DEF Decisions
<1>6. CASE ~Decide(s, "deny", None)
  <2>1. /\ Decide(s, "allow", r) /\ r.nonce = Nonce(s) /\ ~call[s].expired
        /\ Verify(Keys, AdapterName, r) /\ r.method = up[s].method
    BY <1>6 DEF VerifyReturns
  <2>2. r.uid = Uid(s) /\ r.confidence = Confidence /\ r.stamp = "in time"
    BY <2>1, <1>3, <1>4, Zenon DEF CallOK, Uid
  <2>3. r.hash = GoodHash(s)
    BY <2>1, <2>2, Zenon DEF Verify, GoodHash
  <2> HIDE DEF r
  <2> QED BY <1>1, <1>2, <1>3, <2>1, <2>3, SessionDecide DEF Decisions
<1> QED BY <1>5, <1>6

\* handle_client closes without a word.
LEMMA SessionRefuse ==
    ASSUME Shape, \A s \in Sessions : Session(s), NEW s \in Sessions, Refuse(s)
    PROVE  \A t \in Sessions : Session(t)'
<1>1. UNCHANGED <<pam, up, down, recorded>> /\ \A t \in Sessions : Rec(t)' = Rec(t)
  BY DEF Refuse, bridgeVars, Rec
<1>2. /\ task'[s].pc = "closed" /\ task'[s].rest = task[s].rest
      /\ \A t \in Sessions \ {s} : task'[t] = task[t]
  BY DEF Refuse, Shape, TaskFields
<1>3. Asked(s)' /\ Silent(s)'
  BY <1>1, <1>2 DEF Session, Asked, Silent
<1>4. Told(s)'
  BY <1>1, <1>2, Zenon DEF Session, Told
<1>5. Shown(s)'
  BY <1>1, <1>2, Zenon DEF Session, Shown, GoodHash, Uid
<1> QED BY <1>1, <1>2, <1>3, <1>4, <1>5, SessionFrame DEF Session

\* Every step of a task keeps what is said of the calls of pam_sm_authenticate ...
LEMMA TaskKeepsSessions ==
    ASSUME LoginInv, NEW s \in Sessions, TaskNext(s)
    PROVE  \A t \in Sessions : Session(t)'
<1>1. Shape /\ \A t \in Sessions : Session(t)
  BY DEF LoginInv
<1>2. CASE TakeFails(s) \/ Take(s) \/ DispatchFails(s) \/ Dispatch(s)
  BY <1>2, TaskDecides
<1>3. CASE LogOk(s) \/ LogFails(s)
  BY <1>1, <1>3, SessionLog
<1>4. CASE Write(s)
  BY <1>1, <1>4, SessionWrite
<1>5. CASE VerifySend(s) \/ Expire(s)
  <2>1. UNCHANGED <<pam, up, down, task, recorded>>
    BY <1>5 DEF VerifySend, Expire, bridgeVars, daemonVars
  <2>2. \A t \in Sessions : Rec(t)' = Rec(t)
    BY <2>1 DEF Rec
  <2> QED BY <1>1, <2>1, <2>2, SessionFrame
<1>6. CASE VerifyFails(s)
  <2>1. UNCHANGED <<pam, up, down, recorded>> /\ Decide(s, "deny", None) /\ task[s].pc = "verify"
    BY <1>6 DEF VerifyFails, bridgeVars
  <2>2. up[s] # Nil
    BY <1>1, <2>1 DEF Session, Asked
  <2> QED BY <1>1, <2>1, <2>2, SessionDecide DEF Decisions
<1>7. CASE \E policy \in BOOLEAN : VerifyReturns(s, policy)
  BY <1>7, VerdictIsBacked
<1>8. CASE Refuse(s)
  BY <1>1, <1>8, SessionRefuse
<1> QED BY <1>2, <1>3, <1>4, <1>5, <1>6, <1>7, <1>8 DEF TaskNext, Client

\* ... the shape of the state ...
LEMMA TaskKeepsShape ==
    ASSUME LoginInv, NEW s \in Sessions, TaskNext(s)
    PROVE  Shape'
<1>1. Shape
  BY DEF LoginInv
<1>2. UNCHANGED <<pam, up>>
  BY OthersLeaveBridge
<1>3. DOMAIN task[s] = TaskFields /\ DOMAIN task = Sessions /\ DOMAIN NewTask = TaskFields
  BY <1>1 DEF Shape, NewTask, TaskFields
<1>4. \A d, ev : Decide(s, d, ev) => DOMAIN task' = Sessions /\ \A t \in Sessions : DOMAIN task'[t] = TaskFields
  BY <1>1, <1>3 DEF Decide, Shape
<1>5. \A resp : Answer(s, resp) => DOMAIN task' = Sessions /\ \A t \in Sessions : DOMAIN task'[t] = TaskFields
  BY <1>1, <1>3 DEF Answer, Shape
<1>6. DOMAIN task' = Sessions /\ \A t \in Sessions : DOMAIN task'[t] = TaskFields
  <2>1. CASE TakeFails(s) \/ LogOk(s) \/ LogFails(s)
    BY <2>1, <1>5 DEF TakeFails, LogOk, LogFails
  <2>2. CASE DispatchFails(s) \/ VerifyFails(s) \/ \E policy \in BOOLEAN : VerifyReturns(s, policy)
    BY <2>2, <1>4, Zenon DEF DispatchFails, VerifyFails, VerifyReturns
  <2>3. CASE VerifySend(s) \/ Expire(s)
    BY <2>3, <1>1 DEF VerifySend, Expire, daemonVars, Shape
  <2>4. CASE Take(s) \/ Dispatch(s)
    BY <2>4, <1>1, <1>3, <1>4 DEF Take, Dispatch, Shape
  <2>5. CASE Write(s)
    BY <2>5, <1>1, <1>3 DEF Write, Shape
  <2>6. CASE Refuse(s)
    BY <2>6, <1>1, <1>3 DEF Refuse, Shape
  <2> QED BY <2>1, <2>2, <2>3, <2>4, <2>5, <2>6 DEF TaskNext, Client
<1>7. DOMAIN down' = Sessions
  BY <1>1 DEF TaskNext, Client, Refuse, TakeFails, Take, Dispatch, DispatchFails, LogOk, LogFails, Write, VerifySend,
              VerifyFails, VerifyReturns, Expire, bridgeVars, Shape
<1>8. recorded' \in {recorded, recorded \cup {Entry(s)}} /\ Entry(s).id = s
  BY DEF TaskNext, Client, Refuse, TakeFails, Take, Dispatch, DispatchFails, LogOk, LogFails, Write, VerifySend,
         VerifyFails, VerifyReturns, Expire, daemonVars, Entry
<1> QED BY <1>1, <1>2, <1>6, <1>7, <1>8 DEF Shape

\* ... and the calls of the adapter.
LEMMA TaskKeepsCalls ==
    ASSUME LoginInv, NEW s \in Sessions, TaskNext(s)
    PROVE  CallShape' /\ CallInv'
<1>1. /\ CallShape /\ CallInv /\ UNCHANGED up /\ s \in Calls /\ DOMAIN call[s] = CallFields /\ CallOK(s)
      /\ backlog \in Seq(Calls) /\ DOMAIN call = Calls
  BY OthersLeaveBridge, LoginAssumption DEF LoginInv, CallInv, CallShape, AdapterOK
<1>2. CASE UNCHANGED adapterVars
  BY <1>1, <1>2, CallFrame DEF CallShape, CallInv, AdapterOK, adapterVars
<1>3. CASE Dispatch(s)
  <2> DEFINE k == [call[s] EXCEPT !.stage = "connected"]
  <2>1. /\ call[s].stage = "none" /\ call' = [call EXCEPT ![s] = k]
        /\ backlog' = Append(backlog, s) /\ adapter' = adapter
    BY <1>3 DEF Dispatch, CallConnect
  <2>2. /\ DOMAIN k = CallFields /\ k.stage = "connected" /\ k.line = call[s].line /\ k.reply = call[s].reply
    BY <1>1 DEF CallFields
  <2>3. call'[s] = k /\ backlog' \in Seq(Calls)
    BY <1>1, <2>1
  <2> HIDE DEF k
  <2>4. CallOK(s)'
    BY <1>1, <2>1, <2>2, <2>3, Zenon DEF CallOK, Uid
  <2> QED BY <1>1, <2>1, <2>2, <2>3, <2>4, CallStep, Zenon
<1>4. CASE VerifySend(s)
  <2> DEFINE line == [id |-> s, nonce |-> Nonce(s), uid |-> Uid(s)]
             k == [call[s] EXCEPT !.stage = "asked", !.line = line]
  <2>1. /\ call[s].stage = "connected" /\ call' = [call EXCEPT ![s].stage = "asked", ![s].line = line]
        /\ backlog' = backlog /\ adapter' = adapter /\ task[s].pc = "verify"
    BY <1>4 DEF VerifySend, CallSend
  <2>2. /\ DOMAIN k = CallFields /\ k.stage = "asked" /\ k.line.uid = Uid(s) /\ k.reply = call[s].reply
    BY <1>1 DEF CallFields
  <2>3. call' = [call EXCEPT ![s] = k] /\ call'[s] = k
    BY <1>1, <2>1, Zenon
  <2>4. up[s] # Nil
    BY <2>1 DEF LoginInv, Session, Asked
  <2> HIDE DEF k
  <2>5. CallOK(s)'
    BY <1>1, <2>1, <2>2, <2>3, <2>4, Zenon DEF CallOK, Uid
  <2> QED BY <1>1, <2>1, <2>2, <2>3, <2>5, CallStep, Zenon
<1>5. CASE CallDrop(s)
  <2> DEFINE k == [call[s] EXCEPT !.stage = "over"]
  <2>1. call' = [call EXCEPT ![s] = Closed(k)] /\ backlog' = backlog /\ adapter' = adapter
    BY <1>5 DEF CallDrop
  <2>2. DOMAIN k = CallFields /\ k.stage = "over"
    BY <1>1 DEF CallFields
  <2> HIDE DEF k
  <2>3. DOMAIN Closed(k) = CallFields /\ Closed(k).stage = "over"
    BY <2>2, ClosedKeeps
  <2>4. CallOK(s)'
    BY <1>1, <2>1, <2>3, Zenon DEF CallOK, Uid
  <2> QED BY <1>1, <2>1, <2>3, <2>4, CallStep, Zenon
<1>6. CASE Expire(s)
  <2> DEFINE k == [call[s] EXCEPT !.expired = TRUE]
  <2>1. call' = [call EXCEPT ![s] = k] /\ backlog' = backlog /\ adapter' = adapter
    BY <1>6 DEF Expire, CallExpire
  <2>2. /\ DOMAIN k = CallFields /\ k.stage = call[s].stage /\ k.line = call[s].line
        /\ k.reply = call[s].reply /\ k.expired = TRUE
    BY <1>1 DEF CallFields
  <2>3. call'[s] = k
    BY <1>1, <2>1
  <2> HIDE DEF k
  <2>4. CallOK(s)'
    BY <1>1, <2>2, <2>3, Zenon DEF CallOK, Uid
  <2> QED BY <1>1, <2>1, <2>2, <2>4, CallStep, Zenon
<1> QED BY <1>2, <1>3, <1>4, <1>5, <1>6
        DEF TaskNext, Client, Refuse, TakeFails, Take, DispatchFails, LogOk, LogFails, Write, VerifyFails, VerifyReturns

\* A crash ends the tasks; of a log call under way the entry may be on disk, but
\* its caller hears nothing.
LEMMA CrashKeepsSession ==
    ASSUME LoginInv, Crash, NEW s \in Sessions
    PROVE  Session(s)'
<1>0. Session(s) /\ UNCHANGED <<pam, up, down>>
  BY DEF LoginInv, Crash, bridgeVars
<1>1. /\ Shape /\ Session(s) /\ UNCHANGED <<pam, up, down>>
      /\ task'[s] = IF OnLine(s) THEN [NewTask EXCEPT !.pc = "closed"]
                    ELSE IF up[s] # Nil THEN [NewTask EXCEPT !.pc = "answered"] ELSE task[s]
  BY DEF LoginInv, Crash, bridgeVars
<1>2. PICK S \in SUBSET {t \in Sessions : task[t].pc = "log"} : recorded' = recorded \cup {Entry(t) : t \in S}
  BY DEF Crash
<1>3. \A t \in S : Entry(t).id = t
  BY DEF Entry
<1>4. /\ Entry(s).caller = PeerUid[s] /\ Entry(s).uid = Uid(s) /\ Entry(s).decision = task[s].decision
      /\ Entry(s).evidence = task[s].evidence
  BY DEF Entry
<1>5. \/ task'[s] = task[s] /\ up[s] = Nil
      \/ task'[s].pc = "closed" /\ task'[s].rest = <<>>
      \/ task'[s].pc = "answered" /\ task'[s].rest = <<>> /\ up[s] # Nil
  BY <1>1 DEF NewTask
<1>6. CASE task[s].pc # "log"
  <2>1. Rec(s)' = Rec(s)
    BY <1>2, <1>3, <1>6 DEF Rec
  <2>2. CASE task'[s] = task[s]
    BY <1>1, <2>1, <2>2, SessionFrame
  <2>3. CASE task'[s].pc = "closed" /\ task'[s].rest = <<>>
    <3>1. Asked(s)' /\ Silent(s)'
      BY <1>1, <2>1, <2>3 DEF Session, Asked, Silent
    <3>2. Told(s)'
      BY <1>0, <2>1, <2>3, NothingIsBacked, Zenon DEF Session, Told
    <3>3. Shown(s)'
      BY <1>1, <2>1, <2>3, Zenon DEF Session, Shown, GoodHash, Uid
    <3> QED BY <3>1, <3>2, <3>3 DEF Session
  <2>4. CASE task'[s].pc = "answered" /\ task'[s].rest = <<>> /\ up[s] # Nil
    <3>1. Asked(s)' /\ Silent(s)'
      BY <1>1, <2>1, <2>4 DEF Session, Asked, Silent
    <3>2. Told(s)'
      BY <1>0, <2>1, <2>4, NothingIsBacked DEF Session, Told
    <3>3. Shown(s)'
      BY <1>1, <2>1, <2>4, Zenon DEF Session, Shown, GoodHash, Uid
    <3> QED BY <3>1, <3>2, <3>3 DEF Session
  <2> QED BY <1>5, <2>2, <2>3, <2>4
<1>7. CASE task[s].pc = "log"
  <2>1. up[s] # Nil /\ Rec(s) = {} /\ down[s] = <<>> /\ pam[s].line = <<>> /\ pam[s].code \notin Codes
    BY <1>1, <1>7 DEF Session, Asked, Silent
  <2>2. Rec(s)' \subseteq {Entry(s)}
    BY <1>2, <1>3, <2>1 DEF Rec
  <2>3. task'[s].pc \in {"closed", "answered"} /\ task'[s].rest = <<>>
    BY <1>5, <2>1
  <2>4. Asked(s)' /\ Silent(s)'
    BY <1>1, <2>1, <2>3 DEF Session, Asked, Silent
  <2>5. Told(s)'
    BY <1>0, <2>1, <2>3, NothingIsBacked DEF Told
  <2>6. task[s].decision = "allow" => task[s].evidence.hash = GoodHash(s)
    BY <1>1, <1>7 DEF Session, Shown
  <2>7. GoodHash(s)' = GoodHash(s) /\ Uid(s)' = Uid(s)
    BY <1>0, Zenon DEF GoodHash, Uid
  <2>8. Shown(s)'
    BY <1>1, <1>4, <2>2, <2>3, <2>6, <2>7 DEF Shown
  <2> QED BY <2>4, <2>5, <2>8 DEF Session
<1> QED BY <1>6, <1>7

\* It closes the daemon's ends of its connections to the adapter.
LEMMA CrashKeepsRest ==
    ASSUME LoginInv, Crash
    PROVE  Shape' /\ CallShape' /\ CallInv'
<1>1. Shape /\ CallShape /\ CallInv /\ UNCHANGED <<pam, up, down, adapter, backlog>>
  BY DEF LoginInv, Crash, bridgeVars
<1>2. Shape'
  <2>1. DOMAIN task' = Sessions /\ \A s \in Sessions : DOMAIN task'[s] = TaskFields
    <3>1. \A s \in Sessions : task'[s] \in {[NewTask EXCEPT !.pc = "closed"], [NewTask EXCEPT !.pc = "answered"], task[s]}
      BY DEF Crash
    <3>2. DOMAIN [NewTask EXCEPT !.pc = "closed"] = TaskFields /\ DOMAIN [NewTask EXCEPT !.pc = "answered"] = TaskFields
      BY DEF NewTask, TaskFields
    <3>3. DOMAIN task' = Sessions
      BY DEF Crash
    <3> QED BY <1>1, <3>1, <3>2, <3>3 DEF Shape
  <2>2. \A e \in recorded' : e.id \in Sessions
    <3>1. PICK S \in SUBSET {t \in Sessions : task[t].pc = "log"} : recorded' = recorded \cup {Entry(t) : t \in S}
      BY DEF Crash
    <3>2. \A t \in S : Entry(t).id = t /\ t \in Sessions
      BY DEF Entry
    <3> QED BY <1>1, <3>1, <3>2 DEF Shape
  <2> QED BY <1>1, <2>1, <2>2 DEF Shape
<1>3. ASSUME NEW c \in Calls
      PROVE  /\ DOMAIN call'[c] = CallFields /\ CallOK(c)'
             /\ call[c].stage \in {"asked", "over"} => call'[c].stage \in {"asked", "over"}
  <2> DEFINE k == [call[c] EXCEPT !.stage = "over"]
  <2>1. DOMAIN k = CallFields /\ k.stage = "over"
    BY <1>1 DEF CallShape, CallFields
  <2>2. call'[c] = IF call[c].stage \in {"connected", "asked"} THEN Closed(k) ELSE call[c]
    BY DEF Crash
  <2> HIDE DEF k
  <2>3. DOMAIN Closed(k) = CallFields /\ Closed(k).stage = "over"
    BY <2>1, ClosedKeeps
  <2>4. CASE call'[c] = Closed(k)
    BY <2>3, <2>4, Zenon DEF CallOK, Uid
  <2>5. CASE call'[c] = call[c]
    BY <1>1, <2>5, CallFrame DEF CallShape, CallInv
  <2> QED BY <2>2, <2>4, <2>5
<1>4. CallShape'
  BY <1>3 DEF Crash, CallShape
<1>5. CallInv'
  BY <1>1, <1>3 DEF CallInv, AdapterOK
<1> QED BY <1>2, <1>4, <1>5

-----------------------------------------------------------------------------
(* The theorems *)

\* Before the first call nothing has been asked, recorded or told.
LEMMA LoginInit ==
    ASSUME Init
    PROVE  BridgeShape /\ HoldsOwnFd /\ LoginInv
<1>1. /\ pam = [s \in Sessions |-> Idle] /\ fds = [f \in Fds |-> Nil]
      /\ up = [s \in Sessions |-> Nil] /\ down = [s \in Sessions |-> <<>>]
      /\ task = [s \in Sessions |-> NewTask] /\ recorded = {}
      /\ adapter = Accepting /\ backlog = <<>> /\ call = [c \in Calls |-> NoCall]
  BY DEF Init, BridgeInit, AdapterInit
<1>2. DOMAIN Idle = PamFields /\ Idle.fd = Nil /\ Idle.stream = Nil /\ Idle.pc = "idle" /\ Idle.line = <<>> /\ Idle.code = Nil
  BY DEF Idle, PamFields
<1>3. BridgeShape /\ HoldsOwnFd
  BY <1>1, <1>2 DEF BridgeShape, HeldAt, HoldsOwnFd
<1>4. DOMAIN NewTask = TaskFields /\ NewTask.pc = "new" /\ NewTask.rest = <<>>
  BY DEF NewTask, TaskFields
<1>5. Shape
  BY <1>1, <1>2, <1>4 DEF Shape
<1>6. \A s \in Sessions : Session(s)
  <2>1. Nil \notin Codes
    BY PamBridgeAssumption DEF Codes
  <2>2. \A s \in Sessions : Rec(s) = {}
    BY <1>1, Zenon DEF Rec
  <2>3. ASSUME NEW s \in Sessions PROVE Session(s)
    <3>1. /\ pam[s].line = <<>> /\ pam[s].code = Nil /\ up[s] = Nil /\ down[s] = <<>>
          /\ task[s].pc = "new" /\ task[s].rest = <<>>
      BY <1>1, <1>2, <1>4
    <3>2. Asked(s) /\ Silent(s)
      BY <2>1, <2>2, <3>1 DEF Asked, Silent
    <3>3. Told(s)
      BY <2>1, <3>1, NothingIsBacked DEF Told
    <3>4. Shown(s)
      BY <2>2, <3>1 DEF Shown
    <3> QED BY <3>2, <3>3, <3>4 DEF Session
  <2> QED BY <2>3, Zenon
<1>7. CallShape /\ CallInv
  <2>1. /\ DOMAIN NoCall = CallFields /\ NoCall.stage = "none" /\ NoCall.line = None /\ NoCall.reply = None
    BY DEF NoCall, CallFields
  <2>2. CallShape /\ \A c \in Calls : CallOK(c)
    BY <1>1, <2>1, Zenon DEF CallShape, CallOK
  <2>3. AdapterOK
    BY <1>1 DEF AdapterOK, Accepting
  <2> QED BY <2>2, <2>3 DEF CallInv
<1> QED BY <1>3, <1>5, <1>6, <1>7 DEF LoginInv

\* Each step of bridge, daemon, adapter or crash keeps the invariant.
LEMMA LoginNext ==
    ASSUME BridgeShape, HoldsOwnFd, LoginInv, [Next]_vars
    PROVE  BridgeShape' /\ HoldsOwnFd' /\ LoginInv'
<1>1. CASE BridgeNext
  <2>1. BridgeShape' /\ HoldsOwnFd'
    BY <1>1, BridgeKeepsFds
  <2>2. \A s \in Sessions : Session(s)'
    BY <1>1, SessionBridge DEF LoginInv
  <2>3. UNCHANGED <<task, recorded, call, adapter, backlog>>
    BY <1>1 DEF BridgeNext, daemonVars, adapterVars
  <2>4. Shape'
    BY <1>1, <2>1, <2>3, RequestsStay DEF LoginInv, Shape, BridgeShape
  <2>5. CallShape' /\ CallInv'
    BY <1>1, <2>3, RequestsStay, CallFrame, LoginAssumption, Zenon DEF LoginInv, CallShape, CallInv, AdapterOK
  <2> QED BY <2>1, <2>2, <2>4, <2>5 DEF LoginInv
<1>2. CASE \E s \in Sessions : TaskNext(s)
  <2>1. BridgeShape' /\ HoldsOwnFd'
    BY <1>2, OthersLeaveBridge DEF BridgeShape, HoldsOwnFd
  <2> QED BY <1>2, <2>1, TaskKeepsSessions, TaskKeepsShape, TaskKeepsCalls DEF LoginInv
<1>3. CASE Crash
  <2>1. BridgeShape' /\ HoldsOwnFd'
    BY <1>3, OthersLeaveBridge DEF BridgeShape, HoldsOwnFd
  <2> QED BY <1>3, <2>1, CrashKeepsSession, CrashKeepsRest DEF LoginInv
<1>4. CASE Adapter
  <2>1. UNCHANGED <<pam, fds, up, down, task, recorded>> /\ AdapterStep
    BY <1>4 DEF Adapter, bridgeVars, daemonVars
  <2>2. CallShape' /\ CallInv'
    BY <2>1, AdapterKeepsCalls DEF LoginInv
  <2>3. \A s \in Sessions : Rec(s)' = Rec(s)
    BY <2>1 DEF Rec
  <2>4. \A s \in Sessions : Session(s)'
    BY <2>1, <2>3, SessionFrame DEF LoginInv
  <2>5. Shape' /\ BridgeShape' /\ HoldsOwnFd'
    BY <2>1 DEF LoginInv, Shape, BridgeShape, HoldsOwnFd
  <2> QED BY <2>2, <2>4, <2>5 DEF LoginInv
<1>5. CASE UNCHANGED vars
  <2>1. UNCHANGED <<pam, fds, up, down, task, recorded, call, adapter, backlog>>
    BY <1>5 DEF vars, bridgeVars, adapterVars, daemonVars
  <2>2. \A s \in Sessions : Rec(s)' = Rec(s)
    BY <2>1 DEF Rec
  <2>3. \A s \in Sessions : Session(s)'
    BY <2>1, <2>2, SessionFrame DEF LoginInv
  <2>4. CallShape' /\ CallInv'
    BY <2>1, CallFrame DEF LoginInv, CallShape, CallInv, AdapterOK
  <2>5. Shape' /\ BridgeShape' /\ HoldsOwnFd'
    BY <2>1 DEF LoginInv, Shape, BridgeShape, HoldsOwnFd
  <2> QED BY <2>3, <2>4, <2>5 DEF LoginInv
<1> QED BY <1>1, <1>2, <1>3, <1>4, <1>5, NextCases

\* The invariant of every behaviour.
LEMMA LoginInvariant == Spec => [](BridgeShape /\ HoldsOwnFd /\ LoginInv)
<1>1. BridgeShape /\ HoldsOwnFd /\ LoginInv /\ [Next]_vars => BridgeShape' /\ HoldsOwnFd' /\ LoginInv'
  BY LoginNext
<1>2. Init => BridgeShape /\ HoldsOwnFd /\ LoginInv
  BY LoginInit
<1> QED BY <1>1, <1>2, PTL DEF Spec

\* No path of connect_with_timeout, wait_connected or authenticate leaves a socket
\* open, closes it twice, or closes what another call has been given since.
THEOREM DescriptorsAreOwned == Spec => []HoldsOwnFd
BY LoginInvariant, PTL

\* The request is for the user PAM named; whom the daemon decides for is the
\* subject of the call.
LEMMA UidIsSubject ==
    ASSUME NEW s \in Sessions, Session(s), up[s] # Nil
    PROVE  Uid(s) = Subject(s) /\ up[s].method = pam[s].cfg.method
BY Zenon DEF Session, Asked, Uid, RequestUid, Subject

\* PAM_SUCCESS and PAM_PERM_DENIED are returned only for a decision on record for
\* this call, about the user PAM named if root's process calls and about the
\* caller if not, whatever the daemon's crashes, failing log calls and timeouts
\* leave of the response.
THEOREM PamIsToldTheRecord == Spec => []ReturnsWhatIsRecorded
<1>1. LoginInv => ReturnsWhatIsRecorded
  <2> SUFFICES ASSUME LoginInv, NEW s \in Sessions, pam[s].code \in Codes
               PROVE  /\ Rec(s) # {}
                      /\ \A e \in Rec(s) : /\ e.caller = PeerUid[s] /\ e.uid = Subject(s)
                                           /\ e.decision = DecisionOf(pam[s].code)
    BY DEF ReturnsWhatIsRecorded, Codes, Rec, DecisionOf
  <2>1. BackedBy(Rec(s), DecisionOf(pam[s].code)) /\ Session(s)
    BY DEF LoginInv, Session, Told
  <2>2. Rec(s) # {} /\ \A e \in Rec(s) : e.decision = DecisionOf(pam[s].code)
    BY <2>1 DEF BackedBy
  <2>3. up[s] # Nil /\ \A e \in Rec(s) : e.caller = PeerUid[s] /\ e.uid = Uid(s)
    BY <2>1, <2>2, Zenon DEF Session, Asked, Shown
  <2>4. Uid(s) = Subject(s)
    BY <2>1, <2>3, UidIsSubject
  <2> QED BY <2>2, <2>3, <2>4
<1> QED BY <1>1, LoginInvariant, PTL

\* Every allow on record rests on evidence that the adapter's key signed, in time,
\* for the subject, the method and the nonce of this very call.
THEOREM AllowsHaveEvidence == Spec => []AllowsRestOnEvidence
<1>1. LoginInv => AllowsRestOnEvidence
  <2> SUFFICES ASSUME LoginInv, NEW e \in recorded, e.decision = "allow"
               PROVE  /\ e.uid = Subject(e.id)
                      /\ e.evidence.hash = EvidenceHash(Keys[AdapterName], Nonce(e.id), Subject(e.id),
                                               pam[e.id].cfg.method, Confidence, "in time")
    BY Zenon DEF AllowsRestOnEvidence
  <2>1. e.id \in Sessions /\ e \in Rec(e.id) /\ Session(e.id)
    BY Zenon DEF LoginInv, Shape, Rec
  <2>2. up[e.id] # Nil /\ e.uid = Uid(e.id) /\ e.evidence.hash = GoodHash(e.id)
    BY <2>1 DEF Session, Asked, Shown
  <2>3. Uid(e.id) = Subject(e.id) /\ up[e.id].method = pam[e.id].cfg.method
    BY <2>1, <2>2, UidIsSubject, Zenon
  <2> QED BY <2>2, <2>3, Zenon DEF GoodHash
<1> QED BY <1>1, LoginInvariant, PTL

-----------------------------------------------------------------------------
(* Types, and the bounds in them *)

\* A set of positions has a last one.
LEMMA LastPosition ==
    ASSUME NEW n \in Nat, NEW G, G \subseteq 1..n, G # {}
    PROVE  \E i \in G : \A j \in G : j <= i
<1> DEFINE T == {n - i : i \in G}
           R == OpToRel(<, Nat)
<1>1. T \subseteq Nat /\ T # {}
  <2>1. \A i \in G : i \in 1..n
    OBVIOUS
  <2>2. \A i \in 1..n : n - i \in Nat
    OBVIOUS
  <2> QED BY <2>1, <2>2, Zenon
<1>2. IsWellFoundedOn(R, Nat)
  BY NatLessThanWellFounded, Zenon
<1>3. \A x, y \in Nat : y < x => <<y, x>> \in R
  BY DEF OpToRel
<1> HIDE DEF R
<1>4. PICK x \in T : \A y \in T : ~(<<y, x>> \in R)
  <2> HIDE DEF T
  <2> QED BY <1>1, <1>2, WFMin, Zenon
<1>5. PICK i \in G : x = n - i
  BY <1>4
<1>6. ASSUME NEW j \in G PROVE j <= i
  <2>1. n - j \in T
    OBVIOUS
  <2>2. ~(n - j < x)
    BY <1>1, <1>3, <1>4, <2>1, Zenon
  <2>3. i \in Int /\ j \in Int
    <3>1. i \in 1..n /\ j \in 1..n
      BY Zenon
    <3> QED BY <3>1
  <2> QED BY <1>5, <2>2, <2>3
<1> QED BY <1>6

\* parse_argv: whichever timeout_ms is the last, it is one that was checked.
LEMMA TimeoutInRange ==
    ASSUME NEW argv \in Argvs, ParseArgv(argv) # Nil
    PROVE  ParseArgv(argv).timeout \in MIN_TIMEOUT..MAX_TIMEOUT
<1> DEFINE given == {i \in DOMAIN argv : argv[i].key = "timeout_ms"}
           last == CHOOSE i \in given : \A j \in given : j <= i
<1>1. \A i \in DOMAIN argv : ValidArg(argv[i])
  BY DEF ParseArgv
<1>2. ParseArgv(argv).timeout = ArgOf(argv, "timeout_ms", DEFAULT_TIMEOUT)
  BY <1>1 DEF ParseArgv
<1>3. ArgOf(argv, "timeout_ms", DEFAULT_TIMEOUT) = IF given = {} THEN DEFAULT_TIMEOUT ELSE argv[last].value
  BY DEF ArgOf
<1>4. CASE given = {}
  BY <1>2, <1>3, <1>4, PamBridgeAssumption
<1>5. CASE given # {}
  <2>1. PICK n \in Nat : DOMAIN argv = 1..n
    BY PamBridgeAssumption
  <2>2. given \subseteq 1..n
    BY <2>1
  <2> HIDE DEF given
  <2>3. \E i \in given : \A j \in given : j <= i
    BY <1>5, <2>2, LastPosition, Zenon
  <2>4. last \in given
    BY <2>3
  <2> HIDE DEF last
  <2>5. argv[last].key = "timeout_ms" /\ ValidArg(argv[last])
    BY <1>1, <2>4 DEF given
  <2>6. argv[last].value \in MIN_TIMEOUT..MAX_TIMEOUT
    BY <2>5 DEF ValidArg
  <2> QED BY <1>2, <1>3, <1>5, <2>6
<1> QED BY <1>4, <1>5

\* What is read, what is on its way and what is still to be written is at most one
\* line, and its end is its third piece.
OneLine(line, sent, rest) ==
    /\ line \in Seq(AllPieces) /\ sent \in Seq(AllPieces) /\ rest \in Seq(AllPieces)
    /\ Len(line) <= 2 /\ Len(line) + Len(sent) + Len(rest) <= 3
    /\ \A i \in 1..Len(sent) : Len(line) + i = 3 => sent[i] = Newline
    /\ \A i \in 1..Len(rest) : Len(line) + Len(sent) + i = 3 => rest[i] = Newline

\* A response is one line.
LEMMA LineBegins ==
    ASSUME NEW r \in Responses
    PROVE  OneLine(<<>>, <<>>, Wire(r))
<1>1. Piece(r, 1) \in AllPieces /\ Piece(r, 2) \in AllPieces /\ Newline \in AllPieces
  BY DEF AllPieces
<1>2. Wire(r) \in Seq(AllPieces) /\ Len(Wire(r)) = 3 /\ Wire(r)[3] = Newline
  BY <1>1 DEF Wire
<1> QED BY <1>2 DEF OneLine

\* The writer gives up, or the reader does.
LEMMA LineBreaks ==
    ASSUME NEW line, NEW sent, NEW rest, OneLine(line, sent, rest)
    PROVE  OneLine(line, sent, <<>>) /\ OneLine(<<>>, <<>>, rest) /\ OneLine(<<>>, sent, rest)
<1>1. /\ Len(line) \in Nat /\ Len(sent) \in Nat /\ Len(rest) \in Nat
      /\ <<>> \in Seq(AllPieces) /\ Len(<<>>) = 0
  BY DEF OneLine
<1>2. OneLine(line, sent, <<>>)
  BY <1>1 DEF OneLine
<1>3. OneLine(<<>>, <<>>, rest)
  BY <1>1 DEF OneLine
<1>4. OneLine(<<>>, sent, rest)
  BY <1>1 DEF OneLine
<1> QED BY <1>2, <1>3, <1>4

\* A piece is written.
LEMMA LineIsSent ==
    ASSUME NEW line, NEW sent, NEW rest, OneLine(line, sent, rest), rest # <<>>
    PROVE  OneLine(line, Append(sent, Head(rest)), Tail(rest))
<1>1. /\ line \in Seq(AllPieces) /\ sent \in Seq(AllPieces) /\ rest \in Seq(AllPieces)
      /\ Len(line) \in Nat /\ Len(sent) \in Nat /\ Len(rest) \in Nat
  BY DEF OneLine
<1>2. PICK p, s, r : p = Head(rest) /\ s = Append(sent, p) /\ r = Tail(rest)
  BY Zenon
<1>3. /\ p \in AllPieces /\ p = rest[1] /\ Len(rest) >= 1
      /\ r \in Seq(AllPieces) /\ Len(r) = Len(rest) - 1 /\ \A i \in 1..Len(r) : r[i] = rest[i + 1]
  BY <1>1, <1>2
<1>4. /\ s \in Seq(AllPieces) /\ Len(s) = Len(sent) + 1
      /\ \A i \in 1..Len(s) : s[i] = IF i = Len(sent) + 1 THEN p ELSE sent[i]
  BY <1>1, <1>2, <1>3
<1>5. \A i \in 1..Len(s) : Len(line) + i = 3 => s[i] = Newline
  BY <1>1, <1>3, <1>4 DEF OneLine
<1>6. \A i \in 1..Len(r) : Len(line) + Len(s) + i = 3 => r[i] = Newline
  BY <1>1, <1>3, <1>4 DEF OneLine
<1>7. Len(line) <= 2 /\ Len(line) + Len(s) + Len(r) <= 3
  BY <1>1, <1>3, <1>4 DEF OneLine
<1>8. OneLine(line, s, r)
  BY <1>1, <1>3, <1>4, <1>5, <1>6, <1>7 DEF OneLine
<1> QED BY <1>2, <1>8

\* A piece that is not the end of the line is read.
LEMMA LineIsRead ==
    ASSUME NEW line, NEW sent, NEW rest, OneLine(line, sent, rest), sent # <<>>, Head(sent) # Newline
    PROVE  OneLine(Append(line, Head(sent)), Tail(sent), rest)
<1>1. /\ line \in Seq(AllPieces) /\ sent \in Seq(AllPieces) /\ rest \in Seq(AllPieces)
      /\ Len(line) \in Nat /\ Len(sent) \in Nat /\ Len(rest) \in Nat
  BY DEF OneLine
<1>2. PICK p, l, s : p = Head(sent) /\ l = Append(line, p) /\ s = Tail(sent)
  BY Zenon
<1>3. /\ p \in AllPieces /\ p = sent[1] /\ Len(sent) >= 1 /\ p # Newline
      /\ s \in Seq(AllPieces) /\ Len(s) = Len(sent) - 1 /\ \A i \in 1..Len(s) : s[i] = sent[i + 1]
  BY <1>1, <1>2
<1>4. l \in Seq(AllPieces) /\ Len(l) = Len(line) + 1
  BY <1>1, <1>2, <1>3
<1>5. Len(line) + 1 # 3
  BY <1>1, <1>3 DEF OneLine
<1>6. \A i \in 1..Len(s) : Len(l) + i = 3 => s[i] = Newline
  BY <1>1, <1>3, <1>4 DEF OneLine
<1>7. \A i \in 1..Len(rest) : Len(l) + Len(s) + i = 3 => rest[i] = Newline
  BY <1>1, <1>3, <1>4 DEF OneLine
<1>8. Len(l) <= 2 /\ Len(l) + Len(s) + Len(rest) <= 3
  BY <1>1, <1>3, <1>4, <1>5 DEF OneLine
<1>9. OneLine(l, s, rest)
  BY <1>1, <1>3, <1>4, <1>6, <1>7, <1>8 DEF OneLine
<1> QED BY <1>2, <1>9

PamPcs == {"idle", "lookup", "socket", "connect", "poll", "sockopt", "send", "read", "return", "done"}
PamCodes == {Nil, "SUCCESS", "PERM_DENIED", "AUTH_ERR", "USER_UNKNOWN"}
TaskPcs == {"new", "dispatch", "verify", "log", "write", "answered", "closed"}

\* The record of a call; while it runs, its timeout is one parse_argv accepts.
PamOK(k) ==
    /\ k.pc \in PamPcs /\ k.code \in PamCodes
    /\ k.buf_len \in 0..MAX_PASSWD_BUF /\ k.left \in 0..MAX_TIMEOUT
    /\ k.pc \notin {"idle", "return", "done"} => k.cfg.timeout \in MIN_TIMEOUT..MAX_TIMEOUT

\* What makes the types inductive, beside the invariants above.
TypeInv ==
    /\ \A s \in Sessions : /\ PamOK(pam[s]) /\ task[s].pc \in TaskPcs
                            /\ OneLine(pam[s].line, down[s], task[s].rest)
    /\ \A e \in recorded : e.decision \in Decisions
    /\ adapter.pc \in {"accept", "read", "sign"} /\ (adapter.pc = "accept" => adapter.cur = None)

\* A call takes a step that reads nothing, or forgets what it has read.
LEMMA TypesInside ==
    ASSUME Shape, TypeInv, NEW s \in Sessions, NEW k, pam' = [pam EXCEPT ![s] = k],
           k.line \in {pam[s].line, <<>>}, PamOK(k), UNCHANGED <<down, task, recorded, adapter>>
    PROVE  TypeInv'
<1>1. pam'[s] = k /\ \A t \in Sessions \ {s} : pam'[t] = pam[t]
  BY DEF Shape
<1>2. \A t \in Sessions : PamOK(pam'[t]) /\ pam'[t].line \in {pam[t].line, <<>>}
  BY <1>1 DEF TypeInv
<1>3. ASSUME NEW t \in Sessions
      PROVE  task'[t].pc \in TaskPcs /\ OneLine(pam'[t].line, down'[t], task'[t].rest)
  <2>1. OneLine(pam[t].line, down[t], task[t].rest) /\ OneLine(<<>>, down[t], task[t].rest) /\ task[t].pc \in TaskPcs
    BY LineBreaks DEF TypeInv
  <2> QED BY <1>2, <2>1
<1> QED BY <1>2, <1>3 DEF TypeInv

\* A call returns.
LEMMA TypesReturn ==
    ASSUME Shape, TypeInv, NEW s \in Sessions, Return(s), UNCHANGED <<task, recorded, adapter>>
    PROVE  TypeInv'
<1>1. /\ pam'[s].pc = "done" /\ pam'[s].line = <<>> /\ pam'[s].code = pam[s].code
      /\ pam'[s].buf_len = 0 /\ pam'[s].left = 0 /\ down'[s] = <<>>
      /\ \A t \in Sessions \ {s} : pam'[t] = pam[t] /\ down'[t] = down[t]
  BY DEF Return, Idle, Shape
<1>2. PamOK(pam'[s])
  <2>1. pam[s].code \in PamCodes
    BY Zenon DEF TypeInv, PamOK
  <2>2. 0 \in 0..MAX_PASSWD_BUF /\ 0 \in 0..MAX_TIMEOUT
    BY PamBridgeAssumption
  <2> QED BY <1>1, <2>1, <2>2, Zenon DEF PamOK, PamPcs
<1>3. OneLine(<<>>, <<>>, task[s].rest)
  BY LineBreaks DEF TypeInv
<1>4. ASSUME NEW t \in Sessions
      PROVE  PamOK(pam'[t]) /\ task'[t].pc \in TaskPcs /\ OneLine(pam'[t].line, down'[t], task'[t].rest)
  <2>1. CASE t = s
    BY <1>1, <1>2, <1>3, <2>1, Zenon DEF TypeInv
  <2>2. CASE t # s
    BY <1>1, <2>2, Zenon DEF TypeInv
  <2> QED BY <2>1, <2>2
<1> QED BY <1>4 DEF TypeInv

\* uid_for_user: the buffer stays within its limit.
LEMMA BufferIsBounded ==
    ASSUME NEW b \in 0..MAX_PASSWD_BUF
    PROVE  (IF b * 2 < MAX_PASSWD_BUF THEN b * 2 ELSE MAX_PASSWD_BUF) \in 0..MAX_PASSWD_BUF
BY PamBridgeAssumption

\* Every step of the bridge.
LEMMA BridgeKeepsTypes ==
    ASSUME Shape, TypeInv, BridgeNext
    PROVE  TypeInv'
<1>1. PICK s \in Sessions : BridgeCase(s)
  BY BridgeCases
<1>2. UNCHANGED <<task, recorded, adapter>>
  BY DEF BridgeNext, daemonVars, adapterVars
<1>3. PICK k : k = pam[s]
  OBVIOUS
<1>4. DOMAIN k = PamFields /\ PamOK(k)
  BY <1>3 DEF Shape, TypeInv
<1>5. ASSUME NEW code \in PamCodes, Leave(s, code) PROVE TypeInv'
  <2> DEFINE j == [k EXCEPT !.pc = "return", !.code = code, !.line = <<>>]
  <2>1. pam' = [pam EXCEPT ![s] = j] /\ down' = down
    BY <1>3, <1>5, Zenon DEF Leave
  <2>2. j.pc = "return" /\ j.code = code /\ j.line = <<>> /\ j.buf_len = k.buf_len /\ j.left = k.left
    BY <1>4 DEF PamFields
  <2> HIDE DEF j
  <2>3. PamOK(j)
    BY <1>4, <2>2 DEF PamOK, PamPcs
  <2> QED BY <1>2, <1>3, <2>1, <2>2, <2>3, TypesInside
<1>6. CASE GivesUp(s)
  BY <1>5, <1>6 DEF GivesUp, PamCodes
<1>7. ASSUME NEW argv \in Argvs, NEW user, Begun(s, argv, user) PROVE TypeInv'
  <2> DEFINE c == ParseArgv(argv)
             j == [k EXCEPT !.pc = "lookup", !.cfg = c, !.user = user, !.buf_len = PASSWD_BUF]
  <2>1. c # Nil /\ pam' = [pam EXCEPT ![s] = j] /\ down' = down
    BY <1>3, <1>7, Zenon DEF Begun
  <2>2. c.timeout \in MIN_TIMEOUT..MAX_TIMEOUT
    BY <2>1, TimeoutInRange
  <2> HIDE DEF c
  <2>3. /\ j.pc = "lookup" /\ j.cfg = c /\ j.buf_len = PASSWD_BUF /\ j.line = k.line
        /\ j.code = k.code /\ j.left = k.left
    BY <1>4 DEF PamFields
  <2> HIDE DEF j
  <2>4. PASSWD_BUF \in 0..MAX_PASSWD_BUF
    BY PamBridgeAssumption
  <2>5. PamOK(j)
    BY <1>4, <2>2, <2>3, <2>4 DEF PamOK, PamPcs
  <2> QED BY <1>2, <1>3, <2>1, <2>3, <2>5, TypesInside, Zenon
<1>8. CASE Return(s)
  BY <1>2, <1>8, TypesReturn
<1>9. CASE ReadEnd(s, Eof(s))
  <2>1. InterpretResponse(k.line, s) \in PamCodes
    BY DEF InterpretResponse, PamCodes
  <2> QED BY <1>3, <1>5, <1>9, <2>1 DEF ReadEnd
<1>10. CASE LookupRange(s)
  <2> DEFINE b == IF k.buf_len * 2 < MAX_PASSWD_BUF THEN k.buf_len * 2 ELSE MAX_PASSWD_BUF
             j == [k EXCEPT !.buf_len = b]
  <2>1. pam' = [pam EXCEPT ![s] = j] /\ down' = down
    BY <1>3, <1>10 DEF LookupRange
  <2>2. b \in 0..MAX_PASSWD_BUF
    BY <1>4, BufferIsBounded DEF PamOK
  <2> HIDE DEF b
  <2>3. /\ j.pc = k.pc /\ j.cfg = k.cfg /\ j.buf_len = b /\ j.line = k.line /\ j.code = k.code /\ j.left = k.left
    BY <1>4 DEF PamFields
  <2> HIDE DEF j
  <2>4. PamOK(j)
    BY <1>4, <2>2, <2>3 DEF PamOK
  <2> QED BY <1>2, <1>3, <2>1, <2>3, <2>4, TypesInside, Zenon
<1>11. CASE LookupFound(s)
  <2>1. PICK u : pam' = [pam EXCEPT ![s].pc = "socket", ![s].uid = u, ![s].buf_len = 0]
    BY <1>11, Zenon DEF LookupFound
  <2> DEFINE j == [k EXCEPT !.pc = "socket", !.uid = u, !.buf_len = 0]
  <2>2. pam' = [pam EXCEPT ![s] = j] /\ down' = down /\ k.pc = "lookup"
    BY <1>3, <1>11, <2>1, Zenon DEF LookupFound
  <2>3. /\ j.pc = "socket" /\ j.cfg = k.cfg /\ j.buf_len = 0 /\ j.line = k.line /\ j.code = k.code /\ j.left = k.left
    BY <1>4 DEF PamFields
  <2> HIDE DEF j
  <2>4. PamOK(j)
    BY <1>4, <2>2, <2>3, PamBridgeAssumption DEF PamOK, PamPcs
  <2> QED BY <1>2, <1>3, <2>2, <2>3, <2>4, TypesInside, Zenon
<1>12. CASE NewSocket(s)
  <2>1. PICK fd : pam' = [pam EXCEPT ![s].pc = "connect", ![s].fd = fd]
    BY <1>12, Zenon DEF NewSocket
  <2> DEFINE j == [k EXCEPT !.pc = "connect", !.fd = fd]
  <2>2. pam' = [pam EXCEPT ![s] = j] /\ down' = down /\ k.pc = "socket"
    BY <1>3, <1>12, <2>1, Zenon DEF NewSocket
  <2>3. /\ j.pc = "connect" /\ j.cfg = k.cfg /\ j.buf_len = k.buf_len /\ j.line = k.line /\ j.code = k.code
        /\ j.left = k.left
    BY <1>4 DEF PamFields
  <2> HIDE DEF j
  <2>4. PamOK(j)
    BY <1>4, <2>2, <2>3 DEF PamOK, PamPcs
  <2> QED BY <1>2, <1>3, <2>2, <2>3, <2>4, TypesInside, Zenon
<1>13. CASE pam[s].pc \in RawPcs /\ (CloseFd(s) \/ StreamFromFd(s))
  <2>1. k.cfg.timeout \in MIN_TIMEOUT..MAX_TIMEOUT
    BY <1>3, <1>4, <1>13 DEF PamOK, RawPcs
  <2>2. /\ pam' = [pam EXCEPT ![s] = pam'[s]] /\ down' = down
        /\ pam'[s].cfg = k.cfg /\ pam'[s].buf_len = k.buf_len /\ pam'[s].line = k.line
        /\ \/ pam'[s].pc = "return" /\ pam'[s].code = "AUTH_ERR" /\ pam'[s].left = 0
           \/ pam'[s].pc = "send" /\ pam'[s].code = k.code /\ pam'[s].left = k.left
    BY <1>3, <1>4, <1>13 DEF CloseFd, StreamFromFd, PamFields, Shape
  <2>3. PamOK(pam'[s])
    BY <1>4, <2>1, <2>2, PamBridgeAssumption DEF PamOK, PamPcs, PamCodes
  <2>4. PICK j : j = pam'[s]
    OBVIOUS
  <2> QED BY <1>2, <1>3, <2>2, <2>3, <2>4, TypesInside
<1>14. CASE ConnectPending(s, Listening(s)) \/ PollReady(s) \/ PollInterrupted(s) \/ Send(s)
  <2>1. k.pc \in {"connect", "poll", "send"} /\ k.cfg.timeout \in MIN_TIMEOUT..MAX_TIMEOUT
    BY <1>3, <1>4, <1>14 DEF ConnectPending, PollReady, PollInterrupted, Send, PamOK
  <2>2. PICK pc \in {"poll", "sockopt", "read"}, left \in 0..MAX_TIMEOUT :
             pam' = [pam EXCEPT ![s] = [k EXCEPT !.pc = pc, !.left = left]]
    <3>1. CASE ConnectPending(s, Listening(s))
      <4>1. k.cfg.timeout \in 0..MAX_TIMEOUT
        BY <2>1, PamBridgeAssumption
      <4>2. pam' = [pam EXCEPT ![s] = [k EXCEPT !.pc = "poll", !.left = k.cfg.timeout]]
        BY <1>3, <3>1, Zenon DEF ConnectPending
      <4> QED BY <4>1, <4>2, Zenon
    <3>2. CASE PollReady(s)
      <4>1. 0 \in 0..MAX_TIMEOUT
        BY PamBridgeAssumption
      <4>2. pam' = [pam EXCEPT ![s] = [k EXCEPT !.pc = "sockopt", !.left = 0]]
        BY <1>3, <3>2, Zenon DEF PollReady
      <4> QED BY <4>1, <4>2, Zenon
    <3>3. CASE PollInterrupted(s)
      <4>1. k.pc = "poll" /\ k.left > 0 /\ pam' = [pam EXCEPT ![s] = [k EXCEPT !.left = k.left - 1]]
        BY <1>3, <3>3 DEF PollInterrupted
      <4>2. k.left - 1 \in 0..MAX_TIMEOUT
        BY <1>4, <4>1, PamBridgeAssumption DEF PamOK
      <4>3. [k EXCEPT !.left = k.left - 1] = [k EXCEPT !.pc = "poll", !.left = k.left - 1]
        BY <1>4, <4>1, Zenon DEF PamFields
      <4> QED BY <4>1, <4>2, <4>3, Zenon
    <3>4. CASE Send(s)
      <4>1. k.pc = "send" /\ pam' = [pam EXCEPT ![s] = [k EXCEPT !.pc = "read"]]
        BY <1>3, <3>4 DEF Send, Goto
      <4>2. k.left \in 0..MAX_TIMEOUT
        BY <1>4 DEF PamOK
      <4>3. [k EXCEPT !.pc = "read"] = [k EXCEPT !.pc = "read", !.left = k.left]
        BY <1>4, Zenon DEF PamFields
      <4> QED BY <4>1, <4>2, <4>3, Zenon
    <3> QED BY <1>14, <3>1, <3>2, <3>3, <3>4, Zenon
  <2> DEFINE j == [k EXCEPT !.pc = pc, !.left = left]
  <2>3. /\ j.pc = pc /\ j.cfg = k.cfg /\ j.buf_len = k.buf_len /\ j.line = k.line /\ j.code = k.code /\ j.left = left
    BY <1>4 DEF PamFields
  <2>4. pam' = [pam EXCEPT ![s] = j] /\ down' = down
    BY <1>14, <2>2 DEF ConnectPending, PollReady, PollInterrupted, Send
  <2> HIDE DEF j
  <2>5. PamOK(j)
    BY <1>4, <2>1, <2>3 DEF PamOK, PamPcs
  <2> QED BY <1>2, <1>3, <2>3, <2>4, <2>5, TypesInside, Zenon
<1>15. CASE ReadPiece(s)
  <2> DEFINE j == [k EXCEPT !.line = Append(k.line, Head(down[s]))]
  <2>1. /\ pam' = [pam EXCEPT ![s] = j] /\ down' = [down EXCEPT ![s] = Tail(down[s])]
        /\ down[s] # <<>> /\ Head(down[s]) # Newline
    BY <1>3, <1>15 DEF ReadPiece
  <2>2. /\ j.pc = k.pc /\ j.cfg = k.cfg /\ j.buf_len = k.buf_len /\ j.code = k.code /\ j.left = k.left
        /\ j.line = Append(k.line, Head(down[s]))
    BY <1>4 DEF PamFields
  <2> HIDE DEF j
  <2>3. PamOK(j)
    BY <1>4, <2>2 DEF PamOK
  <2>4. OneLine(j.line, Tail(down[s]), task[s].rest)
    <3>1. PICK sent, rest : sent = down[s] /\ rest = task[s].rest
      OBVIOUS
    <3>2. OneLine(k.line, sent, rest)
      BY <1>3, <3>1 DEF TypeInv
    <3>3. OneLine(Append(k.line, Head(sent)), Tail(sent), rest)
      BY <2>1, <3>1, <3>2, LineIsRead
    <3> QED BY <2>2, <3>1, <3>3, Zenon
  <2>5. /\ pam'[s] = j /\ down'[s] = Tail(down[s])
        /\ \A t \in Sessions \ {s} : pam'[t] = pam[t] /\ down'[t] = down[t]
    BY <2>1 DEF Shape
  <2>6. ASSUME NEW t \in Sessions
        PROVE  PamOK(pam'[t]) /\ task'[t].pc \in TaskPcs /\ OneLine(pam'[t].line, down'[t], task'[t].rest)
    <3>1. CASE t = s
      BY <1>2, <2>3, <2>4, <2>5, <3>1 DEF TypeInv
    <3>2. CASE t # s
      BY <1>2, <2>5, <3>2 DEF TypeInv
    <3> QED BY <3>1, <3>2
  <2> QED BY <1>2, <2>6 DEF TypeInv
<1> QED BY <1>1, <1>6, <1>7, <1>8, <1>9, <1>10, <1>11, <1>12, <1>13, <1>14, <1>15 DEF BridgeCase

\* A task answers, once: nothing has been written before.
LEMMA TypesAnswer ==
    ASSUME Shape, TypeInv, UNCHANGED <<pam, down, adapter>>, NEW s \in Sessions, Silent(s),
           task[s].pc \in {"new", "log"}, NEW r \in Responses, Answer(s, r),
           \A e \in recorded' : e.decision \in Decisions
    PROVE  TypeInv'
<1>1. /\ task'[s].pc = "write" /\ task'[s].rest = Wire(r)
      /\ \A t \in Sessions \ {s} : task'[t] = task[t]
  BY DEF Answer, NewTask, Shape
<1>2. down[s] = <<>> /\ pam[s].line = <<>>
  BY DEF Silent
<1>3. OneLine(pam[s].line, down[s], task'[s].rest)
  BY <1>1, <1>2, LineBegins, Zenon
<1>4. ASSUME NEW t \in Sessions
      PROVE  PamOK(pam'[t]) /\ task'[t].pc \in TaskPcs /\ OneLine(pam'[t].line, down'[t], task'[t].rest)
  <2>1. CASE t = s
    BY <1>1, <1>3, <2>1, Zenon DEF TypeInv, TaskPcs
  <2>2. CASE t # s
    BY <1>1, <2>2 DEF TypeInv
  <2> QED BY <2>1, <2>2, Zenon
<1> QED BY <1>4, Zenon DEF TypeInv

\* A task moves on and writes nothing.
LEMMA TypesMove ==
    ASSUME Shape, TypeInv, UNCHANGED <<pam, down, recorded, adapter>>, NEW s \in Sessions,
           task'[s].pc \in TaskPcs, task'[s].rest \in {task[s].rest, <<>>},
           \A t \in Sessions \ {s} : task'[t] = task[t]
    PROVE  TypeInv'
<1>1. OneLine(pam[s].line, down[s], task'[s].rest)
  BY LineBreaks DEF TypeInv
<1>2. ASSUME NEW t \in Sessions
      PROVE  PamOK(pam'[t]) /\ task'[t].pc \in TaskPcs /\ OneLine(pam'[t].line, down'[t], task'[t].rest)
  <2>1. CASE t = s
    BY <1>1, <2>1 DEF TypeInv
  <2>2. CASE t # s
    BY <2>2 DEF TypeInv
  <2> QED BY <2>1, <2>2
<1> QED BY <1>2 DEF TypeInv

\* Every step of a task.
LEMMA TaskKeepsTypes ==
    ASSUME LoginInv, TypeInv, NEW s \in Sessions, TaskNext(s)
    PROVE  TypeInv'
<1>1. /\ Shape /\ Session(s) /\ pam' = pam
      /\ DOMAIN task = Sessions /\ DOMAIN task[s] = TaskFields /\ DOMAIN down = Sessions
  BY OthersLeaveBridge DEF LoginInv, Shape
<1>2. Silent(s)
  BY <1>1, Zenon DEF Session
<1>3. \A id \in Sessions \cup {Nil} : ResponseError(id) \in Responses
  BY DEF Responses
<1>4. ASSUME NEW d, NEW ev, Decide(s, d, ev), UNCHANGED <<down, recorded, adapter>> PROVE TypeInv'
  <2>1. /\ task'[s].pc = "log" /\ task'[s].rest = task[s].rest
        /\ \A t \in Sessions \ {s} : task'[t] = task[t]
    BY <1>1, <1>4 DEF Decide, TaskFields
  <2>2. task'[s].pc \in TaskPcs
    BY <2>1 DEF TaskPcs
  <2> QED BY <1>1, <1>4, <2>1, <2>2, TypesMove, Zenon
<1>5. ASSUME NEW pc \in {"dispatch", "verify"}, task' = [task EXCEPT ![s].pc = pc], UNCHANGED <<down, recorded, adapter>>
      PROVE  TypeInv'
  <2>1. /\ task'[s].pc = pc /\ task'[s].rest = task[s].rest
        /\ \A t \in Sessions \ {s} : task'[t] = task[t]
    BY <1>1, <1>5 DEF TaskFields
  <2>2. task'[s].pc \in TaskPcs
    BY <2>1 DEF TaskPcs
  <2> QED BY <1>1, <1>5, <2>1, <2>2, TypesMove
<1>6. CASE TakeFails(s)
  <2>1. PICK r \in Responses : Answer(s, r)
    BY <1>3, <1>6 DEF TakeFails
  <2>2. UNCHANGED <<down, recorded, adapter>> /\ task[s].pc = "new"
    BY <1>6 DEF TakeFails, bridgeVars, adapterVars
  <2>3. \A e \in recorded' : e.decision \in Decisions
    BY <2>2 DEF TypeInv
  <2> QED BY <1>1, <1>2, <2>1, <2>2, <2>3, TypesAnswer
<1>7. CASE Take(s) \/ Dispatch(s)
  <2>1. UNCHANGED <<down, recorded, adapter>>
    BY <1>7 DEF Take, Dispatch, CallConnect, bridgeVars, adapterVars
  <2> QED BY <1>4, <1>5, <1>7, <2>1 DEF Take, Dispatch
<1>8. CASE DispatchFails(s) \/ VerifyFails(s) \/ \E policy \in BOOLEAN : VerifyReturns(s, policy)
  <2>1. UNCHANGED <<down, recorded, adapter>>
    BY <1>8 DEF DispatchFails, VerifyFails, VerifyReturns, CallDrop, bridgeVars, adapterVars
  <2>2. \E d, ev : Decide(s, d, ev)
    BY <1>8, Zenon DEF DispatchFails, VerifyFails, VerifyReturns
  <2> QED BY <1>4, <2>1, <2>2
<1>9. CASE LogOk(s) \/ LogFails(s)
  <2>1. task[s].pc = "log" /\ task[s].decision \in Decisions /\ Entry(s).decision = task[s].decision
    BY <1>1, <1>9, Zenon DEF LogOk, LogFails, Session, Shown, Entry
  <2>2. UNCHANGED <<down, adapter>> /\ recorded' \in {recorded, recorded \cup {Entry(s)}}
    BY <1>9 DEF LogOk, LogFails, bridgeVars, adapterVars
  <2>3. \A e \in recorded' : e.decision \in Decisions
    BY <2>1, <2>2, Zenon DEF TypeInv
  <2>4. PICK r \in Responses : Answer(s, r)
    <3>1. ResponseDecision(s, task[s].decision) \in Responses
      BY <2>1 DEF Responses
    <3> QED BY <1>3, <1>9, <3>1, Zenon DEF LogOk, LogFails
  <2> QED BY <1>1, <1>2, <2>1, <2>2, <2>3, <2>4, TypesAnswer
<1>10. CASE Write(s)
  <2>1. UNCHANGED <<recorded, adapter>> /\ task[s].pc = "write"
    BY <1>10 DEF Write, adapterVars
  <2>2. CASE ~OnLine(s) \/ task[s].rest = <<>>
    <3>1. /\ task'[s].pc = "answered" /\ task'[s].rest = <<>> /\ down' = down
          /\ \A t \in Sessions \ {s} : task'[t] = task[t]
      BY <1>1, <1>10, <2>2 DEF Write, NewTask
    <3>2. task'[s].pc \in TaskPcs
      BY <3>1 DEF TaskPcs
    <3> QED BY <1>1, <2>1, <3>1, <3>2, TypesMove, Zenon
  <2>3. CASE ~(~OnLine(s) \/ task[s].rest = <<>>)
    <3>1. PICK line, sent, rest : line = pam[s].line /\ sent = down[s] /\ rest = task[s].rest
      OBVIOUS
    <3>2. /\ down' = [down EXCEPT ![s] = Append(sent, Head(rest))] /\ rest # <<>>
          /\ task' = [task EXCEPT ![s].rest = Tail(rest)]
      BY <1>10, <2>3, <3>1 DEF Write
    <3>3. /\ down'[s] = Append(sent, Head(rest)) /\ task'[s].rest = Tail(rest) /\ task'[s].pc = task[s].pc
          /\ \A t \in Sessions \ {s} : task'[t] = task[t] /\ down'[t] = down[t]
      BY <1>1, <3>2 DEF TaskFields
    <3>4. OneLine(line, Append(sent, Head(rest)), Tail(rest))
      <4>1. OneLine(line, sent, rest)
        BY <3>1 DEF TypeInv
      <4> QED BY <3>2, <4>1, LineIsSent
    <3>5. ASSUME NEW t \in Sessions
          PROVE  PamOK(pam'[t]) /\ task'[t].pc \in TaskPcs /\ OneLine(pam'[t].line, down'[t], task'[t].rest)
      <4>1. CASE t = s
        BY <1>1, <3>1, <3>3, <3>4, <4>1, Zenon DEF TypeInv
      <4>2. CASE t # s
        BY <1>1, <3>3, <4>2, Zenon DEF TypeInv
      <4> QED BY <4>1, <4>2
    <3> QED BY <2>1, <3>5 DEF TypeInv
  <2> QED BY <2>2, <2>3
<1>11. CASE VerifySend(s) \/ Expire(s)
  <2>1. UNCHANGED <<down, task, recorded, adapter>>
    BY <1>11 DEF VerifySend, Expire, CallSend, CallExpire, bridgeVars, daemonVars
  <2> QED BY <1>1, <2>1, Zenon DEF TypeInv
<1>12. CASE Refuse(s)
  <2>1. /\ task'[s].pc = "closed" /\ task'[s].rest = task[s].rest
        /\ \A t \in Sessions \ {s} : task'[t] = task[t]
        /\ UNCHANGED <<down, recorded, adapter>>
    BY <1>1, <1>12 DEF Refuse, TaskFields, bridgeVars, adapterVars
  <2>2. task'[s].pc \in TaskPcs
    BY <2>1 DEF TaskPcs
  <2> QED BY <1>1, <2>1, <2>2, TypesMove, Zenon
<1> QED BY <1>6, <1>7, <1>8, <1>9, <1>10, <1>11, <1>12 DEF TaskNext, Client

\* A crash: of what a task was writing no more comes.
LEMMA CrashKeepsTypes ==
    ASSUME LoginInv, TypeInv, Crash
    PROVE  TypeInv'
<1>1. UNCHANGED <<pam, down, adapter>>
  BY DEF Crash, bridgeVars
<1>2. ASSUME NEW s \in Sessions
      PROVE  task'[s].pc \in TaskPcs /\ OneLine(pam'[s].line, down'[s], task'[s].rest)
  <2>1. \/ task'[s] = task[s]
        \/ task'[s].pc \in {"closed", "answered"} /\ task'[s].rest = <<>>
    <3>1. task'[s] = IF OnLine(s) THEN [NewTask EXCEPT !.pc = "closed"]
                     ELSE IF up[s] # Nil THEN [NewTask EXCEPT !.pc = "answered"] ELSE task[s]
      BY DEF Crash
    <3> QED BY <3>1 DEF NewTask
  <2>2. OneLine(pam[s].line, down[s], <<>>) /\ OneLine(pam[s].line, down[s], task[s].rest) /\ task[s].pc \in TaskPcs
    BY LineBreaks DEF TypeInv
  <2> QED BY <1>1, <2>1, <2>2 DEF TaskPcs
<1>3. \A e \in recorded' : e.decision \in Decisions
  <2>1. PICK S \in SUBSET {t \in Sessions : task[t].pc = "log"} : recorded' = recorded \cup {Entry(t) : t \in S}
    BY DEF Crash
  <2>2. \A t \in S : Entry(t).decision \in Decisions
    BY DEF Entry, LoginInv, Session, Shown
  <2> QED BY <2>1, <2>2 DEF TypeInv
<1> QED BY <1>1, <1>2, <1>3, Zenon DEF TypeInv

\* Every step of the adapter.
LEMMA AdapterKeepsTypes ==
    ASSUME LoginInv, TypeInv, Adapter
    PROVE  TypeInv'
<1>1. UNCHANGED <<pam, down, task, recorded>>
  BY DEF Adapter, bridgeVars, daemonVars
<1>2. adapter' = Accepting \/ adapter'.pc \in {"read", "sign"} \/ adapter' = adapter
  <2>1. DOMAIN adapter = {"pc", "cur"}
    BY DEF LoginInv, CallInv, AdapterOK
  <2> QED BY <2>1 DEF Adapter, AdapterStep, Accept, ReadEof, CheckDeadline, Sign, Finish
<1>3. adapter'.pc \in {"accept", "read", "sign"} /\ (adapter'.pc = "accept" => adapter'.cur = None)
  BY <1>2 DEF TypeInv, Accepting
<1> QED BY <1>1, <1>3, Zenon DEF TypeInv

\* The records of all parts have the values their types allow: the buffer of
\* uid_for_user and the wait of wait_connected keep to their limits, and read_line
\* sees no more than one response, wherever the daemon is cut off.
THEOREM LoginTypeCorrect == Spec => []TypeOK
<1>1. Init => TypeInv
  <2> SUFFICES ASSUME Init PROVE TypeInv
    OBVIOUS
  <2>1. /\ pam = [s \in Sessions |-> Idle] /\ down = [s \in Sessions |-> <<>>]
        /\ task = [s \in Sessions |-> NewTask] /\ recorded = {} /\ adapter = Accepting
    BY DEF Init, BridgeInit, AdapterInit
  <2>2. PamOK(Idle)
    <3>1. Idle.pc = "idle" /\ Idle.code = Nil /\ Idle.buf_len = 0 /\ Idle.left = 0
      BY DEF Idle
    <3>2. 0 \in 0..MAX_PASSWD_BUF /\ 0 \in 0..MAX_TIMEOUT
      BY PamBridgeAssumption
    <3> QED BY <3>1, <3>2, Zenon DEF PamOK, PamPcs, PamCodes
  <2>3. NewTask.pc \in TaskPcs /\ OneLine(Idle.line, <<>>, NewTask.rest)
    <3>1. NewTask.pc = "new" /\ NewTask.rest = <<>> /\ Idle.line = <<>>
      BY DEF NewTask, Idle
    <3>2. OneLine(<<>>, <<>>, <<>>)
      BY DEF OneLine
    <3> QED BY <3>1, <3>2, Zenon DEF TaskPcs
  <2>4. Accepting.pc = "accept" /\ Accepting.cur = None
    BY DEF Accepting
  <2> QED BY <2>1, <2>2, <2>3, <2>4 DEF TypeInv
<1>2. LoginInv /\ TypeInv /\ [Next]_vars => TypeInv'
  <2> SUFFICES ASSUME LoginInv, TypeInv, [Next]_vars PROVE TypeInv'
    OBVIOUS
  <2>1. CASE BridgeNext
    BY <2>1, BridgeKeepsTypes DEF LoginInv
  <2>2. CASE UNCHANGED vars
    BY <2>2, Zenon DEF TypeInv, vars, bridgeVars, adapterVars, daemonVars
  <2> QED BY <2>1, <2>2, NextCases, TaskKeepsTypes, CrashKeepsTypes, AdapterKeepsTypes
<1>3. BridgeShape /\ LoginInv /\ TypeInv => TypeOK
  <2> SUFFICES ASSUME BridgeShape, LoginInv, TypeInv PROVE TypeOK
    OBVIOUS
  <2>1. BridgeTypeOK
    BY Zenon DEF BridgeShape, HeldAt, TypeInv, BridgeTypeOK, PamOK, PamPcs, PamCodes, OneLine
  <2>2. AdapterTypeOK
    <3>1. adapter.pc \in {"accept", "read", "sign"} /\ adapter.cur \in Calls \cup {None}
      BY Zenon DEF TypeInv, LoginInv, CallInv, AdapterOK
    <3>2. backlog \in Seq(Calls) /\ DOMAIN call = Calls
      BY Zenon DEF LoginInv, CallInv, AdapterOK, CallShape
    <3>3. \A c \in Calls : call[c].stage \in {"none", "connected", "asked", "over"}
      BY Zenon DEF LoginInv, CallInv, CallOK
    <3> QED BY <3>1, <3>2, <3>3 DEF AdapterTypeOK
  <2>3. /\ \A s \in Sessions : task[s].pc \in {"new", "dispatch", "verify", "log", "write", "answered", "closed"}
        /\ \A e \in recorded : e.id \in Sessions /\ e.decision \in {"allow", "deny"}
    BY Zenon DEF TypeInv, TaskPcs, Decisions, LoginInv, Shape
  <2> QED BY <2>1, <2>2, <2>3 DEF TypeOK
<1> QED BY <1>1, <1>2, <1>3, LoginInvariant, PTL DEF Spec
=============================================================================
