------------------------------ MODULE PamBridge ------------------------------
(***************************************************************************)
(* The PAM module (pam-ola/src/lib.rs, unix_connect.rs): the calls of      *)
(* pam_sm_authenticate that one process makes, one after another, as steps *)
(* between system calls.  A call that has given up leaves its connection   *)
(* to the daemon, which may still be at work on it during the next one.    *)
(*                                                                         *)
(* The other entry points (setcred, acct_mgmt, sessions, chauthtok) return *)
(* PAM_IGNORE and have no state.  The daemon's end of a connection belongs *)
(* to Login.                                                               *)
(*                                                                         *)
(* Abstractions: a response line is two pieces and a newline, so that it   *)
(* can arrive in parts; JSON parses when both pieces of one response are   *)
(* there.  The id of a request, 128 random bits, is the session itself.    *)
(* A timeout may strike whenever there is nothing to read.  Each time that *)
(* poll is interrupted takes a tick.                                       *)
(***************************************************************************)
EXTENDS Naturals, Sequences

CONSTANTS
    Sessions,          \* calls of pam_sm_authenticate, numbered
    Argvs,             \* argument lists of the PAM configuration
    Users,             \* names pam_get_user may return
    Passwd,            \* user -> [uid, size] for the users that exist
    PeerUid,           \* session -> the process's effective uid, as SO_PEERCRED shows it
    Fds,               \* descriptors the process may have open (0..n)
    BadPaths,          \* socket paths unix_addr refuses: empty, too long, with a NUL
    DEFAULT_SOCKET_PATH,
    DEFAULT_METHOD,
    DEFAULT_TIMEOUT,   \* timeouts are in ticks
    MIN_TIMEOUT,
    MAX_TIMEOUT,
    ValidMethods,      \* method names validate_method_arg accepts
    PASSWD_BUF,        \* first buffer for getpwnam_r
    MAX_PASSWD_BUF,
    PROTOCOL_VERSION,
    Nil

ASSUME PamBridgeAssumption ==
    /\ Sessions \subseteq Nat /\ Fds \subseteq Nat /\ PeerUid \in [Sessions -> Nat]
    /\ PASSWD_BUF \in Nat \ {0} /\ MAX_PASSWD_BUF \in Nat /\ PASSWD_BUF <= MAX_PASSWD_BUF
    /\ Nil \notin Nat /\ Nil \notin {"SUCCESS", "PERM_DENIED", "AUTH_ERR", "USER_UNKNOWN"}
    /\ MIN_TIMEOUT \in Nat \ {0} /\ MAX_TIMEOUT \in Nat /\ DEFAULT_TIMEOUT \in MIN_TIMEOUT..MAX_TIMEOUT
    /\ \A argv \in Argvs : Len(argv) \in Nat /\ DOMAIN argv = 1..Len(argv)

VARIABLES
    pam,    \* session -> its call
    fds,    \* descriptor -> the session whose socket it is
    up,     \* session -> the request on its connection
    down    \* session -> what the daemon has written and it has not yet read

bridgeVars == <<pam, fds, up, down>>

-----------------------------------------------------------------------------
(* Pure parts *)

ValidArg(arg) ==
    \/ arg.key = "socket"
    \/ arg.key = "method" /\ arg.value \in ValidMethods
    \/ arg.key = "timeout_ms" /\ arg.value \in MIN_TIMEOUT..MAX_TIMEOUT

\* The last argument with a key wins.
ArgOf(argv, key, default) ==
    LET given == {i \in DOMAIN argv : argv[i].key = key} IN
    IF given = {} THEN default
    ELSE argv[CHOOSE i \in given : \A j \in given : j <= i].value

\* parse_argv: the configuration, or Nil if any argument is unknown or bad.
ParseArgv(argv) ==
    IF \E i \in DOMAIN argv : ~ValidArg(argv[i]) THEN Nil
    ELSE [socket |-> ArgOf(argv, "socket", DEFAULT_SOCKET_PATH),
          method |-> ArgOf(argv, "method", DEFAULT_METHOD),
          timeout |-> ArgOf(argv, "timeout_ms", DEFAULT_TIMEOUT)]

Piece(resp, part) == [resp |-> resp, part |-> part]
Newline == [resp |-> Nil, part |-> 0]
Wire(resp) == <<Piece(resp, 1), Piece(resp, 2), Newline>>

\* What the daemon sends back (protocol.rs).
ResponseError(id) == [version |-> PROTOCOL_VERSION, id |-> id, error |-> TRUE, decision |-> Nil]
ResponseDecision(id, decision) ==
    [version |-> PROTOCOL_VERSION, id |-> id, error |-> FALSE, decision |-> decision]

\* serde_json::from_str: Nil unless the line is the text of one whole response.
ParseJson(line) ==
    IF Len(line) = 2 /\ line = SubSeq(Wire(line[1].resp), 1, 2) THEN line[1].resp ELSE Nil

\* Mutant: whatever is not an allow is a deny.
InterpretDeny(line, id) ==
    LET r == ParseJson(line) IN
    IF r # Nil /\ r.id = id /\ r.decision = "allow" THEN "SUCCESS" ELSE "PERM_DENIED"

\* interpret_response, then pam_return_for_outcome.
InterpretResponse(line, id) ==
    LET r == ParseJson(line) IN
    IF r = Nil \/ r.version # PROTOCOL_VERSION \/ r.id # id \/ r.error THEN "AUTH_ERR"
    ELSE IF r.decision = "allow" THEN "SUCCESS"
    ELSE IF r.decision = "deny" THEN "PERM_DENIED" ELSE "AUTH_ERR"

-----------------------------------------------------------------------------
(* The call *)

\* fd is the number connect_with_timeout holds, stream the one a UnixStream owns.
Idle == [pc |-> "idle", cfg |-> Nil, uid |-> Nil, user |-> Nil, buf_len |-> 0, fd |-> Nil, stream |-> Nil,
         left |-> 0, line |-> <<>>, code |-> Nil]

Goto(s, pc) == pam' = [pam EXCEPT ![s].pc = pc]

\* The result of the call is known; what it owns is still to be dropped.
Leave(s, code) ==
    /\ pam' = [pam EXCEPT ![s].pc = "return", ![s].code = code, ![s].line = <<>>]
    /\ UNCHANGED <<fds, up, down>>

\* The call returns; a stream it owns is dropped, which closes the descriptor and
\* discards what was not read.  (Of a call that sent a request, what it asked
\* for is remembered.)
Return(s) ==
    /\ pam[s].pc = "return"
    /\ pam' = [pam EXCEPT ![s] = [Idle EXCEPT !.pc = "done", !.code = pam[s].code,
                                    !.uid = IF up[s] = Nil THEN Nil ELSE pam[s].uid,
                                    !.cfg = IF up[s] = Nil THEN Nil ELSE pam[s].cfg]]
    /\ fds' = [f \in Fds |-> IF f = pam[s].stream THEN Nil ELSE fds[f]]
    /\ down' = [down EXCEPT ![s] = <<>>]
    /\ UNCHANGED up

\* pam_sm_authenticate: parse_argv, then pam_user.
Begin(s, argv, user) ==
    /\ pam[s].pc = "idle"
    /\ \A t \in Sessions : t < s => pam[t].pc = "done"
    /\ IF ParseArgv(argv) = Nil THEN Leave(s, "AUTH_ERR")
       ELSE IF user = Nil THEN Leave(s, "USER_UNKNOWN")
       ELSE /\ pam' = [pam EXCEPT ![s].pc = "lookup", ![s].cfg = ParseArgv(argv),
                                  ![s].user = user, ![s].buf_len = PASSWD_BUF]
            /\ UNCHANGED <<fds, up, down>>

\* Mutant: the buffer grows without a limit.
LookupRangeUnbounded(s) ==
    /\ pam[s].pc = "lookup"
    /\ pam[s].user \in DOMAIN Passwd /\ Passwd[pam[s].user].size > pam[s].buf_len
    /\ pam' = [pam EXCEPT ![s].buf_len = @ * 2]
    /\ UNCHANGED <<fds, up, down>>

\* uid_for_user: ERANGE, and the buffer is doubled up to its limit ...
LookupRange(s) ==
    /\ pam[s].pc = "lookup"
    /\ pam[s].user \in DOMAIN Passwd /\ Passwd[pam[s].user].size > pam[s].buf_len
    /\ pam[s].buf_len < MAX_PASSWD_BUF
    /\ pam' = [pam EXCEPT ![s].buf_len = IF @ * 2 < MAX_PASSWD_BUF THEN @ * 2 ELSE MAX_PASSWD_BUF]
    /\ UNCHANGED <<fds, up, down>>

\* ... the entry fits ...
LookupFound(s) ==
    /\ pam[s].pc = "lookup"
    /\ pam[s].user \in DOMAIN Passwd /\ Passwd[pam[s].user].size <= pam[s].buf_len
    /\ pam' = [pam EXCEPT ![s].pc = "socket", ![s].uid = Passwd[pam[s].user].uid, ![s].buf_len = 0]
    /\ UNCHANGED <<fds, up, down>>

\* ... or there is no such user, the entry is too large, or the lookup fails.
LookupFails(s) == pam[s].pc = "lookup" /\ Leave(s, "USER_UNKNOWN")

-----------------------------------------------------------------------------
(* connect_with_timeout *)

\* The kernel gives out the lowest number that is free.
LowestFree(fd) == fds[fd] = Nil /\ \A f \in Fds : fds[f] = Nil => fd <= f

\* new_socket.
NewSocket(s) ==
    /\ pam[s].pc = "socket"
    /\ \E fd \in Fds :
         /\ LowestFree(fd)
         /\ pam' = [pam EXCEPT ![s].pc = "connect", ![s].fd = fd]
         /\ fds' = [fds EXCEPT ![fd] = s]
    /\ UNCHANGED <<up, down>>

NewSocketFails(s) == pam[s].pc = "socket" /\ Leave(s, "AUTH_ERR")

\* close_fd(fd), and an error is returned.
CloseFd(s) ==
    /\ fds' = [fds EXCEPT ![pam[s].fd] = Nil]
    /\ pam' = [pam EXCEPT ![s].pc = "return", ![s].code = "AUTH_ERR", ![s].fd = Nil, ![s].left = 0]
    /\ UNCHANGED <<up, down>>

\* stream_from_fd: the descriptor is the stream's from now on.
StreamFromFd(s) ==
    /\ pam' = [pam EXCEPT ![s].pc = "send", ![s].stream = pam[s].fd, ![s].fd = Nil]
    /\ UNCHANGED <<fds, up, down>>

\* unix_addr refuses the path.
AddrRefused(s) == pam[s].pc = "connect" /\ pam[s].cfg.socket \in BadPaths /\ CloseFd(s)

\* connect fails, with any error but EINPROGRESS.
ConnectRefused(s) == pam[s].pc = "connect" /\ pam[s].cfg.socket \notin BadPaths /\ CloseFd(s)

\* connect returns 0, if somebody listens on the path.
ConnectNow(s, listening) ==
    /\ pam[s].pc = "connect" /\ pam[s].cfg.socket \notin BadPaths /\ listening
    /\ StreamFromFd(s)

\* Mutant: the stream is made before the wait.
ConnectPendingStream(s, listening) ==
    /\ pam[s].pc = "connect" /\ pam[s].cfg.socket \notin BadPaths /\ listening
    /\ pam' = [pam EXCEPT ![s].pc = "poll", ![s].left = pam[s].cfg.timeout, ![s].stream = pam[s].fd]
    /\ UNCHANGED <<fds, up, down>>

\* EINPROGRESS: wait_connected has the whole timeout.
ConnectPending(s, listening) ==
    /\ pam[s].pc = "connect" /\ pam[s].cfg.socket \notin BadPaths /\ listening
    /\ pam' = [pam EXCEPT ![s].pc = "poll", ![s].left = pam[s].cfg.timeout]
    /\ UNCHANGED <<fds, up, down>>

\* wait_connected: poll_timeout_ms finds that no time is left, which may be so
\* before the first wait ...
PollExpired(s) == pam[s].pc = "poll" /\ CloseFd(s)

\* ... poll returns 0: nothing has happened in the time that was left ...
PollTimedOut(s) == pam[s].pc = "poll" /\ pam[s].left > 0 /\ CloseFd(s)

\* ... EINTR: the next wait has what is left of the timeout ...
PollInterrupted(s) ==
    /\ pam[s].pc = "poll" /\ pam[s].left > 0
    /\ pam' = [pam EXCEPT ![s].left = @ - 1]
    /\ UNCHANGED <<fds, up, down>>

\* ... another error of poll ...
PollError(s) == pam[s].pc = "poll" /\ pam[s].left > 0 /\ CloseFd(s)

\* ... or the socket is ready, and getsockopt is asked why.
PollReady(s) ==
    /\ pam[s].pc = "poll" /\ pam[s].left > 0
    /\ pam' = [pam EXCEPT ![s].pc = "sockopt", ![s].left = 0]
    /\ UNCHANGED <<fds, up, down>>

SockoptFails(s) == pam[s].pc = "sockopt" /\ CloseFd(s)

\* SO_ERROR is set.
SocketError(s) == pam[s].pc = "sockopt" /\ CloseFd(s)

Connected(s) == pam[s].pc = "sockopt" /\ StreamFromFd(s)

-----------------------------------------------------------------------------
(* authenticate, with a stream *)

\* set_read_timeout, set_write_timeout, request_id, write_all.
Send(s) ==
    /\ pam[s].pc = "send"
    /\ Goto(s, "read")
    /\ up' = [up EXCEPT ![s] = [id |-> s, uid |-> pam[s].uid, method |-> pam[s].cfg.method]]
    /\ UNCHANGED <<fds, down>>

\* One of these, or set_nonblocking of stream_from_fd, fails.
SendFails(s) == pam[s].pc = "send" /\ Leave(s, "AUTH_ERR")

\* read_line: a byte that is not the end of the line.
ReadPiece(s) ==
    /\ pam[s].pc = "read"
    /\ down[s] # <<>> /\ Head(down[s]) # Newline
    /\ pam' = [pam EXCEPT ![s].line = Append(@, Head(down[s]))]
    /\ down' = [down EXCEPT ![s] = Tail(@)]
    /\ UNCHANGED <<fds, up>>

\* The newline, or the end of the stream, ends the line.
ReadEnd(s, eof) ==
    /\ pam[s].pc = "read"
    /\ \/ down[s] = <<>> /\ eof
       \/ down[s] # <<>> /\ Head(down[s]) = Newline
    /\ Leave(s, InterpretResponse(pam[s].line, s))

\* Mutant: no timeout on reads.
ReadWaits(s) == pam[s].pc = "read" /\ down[s] # <<>> /\ Leave(s, "AUTH_ERR")

\* The read timeout, an interrupted read or another error; the line is too long.
ReadFails(s) == pam[s].pc = "read" /\ Leave(s, "AUTH_ERR")

-----------------------------------------------------------------------------

BridgeInit ==
    /\ pam = [s \in Sessions |-> Idle]
    /\ fds = [f \in Fds |-> Nil]
    /\ up = [s \in Sessions |-> Nil]
    /\ down = [s \in Sessions |-> <<>>]

\* What a call does once it has begun.
BridgeStep(s, listening, eof) ==
    \/ LookupRange(s) \/ LookupFound(s) \/ LookupFails(s)
    \/ NewSocket(s) \/ NewSocketFails(s) \/ AddrRefused(s) \/ ConnectRefused(s)
    \/ ConnectNow(s, listening) \/ ConnectPending(s, listening)
    \/ PollExpired(s) \/ PollTimedOut(s) \/ PollInterrupted(s) \/ PollError(s) \/ PollReady(s)
    \/ SockoptFails(s) \/ SocketError(s) \/ Connected(s)
    \/ Send(s) \/ SendFails(s)
    \/ ReadPiece(s) \/ ReadEnd(s, eof) \/ ReadFails(s) \/ Return(s)

-----------------------------------------------------------------------------
(* Properties *)

\* The type invariant.
BridgeTypeOK ==
    /\ DOMAIN pam = Sessions
    /\ \A s \in Sessions :
         /\ pam[s].pc \in {"idle", "lookup", "socket", "connect", "poll", "sockopt", "send", "read", "return", "done"}
         /\ pam[s].buf_len \in 0..MAX_PASSWD_BUF
         /\ pam[s].fd \in Fds \cup {Nil} /\ pam[s].stream \in Fds \cup {Nil}
         /\ pam[s].left \in 0..MAX_TIMEOUT
         /\ Len(pam[s].line) <= 2
         /\ pam[s].code \in {Nil, "SUCCESS", "PERM_DENIED", "AUTH_ERR", "USER_UNKNOWN"}
    /\ fds \in [Fds -> Sessions \cup {Nil}]

\* On each of the error paths of connect_with_timeout, wait_connected and
\* authenticate the socket is closed, and closed once: no socket is open that
\* nobody holds any more, and the number a call or its stream still holds, and is
\* going to close, is its own socket (the kernel gives the number of a closed one
\* to whoever opens the next file).
HoldsOwnFd ==
    /\ \A s \in Sessions : \A f \in {pam[s].fd, pam[s].stream} \ {Nil} : fds[f] = s
    /\ \A f \in Fds : fds[f] # Nil => f \in {pam[fds[f]].fd, pam[fds[f]].stream}
=============================================================================
