----------------------------- MODULE DemoAdapter -----------------------------
(***************************************************************************)
(* The demo adapter (ola-adapter-demo-fido2/src/main.rs) and the daemon's  *)
(* end of a connection to it (adapters/client.rs: verify).                 *)
(*                                                                         *)
(* The adapter serves one connection at a time and waits for its line      *)
(* without a timeout; the daemon gives up a connection at its deadline.    *)
(* A ping, which it answers at once, is left out here: AdapterRegistry has *)
(* the health monitor.                                                     *)
(*                                                                         *)
(* Abstractions: an HMAC is the tuple of what it is computed over, key     *)
(* first; the clock is one bit for each call, whether its deadline has     *)
(* passed, and time stamps tell only that.                                 *)
(***************************************************************************)
EXTENDS Naturals, Sequences

CONSTANTS
    Calls,          \* connections from the daemon
    AdapterKey,     \* the key file of the adapter
    AdapterMethod,
    Confidence,
    None            \* for a field that has no value

VARIABLES
    adapter,   \* the adapter's accept loop
    backlog,   \* calls it has not yet accepted, in order
    call       \* call -> both ends of the connection

adapterVars == <<adapter, backlog, call>>

\* stage: none, connected (peer not yet checked), asked; over once the daemon
\* has dropped its end.  served: the adapter has closed its end.
NoCall == [stage |-> "none", line |-> None, expired |-> FALSE, served |-> FALSE, reply |-> None]

\* When both ends are closed nothing is left of a call.
Closed(k) ==
    IF k.stage = "over" /\ k.served THEN [NoCall EXCEPT !.stage = "over", !.served = TRUE] ELSE k

-----------------------------------------------------------------------------
(* The daemon's end *)

\* UnixStream::connect, with a new deadline.
CallConnect(c) ==
    /\ call[c].stage = "none"
    /\ call' = [call EXCEPT ![c].stage = "connected"]
    /\ backlog' = Append(backlog, c)
    /\ UNCHANGED adapter

\* SO_PEERCRED is the expected uid: the request is sent.
CallSend(c, line) ==
    /\ call[c].stage = "connected"
    /\ call' = [call EXCEPT ![c].stage = "asked", ![c].line = line]
    /\ UNCHANGED <<adapter, backlog>>

\* Mutant: the connection is kept.
CallKept(c) ==
    /\ call[c].stage \in {"connected", "asked"}
    /\ call' = [call EXCEPT ![c].stage = IF call[c].line = None THEN "connected" ELSE "over"]
    /\ UNCHANGED <<adapter, backlog>>

\* The stream is dropped: the peer is another user, the deadline has passed, the
\* adapter has closed, or the reply has been read.
CallDrop(c) ==
    /\ call[c].stage \in {"connected", "asked"}
    /\ call' = [call EXCEPT ![c] = Closed([@ EXCEPT !.stage = "over"])]
    /\ UNCHANGED <<adapter, backlog>>

\* The time for the call runs out.
CallExpire(c) ==
    /\ call[c].stage \in {"connected", "asked"} /\ ~call[c].expired
    /\ call' = [call EXCEPT ![c].expired = TRUE]
    /\ UNCHANGED <<adapter, backlog>>

-----------------------------------------------------------------------------
(* Evidence *)

\* Sha256 of the method name, an opaque value that determines the name.
MethodCommitment(method) == <<"sha256", method>>

\* evidence_hash of the adapter; AttestationVerifier::verify computes the same.
EvidenceHash(key, nonce, uid, method, confidence, stamp) ==
    <<key, nonce, uid, MethodCommitment(method), confidence, stamp>>

\* AttestationVerifier::verify: keys maps adapters to keys.
Verify(keys, name, r) ==
    /\ name \in DOMAIN keys
    /\ r.hash = EvidenceHash(keys[name], r.nonce, r.uid, r.method, r.confidence, r.stamp)

-----------------------------------------------------------------------------
(* The adapter *)

Accepting == [pc |-> "accept", cur |-> None]

\* handle_client returns, which closes the connection; the next one is accepted.
Finish(reply) ==
    LET k == call[adapter.cur] IN
    /\ call' = [call EXCEPT ![adapter.cur] =
                  Closed([k EXCEPT !.served = TRUE, !.reply = IF k.stage = "over" THEN k.reply ELSE reply])]
    /\ adapter' = Accepting
    /\ UNCHANGED backlog

Accept ==
    /\ adapter.pc = "accept" /\ backlog # <<>>
    /\ adapter' = [pc |-> "read", cur |-> Head(backlog)]
    /\ backlog' = Tail(backlog)
    /\ UNCHANGED call

\* read_capped_line: the stream ends before a line.
ReadEof ==
    /\ adapter.pc = "read"
    /\ call[adapter.cur].line = None /\ call[adapter.cur].stage = "over"
    /\ Finish(None)

\* A request in time goes on; one that is late is refused without an answer.
CheckDeadline ==
    /\ adapter.pc = "read"
    /\ call[adapter.cur].line # None
    /\ IF call[adapter.cur].expired THEN Finish(None)
       ELSE adapter' = [adapter EXCEPT !.pc = "sign"] /\ UNCHANGED <<backlog, call>>

\* The clock is read again for the time stamp, and the result is written; if the
\* daemon has gone, the write fails and nobody gets it.
Sign ==
    LET line == call[adapter.cur].line
        stamp == IF call[adapter.cur].expired THEN "late" ELSE "in time" IN
    /\ adapter.pc = "sign"
    /\ Finish([id |-> line.id, nonce |-> line.nonce, uid |-> line.uid, method |-> AdapterMethod,
               confidence |-> Confidence, stamp |-> stamp,
               hash |-> EvidenceHash(AdapterKey, line.nonce, line.uid, AdapterMethod, Confidence, stamp)])

AdapterInit ==
    /\ adapter = Accepting
    /\ backlog = <<>>
    /\ call = [c \in Calls |-> NoCall]

AdapterStep == Accept \/ ReadEof \/ CheckDeadline \/ Sign

-----------------------------------------------------------------------------
(* Properties *)

\* The type invariant.
AdapterTypeOK ==
    /\ adapter.pc \in {"accept", "read", "sign"} /\ adapter.cur \in Calls \cup {None}
    /\ \A i \in DOMAIN backlog : backlog[i] \in Calls
    /\ DOMAIN call = Calls
    /\ \A c \in Calls : call[c].stage \in {"none", "connected", "asked", "over"}

\* The adapter reads without a timeout and serves one connection at a time, and
\* still every connection of the daemon is taken and comes to its end: the
\* daemon never holds one open without sending.
AdapterServes ==
    \A c \in Calls : (\E i \in DOMAIN backlog : backlog[i] = c) \/ adapter.cur = c
                       ~> (\A i \in DOMAIN backlog : backlog[i] # c) /\ adapter.cur # c
=============================================================================
