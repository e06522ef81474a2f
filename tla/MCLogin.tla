------------------------------- MODULE MCLogin -------------------------------
(***************************************************************************)
(* Login for TLC: two calls in a row, the first as root, the second after  *)
(* the process has become another user; a user with a small entry in the   *)
(* password database, one with an entry no buffer holds, and one without;  *)
(* arguments that give a method twice, a bad socket or a bad timeout.      *)
(***************************************************************************)
EXTENDS Login, TLC

Arg(key, value) == [key |-> key, value |-> value]

MCArgvs == {<<Arg("method", "otp"), Arg("method", "fido2")>>,
            <<Arg("method", "otp"), Arg("socket", "")>>,
            <<Arg("timeout_ms", 0)>>}

MCPasswd == "ann" :> [uid |-> 1, size |-> 2] @@ "huge" :> [uid |-> 2, size |-> 9]

MCPeerUid == 1 :> 0 @@ 2 :> 7

MCKeys == "demo" :> "key"
=============================================================================
