----------------------------- MODULE MCVerifyOnce -----------------------------
(***************************************************************************)
(* VerifyOnce for TLC: root (0) and a user (1), two contents of the files  *)
(* (one that locks the user out and asks for less), and replies that pass  *)
(* both policies or one, lack a valid attestation, or name another method. *)
(* One connection is root's, on behalf of the user, the other the user's.  *)
(***************************************************************************)
EXTENDS VerifyOnce, TLC

CONSTANTS c1, c2

MCConns == {c1, c2}

MCCallers == c1 :> {0} @@ c2 :> {1}

Rule(c) == [method |-> "pin", min_confidence |-> c, max_age_secs |-> 1, require_uid_match |-> TRUE]

TwoSnapshots == {[allowlist |-> {1}, file |-> <<Rule(2)>>], [allowlist |-> {}, file |-> <<Rule(1)>>]}

Result(m, c, u, s) == [method |-> m, confidence |-> c, timestamp |-> 1, uid |-> u, signed |-> s]

FourResults ==
    {Result("pin", 2, 1, TRUE), Result("pin", 1, 1, TRUE), Result("pin", 2, 1, FALSE), Result("fido2", 2, 1, TRUE)}
=============================================================================
