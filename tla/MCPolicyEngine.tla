---------------------------- MODULE MCPolicyEngine ----------------------------
(***************************************************************************)
(* PolicyEngine for TLC: rules for two methods and wildcards, thresholds   *)
(* at, below and above the limits, and an age window that overflows.       *)
(***************************************************************************)
EXTENDS PolicyEngine

Rule(m, c, a, u) == [method |-> m, min_confidence |-> c, max_age_secs |-> a, require_uid_match |-> u]

SomeRules ==
    {Rule("fido2", 2, 1, TRUE), Rule("fido2", 0, 2, FALSE), Rule("pin", 1, 9, TRUE),
     Rule("pin", 3, 1, TRUE), Rule(None, 1, 1, TRUE), Rule(None, 2, 9, FALSE)}

SomeResults ==
    [method : {"fido2", "pin", "libfprint"}, confidence : -1..3, timestamp : {0, 3}, uid : {1, 2}]
=============================================================================
