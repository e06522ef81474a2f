----------------------------- MODULE AuditLedger ------------------------------
(***************************************************************************)
(* What the audit log promises the rest of ola-core, in the words of       *)
(* docs/AUDIT.md: "No audit, no decision."  A ledger of records that only  *)
(* grows, and decisions that are returned only once they are recorded.     *)
(***************************************************************************)
CONSTANT Entries

VARIABLES
    recorded,  \* entries that will be found in the log from now on
    returned   \* entries whose decision may have reached a client

vars == <<recorded, returned>>

Init == recorded = {} /\ returned = {}

\* Records appear; they never disappear.
Record(S) == recorded' = recorded \cup S /\ UNCHANGED returned

\* A decision is returned with its record in place.
RecordAndReturn(S, e) ==
    /\ recorded' = recorded \cup S
    /\ e \in recorded'
    /\ returned' = returned \cup {e}

Next == \E S \in SUBSET Entries : Record(S) \/ \E e \in Entries : RecordAndReturn(S, e)

Spec == Init /\ [][Next]_vars
=============================================================================
