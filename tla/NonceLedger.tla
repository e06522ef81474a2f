------------------------------ MODULE NonceLedger ------------------------------
(***************************************************************************)
(* What the nonce store promises the request handler: a challenge that was *)
(* issued is honoured at most once, for the uid it was issued to; any      *)
(* challenge may be discarded instead, at any time.                        *)
(***************************************************************************)
EXTENDS Naturals

CONSTANTS Nonces, Uids

VARIABLES
    outstanding,  \* nonce -> the uid it was issued to
    honoured      \* nonce -> how often it was honoured

vars == <<outstanding, honoured>>

Init ==
    /\ outstanding = [n \in {} |-> 0]
    /\ honoured = [n \in Nonces |-> 0]

Issue(n, u) ==
    /\ n \notin DOMAIN outstanding
    /\ outstanding' = [m \in DOMAIN outstanding \cup {n} |-> IF m = n THEN u ELSE outstanding[m]]
    /\ UNCHANGED honoured

Dropped(S) == outstanding' = [m \in DOMAIN outstanding \ S |-> outstanding[m]]

Honour(n, u) ==
    /\ n \in DOMAIN outstanding
    /\ outstanding[n] = u
    /\ Dropped({n})
    /\ honoured' = [honoured EXCEPT ![n] = @ + 1]

\* Expired, presented by another uid, or swept.
Discard(S) ==
    /\ S \subseteq DOMAIN outstanding
    /\ Dropped(S)
    /\ UNCHANGED honoured

Next ==
    \/ \E n \in Nonces, u \in Uids : Issue(n, u) \/ Honour(n, u)
    \/ \E S \in SUBSET Nonces : Discard(S)

Spec == Init /\ [][Next]_vars
=============================================================================
