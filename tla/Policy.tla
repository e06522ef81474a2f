-------------------------------- MODULE Policy --------------------------------
(***************************************************************************)
(* The policy engine (core/policy/parser.rs, evaluator.rs, types.rs) as    *)
(* operators: what a rule file loads to, and what the loaded rules decide. *)
(*                                                                         *)
(* Abstractions: a confidence is an integer, valid in 0..ONE; every value  *)
(* outside stands for those the code rejects alike (negative, above 1.0,   *)
(* infinite, NaN).  Times keep a width: a u64 is in 0..U64_MAX.            *)
(***************************************************************************)
EXTENDS Integers, Sequences, FiniteSets

CONSTANTS
    ONE,         \* the confidence 1.0
    MS_PER_SEC,  \* 1000 in the code
    U64_MAX,     \* the largest u64
    Results,     \* what adapters may report: method, confidence, timestamp, uid
    Uids,        \* target users
    Nows         \* readings of the wall clock, in ms

ASSUME PolicyAssumption ==
    /\ ONE \in Nat \ {0} /\ MS_PER_SEC \in Nat \ {0} /\ U64_MAX \in Nat
    /\ Nows \subseteq Nat
    /\ \A r \in Results : r.timestamp \in Nat /\ r.confidence \in Int

\* The method of a wildcard rule: absent or "any" in the file.
None == "any"

-----------------------------------------------------------------------------
(* PolicyParser::load *)

\* Mutant: only neighbours are compared.
AcceptsNeighbours(file) ==
    /\ \A i \in DOMAIN file : file[i].min_confidence \in 0..ONE
    /\ \A i \in DOMAIN file : i > 1 => file[i].method # file[i - 1].method

\* Every threshold is in range, no method has two rules, no two are wildcards.
Accepts(file) ==
    /\ \A i \in DOMAIN file : file[i].min_confidence \in 0..ONE
    /\ \A i, j \in DOMAIN file : file[i].method = file[j].method => i = j

\* sort_by_key(method.is_none()) is stable: wildcards go last, otherwise the order
\* of the file stays.
NotAfter(file, i, j) ==
    IF file[i].method = None THEN file[j].method = None /\ i <= j
    ELSE file[j].method = None \/ i <= j

\* Where rule i goes.
Place(file, i) == Cardinality({j \in DOMAIN file : NotAfter(file, j, i)})

SortedRules(file) ==
    [k \in DOMAIN file |-> file[CHOOSE i \in DOMAIN file : Place(file, i) = k]]

-----------------------------------------------------------------------------
(* PolicyEngine::evaluate *)

RuleMatches(rule, result) == rule.method \in {None, result.method}

\* Mutant: wrapping multiplication.
MaxAgeWraps(rule, cap) ==
    LET secs == IF rule.max_age_secs < cap THEN rule.max_age_secs ELSE cap
    IN  (secs * MS_PER_SEC) % (U64_MAX + 1)

\* min(rule.max_age_secs, max_result_age_secs).checked_mul(1000); -1: overflow.
MaxAgeMs(rule, cap) ==
    LET secs == IF rule.max_age_secs < cap THEN rule.max_age_secs ELSE cap
    IN  IF secs * MS_PER_SEC <= U64_MAX THEN secs * MS_PER_SEC ELSE -1

\* The early returns of evaluate, in their order.
EvaluateRule(rule, cap, result, uid, now) ==
    IF result.timestamp > now THEN "ResultFromFuture"
    ELSE IF MaxAgeMs(rule, cap) = -1 THEN "ResultAgeWindowOverflow"
    ELSE IF now - result.timestamp > MaxAgeMs(rule, cap) THEN "ResultTooOld"
    ELSE IF result.confidence \notin 0..ONE THEN "InvalidConfidence"
    ELSE IF result.confidence < rule.min_confidence THEN "ConfidenceTooLow"
    ELSE IF rule.require_uid_match /\ result.uid # uid THEN "UidMismatch"
    ELSE "Allow"

\* The first rule that matches decides; without one, the answer is no.
Evaluate(rules, cap, result, uid, now) ==
    LET matching == {k \in DOMAIN rules : RuleMatches(rules[k], result)}
        first == CHOOSE k \in matching : \A j \in matching : k <= j
    IN  IF matching = {} THEN "NoMatchingRule"
        ELSE EvaluateRule(rules[first], cap, result, uid, now)
=============================================================================
