----------------------------- MODULE PolicyEngine -----------------------------
(***************************************************************************)
(* A policy engine that is loaded from rule files and asked for decisions, *)
(* checked against a definition of what a rule file means that mentions    *)
(* neither the order of rules nor the order of checks.                     *)
(***************************************************************************)
EXTENDS Policy, FiniteSets, Functions

CONSTANTS
    Rules,    \* the rules a file may hold
    MaxRules, \* bound: rules in a file
    Caps      \* values of OLA_MAX_RESULT_AGE_SECS

ASSUME EngineAssumption ==
    /\ MaxRules \in Nat /\ Caps \subseteq Nat
    /\ \A r \in Rules : r.max_age_secs \in Nat /\ r.require_uid_match \in BOOLEAN

Files == UNION {[1..n -> Rules] : n \in 0..MaxRules}

VARIABLES
    file,    \* the file loaded last
    rules,   \* PolicyEngine.rules
    asked    \* the last decision and what it was about

engineVars == <<file, rules, asked>>

Nothing == [decision |-> "none"]

\* from_config: the daemon starts only with a file the parser accepts.
EngineInit ==
    /\ file \in {f \in Files : Accepts(f)}
    /\ rules = SortedRules(file)
    /\ asked = Nothing

\* A rejected file leaves the engine alone: no step.
Load(f) ==
    /\ Accepts(f)
    /\ file' = f
    /\ rules' = SortedRules(f)
    /\ asked' = Nothing

Decide(cap, result, uid, now) ==
    /\ asked = Nothing
    /\ asked' = [decision |-> Evaluate(rules, cap, result, uid, now),
                 cap |-> cap, result |-> result, uid |-> uid, now |-> now]
    /\ UNCHANGED <<file, rules>>

EngineNext ==
    \/ \E f \in Files : Load(f)
    \/ \E cap \in Caps, result \in Results, uid \in Uids, now \in Nows : Decide(cap, result, uid, now)

EngineSpec == EngineInit /\ [][EngineNext]_engineVars

-----------------------------------------------------------------------------
(***************************************************************************)
(* Properties                                                              *)
(***************************************************************************)

\* The rule of the file that speaks for the method: its own, else the wildcard.
Speaks(r, m) ==
    \/ r.method = m
    \/ r.method = None /\ \A s \in Range(file) : s.method # m

\* What the operator asked for, in exact arithmetic.
Permits(r, q) ==
    /\ q.now - q.result.timestamp \in 0..(r.max_age_secs * MS_PER_SEC)
    /\ q.now - q.result.timestamp \in 0..(q.cap * MS_PER_SEC)
    /\ q.result.confidence \in r.min_confidence..ONE
    /\ r.require_uid_match => q.result.uid = q.uid

\* evaluate allows exactly what the one rule that speaks for the method permits,
\* whatever the order of the rules in the file; the only permitted results it
\* denies are those whose age window does not fit in 64 bits.
AllowsWhatIsPermitted ==
    asked # Nothing =>
        LET speaking == {r \in Range(file) : Speaks(r, asked.result.method)}
        IN  /\ Cardinality(speaking) <= 1
            /\ asked.decision = "Allow" => \E r \in speaking : Permits(r, asked)
            /\ (\E r \in speaking : Permits(r, asked)) =>
                 asked.decision \in {"Allow", "ResultAgeWindowOverflow"}

\* types.rs: "Specific rules win over wildcards, so order in the file does not
\* matter": neither for the decision nor for the reason given.
OrderIrrelevant ==
    asked # Nothing =>
        \A f \in Files :
            (Len(f) = Len(file) /\ Range(f) = Range(file)) =>
                Evaluate(SortedRules(f), asked.cap, asked.result, asked.uid, asked.now)
                    = asked.decision
=============================================================================
