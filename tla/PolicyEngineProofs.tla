-------------------------- MODULE PolicyEngineProofs --------------------------
(***************************************************************************)
(* Proofs about the policy engine, for any rules, files, results, caps and *)
(* clocks: sorting and first match amount to the one rule that speaks for  *)
(* the method, wherever it stands.                                         *)
(***************************************************************************)
EXTENDS PolicyEngine, FiniteSetTheorems, TLAPS

-----------------------------------------------------------------------------
(* Sorting *)

\* A rule file, or the rules of an engine.
IsFile(f) == \E n \in Nat : DOMAIN f = 1..n

\* The order of the sort is linear.
LEMMA SortOrder ==
    ASSUME NEW f, IsFile(f), NEW i \in DOMAIN f, NEW j \in DOMAIN f, NEW k \in DOMAIN f
    PROVE  /\ NotAfter(f, i, i)
           /\ NotAfter(f, i, j) \/ NotAfter(f, j, i)
           /\ NotAfter(f, i, j) /\ NotAfter(f, j, i) => i = j
           /\ NotAfter(f, i, j) /\ NotAfter(f, j, k) => NotAfter(f, i, k)
<1>1. i \in Int /\ j \in Int /\ k \in Int
  BY DEF IsFile
<1> QED BY <1>1 DEF NotAfter

\* A rule's place is a position of the file, and an earlier rule has an earlier one.
LEMMA PlaceOfRule ==
    ASSUME NEW f, NEW n \in Nat, DOMAIN f = 1..n, NEW i \in DOMAIN f
    PROVE  /\ Place(f, i) \in 1..n
           /\ \A j \in DOMAIN f : j # i /\ NotAfter(f, i, j) => Place(f, i) < Place(f, j)
<1> DEFINE S(k) == {j \in DOMAIN f : NotAfter(f, j, k)}
<1>0. IsFile(f) /\ IsFiniteSet(1..n) /\ Cardinality(1..n) = n
  <2>1. IsFiniteSet(1..n) /\ Cardinality(1..n) = IF 1 > n THEN 0 ELSE n - 1 + 1
    BY FS_Interval
  <2> QED BY <2>1 DEF IsFile
<1>1. ASSUME NEW k \in DOMAIN f
      PROVE  IsFiniteSet(S(k)) /\ Cardinality(S(k)) \in Nat /\ Cardinality(S(k)) <= n /\ k \in S(k)
  <2>1. S(k) \in SUBSET (1..n)
    OBVIOUS
  <2>2. k \in S(k)
    BY <1>0, SortOrder
  <2> HIDE DEF S
  <2> QED BY <1>0, <2>1, <2>2, FS_Subset, FS_CardinalityType
<1>2. Cardinality(S(i)) # 0
  <2>1. S(i) # {}
    BY <1>1, Zenon
  <2> HIDE DEF S
  <2> QED BY <1>1, <2>1, FS_EmptySet
<1>3. ASSUME NEW j \in DOMAIN f, j # i, NotAfter(f, i, j)
      PROVE  Cardinality(S(i)) < Cardinality(S(j))
  <2>1. S(i) \in SUBSET S(j)
    BY <1>0, <1>3, SortOrder, Zenon
  <2>2. j \in S(j) /\ j \notin S(i)
    BY <1>0, <1>1, <1>3, SortOrder
  <2> HIDE DEF S
  <2>3. Cardinality(S(i)) <= Cardinality(S(j)) /\ Cardinality(S(i)) # Cardinality(S(j))
    BY <1>1, <2>1, <2>2, FS_Subset
  <2> QED BY <1>1, <2>3
<1>4. \A k \in DOMAIN f : Place(f, k) = Cardinality(S(k))
  BY DEF Place
<1> HIDE DEF S
<1> QED BY <1>1, <1>2, <1>3, <1>4

\* sort_by_key rearranges the rules: each is in one place, and each place is taken.
LEMMA SortPermutes ==
    ASSUME NEW f, NEW n \in Nat, DOMAIN f = 1..n
    PROVE  /\ DOMAIN SortedRules(f) = 1..n
           /\ \A i \in 1..n : SortedRules(f)[Place(f, i)] = f[i]
           /\ \A k \in 1..n : \E i \in 1..n : Place(f, i) = k
<1> DEFINE g == [i \in 1..n |-> Place(f, i)]
<1>0. IsFile(f)
  BY DEF IsFile
<1>1. ASSUME NEW i \in 1..n, NEW j \in 1..n, Place(f, i) = Place(f, j) PROVE i = j
  <2>1. NotAfter(f, i, j) \/ NotAfter(f, j, i)
    BY <1>0, SortOrder, Zenon
  <2>2. Place(f, i) \in Int /\ ~(Place(f, i) < Place(f, j)) /\ ~(Place(f, j) < Place(f, i))
    BY <1>1, PlaceOfRule
  <2> QED BY <2>1, <2>2, PlaceOfRule
<1>2. g \in [1..n -> 1..n] /\ \A i, j \in 1..n : g[i] = g[j] => i = j
  BY <1>1, PlaceOfRule
<1>3. g \in Injection(1..n, 1..n)
  BY <1>2 DEF Injection, IsInjective
<1>4. IsFiniteSet(1..n)
  BY FS_Interval
<1>5. g \in Surjection(1..n, 1..n)
  <2> HIDE DEF g
  <2> QED BY <1>3, <1>4, FS_Injection
<1>6. \A k \in 1..n : \E i \in 1..n : Place(f, i) = k
  BY <1>5, Zenon DEF Surjection
<1>7. ASSUME NEW i \in 1..n PROVE SortedRules(f)[Place(f, i)] = f[i]
  <2>1. Place(f, i) \in 1..n
    BY PlaceOfRule
  <2>2. (CHOOSE j \in DOMAIN f : Place(f, j) = Place(f, i)) = i
    BY <1>1
  <2> QED BY <2>1, <2>2, Zenon DEF SortedRules
<1> QED BY <1>6, <1>7, Zenon DEF SortedRules

-----------------------------------------------------------------------------
(* Decisions *)

\* The first match of evaluate is the match that no match comes before.
LEMMA FirstMatch ==
    ASSUME NEW f, NEW n \in Nat, DOMAIN f = 1..n, NEW cap, NEW result, NEW uid, NEW now,
           NEW i \in 1..n, RuleMatches(f[i], result),
           \A j \in 1..n : RuleMatches(f[j], result) => NotAfter(f, i, j)
    PROVE  Evaluate(SortedRules(f), cap, result, uid, now) = EvaluateRule(f[i], cap, result, uid, now)
<1> DEFINE rs == SortedRules(f)
           matching == {k \in DOMAIN rs : RuleMatches(rs[k], result)}
           first == CHOOSE k \in matching : \A j \in matching : k <= j
<1>1. DOMAIN rs = 1..n /\ Place(f, i) \in 1..n /\ rs[Place(f, i)] = f[i]
  BY SortPermutes, PlaceOfRule, Zenon
<1>2. Place(f, i) \in matching
  BY <1>1, Zenon
<1>3. ASSUME NEW k \in matching PROVE Place(f, i) <= k
  <2>1. k \in 1..n /\ RuleMatches(rs[k], result)
    BY <1>1
  <2> HIDE DEF rs, matching
  <2>2. PICK j \in 1..n : Place(f, j) = k
    BY <2>1, SortPermutes, Zenon
  <2>3. RuleMatches(f[j], result)
    <3>1. rs[k] = f[j]
      BY <2>2, SortPermutes, Zenon DEF rs
    <3> QED BY <2>1, <3>1
  <2>4. CASE j = i
    BY <2>1, <2>2, <2>4
  <2>5. CASE j # i
    <3>1. NotAfter(f, i, j)
      BY <2>3
    <3>2. Place(f, i) < k
      BY <2>2, <2>5, <3>1, PlaceOfRule
    <3> QED BY <1>1, <2>1, <3>2
  <2> QED BY <2>4, <2>5
<1>4. matching \subseteq Int
  <2>1. matching \subseteq DOMAIN rs /\ 1..n \subseteq Int
    OBVIOUS
  <2> HIDE DEF rs, matching
  <2> QED BY <1>1, <2>1
<1>5. Evaluate(rs, cap, result, uid, now)
        = IF matching = {} THEN "NoMatchingRule" ELSE EvaluateRule(rs[first], cap, result, uid, now)
  BY Zenon DEF Evaluate
<1> HIDE DEF rs, matching
<1>6. first = Place(f, i)
  <2>1. first \in matching /\ \A j \in matching : first <= j
    BY <1>2, <1>3
  <2> HIDE DEF first
  <2>2. first <= Place(f, i) /\ Place(f, i) <= first
    BY <1>2, <1>3, <2>1
  <2>3. first \in Int /\ Place(f, i) \in Int
    BY <1>2, <1>4, <2>1, Zenon
  <2> QED BY <2>2, <2>3
<1> QED BY <1>1, <1>2, <1>5, <1>6, Zenon DEF rs

\* Without a match the answer is no.
LEMMA NoMatch ==
    ASSUME NEW f, NEW n \in Nat, DOMAIN f = 1..n, NEW cap, NEW result, NEW uid, NEW now,
           \A i \in 1..n : ~RuleMatches(f[i], result)
    PROVE  Evaluate(SortedRules(f), cap, result, uid, now) = "NoMatchingRule"
<1>1. ASSUME NEW k \in DOMAIN SortedRules(f) PROVE ~RuleMatches(SortedRules(f)[k], result)
  <2>1. PICK i \in 1..n : Place(f, i) = k
    BY SortPermutes
  <2>2. SortedRules(f)[k] = f[i]
    BY <2>1, SortPermutes
  <2> QED BY <2>2
<1>2. {k \in DOMAIN SortedRules(f) : RuleMatches(SortedRules(f)[k], result)} = {}
  BY <1>1
<1> QED BY <1>2 DEF Evaluate

\* The rule i of the file speaks for the method m.
SpeaksFor(f, i, m) ==
    \/ f[i].method = m
    \/ f[i].method = None /\ \A j \in DOMAIN f : f[j].method # m

\* In an accepted file at most one rule speaks for a method.
LEMMA OneSpeaker ==
    ASSUME NEW f, NEW n \in Nat, DOMAIN f = 1..n, Accepts(f), NEW m
    PROVE  \A i, j \in 1..n : SpeaksFor(f, i, m) /\ SpeaksFor(f, j, m) => i = j
<1>1. \A i, j \in 1..n : f[i].method = f[j].method => i = j
  BY DEF Accepts
<1> QED BY <1>1 DEF SpeaksFor

\* It decides.
LEMMA SpeakerDecides ==
    ASSUME NEW f, NEW n \in Nat, DOMAIN f = 1..n, Accepts(f), NEW result, NEW cap, NEW uid, NEW now,
           NEW i \in 1..n, SpeaksFor(f, i, result.method)
    PROVE  Evaluate(SortedRules(f), cap, result, uid, now) = EvaluateRule(f[i], cap, result, uid, now)
<1>1. \A j, k \in 1..n : f[j].method = f[k].method => j = k
  BY DEF Accepts
<1>2. RuleMatches(f[i], result)
  BY DEF SpeaksFor, RuleMatches
<1>3. ASSUME NEW j \in 1..n, RuleMatches(f[j], result) PROVE NotAfter(f, i, j)
  <2>1. j = i \/ (f[j].method = None /\ f[i].method # None)
    BY <1>1, <1>3 DEF SpeaksFor, RuleMatches
  <2> QED BY <2>1 DEF NotAfter
<1> QED BY <1>2, <1>3, FirstMatch

\* If there is none, no rule matches.
LEMMA NoSpeaker ==
    ASSUME NEW f, NEW n \in Nat, DOMAIN f = 1..n, NEW result, NEW cap, NEW uid, NEW now,
           \A i \in 1..n : ~SpeaksFor(f, i, result.method)
    PROVE  Evaluate(SortedRules(f), cap, result, uid, now) = "NoMatchingRule"
<1>1. \A i \in 1..n : ~RuleMatches(f[i], result)
  BY DEF SpeaksFor, RuleMatches
<1> QED BY <1>1, NoMatch

-----------------------------------------------------------------------------
(* What is permitted *)

\* Of two limits in seconds, the smaller is the smaller in milliseconds.
LEMMA SmallerLimit ==
    ASSUME NEW a \in Nat, NEW b \in Nat, NEW m \in Nat, a <= b
    PROVE  a * m \in Nat /\ b * m \in Nat /\ a * m <= b * m
OBVIOUS

\* What a rule permits within the global cap.
WithinRule(r, cap, result, uid, now) ==
    /\ now - result.timestamp \in 0..(r.max_age_secs * MS_PER_SEC)
    /\ now - result.timestamp \in 0..(cap * MS_PER_SEC)
    /\ result.confidence \in r.min_confidence..ONE
    /\ r.require_uid_match => result.uid = uid

\* The early returns of evaluate let pass what the rule permits within the global
\* cap, in exact arithmetic; of what is permitted only an age window that does not
\* fit in 64 bits is refused.
LEMMA RulePermits ==
    ASSUME NEW r, r.max_age_secs \in Nat, r.require_uid_match \in BOOLEAN, r.min_confidence \in 0..ONE,
           NEW result, result.timestamp \in Nat, result.confidence \in Int,
           NEW cap \in Nat, NEW uid, NEW now \in Nat
    PROVE  /\ EvaluateRule(r, cap, result, uid, now) = "Allow" => WithinRule(r, cap, result, uid, now)
           /\ WithinRule(r, cap, result, uid, now) =>
                EvaluateRule(r, cap, result, uid, now) \in {"Allow", "ResultAgeWindowOverflow"}
<1> DEFINE secs == IF r.max_age_secs < cap THEN r.max_age_secs ELSE cap
<1>0. MS_PER_SEC \in Nat /\ U64_MAX \in Nat /\ ONE \in Nat
  BY PolicyAssumption
<1>1. PICK A, B, M : A = r.max_age_secs * MS_PER_SEC /\ B = cap * MS_PER_SEC /\ M = secs * MS_PER_SEC
  OBVIOUS
<1>2. A \in Nat /\ B \in Nat /\ M = IF A <= B THEN A ELSE B
  <2>1. CASE r.max_age_secs < cap
    <3>1. secs = r.max_age_secs /\ A <= B /\ A \in Nat /\ B \in Nat
      BY <1>0, <1>1, <2>1, SmallerLimit
    <3> QED BY <1>1, <3>1
  <2>2. CASE ~(r.max_age_secs < cap)
    <3>1. secs = cap /\ cap <= r.max_age_secs
      BY <2>2
    <3>2. B <= A /\ A \in Nat /\ B \in Nat
      BY <1>0, <1>1, <3>1, SmallerLimit
    <3> QED BY <1>1, <3>1, <3>2
  <2> QED BY <2>1, <2>2
<1>3. MaxAgeMs(r, cap) = IF M <= U64_MAX THEN M ELSE -1
  BY <1>1 DEF MaxAgeMs
<1> HIDE DEF secs
<1>4. PICK age : age = now - result.timestamp /\ age \in Int
  OBVIOUS
<1>5. age \in 0..A /\ age \in 0..B <=> 0 <= age /\ age <= M
  BY <1>2, <1>4
<1>6. result.timestamp > now <=> ~(0 <= age)
  BY <1>4
<1>7. result.confidence \in r.min_confidence..ONE
        <=> result.confidence \in 0..ONE /\ ~(result.confidence < r.min_confidence)
  BY <1>0
<1>8. MaxAgeMs(r, cap) = -1 \/ MaxAgeMs(r, cap) = M
  BY <1>3
<1>9. M \in Nat
  BY <1>2
<1>10. MaxAgeMs(r, cap) = M => (age > MaxAgeMs(r, cap) <=> ~(age <= M))
  BY <1>4, <1>9
<1>11. EvaluateRule(r, cap, result, uid, now) = "Allow" =>
         /\ 0 <= age /\ age <= M /\ result.confidence \in r.min_confidence..ONE
         /\ r.require_uid_match => result.uid = uid
  <2> SUFFICES ASSUME EvaluateRule(r, cap, result, uid, now) = "Allow"
               PROVE  /\ 0 <= age /\ age <= M /\ result.confidence \in r.min_confidence..ONE
                      /\ r.require_uid_match => result.uid = uid
    OBVIOUS
  <2>1. /\ ~(result.timestamp > now) /\ MaxAgeMs(r, cap) # -1 /\ ~(age > MaxAgeMs(r, cap))
        /\ result.confidence \in 0..ONE /\ ~(result.confidence < r.min_confidence)
        /\ ~(r.require_uid_match /\ result.uid # uid)
    BY <1>4 DEF EvaluateRule
  <2> QED BY <1>6, <1>7, <1>8, <1>10, <2>1
<1>12. ASSUME 0 <= age, age <= M, result.confidence \in r.min_confidence..ONE,
              r.require_uid_match => result.uid = uid
       PROVE  EvaluateRule(r, cap, result, uid, now) \in {"Allow", "ResultAgeWindowOverflow"}
  <2>1. /\ ~(result.timestamp > now) /\ (MaxAgeMs(r, cap) = -1 \/ ~(age > MaxAgeMs(r, cap)))
        /\ result.confidence \in 0..ONE /\ ~(result.confidence < r.min_confidence)
        /\ ~(r.require_uid_match /\ result.uid # uid)
    BY <1>6, <1>7, <1>8, <1>10, <1>12
  <2> QED BY <1>4, <2>1 DEF EvaluateRule
<1>13. WithinRule(r, cap, result, uid, now) <=>
         /\ age \in 0..A /\ age \in 0..B /\ result.confidence \in r.min_confidence..ONE
         /\ r.require_uid_match => result.uid = uid
  BY <1>1, <1>4 DEF WithinRule
<1> QED BY <1>5, <1>11, <1>12, <1>13

\* The same rules, perhaps in another order.
SameRules(f, g) ==
    /\ DOMAIN f = DOMAIN g
    /\ \A i \in DOMAIN f : \E j \in DOMAIN f : f[i] = g[j]
    /\ \A j \in DOMAIN f : \E i \in DOMAIN f : f[i] = g[j]

\* Another order of the rules of an accepted file is accepted too.
LEMMA ReorderedAccepted ==
    ASSUME NEW n \in Nat, NEW R, NEW g \in [1..n -> R], NEW f \in [1..n -> R], Accepts(g), SameRules(f, g)
    PROVE  Accepts(f)
<1> DEFINE T == {g[i] : i \in 1..n}
<1>0. IsFiniteSet(1..n)
  BY FS_Interval
<1>1. g \in Surjection(1..n, T) /\ f \in Surjection(1..n, T)
  <2>1. g \in [1..n -> T] /\ f \in [1..n -> T]
    BY DEF SameRules
  <2>2. (\A t \in T : \E i \in 1..n : g[i] = t) /\ (\A t \in T : \E i \in 1..n : f[i] = t)
    BY DEF SameRules
  <2> HIDE DEF T
  <2> QED BY <2>1, <2>2 DEF Surjection
<1>2. g \in Injection(1..n, T)
  <2>1. \A i, j \in 1..n : g[i] = g[j] => i = j
    BY DEF Accepts
  <2>2. g \in [1..n -> T]
    BY <1>1 DEF Surjection
  <2> HIDE DEF T
  <2> QED BY <2>1, <2>2 DEF Injection, IsInjective
<1>3. \A i \in 1..n : \E j \in 1..n : f[i] = g[j]
  BY DEF SameRules
<1> HIDE DEF T
<1>4. Cardinality(1..n) = Cardinality(T)
  BY <1>0, <1>1, <1>2, FS_Surjection
<1>5. f \in Injection(1..n, T)
  BY <1>0, <1>1, <1>4, FS_SurjSameCardinalityImpliesInj
<1>6. \A i, j \in 1..n : f[i] = f[j] => i = j
  BY <1>5 DEF Injection, IsInjective
<1>7. ASSUME NEW i \in 1..n, NEW j \in 1..n, f[i].method = f[j].method PROVE i = j
  <2>1. PICK a \in 1..n, b \in 1..n : f[i] = g[a] /\ f[j] = g[b]
    BY <1>3, Zenon
  <2>2. a = b
    BY <1>7, <2>1 DEF Accepts
  <2> QED BY <1>6, <2>1, <2>2
<1>8. \A i \in 1..n : f[i].min_confidence \in 0..ONE
  BY <1>3 DEF Accepts
<1> QED BY <1>7, <1>8 DEF Accepts

\* Files with the same rules decide alike.
LEMMA ReorderedDecides ==
    ASSUME NEW n \in Nat, NEW g, DOMAIN g = 1..n, NEW f, DOMAIN f = 1..n, Accepts(g), Accepts(f),
           SameRules(f, g), NEW cap, NEW result, NEW uid, NEW now
    PROVE  Evaluate(SortedRules(f), cap, result, uid, now) = Evaluate(SortedRules(g), cap, result, uid, now)
<1>1. (\A i \in 1..n : \E j \in 1..n : f[i] = g[j]) /\ (\A j \in 1..n : \E i \in 1..n : f[i] = g[j])
  BY Zenon DEF SameRules
<1>2. ASSUME NEW i \in 1..n, NEW j \in 1..n, f[i] = g[j]
      PROVE  SpeaksFor(f, i, result.method) <=> SpeaksFor(g, j, result.method)
  <2>1. ASSUME NEW k \in 1..n, f[k].method = result.method PROVE \E l \in 1..n : g[l].method = result.method
    <3>1. PICK l \in 1..n : f[k] = g[l]
      BY <1>1
    <3> QED BY <2>1, <3>1, Zenon
  <2>2. ASSUME NEW l \in 1..n, g[l].method = result.method PROVE \E k \in 1..n : f[k].method = result.method
    <3>1. PICK k \in 1..n : f[k] = g[l]
      BY <1>1
    <3> QED BY <2>2, <3>1
  <2> QED BY <1>2, <2>1, <2>2, Zenon DEF SpeaksFor
<1>3. ASSUME NEW i \in 1..n, SpeaksFor(f, i, result.method)
      PROVE  Evaluate(SortedRules(f), cap, result, uid, now) = Evaluate(SortedRules(g), cap, result, uid, now)
  <2>1. PICK j \in 1..n : f[i] = g[j]
    BY <1>1
  <2>2. SpeaksFor(g, j, result.method)
    BY <1>2, <1>3, <2>1
  <2>3. Evaluate(SortedRules(f), cap, result, uid, now) = EvaluateRule(f[i], cap, result, uid, now)
    BY <1>3, SpeakerDecides
  <2>4. Evaluate(SortedRules(g), cap, result, uid, now) = EvaluateRule(g[j], cap, result, uid, now)
    BY <2>2, SpeakerDecides
  <2> QED BY <2>1, <2>3, <2>4
<1>4. ASSUME \A i \in 1..n : ~SpeaksFor(f, i, result.method)
      PROVE  Evaluate(SortedRules(f), cap, result, uid, now) = Evaluate(SortedRules(g), cap, result, uid, now)
  <2>1. ASSUME NEW j \in 1..n PROVE ~SpeaksFor(g, j, result.method)
    BY <1>1, <1>2, <1>4
  <2> QED BY <1>4, <2>1, NoSpeaker
<1> QED BY <1>3, <1>4

\* The rule that speaks for the method permits the result, in exact arithmetic.
PermittedBy(f, cap, result, uid, now) ==
    \E i \in DOMAIN f :
        /\ SpeaksFor(f, i, result.method)
        /\ WithinRule(f[i], cap, result, uid, now)

\* Whatever evaluate allows of an accepted file is permitted by the rule that speaks
\* for the method.
LEMMA AllowedIsPermitted ==
    ASSUME NEW f, NEW n \in Nat, DOMAIN f = 1..n, Accepts(f),
           \A i \in 1..n : f[i].max_age_secs \in Nat /\ f[i].require_uid_match \in BOOLEAN,
           NEW result, result.timestamp \in Nat, result.confidence \in Int,
           NEW cap \in Nat, NEW uid, NEW now \in Nat,
           Evaluate(SortedRules(f), cap, result, uid, now) = "Allow"
    PROVE  PermittedBy(f, cap, result, uid, now)
<1>1. PICK i \in 1..n : SpeaksFor(f, i, result.method)
  BY NoSpeaker, Zenon
<1>2. PICK rule : rule = f[i]
  OBVIOUS
<1>3. EvaluateRule(rule, cap, result, uid, now) = "Allow"
  BY <1>1, <1>2, SpeakerDecides
<1>4. rule.max_age_secs \in Nat /\ rule.require_uid_match \in BOOLEAN /\ rule.min_confidence \in 0..ONE
  BY <1>2, Zenon DEF Accepts
<1>5. WithinRule(rule, cap, result, uid, now)
  BY <1>3, <1>4, RulePermits, Zenon
<1> QED BY <1>1, <1>2, <1>5, Zenon DEF PermittedBy

-----------------------------------------------------------------------------
(* The engine *)

\* The engine has the rules of a file that was accepted, sorted, and what it was
\* last asked was answered from them.
EngineInv ==
    /\ file \in Files /\ Accepts(file) /\ rules = SortedRules(file)
    /\ \/ asked = Nothing
       \/ \E cap \in Caps, result \in Results, uid \in Uids, now \in Nows :
            asked = [decision |-> Evaluate(rules, cap, result, uid, now),
                     cap |-> cap, result |-> result, uid |-> uid, now |-> now]

LEMMA EngineInvariant == EngineSpec => []EngineInv
<1>1. EngineInit => EngineInv
  BY DEF EngineInit, EngineInv
<1>2. EngineInv /\ [EngineNext]_engineVars => EngineInv'
  <2> SUFFICES ASSUME EngineInv, [EngineNext]_engineVars PROVE EngineInv'
    OBVIOUS
  <2>1. ASSUME NEW f \in Files, Load(f) PROVE EngineInv'
    BY <2>1 DEF Load, EngineInv
  <2>2. ASSUME NEW cap \in Caps, NEW result \in Results, NEW uid \in Uids, NEW now \in Nows,
               Decide(cap, result, uid, now)
        PROVE  EngineInv'
    <3>1. /\ asked' = [decision |-> Evaluate(rules, cap, result, uid, now),
                       cap |-> cap, result |-> result, uid |-> uid, now |-> now]
          /\ UNCHANGED <<file, rules>>
      BY <2>2 DEF Decide
    <3> QED BY <3>1 DEF EngineInv
  <2>3. CASE UNCHANGED engineVars
    BY <2>3 DEF engineVars, EngineInv
  <2> QED BY <2>1, <2>2, <2>3 DEF EngineNext
<1> QED BY <1>1, <1>2, PTL DEF EngineSpec

\* The file and the question, fixed.
LEMMA Asked ==
    ASSUME EngineInv, asked # Nothing
    PROVE  \E n, f : n \in Nat /\ \E cap \in Caps, result \in Results, uid \in Uids, now \in Nows :
             /\ f = file /\ f \in [1..n -> Rules] /\ Accepts(f)
             /\ asked = [decision |-> Evaluate(SortedRules(f), cap, result, uid, now),
                         cap |-> cap, result |-> result, uid |-> uid, now |-> now]
<1>1. PICK n \in 0..MaxRules : file \in [1..n -> Rules]
  BY Zenon DEF EngineInv, Files
<1>2. n \in Nat
  BY <1>1
<1> QED BY <1>1, <1>2 DEF EngineInv

\* evaluate allows exactly what the one rule that speaks for the method permits, for
\* every file that the parser accepts, every result, cap and reading of the clock;
\* only windows that do not fit in 64 bits are refused besides.
THEOREM DecisionsArePermitted == EngineSpec => []AllowsWhatIsPermitted
<1>1. ASSUME EngineInv PROVE AllowsWhatIsPermitted
  <2>0. SUFFICES ASSUME asked # Nothing PROVE AllowsWhatIsPermitted
    BY DEF AllowsWhatIsPermitted
  <2>1. PICK n, f : n \in Nat /\ \E cap \in Caps, result \in Results, uid \in Uids, now \in Nows :
             /\ f = file /\ f \in [1..n -> Rules] /\ Accepts(f)
             /\ asked = [decision |-> Evaluate(SortedRules(f), cap, result, uid, now),
                         cap |-> cap, result |-> result, uid |-> uid, now |-> now]
    BY <1>1, <2>0, Asked
  <2>2. PICK cap \in Caps, result \in Results, uid \in Uids, now \in Nows :
             /\ f = file /\ f \in [1..n -> Rules] /\ Accepts(f)
             /\ asked = [decision |-> Evaluate(SortedRules(f), cap, result, uid, now),
                         cap |-> cap, result |-> result, uid |-> uid, now |-> now]
    BY <2>1
  <2>3. /\ asked.decision = Evaluate(SortedRules(f), cap, result, uid, now)
        /\ asked.cap = cap /\ asked.result = result /\ asked.uid = uid /\ asked.now = now
    BY <2>2
  <2> DEFINE speaking == {r \in Range(file) : Speaks(r, asked.result.method)}
  <2>4. speaking = {f[i] : i \in {j \in 1..n : SpeaksFor(f, j, result.method)}}
    <3>1. Range(file) = {f[i] : i \in 1..n}
      BY <2>2, Zenon DEF Range
    <3>2. ASSUME NEW i \in 1..n PROVE Speaks(f[i], result.method) <=> SpeaksFor(f, i, result.method)
      BY <2>2, <3>1, Zenon DEF Speaks, SpeaksFor, None
    <3> QED BY <2>3, <3>1, <3>2, Zenon
  <2>5. n \in Nat /\ DOMAIN f = 1..n /\ Accepts(f)
    BY <2>1, <2>2
  <2> HIDE DEF speaking
  <2>6. CASE \A i \in 1..n : ~SpeaksFor(f, i, result.method)
    <3>1. speaking = {} /\ asked.decision = "NoMatchingRule"
      <4>1. Evaluate(SortedRules(f), cap, result, uid, now) = "NoMatchingRule"
        BY <2>5, <2>6, NoSpeaker
      <4> QED BY <2>3, <2>4, <2>6, <4>1, Zenon
    <3>2. Cardinality(speaking) = 0
      BY <3>1, FS_EmptySet
    <3>3. Cardinality(speaking) <= 1 /\ asked.decision # "Allow" /\ \A r \in speaking : FALSE
      BY <3>1, <3>2
    <3> QED BY <3>3 DEF speaking, AllowsWhatIsPermitted
  <2>7. ASSUME NEW i \in 1..n, SpeaksFor(f, i, result.method) PROVE AllowsWhatIsPermitted
    <3>1. PICK r \in Rules : r = f[i]
      BY <2>2
    <3>2. speaking = {r} /\ asked.decision = EvaluateRule(r, cap, result, uid, now)
      <4>1. \A a, b \in 1..n : SpeaksFor(f, a, result.method) /\ SpeaksFor(f, b, result.method) => a = b
        BY <2>5, OneSpeaker
      <4>2. {j \in 1..n : SpeaksFor(f, j, result.method)} = {i}
        BY <2>7, <4>1
      <4>3. Evaluate(SortedRules(f), cap, result, uid, now) = EvaluateRule(f[i], cap, result, uid, now)
        BY <2>5, <2>7, SpeakerDecides
      <4> QED BY <2>3, <2>4, <3>1, <4>2, <4>3, Zenon
    <3>3. Cardinality(speaking) = 1
      BY <3>2, FS_Singleton, Zenon
    <3>4. /\ r.max_age_secs \in Nat /\ r.require_uid_match \in BOOLEAN /\ r.min_confidence \in 0..ONE
          /\ result.timestamp \in Nat /\ result.confidence \in Int /\ cap \in Nat /\ now \in Nat
      BY <2>2, <3>1, EngineAssumption, PolicyAssumption, Zenon DEF Accepts
    <3>5. /\ asked.decision = "Allow" => Permits(r, asked)
          /\ Permits(r, asked) => asked.decision \in {"Allow", "ResultAgeWindowOverflow"}
      <4>1. Permits(r, asked) <=> WithinRule(r, cap, result, uid, now)
        BY <2>3, Zenon DEF Permits, WithinRule
      <4> QED BY <3>2, <3>4, <4>1, RulePermits
    <3>6. /\ Cardinality(speaking) <= 1
          /\ asked.decision = "Allow" => \E q \in speaking : Permits(q, asked)
          /\ (\E q \in speaking : Permits(q, asked)) =>
               asked.decision \in {"Allow", "ResultAgeWindowOverflow"}
      BY <3>2, <3>3, <3>5
    <3> QED BY <3>6 DEF speaking, AllowsWhatIsPermitted
  <2> QED BY <2>6, <2>7
<1> QED BY <1>1, EngineInvariant, PTL

\* types.rs: "Specific rules win over wildcards, so order in the file does not
\* matter", for files and rules of any kind.
THEOREM OrderNeverMatters == EngineSpec => []OrderIrrelevant
<1>1. ASSUME EngineInv PROVE OrderIrrelevant
  <2> SUFFICES ASSUME asked # Nothing, NEW f \in Files, Len(f) = Len(file),
                      Range(f) = Range(file)
               PROVE  Evaluate(SortedRules(f), asked.cap, asked.result, asked.uid, asked.now)
                        = asked.decision
    BY DEF OrderIrrelevant
  <2>1. PICK n, g : n \in Nat /\ \E cap \in Caps, result \in Results, uid \in Uids, now \in Nows :
             /\ g = file /\ g \in [1..n -> Rules] /\ Accepts(g)
             /\ asked = [decision |-> Evaluate(SortedRules(g), cap, result, uid, now),
                         cap |-> cap, result |-> result, uid |-> uid, now |-> now]
    BY <1>1, Asked, Zenon
  <2>2. PICK cap \in Caps, result \in Results, uid \in Uids, now \in Nows :
             /\ g = file /\ g \in [1..n -> Rules] /\ Accepts(g)
             /\ asked = [decision |-> Evaluate(SortedRules(g), cap, result, uid, now),
                         cap |-> cap, result |-> result, uid |-> uid, now |-> now]
    BY <2>1
  <2>3. /\ asked.decision = Evaluate(SortedRules(g), cap, result, uid, now)
        /\ asked.cap = cap /\ asked.result = result /\ asked.uid = uid /\ asked.now = now
    BY <2>2
  <2>4. PICK k \in Nat : f \in [1..k -> Rules]
    <3>1. PICK k \in 0..MaxRules : f \in [1..k -> Rules]
      BY Zenon DEF Files
    <3>2. k \in Nat
      OBVIOUS
    <3> QED BY <3>1, <3>2
  <2>5. k = n
    <3>1. n \in Nat /\ DOMAIN g = 1..n /\ DOMAIN f = 1..k /\ Len(f) = Len(g)
      BY <2>1, <2>2, <2>4, Zenon
    <3>2. ASSUME NEW h, NEW m \in Nat, DOMAIN h = 1..m PROVE Len(h) = m
      BY <3>2
    <3> QED BY <3>1, <3>2
  <2>6. SameRules(f, g)
    <3>1. {f[i] : i \in 1..n} = {g[i] : i \in 1..n}
      BY <2>2, <2>4, <2>5, Zenon DEF Range
    <3>2. DOMAIN f = 1..n /\ DOMAIN g = 1..n
      BY <2>2, <2>4, <2>5
    <3>3. ASSUME NEW i \in 1..n PROVE (\E j \in 1..n : f[i] = g[j]) /\ (\E j \in 1..n : f[j] = g[i])
      BY <3>1, Zenon
    <3> QED BY <3>2, <3>3, Zenon DEF SameRules
  <2>7. Accepts(f)
    BY <2>1, <2>2, <2>4, <2>5, <2>6, ReorderedAccepted, Zenon
  <2>8. Evaluate(SortedRules(f), cap, result, uid, now) = Evaluate(SortedRules(g), cap, result, uid, now)
    <3>1. n \in Nat /\ DOMAIN f = 1..n /\ DOMAIN g = 1..n /\ Accepts(g)
      BY <2>1, <2>2, <2>4, <2>5, Zenon
    <3> QED BY <2>6, <2>7, <3>1, ReorderedDecides
  <2> QED BY <2>3, <2>8
<1> QED BY <1>1, EngineInvariant, PTL
=============================================================================
