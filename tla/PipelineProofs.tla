--------------------------- MODULE PipelineProofs ---------------------------
(***************************************************************************)
(* Theorems about a run of the pipeline over any documents: any number of  *)
(* agents, policies, identifiers and scopes held.                          *)
(***************************************************************************)
EXTENDS Pipeline, TLAPS, FiniteSetTheorems, SequenceTheorems, WellFoundedInduction

-----------------------------------------------------------------------------
(***************************************************************************)
(* Checks made one after the other.                                        *)
(***************************************************************************)

\* A set of naturals has a least member.
LEMMA LeastMember ==
  ASSUME NEW S, S \subseteq Nat, S # {}
  PROVE  \E i \in S : \A j \in S : i <= j
<1>1. PICK i \in S : \A j \in S : ~(<<j, i>> \in OpToRel(<, Nat))
  BY NatLessThanWellFounded, WFMin
<1>2. \A j, k \in Nat : <<j, k>> \in OpToRel(<, Nat) <=> j < k
  BY DEF OpToRel
<1>3. \A j \in S : ~(j < i) /\ i \in Nat /\ j \in Nat
  BY <1>1, <1>2
<1> QED
  BY <1>3

\* The answer is that of the first check that refuses.
LEMMA FirstRefusalAt ==
  ASSUME NEW n \in Nat, NEW answers, DOMAIN answers = 1..n, NEW k \in 1..n,
         answers[k] # Sound, \A i \in 1..k - 1 : answers[i] = Sound
  PROVE  FirstRefusal(answers) = answers[k]
<1> DEFINE refusing == {i \in 1..n : answers[i] # Sound}
<1>1. k \in refusing /\ \A i \in refusing : k <= i
  OBVIOUS
<1>2. (CHOOSE i \in refusing : \A j \in refusing : i <= j) = k
  <2>1. \A i \in refusing : (\A j \in refusing : i <= j) => i = k
    BY <1>1
  <2> QED
    BY <1>1, <2>1
<1> QED
  BY <1>1, <1>2 DEF FirstRefusal

\* No check refuses just if the answer is Sound.
LEMMA FirstRefusalSound ==
  ASSUME NEW n \in Nat, NEW answers, DOMAIN answers = 1..n
  PROVE  FirstRefusal(answers) = Sound <=> \A i \in 1..n : answers[i] = Sound
<1> DEFINE refusing == {i \in 1..n : answers[i] # Sound}
<1>1. CASE refusing = {}
  BY <1>1 DEF FirstRefusal
<1>2. CASE refusing # {}
  <2>0. refusing \subseteq Nat
    OBVIOUS
  <2>1. PICK k \in refusing : \A j \in refusing : k <= j
    <3> HIDE DEF refusing
    <3> QED
      BY <1>2, <2>0, LeastMember
  <2>2. FirstRefusal(answers) = answers[k]
    BY <2>1, FirstRefusalAt
  <2> QED
    BY <2>1, <2>2
<1> QED
  BY <1>1, <1>2

LEMMA ThenSound ==
  ASSUME NEW first, NEW second
  PROVE  (first ++ second) = Sound <=> first = Sound /\ second = Sound
BY DEF ++

LEMMA RequireSound ==
  ASSUME NEW condition \in BOOLEAN, NEW code, code # Sound
  PROVE  Require(condition, code) = Sound <=> condition
BY DEF Require

LEMMA FirstFailingSound ==
  ASSUME NEW n \in Nat, NEW checks, DOMAIN checks = 1..n, NEW faults,
         \A i \in 1..n : checks[i] # Sound
  PROVE  FirstFailing(checks, faults) = Sound <=> Codes(checks) \cap faults = {}
<1> DEFINE answers == [i \in DOMAIN checks |-> IF checks[i] \in faults THEN checks[i] ELSE Sound]
<1>1. FirstRefusal(answers) = Sound <=> \A i \in 1..n : answers[i] = Sound
  BY FirstRefusalSound
<1> QED
  BY <1>1 DEF FirstFailing, Codes

-----------------------------------------------------------------------------
(***************************************************************************)
(* The order in which the agents are checked.                              *)
(***************************************************************************)

\* The members picked of the first n of s.
PickedUpTo(s, places, n, upTo) ==
  upTo = [m \in 0..n |-> IF m = 0 THEN <<>>
                         ELSE IF m \in places THEN Append(upTo[m - 1], s[m]) ELSE upTo[m - 1]]

LEMMA PickedDefined ==
  ASSUME NEW s, NEW places, NEW n \in Nat
  PROVE  \E upTo : PickedUpTo(s, places, n, upTo)
<1> DEFINE undefined == {m \in Nat : ~ \E upTo : PickedUpTo(s, places, m, upTo)}
<1>1. SUFFICES ASSUME undefined # {} PROVE FALSE
  OBVIOUS
<1>2. PICK m \in undefined : \A j \in undefined : m <= j
  BY <1>1, LeastMember
<1>3. CASE m = 0
  <2>1. PickedUpTo(s, places, 0, [k \in 0..0 |-> <<>>])
    BY DEF PickedUpTo
  <2> QED
    BY <1>2, <1>3, <2>1
<1>4. CASE m # 0
  <2>1. m - 1 \in Nat /\ m - 1 \notin undefined
    BY <1>2, <1>4
  <2>2. PICK before : PickedUpTo(s, places, m - 1, before)
    BY <2>1
  <2> DEFINE upTo == [k \in 0..m |-> IF k < m THEN before[k]
                                     ELSE IF m \in places THEN Append(before[m - 1], s[m])
                                     ELSE before[m - 1]]
  <2>3. \A k \in 0..m : k # 0 => k - 1 \in 0..m - 1 /\ upTo[k - 1] = before[k - 1]
    BY <1>2, <1>4
  <2>4. ASSUME NEW k \in 0..m
        PROVE  upTo[k] = IF k = 0 THEN <<>>
                         ELSE IF k \in places THEN Append(upTo[k - 1], s[k]) ELSE upTo[k - 1]
    <3>1. CASE k < m
      <4>1. k \in 0..m - 1
        BY <3>1, <1>2
      <4> QED
        BY <4>1, <3>1, <2>2, <2>3 DEF PickedUpTo
    <3>2. CASE k = m
      BY <3>2, <1>4, <2>3
    <3> QED
      BY <3>1, <3>2, <1>2
  <2>5. PickedUpTo(s, places, m, upTo)
    BY <2>4 DEF PickedUpTo
  <2> QED
    BY <1>2, <2>5
<1> QED
  BY <1>3, <1>4

\* Picked is a sequence of the members at the places, as many as there are places.
LEMMA PickedOf ==
  ASSUME NEW S, NEW s \in Seq(S), NEW places, \A i \in places : i \in 1..Len(s)
  PROVE  /\ Picked(s, places) \in Seq(S)
         /\ {Picked(s, places)[k] : k \in 1..Len(Picked(s, places))} = {s[i] : i \in places}
         /\ Len(Picked(s, places)) = Cardinality(places)
<1> DEFINE upTo == CHOOSE f : PickedUpTo(s, places, Len(s), f)
           at(n) == {i \in places : i <= n}
           Good(n) == /\ upTo[n] \in Seq(S)
                      /\ {upTo[n][k] : k \in 1..Len(upTo[n])} = {s[i] : i \in at(n)}
                      /\ IsFiniteSet(at(n)) /\ Len(upTo[n]) = Cardinality(at(n))
           bad == {n \in 0..Len(s) : ~Good(n)}
<1>1. Len(s) \in Nat /\ s \in [1..Len(s) -> S]
  BY LenProperties
<1>0. \A i \in places : i \in Int /\ 1 <= i /\ i <= Len(s)
  BY <1>1
<1>2. PickedUpTo(s, places, Len(s), upTo)
  BY <1>1, PickedDefined
<1>3. Picked(s, places) = upTo[Len(s)]
  BY DEF Picked, PickedUpTo
<1>4. \A m \in 0..Len(s) : upTo[m] = IF m = 0 THEN <<>>
                           ELSE IF m \in places THEN Append(upTo[m - 1], s[m]) ELSE upTo[m - 1]
  BY <1>2 DEF PickedUpTo
<1> HIDE DEF upTo
<1>5. Good(0)
  <2>1. upTo[0] = <<>>
    BY <1>1, <1>4
  <2>2. at(0) = {}
    BY <1>0
  <2> QED
    BY <2>1, <2>2, FS_EmptySet
<1>6. ASSUME NEW n \in 1..Len(s), Good(n - 1)
      PROVE  Good(n)
  <2>0. n - 1 \in 0..Len(s) /\ n \in 0..Len(s) /\ n # 0 /\ s[n] \in S
    BY <1>1
  <2>1. CASE n \notin places
    <3>1. upTo[n] = upTo[n - 1]
      BY <2>0, <2>1, <1>4
    <3>2. at(n) = at(n - 1)
      BY <2>1, <1>0
    <3> QED
      BY <3>1, <3>2, <1>6
  <2>2. CASE n \in places
    <3>1. upTo[n] = Append(upTo[n - 1], s[n])
      BY <2>0, <2>2, <1>4
    <3>2. at(n) = at(n - 1) \cup {n} /\ n \notin at(n - 1)
      <4>1. n \in Int /\ \A i \in places : i <= n <=> (i <= n - 1 \/ i = n)
        BY <1>0, <1>1
      <4>2. \A i : i \in at(n) <=> i \in at(n - 1) \cup {n}
        BY <4>1, <2>2
      <4>3. n \notin at(n - 1)
        BY <4>1
      <4> QED
        BY <4>2, <4>3
    <3>3. IsFiniteSet(at(n)) /\ Cardinality(at(n)) = Cardinality(at(n - 1)) + 1
      BY <3>2, <1>6, FS_AddElement
    <3>4. /\ upTo[n] \in Seq(S) /\ Len(upTo[n]) = Len(upTo[n - 1]) + 1
          /\ \A k \in 1..Len(upTo[n - 1]) : upTo[n][k] = upTo[n - 1][k]
          /\ upTo[n][Len(upTo[n])] = s[n]
          /\ Len(upTo[n - 1]) \in Nat
      <4> DEFINE before == upTo[n - 1]
      <4>1. before \in Seq(S)
        BY <1>6
      <4> HIDE DEF before
      <4>2. Append(before, s[n]) \in Seq(S) /\ Len(Append(before, s[n])) = Len(before) + 1
            /\ (\A k \in 1..Len(before) : Append(before, s[n])[k] = before[k])
            /\ Append(before, s[n])[Len(before) + 1] = s[n] /\ Len(before) \in Nat
        BY <2>0, <4>1, AppendProperties
      <4> QED
        BY <3>1, <4>2 DEF before
    <3> HIDE DEF at
    <3>5. {upTo[n][k] : k \in 1..Len(upTo[n])} = {upTo[n - 1][k] : k \in 1..Len(upTo[n - 1])} \cup {s[n]}
      <4>1. \A k \in 1..Len(upTo[n]) : k \in 1..Len(upTo[n - 1]) \/ k = Len(upTo[n])
        BY <3>4
      <4>2. \A k \in 1..Len(upTo[n - 1]) : k \in 1..Len(upTo[n])
        BY <3>4
      <4>3. Len(upTo[n]) \in 1..Len(upTo[n])
        BY <3>4
      <4> QED
        BY <3>4, <4>1, <4>2, <4>3
    <3>6. {s[i] : i \in at(n)} = {s[i] : i \in at(n - 1)} \cup {s[n]}
      BY <3>2
    <3> QED
      BY <3>3, <3>4, <3>5, <3>6, <1>6
  <2> QED
    BY <2>1, <2>2
<1> HIDE DEF Good
<1>7. Good(Len(s))
  <2>1. SUFFICES ASSUME bad # {} PROVE FALSE
    BY <1>1
  <2>0. bad \subseteq Nat
    BY <1>1
  <2>2. PICK n \in bad : \A j \in bad : n <= j
    <3> HIDE DEF bad
    <3> QED
      BY <2>0, <2>1, LeastMember
  <2>3. n # 0
    BY <2>2, <1>5
  <2>4. n \in 1..Len(s) /\ n - 1 \in 0..Len(s) /\ n - 1 \notin bad
    BY <2>2, <2>3, <1>1
  <2> QED
    BY <2>4, <2>2, <1>6
<1>8. at(Len(s)) = places
  BY <1>0
<1> QED
  BY <1>3, <1>7, <1>8 DEF Good

-----------------------------------------------------------------------------
(***************************************************************************)
(* A document and its nodes.                                               *)
(***************************************************************************)

\* The types of a document that the proofs use.
Typed(d) ==
  /\ d.agents \in Seq(Node) /\ Len(d.agents) \in Nat /\ DOMAIN d.agents = 1..Len(d.agents)
  /\ \A i \in DOMAIN d.agents : d.agents[i] \in Node
  /\ d.anchorFaults \subseteq Codes(validateAnchor)
  /\ d.wellFormed \in BOOLEAN /\ d.stray \in BOOLEAN /\ d.anchorRevoked \in BOOLEAN
  /\ d.crl \in {"missing", "unreadable", "read"}
  /\ d.audit \in {"missing", "illformed", "invalid", "unhashable", "broken", "intact"}
  /\ d.grant # None => d.grant \in Grant
  /\ d.policies # None => Len(d.policies) \in Nat /\ DOMAIN d.policies = 1..Len(d.policies)

LEMMA DocumentTyped ==
  ASSUME NEW d \in Document
  PROVE  Typed(d)
<1>1. /\ d.agents \in Seq(Node) /\ d.anchorFaults \in SUBSET Codes(validateAnchor)
      /\ d.wellFormed \in BOOLEAN /\ d.stray \in BOOLEAN /\ d.anchorRevoked \in BOOLEAN
      /\ d.crl \in {"missing", "unreadable", "read"}
      /\ d.audit \in {"missing", "illformed", "invalid", "unhashable", "broken", "intact"}
      /\ d.grant \in Grant \cup {None} /\ d.policies \in Seq(Policy) \cup {None}
  BY DEF Document
<1>2. Len(d.agents) \in Nat /\ DOMAIN d.agents = 1..Len(d.agents)
      /\ \A i \in DOMAIN d.agents : d.agents[i] \in Node
  <2>1. d.agents \in [1..Len(d.agents) -> Node] /\ Len(d.agents) \in Nat
    BY <1>1, LenProperties
  <2> QED
    BY <2>1
<1>3. ASSUME d.policies # None
      PROVE  Len(d.policies) \in Nat /\ DOMAIN d.policies = 1..Len(d.policies)
  <2>1. d.policies \in Seq(Policy)
    BY <1>1, <1>3
  <2> QED
    BY <2>1, LenProperties
<1> QED
  BY <1>1, <1>2, <1>3 DEF Typed

LEMMA SortedOf ==
  ASSUME NEW d, Typed(d), NEW places, \A i \in places : i \in DOMAIN d.agents
  PROVE  /\ Sorted(d, places) \in Seq(Node)
         /\ Len(Sorted(d, places)) \in Nat
         /\ DOMAIN Sorted(d, places) = 1..Len(Sorted(d, places))
         /\ {Sorted(d, places)[k] : k \in 1..Len(Sorted(d, places))} = {d.agents[i] : i \in places}
         /\ Len(Sorted(d, places)) = Cardinality(places)
<1> DEFINE before == {i \in places : d.agents[i].claims = None}
           after == {i \in places : d.agents[i].claims # None}
           p == Picked(d.agents, before)
           q == Picked(d.agents, after)
<1>1. /\ \A i \in before : i \in 1..Len(d.agents)
      /\ \A i \in after : i \in 1..Len(d.agents)
      /\ d.agents \in Seq(Node)
  BY DEF Typed
<1>2. /\ p \in Seq(Node) /\ {p[k] : k \in 1..Len(p)} = {d.agents[i] : i \in before}
      /\ Len(p) = Cardinality(before)
  <2> HIDE DEF before
  <2> QED
    BY <1>1, PickedOf
<1>3. /\ q \in Seq(Node) /\ {q[k] : k \in 1..Len(q)} = {d.agents[i] : i \in after}
      /\ Len(q) = Cardinality(after)
  <2> HIDE DEF after
  <2> QED
    BY <1>1, PickedOf
<1>4. Sorted(d, places) = p \o q
  BY DEF Sorted
<1>5. /\ p \o q \in Seq(Node) /\ Len(p \o q) = Len(p) + Len(q)
      /\ \A k \in 1..Len(p) + Len(q) :
           (p \o q)[k] = IF k <= Len(p) THEN p[k] ELSE q[k - Len(p)]
      /\ Len(p) \in Nat /\ Len(q) \in Nat
      /\ DOMAIN (p \o q) = 1..Len(p \o q)
  <2> HIDE DEF p, q
  <2>1. p \o q \in Seq(Node) /\ Len(p \o q) = Len(p) + Len(q)
        /\ \A k \in 1..Len(p) + Len(q) :
             (p \o q)[k] = IF k <= Len(p) THEN p[k] ELSE q[k - Len(p)]
    BY <1>2, <1>3, ConcatProperties
  <2>2. DOMAIN (p \o q) = 1..Len(p \o q)
    BY <2>1, LenProperties
  <2> QED
    BY <1>2, <1>3, <2>1, <2>2, LenProperties
<1>6. Cardinality(places) = Len(p) + Len(q)
  <2>1. IsFiniteSet(1..Len(d.agents)) /\ places \subseteq 1..Len(d.agents)
    <3>1. Len(d.agents) \in Int
      BY DEF Typed
    <3> QED
      BY <3>1, FS_Interval DEF Typed
  <2>2. IsFiniteSet(places)
    BY <2>1, FS_Subset
  <2>3. IsFiniteSet(before) /\ IsFiniteSet(after)
    BY <2>2, FS_Subset
  <2>4. places = before \cup after /\ before \cap after = {}
    OBVIOUS
  <2> HIDE DEF before, after
  <2>5. Cardinality(before \cup after)
        = Cardinality(before) + Cardinality(after) - Cardinality(before \cap after)
    BY <2>3, FS_Union
  <2>6. Cardinality(before \cap after) = 0
    BY <2>4, FS_EmptySet
  <2> QED
    BY <2>3, <2>4, <2>5, <2>6, <1>2, <1>3, FS_CardinalityType
<1>7. {(p \o q)[k] : k \in 1..Len(p \o q)} = {p[k] : k \in 1..Len(p)} \cup {q[k] : k \in 1..Len(q)}
  <2> HIDE DEF p, q
  <2>1. \A k \in 1..Len(p) : k \in 1..Len(p \o q) /\ (p \o q)[k] = p[k]
    BY <1>5
  <2>2. \A k \in 1..Len(q) : k + Len(p) \in 1..Len(p \o q) /\ (p \o q)[k + Len(p)] = q[k]
    BY <1>5
  <2>3. \A k \in 1..Len(p \o q) : \/ k \in 1..Len(p) /\ (p \o q)[k] = p[k]
                                  \/ k - Len(p) \in 1..Len(q) /\ (p \o q)[k] = q[k - Len(p)]
    BY <1>5
  <2> QED
    BY <2>1, <2>2, <2>3
<1>8. {d.agents[i] : i \in places} = {d.agents[i] : i \in before} \cup {d.agents[i] : i \in after}
  OBVIOUS
<1> QED
  <2>1. {(p \o q)[k] : k \in 1..Len(p \o q)} = {d.agents[i] : i \in places}
    <3> HIDE DEF p, q, before, after
    <3> QED
      BY <1>2, <1>3, <1>7, <1>8
  <2> HIDE DEF p, q, before, after
  <2> DEFINE r == p \o q
  <2>2. /\ r \in Seq(Node) /\ Len(r) \in Nat /\ DOMAIN r = 1..Len(r)
        /\ Len(r) = Cardinality(places) /\ Sorted(d, places) = r
        /\ {r[k] : k \in 1..Len(r)} = {d.agents[i] : i \in places}
    <3>1. r \in Seq(Node) /\ DOMAIN r = 1..Len(r)
      BY <1>5
    <3>2. Len(r) = Cardinality(places)
      BY <1>5, <1>6
    <3>3. Len(r) \in Nat
      BY <1>5
    <3>4. Sorted(d, places) = r
      BY <1>4
    <3>5. {r[k] : k \in 1..Len(r)} = {d.agents[i] : i \in places}
      BY <2>1
    <3> QED
      <4> HIDE DEF r
      <4> QED
        BY <3>1, <3>2, <3>3, <3>4, <3>5
  <2> HIDE DEF r
  <2> QED
    BY <2>2

LEMMA SegmentCount ==
  ASSUME NEW n \in Nat
  PROVE  Cardinality(1..n) = n /\ IsFiniteSet(1..n)
<1>1. Cardinality(1..n) = IF 1 > n THEN 0 ELSE n - 1 + 1
  BY FS_Interval
<1>2. IsFiniteSet(1..n)
  BY FS_Interval
<1> QED
  BY <1>1, <1>2

\* The order has each agent once.
LEMMA OrderedDomain ==
  ASSUME NEW d, Typed(d)
  PROVE  DOMAIN Ordered(d) = 1..Len(d.agents) /\ Len(Ordered(d)) = Len(d.agents)
<1>1. /\ DOMAIN Ordered(d) = 1..Len(Ordered(d))
      /\ Len(Ordered(d)) = Cardinality(DOMAIN d.agents)
  BY SortedOf DEF Ordered
<1>2. Cardinality(DOMAIN d.agents) = Len(d.agents)
  <2>1. Len(d.agents) \in Nat /\ DOMAIN d.agents = 1..Len(d.agents)
    BY DEF Typed
  <2> QED
    BY <2>1, SegmentCount
<1> QED
  BY <1>1, <1>2

\* Checked in that order, the agents at some places are all accepted or not.
LEMMA FirstOfSound ==
  ASSUME NEW d, Typed(d), NEW places, \A i \in places : i \in DOMAIN d.agents, NEW refusal
  PROVE  FirstOf(d, places, refusal) = Sound
           <=> \A i \in places : refusal[d.agents[i].id] = Sound
<1> DEFINE nodes == Sorted(d, places)
           answers == [k \in DOMAIN nodes |-> refusal[nodes[k].id]]
<1>1. /\ Len(nodes) \in Nat /\ DOMAIN nodes = 1..Len(nodes)
      /\ {nodes[k] : k \in 1..Len(nodes)} = {d.agents[i] : i \in places}
  BY SortedOf
<1> HIDE DEF nodes
<1>2. FirstRefusal(answers) = Sound <=> \A k \in 1..Len(nodes) : answers[k] = Sound
  BY <1>1, FirstRefusalSound
<1>3. (\A k \in 1..Len(nodes) : answers[k] = Sound)
      <=> \A node \in {nodes[k] : k \in 1..Len(nodes)} : refusal[node.id] = Sound
  BY <1>1
<1>4. FirstOf(d, places, refusal) = FirstRefusal(answers)
  BY DEF FirstOf, nodes
<1> QED
  BY <1>1, <1>2, <1>3, <1>4

-----------------------------------------------------------------------------
(***************************************************************************)
(* What the blocks ask, one by one.                                        *)
(***************************************************************************)

Distinct(d) == \A i, j \in DOMAIN d.agents : d.agents[i].id = d.agents[j].id => i = j

LEMMA NodeOfAt ==
  ASSUME NEW d, Distinct(d), NEW i \in DOMAIN d.agents
  PROVE  NodeOf(d, d.agents[i].id) = d.agents[i]
<1>1. (CHOOSE j \in DOMAIN d.agents : d.agents[j].id = d.agents[i].id) = i
  BY DEF Distinct
<1> QED
  BY <1>1 DEF NodeOf

LEMMA StructureSound ==
  ASSUME NEW d, Typed(d)
  PROVE  StructureRefusal(d) = Sound <=>
           /\ d.chain = "array" /\ d.wellFormed /\ ~d.stray /\ d.anchors = 1
           /\ d.agents # <<>> /\ Distinct(d) /\ d.audit # "missing" /\ d.crl # "missing"
<1>1. DuplicateAt(d) = {} <=> Distinct(d)
  <2>1. ASSUME DuplicateAt(d) = {}, NEW i \in DOMAIN d.agents, NEW j \in DOMAIN d.agents,
               d.agents[i].id = d.agents[j].id, i # j
        PROVE  FALSE
    <3>1. i \in 1..j - 1 \/ j \in 1..i - 1
      BY <2>1 DEF Typed
    <3> QED
      BY <2>1, <3>1 DEF DuplicateAt
  <2>2. ASSUME Distinct(d), NEW i \in DuplicateAt(d)
        PROVE  FALSE
    <3>1. PICK j \in 1..i - 1 : d.agents[j].id = d.agents[i].id
      BY DEF DuplicateAt
    <3>2. i \in DOMAIN d.agents /\ j \in DOMAIN d.agents /\ i # j
      BY <2>2 DEF DuplicateAt, Typed
    <3> QED
      BY <2>2, <3>1, <3>2 DEF Distinct
  <2> QED
    BY <2>1, <2>2 DEF Distinct
<1>2. StructureRefusal(d) = Sound <=>
        /\ d.chain = "array" /\ ~Absent(d) /\ d.wellFormed /\ d.anchors = 1
        /\ d.agents # <<>> /\ ~d.stray /\ DuplicateAt(d) = {}
        /\ d.audit # "missing" /\ d.crl # "missing"
  BY DEF StructureRefusal, Require, ++, Sound
<1> QED
  BY <1>1, <1>2 DEF Absent

LEMMA AnchorSound ==
  ASSUME NEW d, Typed(d)
  PROVE  AnchorBlock(d) = Sound <=> d.anchorFaults = {} /\ ~(d.anchorRevoked /\ d.crl = "read")
<1>1. DOMAIN validateAnchor = 1..8 /\ \A i \in 1..8 : validateAnchor[i] # Sound
  BY DEF validateAnchor, Sound
<1>2. AnchorRefusal(d) = Sound <=> Codes(validateAnchor) \cap d.anchorFaults = {}
  BY <1>1, FirstFailingSound DEF AnchorRefusal
<1>3. Codes(validateAnchor) \cap d.anchorFaults = {} <=> d.anchorFaults = {}
  BY DEF Typed
<1> QED
  BY <1>2, <1>3 DEF AnchorBlock, Require, ++, Sound

\* A node passes its checks if it is identified, over a revocation list that was read.
LEMMA NodeSound ==
  ASSUME NEW d, NEW node \in Node
  PROVE  nodeChecks(d, node).code = Sound <=> Identified(d, node) /\ d.crl # "unreadable"
<1>1. /\ node.id \in Agent \cup Misnamed /\ node.claims \in Agent \cup Misnamed \cup {None}
      /\ node.cert \in Certificate
  BY DEF Node
<1>2. node.cert.spawn = None \/ node.cert.spawn.parent \in Agent
  BY <1>1 DEF Certificate, Provenance
<1>3. nodeChecks(d, node).code = Sound <=>
        /\ {node.id, node.claims} \cap Misnamed = {}
        /\ CertificateRefusal(node.cert) = Sound /\ LinkRefusal(node) = Sound
        /\ d.crl # "unreadable" /\ node.id \notin d.revoked /\ node.id \notin d.disabled
  BY DEF nodeChecks, assertNotRevoked, Require, ++, Sound
<1>4. LinkRefusal(node) = Sound <=>
        /\ node.claims # None => node.cert.spawn # None
        /\ node.cert.spawn # None => node.claims = node.cert.spawn.parent
  BY DEF LinkRefusal, Require, ++, Sound
<1>5. None \notin Agent /\ None \notin Misnamed /\ Agent \cap Misnamed = {}
  BY ValuesAssumption
<1>6. LinkRefusal(node) = Sound
      <=> node.claims = IF node.cert.spawn = None THEN None ELSE node.cert.spawn.parent
  BY <1>1, <1>2, <1>4, <1>5
<1>7. Identified(d, node) =>
        node.id \in Agent /\ (node.claims = None \/ node.claims \in Agent)
  BY <1>2 DEF Identified
<1> QED
  BY <1>1, <1>3, <1>5, <1>6, <1>7 DEF Identified

LEMMA AgentsSound ==
  ASSUME NEW d, Typed(d)
  PROVE  AgentsBlock(d) = Sound <=>
           \A i \in DOMAIN d.agents : Identified(d, d.agents[i]) /\ d.crl # "unreadable"
<1> DEFINE nodes == Ordered(d)
           answers == [i \in DOMAIN d.agents |-> nodeChecks(d, nodes[i]).code]
<1>1. /\ {nodes[k] : k \in 1..Len(nodes)} = {d.agents[i] : i \in DOMAIN d.agents}
      /\ Len(nodes) = Len(d.agents)
  BY SortedOf, OrderedDomain DEF Ordered
<1> HIDE DEF nodes
<1>2. Len(d.agents) \in Nat /\ DOMAIN d.agents = 1..Len(d.agents)
  BY DEF Typed
<1>3. FirstRefusal(answers) = Sound <=> \A i \in 1..Len(d.agents) : answers[i] = Sound
  BY <1>2, FirstRefusalSound
<1>4. (\A i \in 1..Len(d.agents) : answers[i] = Sound)
      <=> \A node \in {nodes[k] : k \in 1..Len(nodes)} : nodeChecks(d, node).code = Sound
  BY <1>1, <1>2
<1>5. AgentsBlock(d) = FirstRefusal(answers)
  BY DEF AgentsBlock, nodes
<1>6. \A i \in DOMAIN d.agents :
        nodeChecks(d, d.agents[i]).code = Sound
        <=> Identified(d, d.agents[i]) /\ d.crl # "unreadable"
  BY NodeSound DEF Typed
<1> QED
  BY <1>1, <1>3, <1>4, <1>5, <1>6

\* The agent nodes of the chain, by their identifiers.
LEMMA AgentNodes ==
  ASSUME NEW d, Typed(d), Distinct(d)
  PROVE  /\ \A a \in AgentsOf(d) : \E i \in DOMAIN d.agents :
              a = d.agents[i].id /\ NodeOf(d, a) = d.agents[i]
         /\ \A i \in DOMAIN d.agents :
              d.agents[i].id \in AgentsOf(d) /\ NodeOf(d, d.agents[i].id) = d.agents[i]
         /\ ChildrenOf(d) = {d.agents[i].id : i \in Attested(d)}
         /\ IsFiniteSet(AgentsOf(d)) /\ IsFiniteSet(ChildrenOf(d))
<1>1. \A i \in DOMAIN d.agents :
        d.agents[i].id \in AgentsOf(d) /\ NodeOf(d, d.agents[i].id) = d.agents[i]
  BY NodeOfAt DEF AgentsOf
<1>2. \A a \in AgentsOf(d) : \E i \in DOMAIN d.agents :
        a = d.agents[i].id /\ NodeOf(d, a) = d.agents[i]
  BY <1>1 DEF AgentsOf
<1>3. ChildrenOf(d) = {d.agents[i].id : i \in Attested(d)}
  BY <1>1, <1>2 DEF ChildrenOf, SpawnOf, Attested
<1>4. IsFiniteSet(AgentsOf(d))
  <2>1. IsFiniteSet(DOMAIN d.agents)
    <3>1. Len(d.agents) \in Int /\ DOMAIN d.agents = 1..Len(d.agents)
      BY DEF Typed
    <3>2. \A n \in Int : IsFiniteSet(1..n)
      BY FS_Interval
    <3> QED
      BY <3>1, <3>2
  <2>2. IsFiniteSet({d.agents[i].id : i \in DOMAIN d.agents})
    <3> DEFINE id == [i \in DOMAIN d.agents |-> d.agents[i].id]
    <3>1. id \in Surjection(DOMAIN d.agents, {d.agents[i].id : i \in DOMAIN d.agents})
      BY DEF Surjection
    <3> HIDE DEF id
    <3> QED
      BY <2>1, <3>1, FS_Surjection
  <2> QED
    BY <2>2 DEF AgentsOf
<1>5. IsFiniteSet(ChildrenOf(d))
  BY <1>4, FS_Subset DEF ChildrenOf
<1> QED
  BY <1>1, <1>2, <1>3, <1>4, <1>5

\* Every parent is in the chain.
ParentsPresent(d) == \A a \in ChildrenOf(d) : ParentOf(d, a) \in AgentsOf(d)

NoncesUnique(d) ==
  \A a, b \in ChildrenOf(d) : SpawnOf(d, a).nonce = SpawnOf(d, b).nonce => a = b

LEMMA OrphansNone ==
  ASSUME NEW d, Typed(d), Distinct(d)
  PROVE  Orphans(d) = {} <=> ParentsPresent(d)
<1> DEFINE nodes == Ordered(d)
           Homed(node) == node.cert.spawn # None => node.cert.spawn.parent \in AgentsOf(d)
<1>1. /\ {nodes[k] : k \in 1..Len(nodes)} = {d.agents[i] : i \in DOMAIN d.agents}
      /\ DOMAIN nodes = 1..Len(nodes)
  BY SortedOf DEF Ordered
<1>2. Orphans(d) = {} <=> \A k \in DOMAIN nodes : Homed(nodes[k])
  BY DEF Orphans
<1> HIDE DEF nodes
<1>3. (\A k \in DOMAIN nodes : Homed(nodes[k]))
      <=> \A node \in {nodes[k] : k \in 1..Len(nodes)} : Homed(node)
  BY <1>1
<1>4. (\A i \in DOMAIN d.agents : Homed(d.agents[i])) <=> ParentsPresent(d)
  <2>1. ASSUME \A i \in DOMAIN d.agents : Homed(d.agents[i]), NEW a \in ChildrenOf(d)
        PROVE  ParentOf(d, a) \in AgentsOf(d)
    <3>1. PICK i \in DOMAIN d.agents : a = d.agents[i].id /\ NodeOf(d, a) = d.agents[i]
      BY AgentNodes DEF ChildrenOf
    <3> QED
      BY <2>1, <3>1 DEF ChildrenOf, ParentOf, SpawnOf
  <2>2. ASSUME ParentsPresent(d), NEW i \in DOMAIN d.agents
        PROVE  Homed(d.agents[i])
    <3>1. d.agents[i].id \in AgentsOf(d) /\ NodeOf(d, d.agents[i].id) = d.agents[i]
      BY AgentNodes
    <3> QED
      BY <2>2, <3>1 DEF ParentsPresent, ChildrenOf, ParentOf, SpawnOf
  <2> QED
    BY <2>1, <2>2 DEF ParentsPresent
<1> QED
  BY <1>1, <1>2, <1>3, <1>4

LEMMA LinksSound ==
  ASSUME NEW d, Typed(d), Distinct(d)
  PROVE  LinksBlock(d) = Sound <=> ParentsPresent(d) /\ NoncesUnique(d)
BY OrphansNone DEF LinksBlock, NoncesUnique, Require, ++, Sound

LEMMA AuthoritiesSound ==
  ASSUME NEW d
  PROVE  AuthoritiesBlock(d) = Sound <=>
           d.policies # None /\ (NeedAuthorities(d) => d.authorities.state = "sound")
BY DEF AuthoritiesBlock, Require, ++, Sound

LEMMA AuditSound ==
  ASSUME NEW d, Typed(d), d.audit \notin {"missing", "illformed"}
  PROVE  AuditRefusal(d) = Sound <=> d.audit = "intact"
BY DEF AuditRefusal, Typed, Sound

-----------------------------------------------------------------------------
(***************************************************************************)
(* The grant.  It names one agent, so no two children use it.              *)
(***************************************************************************)

CrossGranted(d) ==
  \A a \in CrossOrg(d) :
    /\ d.grant # None /\ SpawnOf(d, a).grant = d.grant.id
    /\ GrantRefusal(d, a, ParentOf(d, a), 1) = Sound

GrantUsable(d) ==
  d.grant # None => \E a \in AgentsOf(d) :
    \E p \in AgentsOf(d) :
      /\ p = IF a \in ChildrenOf(d) THEN ParentOf(d, a) ELSE a
      /\ GrantRefusal(d, a, p, Cardinality(CrossOrg(d))) = Sound

LEMMA GrantNamesOne ==
  ASSUME NEW d, NEW a, NEW p, NEW n, GrantRefusal(d, a, p, n) = Sound
  PROVE  d.grant.template = a
BY DEF GrantRefusal, validateGrant, Require, ++, Sound

\* The spawns of a's organization under the grant, those the code counts.
Spawns(d, a) == Cardinality({b \in CrossOrg(d) : TemplateOf(d, b).org = TemplateOf(d, a).org})

LEMMA OneGranted ==
  ASSUME NEW d, NEW a \in CrossOrg(d), \A b \in CrossOrg(d) : d.grant.template = b
  PROVE  Cardinality(CrossOrg(d)) = 1 /\ Spawns(d, a) = 1
<1>1. CrossOrg(d) = {a}
  OBVIOUS
<1>2. {b \in CrossOrg(d) : TemplateOf(d, b).org = TemplateOf(d, a).org} = {a}
  BY <1>1
<1>3. Cardinality({a}) = 1
  BY FS_Singleton
<1> QED
  BY <1>1, <1>2, <1>3 DEF Spawns

LEMMA GrantedSound ==
  ASSUME NEW d, Typed(d), d.grant # None, NEW a \in CrossOrg(d)
  PROVE  GrantedRefusal(d, a) = Sound <=>
           /\ GrantRefusal(d, a, ParentOf(d, a), Spawns(d, a)) = Sound
           /\ SpawnOf(d, a).grant = d.grant.id
<1>1. d.grant.id # None
  BY ValuesAssumption DEF Typed, Grant
<1> QED
  BY <1>1 DEF GrantedRefusal, Spawns, Require, ++, Sound

\* A grant no child uses is checked against the agent it names, or against one
\* that it does not name.
LEMMA UnusedSound ==
  ASSUME NEW d, Typed(d), Distinct(d), d.agents # <<>>, ParentsPresent(d), d.grant # None,
         CrossOrg(d) = {}
  PROVE  UnusedRefusal(d) = Sound <=> GrantUsable(d)
<1> DEFINE first == IF Children(d) # <<>> THEN Children(d)[1].id ELSE Ordered(d)[1].id
           a == IF d.grant.template \in AgentsOf(d) THEN d.grant.template ELSE first
           p == IF a \in ChildrenOf(d) THEN ParentOf(d, a) ELSE a
<1>1. \A places : places # {} /\ (\A i \in places : i \in DOMAIN d.agents)
                    => Sorted(d, places)[1].id \in AgentsOf(d)
  <2>1. ASSUME NEW places, places # {}, \A i \in places : i \in DOMAIN d.agents
        PROVE  Sorted(d, places)[1].id \in AgentsOf(d)
    <3> DEFINE nodes == Sorted(d, places)
    <3>1. Len(nodes) \in Nat /\ {nodes[k] : k \in 1..Len(nodes)} = {d.agents[i] : i \in places}
      BY <2>1, SortedOf
    <3> HIDE DEF nodes
    <3>2. 1 \in 1..Len(nodes)
      <4>1. PICK i \in places : TRUE
        BY <2>1
      <4>2. PICK k \in 1..Len(nodes) : nodes[k] = d.agents[i]
        BY <3>1, <4>1
      <4> QED
        BY <3>1, <4>2
    <3>3. PICK i \in places : nodes[1] = d.agents[i]
      BY <3>1, <3>2
    <3> QED
      BY <2>1, <3>3 DEF AgentsOf, nodes
  <2> QED
    BY <2>1
<1>2. first \in AgentsOf(d)
  <2>1. DOMAIN d.agents # {}
    BY EmptySeq DEF Typed
  <2>2. Ordered(d)[1].id \in AgentsOf(d)
    BY <1>1, <2>1 DEF Ordered
  <2>3. Children(d) # <<>> => Attested(d) # {}
    <3>1. SUFFICES ASSUME Attested(d) = {} PROVE Children(d) = <<>>
      OBVIOUS
    <3>2. Children(d) \in Seq(Node) /\ Len(Children(d)) = Cardinality({})
      BY <3>1, SortedOf DEF Children
    <3> QED
      BY <3>2, FS_EmptySet, EmptySeq
  <2>4. Children(d) # <<>> => Children(d)[1].id \in AgentsOf(d)
    BY <1>1, <2>3 DEF Children, Attested
  <2> QED
    BY <2>2, <2>4
<1>3. a \in AgentsOf(d) /\ p \in AgentsOf(d)
  BY <1>2 DEF ParentsPresent
<1>4. UnusedRefusal(d) = GrantRefusal(d, a, p, 0)
  BY DEF UnusedRefusal
<1>5. Cardinality(CrossOrg(d)) = 0
  BY FS_EmptySet
<1>6. ASSUME GrantUsable(d)
      PROVE  GrantRefusal(d, a, p, 0) = Sound
  <2>1. PICK b \in AgentsOf(d) :
          GrantRefusal(d, b, IF b \in ChildrenOf(d) THEN ParentOf(d, b) ELSE b, 0) = Sound
    BY <1>5, <1>6 DEF GrantUsable
  <2>2. d.grant.template = b
    BY <2>1, GrantNamesOne
  <2> QED
    BY <2>1, <2>2
<1>7. ASSUME GrantRefusal(d, a, p, 0) = Sound
      PROVE  GrantUsable(d)
  <2> HIDE DEF a
  <2> QED
    BY <1>3, <1>5, <1>7 DEF GrantUsable
<1> QED
  <2> HIDE DEF a, p
  <2> QED
    BY <1>4, <1>6, <1>7

LEMMA GrantSound ==
  ASSUME NEW d, Typed(d), Distinct(d), d.agents # <<>>, ParentsPresent(d)
  PROVE  GrantBlock(d) = Sound <=> CrossGranted(d) /\ GrantUsable(d)
<1> DEFINE crossing == {i \in DOMAIN d.agents : d.agents[i].id \in CrossOrg(d)}
<1>1. CrossOrg(d) = {d.agents[i].id : i \in crossing}
  BY DEF CrossOrg, ChildrenOf, AgentsOf
<1>2. CASE CrossOrg(d) = {}
  <2>1. crossing = {}
    BY <1>2
  <2>2. CrossGranted(d)
    BY <1>2 DEF CrossGranted
  <2>3. CASE d.grant = None
    BY <2>1, <2>2, <2>3 DEF GrantBlock, GrantUsable
  <2>4. CASE d.grant # None
    BY <2>1, <2>2, <2>4, <1>2, UnusedSound DEF GrantBlock
  <2> QED
    BY <2>3, <2>4
<1>3. CASE CrossOrg(d) # {}
  <2> DEFINE refusal == [a \in CrossOrg(d) |-> GrantedRefusal(d, a)]
  <2>1. crossing # {}
    BY <1>1, <1>3
  <2>2. FirstOf(d, crossing, refusal) = Sound <=> \A a \in CrossOrg(d) : GrantedRefusal(d, a) = Sound
    <3>1. FirstOf(d, crossing, refusal) = Sound
            <=> \A i \in crossing : refusal[d.agents[i].id] = Sound
      <4> HIDE DEF refusal
      <4> QED
        BY FirstOfSound
    <3>2. (\A i \in crossing : refusal[d.agents[i].id] = Sound)
            <=> \A a \in CrossOrg(d) : refusal[a] = Sound
      <4> HIDE DEF refusal
      <4> QED
        BY <1>1
    <3> QED
      BY <3>1, <3>2
  <2>3. GrantBlock(d) = Sound
          <=> d.grant # None /\ \A a \in CrossOrg(d) : GrantedRefusal(d, a) = Sound
    BY <2>1, <2>2 DEF GrantBlock, Require, ++, Sound
  <2>4. ASSUME d.grant # None, \A a \in CrossOrg(d) : GrantedRefusal(d, a) = Sound
        PROVE  CrossGranted(d) /\ GrantUsable(d)
    <3>1. \A a \in CrossOrg(d) : d.grant.template = a
      BY <2>4, GrantedSound, GrantNamesOne
    <3>2. CrossGranted(d)
      <4>1. SUFFICES ASSUME NEW a \in CrossOrg(d)
                     PROVE  SpawnOf(d, a).grant = d.grant.id
                            /\ GrantRefusal(d, a, ParentOf(d, a), 1) = Sound
        BY <2>4 DEF CrossGranted
      <4>2. Spawns(d, a) = 1
        BY <3>1, OneGranted
      <4> QED
        BY <2>4, <4>2, GrantedSound
    <3>3. PICK a \in CrossOrg(d) : Cardinality(CrossOrg(d)) = 1
      <4>1. PICK a \in CrossOrg(d) : TRUE
        BY <1>3
      <4> QED
        BY <3>1, <4>1, OneGranted
    <3>4. a \in ChildrenOf(d) /\ a \in AgentsOf(d) /\ ParentOf(d, a) \in AgentsOf(d)
      BY DEF CrossOrg, ChildrenOf, ParentsPresent
    <3> QED
      BY <3>2, <3>3, <3>4 DEF CrossGranted, GrantUsable
  <2>5. ASSUME CrossGranted(d)
        PROVE  d.grant # None /\ \A a \in CrossOrg(d) : GrantedRefusal(d, a) = Sound
    <3>1. \A a \in CrossOrg(d) : d.grant.template = a
      BY <2>5, GrantNamesOne DEF CrossGranted
    <3>2. d.grant # None
      BY <1>3, <2>5 DEF CrossGranted
    <3>3. \A a \in CrossOrg(d) : Spawns(d, a) = 1
      BY <3>1, OneGranted
    <3> QED
      BY <2>5, <3>2, <3>3, GrantedSound DEF CrossGranted
  <2> QED
    BY <2>3, <2>4, <2>5
<1> QED
  BY <1>2, <1>3

-----------------------------------------------------------------------------
(***************************************************************************)
(* Spawns and scopes.                                                      *)
(***************************************************************************)

InForceSound(d) ==
  \A i \in DOMAIN d.policies :
    /\ PolicyRefusal(d, d.policies[i], 0) = Sound
    /\ \A j \in DOMAIN d.policies : d.policies[j].subject = d.policies[i].subject => i = j

SpawnFits(d, a) ==
  LET p == ParentOf(d, a)
      t == TemplateOf(d, p)
  IN
  /\ t.spawner /\ a \in t.canSpawn /\ a \in TargetsInForce(d, p)
  /\ Cardinality({b \in ChildrenOf(d) : ParentOf(d, b) = p}) <= t.maxChildren
  /\ a \notin CrossOrg(d) => SpawnOf(d, a).grant = None

ScopesFit(d, a) ==
  /\ TemplateOf(d, a).scopes # {}
  /\ TemplateOf(d, a).scopes \subseteq TemplateOf(d, ParentOf(d, a)).scopes

LEMMA InForceRefusalSound ==
  ASSUME NEW d, Typed(d), d.policies # None
  PROVE  InForceRefusal(d) = Sound <=> InForceSound(d)
<1> DEFINE n == Len(d.policies)
           Earlier(i) == \A j \in 1..i - 1 : d.policies[j].subject # d.policies[i].subject
           answers == [i \in DOMAIN d.policies |->
                         PolicyRefusal(d, d.policies[i], 0)
                         ++ Require(\A j \in 1..i - 1 : d.policies[j].subject # d.policies[i].subject,
                                    "ERR_SCHEMA_VIOLATION")]
<1>1. n \in Nat /\ DOMAIN d.policies = 1..n
  BY DEF Typed
<1> HIDE DEF n
<1>2. InForceRefusal(d) = FirstRefusal(answers)
  BY DEF InForceRefusal
<1>3. \A i \in 1..n : answers[i] = Sound
                      <=> PolicyRefusal(d, d.policies[i], 0) = Sound /\ Earlier(i)
  BY <1>1 DEF Require, ++, Sound
<1>4. DOMAIN answers = 1..n
  BY <1>1
<1> HIDE DEF answers
<1>5. FirstRefusal(answers) = Sound <=> \A i \in 1..n : answers[i] = Sound
  BY <1>1, <1>4, FirstRefusalSound
<1>6. (\A i \in 1..n : Earlier(i))
      <=> \A i, j \in 1..n : d.policies[j].subject = d.policies[i].subject => i = j
  <2>1. ASSUME \A i \in 1..n : Earlier(i), NEW i \in 1..n, NEW j \in 1..n,
               d.policies[j].subject = d.policies[i].subject, i # j
        PROVE  FALSE
    <3>1. i \in 1..j - 1 \/ j \in 1..i - 1
      BY <1>1, <2>1
    <3> QED
      BY <2>1, <3>1
  <2>2. \A i \in 1..n : \A j \in 1..i - 1 : j \in 1..n /\ i # j
    BY <1>1
  <2> QED
    BY <2>1, <2>2
<1> QED
  BY <1>1, <1>2, <1>3, <1>5, <1>6 DEF InForceSound

LEMMA SiblingCount ==
  ASSUME NEW d, Typed(d), Distinct(d), NEW a \in ChildrenOf(d)
  PROVE  Cardinality(SiblingsOf(d, a)) + 1
         = Cardinality({b \in ChildrenOf(d) : ParentOf(d, b) = ParentOf(d, a)})
<1> DEFINE siblings == SiblingsOf(d, a)
<1>1. IsFiniteSet(siblings) /\ a \notin siblings
  BY AgentNodes, FS_Subset DEF SiblingsOf
<1>2. {b \in ChildrenOf(d) : ParentOf(d, b) = ParentOf(d, a)} = siblings \cup {a}
  BY DEF SiblingsOf
<1> HIDE DEF siblings
<1>3. Cardinality(siblings \cup {a}) = Cardinality(siblings) + 1
  BY <1>1, FS_AddElement
<1> QED
  BY <1>2, <1>3 DEF siblings

\* The first refusal of the children, in their order.
LEMMA ChildrenSound ==
  ASSUME NEW d, Typed(d), Distinct(d), NEW refusal
  PROVE  FirstOf(d, Attested(d), refusal) = Sound <=> \A a \in ChildrenOf(d) : refusal[a] = Sound
<1>1. \A i \in Attested(d) : i \in DOMAIN d.agents
  BY DEF Attested
<1>2. FirstOf(d, Attested(d), refusal) = Sound
        <=> \A i \in Attested(d) : refusal[d.agents[i].id] = Sound
  BY <1>1, FirstOfSound
<1>3. ChildrenOf(d) = {d.agents[i].id : i \in Attested(d)}
  BY AgentNodes
<1> QED
  BY <1>2, <1>3

LEMMA SpawnsSound ==
  ASSUME NEW d, Typed(d), Distinct(d), d.policies # None
  PROVE  SpawnsBlock(d) = Sound <=> InForceSound(d) /\ \A a \in ChildrenOf(d) : SpawnFits(d, a)
<1> DEFINE refusal == [a \in ChildrenOf(d) |-> SpawnRefusal(d, a)]
<1>1. \A a \in ChildrenOf(d) : refusal[a] = Sound <=> SpawnFits(d, a)
  <2>1. SUFFICES ASSUME NEW a \in ChildrenOf(d) PROVE SpawnRefusal(d, a) = Sound <=> SpawnFits(d, a)
    OBVIOUS
  <2> DEFINE siblings == Cardinality(SiblingsOf(d, a)) + 1
  <2>2. siblings = Cardinality({b \in ChildrenOf(d) : ParentOf(d, b) = ParentOf(d, a)})
    BY SiblingCount
  <2>3. SpawnRefusal(d, a) = Sound <=>
          LET t == TemplateOf(d, ParentOf(d, a)) IN
          /\ t.spawner /\ a \in t.canSpawn /\ siblings <= t.maxChildren
          /\ a \in TargetsInForce(d, ParentOf(d, a))
          /\ a \notin CrossOrg(d) => SpawnOf(d, a).grant = None
    BY DEF SpawnRefusal, Require, ++, Sound
  <2> HIDE DEF siblings
  <2> QED
    BY <2>2, <2>3 DEF SpawnFits
<1>2. SpawnsBlock(d) = InForceRefusal(d) ++ FirstOf(d, Attested(d), refusal)
  BY DEF SpawnsBlock
<1> HIDE DEF refusal
<1> QED
  BY <1>1, <1>2, ChildrenSound, InForceRefusalSound, ThenSound

LEMMA ScopesSound ==
  ASSUME NEW d, Typed(d), Distinct(d)
  PROVE  ScopesBlock(d) = Sound <=>
           /\ \A a \in ChildrenOf(d) : ScopesFit(d, a)
           /\ \A i \in DOMAIN d.agents : Requested(d, d.agents[i])
<1> DEFINE refusal == [a \in ChildrenOf(d) |-> InheritedRefusal(d, a)]
           answers == [i \in DOMAIN d.agents |-> RequestRefusal(d, d.agents[i])]
<1>1. \A a \in ChildrenOf(d) : refusal[a] = Sound <=> ScopesFit(d, a)
  <2>1. SUFFICES ASSUME NEW a \in ChildrenOf(d)
                 PROVE  InheritedRefusal(d, a) = Sound <=> ScopesFit(d, a)
    OBVIOUS
  <2>2. TemplateOf(d, a).scopes # Malformed
    <3>1. PICK i \in DOMAIN d.agents : NodeOf(d, a) = d.agents[i]
      BY AgentNodes DEF ChildrenOf
    <3>2. d.agents[i].cert.template.scopes \in SUBSET Scope
      <4>1. d.agents[i] \in Node
        BY DEF Typed
      <4> QED
        BY <4>1 DEF Node, Certificate, Template
    <3> QED
      BY <3>1, <3>2, ValuesAssumption DEF TemplateOf
  <2> QED
    BY <2>2 DEF InheritedRefusal, SubsetRefusal, ScopesFit, Require, ++, Sound
<1>2. \A i \in DOMAIN d.agents : answers[i] = Sound <=> Requested(d, d.agents[i])
  BY DEF RequestRefusal, SubsetRefusal, Requested, Require, ++, Sound
<1>3. Len(d.agents) \in Nat /\ DOMAIN d.agents = 1..Len(d.agents)
  BY DEF Typed
<1>4. FirstRefusal(answers) = Sound <=> \A i \in DOMAIN d.agents : answers[i] = Sound
  BY <1>3, FirstRefusalSound
<1>5. ScopesBlock(d) = FirstOf(d, Attested(d), refusal) ++ FirstRefusal(answers)
  BY DEF ScopesBlock
<1> HIDE DEF refusal, answers
<1> QED
  BY <1>1, <1>2, <1>4, <1>5, ChildrenSound, ThenSound

-----------------------------------------------------------------------------
(***************************************************************************)
(* Together the blocks ask for a conforming document.                      *)
(***************************************************************************)

AllSound(d) ==
  /\ StructureRefusal(d) = Sound /\ AnchorBlock(d) = Sound /\ AgentsBlock(d) = Sound
  /\ LinksBlock(d) = Sound /\ AuthoritiesBlock(d) = Sound /\ GrantBlock(d) = Sound
  /\ UpdateBlock(d) = Sound /\ SpawnsBlock(d) = Sound /\ ScopesBlock(d) = Sound
  /\ AuditRefusal(d) = Sound

\* A child whose parent is present is delegated if its spawn and its scopes fit
\* and the grant, if it crosses organizations, allows it.
LEMMA DelegatedSplit ==
  ASSUME NEW d
  PROVE  (\A a \in ChildrenOf(d) : Delegated(d, a))
         <=> /\ \A a \in ChildrenOf(d) : SpawnFits(d, a) /\ ScopesFit(d, a)
             /\ CrossGranted(d)
<1>1. ASSUME NEW a \in ChildrenOf(d)
      PROVE  Delegated(d, a) <=>
               /\ SpawnFits(d, a) /\ ScopesFit(d, a)
               /\ a \in CrossOrg(d) =>
                    /\ d.grant # None /\ SpawnOf(d, a).grant = d.grant.id
                    /\ GrantRefusal(d, a, ParentOf(d, a), 1) = Sound
  <2>1. a \in CrossOrg(d) <=> TemplateOf(d, a).org # TemplateOf(d, ParentOf(d, a)).org
    BY DEF CrossOrg
  <2> QED
    BY <2>1 DEF Delegated, SpawnFits, ScopesFit
<1>2. CrossOrg(d) \subseteq ChildrenOf(d)
  BY DEF CrossOrg
<1> QED
  BY <1>1, <1>2 DEF CrossGranted

\* What a conforming document has, in the terms of the blocks.
LEMMA ConformingSplit ==
  ASSUME NEW d
  PROVE  Conforming(d) <=>
           /\ d.chain = "array" /\ d.wellFormed /\ ~d.stray /\ d.anchors = 1
           /\ d.agents # <<>> /\ Distinct(d)
           /\ d.anchorFaults = {} /\ ~d.anchorRevoked /\ d.crl = "read"
           /\ \A i \in DOMAIN d.agents : Identified(d, d.agents[i])
           /\ ParentsPresent(d) /\ NoncesUnique(d)
           /\ d.policies # None /\ (NeedAuthorities(d) => d.authorities.state = "sound")
           /\ CrossGranted(d) /\ GrantUsable(d)
           /\ UpdateBlock(d) = Sound
           /\ InForceSound(d) /\ \A a \in ChildrenOf(d) : SpawnFits(d, a)
           /\ \A a \in ChildrenOf(d) : ScopesFit(d, a)
           /\ \A i \in DOMAIN d.agents : Requested(d, d.agents[i])
           /\ d.audit = "intact"
<1>1. UpdateBlock(d) = Sound <=> (d.policy # None => PolicyRefusal(d, d.policy, d.current) = Sound)
  BY DEF UpdateBlock
<1>2. Conforming(d) <=>
        /\ d.chain = "array" /\ d.wellFormed /\ ~d.stray /\ d.anchors = 1
        /\ d.agents # <<>> /\ Distinct(d)
        /\ d.anchorFaults = {} /\ ~d.anchorRevoked /\ d.crl = "read"
        /\ \A i \in DOMAIN d.agents : Identified(d, d.agents[i])
        /\ ParentsPresent(d) /\ (\A a \in ChildrenOf(d) : Delegated(d, a)) /\ NoncesUnique(d)
        /\ d.policies # None /\ (NeedAuthorities(d) => d.authorities.state = "sound")
        /\ GrantUsable(d)
        /\ d.policy # None => PolicyRefusal(d, d.policy, d.current) = Sound
        /\ InForceSound(d)
        /\ \A i \in DOMAIN d.agents : Requested(d, d.agents[i])
        /\ d.audit = "intact"
  BY DEF Conforming, Distinct, ParentsPresent, NoncesUnique, GrantUsable, InForceSound
<1> QED
  BY <1>1, <1>2, DelegatedSplit

\* The blocks accept just the documents that conform.
LEMMA SoundConforms ==
  ASSUME NEW d \in Document, d.audit # "illformed"
  PROVE  AllSound(d) <=> Conforming(d)
<1>1. Typed(d)
  BY DocumentTyped
<1>2. ASSUME AllSound(d)
      PROVE  Conforming(d)
  <2>1. /\ d.chain = "array" /\ d.wellFormed /\ ~d.stray /\ d.anchors = 1
        /\ d.agents # <<>> /\ Distinct(d) /\ d.audit # "missing" /\ d.crl # "missing"
    BY <1>1, <1>2, StructureSound DEF AllSound
  <2>2. DOMAIN d.agents # {}
    BY <1>1, <2>1, EmptySeq DEF Typed
  <2>3. d.crl = "read" /\ \A i \in DOMAIN d.agents : Identified(d, d.agents[i])
    BY <1>1, <1>2, <2>1, <2>2, AgentsSound DEF AllSound, Typed
  <2>4. d.anchorFaults = {} /\ ~d.anchorRevoked
    BY <1>1, <1>2, <2>3, AnchorSound DEF AllSound
  <2>5. ParentsPresent(d) /\ NoncesUnique(d)
    BY <1>1, <1>2, <2>1, LinksSound DEF AllSound
  <2>6. d.policies # None /\ (NeedAuthorities(d) => d.authorities.state = "sound")
    BY <1>2, AuthoritiesSound DEF AllSound
  <2>7. CrossGranted(d) /\ GrantUsable(d)
    BY <1>1, <1>2, <2>1, <2>5, GrantSound DEF AllSound
  <2>8. InForceSound(d) /\ \A a \in ChildrenOf(d) : SpawnFits(d, a)
    BY <1>1, <1>2, <2>1, <2>6, SpawnsSound DEF AllSound
  <2>9. /\ \A a \in ChildrenOf(d) : ScopesFit(d, a)
        /\ \A i \in DOMAIN d.agents : Requested(d, d.agents[i])
    BY <1>1, <1>2, <2>1, ScopesSound DEF AllSound
  <2>10. d.audit = "intact" /\ UpdateBlock(d) = Sound
    BY <1>1, <1>2, <2>1, AuditSound DEF AllSound
  <2> QED
    BY <2>1, <2>3, <2>4, <2>5, <2>6, <2>7, <2>8, <2>9, <2>10, ConformingSplit
<1>3. ASSUME Conforming(d)
      PROVE  AllSound(d)
  <2>1. /\ d.chain = "array" /\ d.wellFormed /\ ~d.stray /\ d.anchors = 1
        /\ d.agents # <<>> /\ Distinct(d)
        /\ d.anchorFaults = {} /\ ~d.anchorRevoked /\ d.crl = "read" /\ d.audit = "intact"
        /\ d.policies # None /\ ParentsPresent(d)
    BY <1>3, ConformingSplit
  <2>2. StructureRefusal(d) = Sound /\ AnchorBlock(d) = Sound
    BY <1>1, <2>1, StructureSound, AnchorSound
  <2>3. AgentsBlock(d) = Sound
    BY <1>1, <1>3, <2>1, AgentsSound, ConformingSplit
  <2>4. LinksBlock(d) = Sound /\ AuthoritiesBlock(d) = Sound
    BY <1>1, <1>3, <2>1, LinksSound, AuthoritiesSound, ConformingSplit
  <2>5. GrantBlock(d) = Sound
    BY <1>1, <1>3, <2>1, GrantSound, ConformingSplit
  <2>6. UpdateBlock(d) = Sound
    BY <1>3, ConformingSplit
  <2>7. SpawnsBlock(d) = Sound
    BY <1>1, <1>3, <2>1, SpawnsSound, ConformingSplit
  <2>8. ScopesBlock(d) = Sound
    BY <1>1, <1>3, <2>1, ScopesSound, ConformingSplit
  <2>9. AuditRefusal(d) = Sound
    BY <1>1, <2>1, AuditSound
  <2> QED
    BY <2>2, <2>3, <2>4, <2>5, <2>6, <2>7, <2>8, <2>9 DEF AllSound
<1> QED
  BY <1>2, <1>3

-----------------------------------------------------------------------------
(***************************************************************************)
(* The run: what is known of the document when a block is reached.         *)
(***************************************************************************)

ThroughStructure(d) == d.audit # "illformed" /\ StructureRefusal(d) = Sound
ThroughAnchor(d) == ThroughStructure(d) /\ AnchorBlock(d) = Sound
ThroughAgents(d) == ThroughAnchor(d) /\ AgentsBlock(d) = Sound
ThroughLinks(d) == ThroughAgents(d) /\ LinksBlock(d) = Sound
ThroughAuthorities(d) == ThroughLinks(d) /\ AuthoritiesBlock(d) = Sound
ThroughGrant(d) == ThroughAuthorities(d) /\ GrantBlock(d) = Sound
ThroughUpdate(d) == ThroughGrant(d) /\ UpdateBlock(d) = Sound
ThroughSpawns(d) == ThroughUpdate(d) /\ SpawnsBlock(d) = Sound
ThroughScopes(d) == ThroughSpawns(d) /\ ScopesBlock(d) = Sound

\* Of the agents, those checked so far were accepted.
CheckedSound ==
  /\ checked \in 0..Len(doc.agents) - 1
  /\ \A i \in 1..checked : nodeChecks(doc, Ordered(doc)[i]).code = Sound

\* A run is refused for what the document's verdict says, or failed on its own.
Answered ==
  \/ failure.code = "ERR_INTERNAL"
  \/ ~AllSound(doc) /\ Verdict(doc) = failure.code

Running == {"loading", "structure", "anchor", "agents", "linking", "authorities",
            "granting", "updating", "delegating", "scoping", "auditing"}

RunInv ==
  /\ doc \in Documents
  /\ pc \in Running \cup {"refused", "done", "thrown"}
  /\ pc \in Running => verdict = "DENY" /\ log = <<>>
  /\ pc \in {"loading", "structure", "anchor"} => checked = 0
  /\ pc = "structure" => doc.audit # "illformed"
  /\ pc = "anchor" => ThroughStructure(doc)
  /\ pc = "agents" => ThroughAnchor(doc) /\ CheckedSound
  /\ pc = "linking" => ThroughAgents(doc)
  /\ pc = "authorities" => ThroughLinks(doc)
  /\ pc = "granting" => ThroughAuthorities(doc)
  /\ pc = "updating" => ThroughGrant(doc)
  /\ pc = "delegating" => ThroughUpdate(doc)
  /\ pc = "scoping" => ThroughSpawns(doc)
  /\ pc = "auditing" => ThroughScopes(doc)
  /\ pc \in Running \cup {"refused", "done"} /\ pc # "loading" => doc.audit # "illformed"
  /\ pc = "refused" => verdict = "DENY" /\ log = <<>> /\ Answered
  /\ pc = "done" => \/ verdict = "PASS" /\ log = <<"ALLOWED">> /\ AllSound(doc)
                    \/ verdict = "DENY" /\ log \in {<<>>, <<"DENIED">>} /\ Answered

LEMMA RunInit == Init => RunInv
BY DEF Init, RunInv, Running

\* A block's own refusal is the verdict if the blocks before it accept.
LEMMA BlockRefusal ==
  ASSUME NEW d, d.audit # "illformed"
  PROVE  /\ StructureRefusal(d) # Sound => ~AllSound(d) /\ Verdict(d) = StructureRefusal(d)
         /\ ThroughStructure(d) /\ AnchorBlock(d) # Sound
              => ~AllSound(d) /\ Verdict(d) = AnchorBlock(d)
         /\ ThroughAnchor(d) /\ AgentsBlock(d) # Sound
              => ~AllSound(d) /\ Verdict(d) = AgentsBlock(d)
         /\ ThroughAgents(d) /\ LinksBlock(d) # Sound
              => ~AllSound(d) /\ Verdict(d) = LinksBlock(d)
         /\ ThroughLinks(d) /\ AuthoritiesBlock(d) # Sound
              => ~AllSound(d) /\ Verdict(d) = AuthoritiesBlock(d)
         /\ ThroughAuthorities(d) /\ GrantBlock(d) # Sound
              => ~AllSound(d) /\ Verdict(d) = GrantBlock(d)
         /\ ThroughGrant(d) /\ UpdateBlock(d) # Sound
              => ~AllSound(d) /\ Verdict(d) = UpdateBlock(d)
         /\ ThroughUpdate(d) /\ SpawnsBlock(d) # Sound
              => ~AllSound(d) /\ Verdict(d) = SpawnsBlock(d)
         /\ ThroughSpawns(d) /\ ScopesBlock(d) # Sound
              => ~AllSound(d) /\ Verdict(d) = ScopesBlock(d)
         /\ ThroughScopes(d) /\ AuditRefusal(d) # Sound
              => ~AllSound(d) /\ Verdict(d) = AuditRefusal(d)
         /\ ThroughScopes(d) /\ AuditRefusal(d) = Sound => AllSound(d)
BY DEF Verdict, ++, AllSound, ThroughStructure, ThroughAnchor, ThroughAgents, ThroughLinks,
       ThroughAuthorities, ThroughGrant, ThroughUpdate, ThroughSpawns, ThroughScopes

\* The agents' block refuses with the first agent refused.
LEMMA AgentRefusal ==
  ASSUME NEW d, Typed(d), NEW n \in 0..Len(d.agents) - 1,
         \A i \in 1..n : nodeChecks(d, Ordered(d)[i]).code = Sound
  PROVE  /\ nodeChecks(d, Ordered(d)[n + 1]).code # Sound
              => AgentsBlock(d) = nodeChecks(d, Ordered(d)[n + 1]).code
         /\ nodeChecks(d, Ordered(d)[n + 1]).code = Sound /\ n + 1 = Len(d.agents)
              => AgentsBlock(d) = Sound
<1> DEFINE answers == [i \in DOMAIN d.agents |-> nodeChecks(d, Ordered(d)[i]).code]
<1>1. Len(d.agents) \in Nat /\ DOMAIN answers = 1..Len(d.agents) /\ n + 1 \in 1..Len(d.agents)
      /\ \A i \in 1..n + 1 : i \in 1..Len(d.agents)
  BY DEF Typed
<1>2. AgentsBlock(d) = FirstRefusal(answers)
  BY DEF AgentsBlock
<1>3. \A i \in 1..Len(d.agents) : answers[i] = nodeChecks(d, Ordered(d)[i]).code
  BY <1>1
<1> HIDE DEF answers
<1>4. ASSUME nodeChecks(d, Ordered(d)[n + 1]).code # Sound
      PROVE  AgentsBlock(d) = nodeChecks(d, Ordered(d)[n + 1]).code
  <2>1. \A i \in 1..(n + 1) - 1 : answers[i] = Sound
    <3>1. \A i \in 1..(n + 1) - 1 : i \in 1..n /\ i \in 1..Len(d.agents)
      BY <1>1
    <3> QED
      BY <1>3, <3>1
  <2>2. answers[n + 1] # Sound
    BY <1>1, <1>3, <1>4
  <2> QED
    BY <1>1, <1>2, <1>3, <2>1, <2>2, FirstRefusalAt
<1>5. ASSUME nodeChecks(d, Ordered(d)[n + 1]).code = Sound, n + 1 = Len(d.agents)
      PROVE  AgentsBlock(d) = Sound
  <2>1. \A i \in 1..Len(d.agents) : i \in 1..n \/ i = n + 1
    BY <1>1, <1>5
  <2>2. \A i \in 1..Len(d.agents) : answers[i] = Sound
    BY <1>3, <1>5, <2>1
  <2> QED
    BY <1>1, <1>2, <2>2, FirstRefusalSound
<1> QED
  BY <1>4, <1>5

LEMMA RefusedAnswered ==
  ASSUME NEW code, NEW subject, Refuse(code, subject), UNCHANGED doc,
         code = "ERR_INTERNAL" \/ (~AllSound(doc) /\ Verdict(doc) = code)
  PROVE  pc' = "refused" /\ Answered'
BY DEF Refuse, Answered

\* A run that is not at an agent, not done and not thrown keeps the invariant
\* if the next block has what it asks.
LEMMA RunReached ==
  ASSUME RunInv, UNCHANGED <<doc, verdict, log>>, pc \in Running \ {"loading"},
         \/ pc' = "refused" /\ Answered'
         \/ pc' = "linking" /\ ThroughAgents(doc)
         \/ pc' = "authorities" /\ ThroughLinks(doc)
         \/ pc' = "granting" /\ ThroughAuthorities(doc)
         \/ pc' = "updating" /\ ThroughGrant(doc)
         \/ pc' = "delegating" /\ ThroughUpdate(doc)
         \/ pc' = "scoping" /\ ThroughSpawns(doc)
         \/ pc' = "auditing" /\ ThroughScopes(doc)
  PROVE  RunInv'
BY DEF RunInv, Running, Answered

LEMMA RunStep == RunInv /\ [Next]_vars => RunInv'
<1> SUFFICES ASSUME RunInv, [Next]_vars PROVE RunInv'
  OBVIOUS
<1>0. doc \in Document /\ Typed(doc)
  BY DocumentsAssumption, DocumentTyped DEF RunInv
<1>1. CASE Load
  BY <1>1 DEF Load, RunInv, Running, report
<1>2. CASE CheckStructure
  <2>1. PICK code \in {StructureRefusal(doc)} :
          \/ code # Sound /\ \E subject : Refuse(code, subject)
          \/ code = Sound /\ pc' = "anchor"
    BY <1>2 DEF CheckStructure
  <2>2. pc = "structure" /\ UNCHANGED <<doc, checked, verdict, log>>
    BY <1>2 DEF CheckStructure
  <2>3. CASE code # Sound
    BY <2>1, <2>2, <2>3, BlockRefusal, RefusedAnswered, RunReached DEF RunInv, Running
  <2>4. CASE code = Sound
    <3>1. pc' = "anchor" /\ ThroughStructure(doc)
      BY <2>1, <2>2, <2>4 DEF Refuse, RunInv, ThroughStructure
    <3> QED
      BY <2>2, <3>1 DEF RunInv, Running, ThroughStructure
  <2> QED
    BY <2>3, <2>4
<1>3. CASE CheckAnchor
  <2>1. PICK code \in {AnchorBlock(doc)} :
          \/ code # Sound /\ \E subject : Refuse(code, subject)
          \/ code = Sound /\ pc' = "agents"
    BY <1>3 DEF CheckAnchor, Proceed
  <2>2. pc = "anchor" /\ UNCHANGED <<doc, checked, verdict, log>>
    BY <1>3 DEF CheckAnchor
  <2>3. CASE code # Sound
    BY <2>1, <2>2, <2>3, BlockRefusal, RefusedAnswered, RunReached DEF RunInv, Running
  <2>4. CASE code = Sound
    <3>1. pc' = "agents" /\ ThroughAnchor(doc)
      BY <2>1, <2>2, <2>4 DEF RunInv, ThroughAnchor
    <3>2. CheckedSound'
      <4>1. checked = 0 /\ doc.agents # <<>>
        BY <1>0, <2>2, <3>1, StructureSound DEF RunInv, ThroughAnchor, ThroughStructure
      <4>2. Len(doc.agents) \in Nat /\ Len(doc.agents) # 0
        BY <1>0, <4>1, EmptySeq DEF Typed
      <4> QED
        BY <2>2, <4>1, <4>2 DEF CheckedSound
    <3> QED
      BY <2>2, <3>1, <3>2 DEF RunInv, Running
  <2> QED
    BY <2>3, <2>4
<1>4. CASE CheckAgent
  <2> DEFINE n == checked
             answer == nodeChecks(doc, Ordered(doc)[checked + 1])
  <2>1. \/ answer.code # Sound /\ UNCHANGED checked /\ \E subject : Refuse(answer.code, subject)
        \/ /\ answer.code = Sound /\ checked' = checked + 1
           /\ pc' = IF checked + 1 = Len(doc.agents) THEN "linking" ELSE "agents"
    BY <1>4 DEF CheckAgent, Proceed, Advance
  <2>2. pc = "agents" /\ UNCHANGED <<doc, verdict, log>>
    BY <1>4 DEF CheckAgent
  <2>3. ThroughAnchor(doc) /\ CheckedSound
    BY <2>2 DEF RunInv
  <2>4. CASE answer.code # Sound
    <3>1. AgentsBlock(doc) = answer.code
      BY <1>0, <2>3, <2>4, AgentRefusal DEF CheckedSound
    <3>2. ~AllSound(doc) /\ Verdict(doc) = answer.code
      BY <2>2, <2>3, <2>4, <3>1, BlockRefusal DEF RunInv, ThroughAnchor, ThroughStructure
    <3>3. pc' = "refused" /\ Answered'
      <4>1. PICK subject : Refuse(answer.code, subject)
        BY <2>1, <2>4
      <4> QED
        BY <2>2, <3>2, <4>1 DEF Refuse, Answered
    <3> QED
      BY <2>2, <3>3, RunReached DEF Running
  <2>5. CASE answer.code = Sound /\ checked + 1 = Len(doc.agents)
    <3>1. ThroughAgents(doc) /\ pc' = "linking"
      BY <1>0, <2>1, <2>3, <2>5, AgentRefusal DEF CheckedSound, ThroughAgents
    <3> QED
      BY <2>2, <3>1, RunReached DEF Running
  <2>6. CASE answer.code = Sound /\ checked + 1 # Len(doc.agents)
    <3>1. checked' = checked + 1 /\ pc' = "agents"
      BY <2>1, <2>6
    <3>2. Len(doc.agents) \in Nat
      BY <1>0 DEF Typed
    <3>3. checked + 1 \in 0..Len(doc.agents) - 1 /\ \A i \in 1..checked + 1 : i \in 1..checked \/ i = checked + 1
      BY <2>3, <2>6, <3>2 DEF CheckedSound
    <3>4. CheckedSound'
      BY <2>2, <2>3, <2>6, <3>1, <3>3 DEF CheckedSound
    <3> QED
      BY <2>2, <2>3, <3>1, <3>4 DEF RunInv, Running
  <2> QED
    BY <2>4, <2>5, <2>6
<1>5. CASE CheckLinks
  <2>1. /\ pc = "linking" /\ UNCHANGED <<doc, verdict, log>>
        /\ \/ \E subject : Refuse(LinksBlock(doc), subject) /\ (Orphans(doc) # {} \/ LinksBlock(doc) # Sound)
           \/ LinksBlock(doc) = Sound /\ pc' = "authorities"
    BY <1>5 DEF CheckLinks
  <2>2. Orphans(doc) # {} => LinksBlock(doc) # Sound
    BY DEF LinksBlock, Require, ++, Sound
  <2> QED
    BY <2>1, <2>2, BlockRefusal, RefusedAnswered, RunReached DEF RunInv, Running, ThroughLinks
<1>6. CASE CheckAuthorities
  <2>1. /\ pc = "authorities" /\ UNCHANGED <<doc, verdict, log>>
        /\ \/ AuthoritiesBlock(doc) # Sound /\ \E subject : Refuse(AuthoritiesBlock(doc), subject)
           \/ AuthoritiesBlock(doc) = Sound /\ pc' = "granting"
    BY <1>6 DEF CheckAuthorities, Sound
  <2> QED
    BY <2>1, BlockRefusal, RefusedAnswered, RunReached DEF RunInv, Running, ThroughAuthorities
<1>7. CASE CheckGrant
  <2>1. /\ pc = "granting" /\ UNCHANGED <<doc, verdict, log>>
        /\ \/ GrantBlock(doc) # Sound /\ \E subject : Refuse(GrantBlock(doc), subject)
           \/ GrantBlock(doc) = Sound /\ pc' = "updating"
    BY <1>7 DEF CheckGrant, Proceed
  <2> QED
    BY <2>1, BlockRefusal, RefusedAnswered, RunReached DEF RunInv, Running, ThroughGrant
<1>8. CASE CheckUpdate
  <2>1. /\ pc = "updating" /\ UNCHANGED <<doc, verdict, log>>
        /\ \/ UpdateBlock(doc) # Sound /\ \E subject : Refuse(UpdateBlock(doc), subject)
           \/ UpdateBlock(doc) = Sound /\ pc' = "delegating"
    BY <1>8 DEF CheckUpdate, Proceed
  <2> QED
    BY <2>1, BlockRefusal, RefusedAnswered, RunReached DEF RunInv, Running, ThroughUpdate
<1>9. CASE CheckSpawns
  <2>1. /\ pc = "delegating" /\ UNCHANGED <<doc, verdict, log>>
        /\ \/ SpawnsBlock(doc) # Sound /\ \E subject : Refuse(SpawnsBlock(doc), subject)
           \/ SpawnsBlock(doc) = Sound /\ pc' = "scoping"
    BY <1>9 DEF CheckSpawns
  <2> QED
    BY <2>1, BlockRefusal, RefusedAnswered, RunReached DEF RunInv, Running, ThroughSpawns
<1>10. CASE CheckScopes
  <2>1. /\ pc = "scoping" /\ UNCHANGED <<doc, verdict, log>>
        /\ \/ ScopesBlock(doc) # Sound /\ \E subject : Refuse(ScopesBlock(doc), subject)
           \/ ScopesBlock(doc) = Sound /\ pc' = "auditing"
    BY <1>10 DEF CheckScopes, Proceed
  <2> QED
    BY <2>1, BlockRefusal, RefusedAnswered, RunReached DEF RunInv, Running, ThroughScopes
<1>11. CASE CheckAudit
  <2>1. /\ pc = "auditing" /\ UNCHANGED doc
        /\ \/ AuditRefusal(doc) # Sound /\ UNCHANGED <<verdict, log>>
              /\ \E subject : Refuse(AuditRefusal(doc), subject)
           \/ /\ AuditRefusal(doc) = Sound /\ pc' = "done" /\ verdict' = "PASS"
              /\ log' = Append(log, "ALLOWED")
    BY <1>11 DEF CheckAudit, Proceed
  <2>2. CASE AuditRefusal(doc) # Sound
    BY <2>1, <2>2, BlockRefusal, RefusedAnswered, RunReached DEF RunInv, Running
  <2>3. CASE AuditRefusal(doc) = Sound
    <3>1. AllSound(doc) /\ log = <<>> /\ doc.audit # "illformed"
      BY <2>1, <2>3, BlockRefusal DEF RunInv, Running
    <3>2. Append(<<>>, "ALLOWED") = <<"ALLOWED">>
      OBVIOUS
    <3> QED
      BY <2>1, <2>3, <3>1, <3>2 DEF RunInv, Running
  <2> QED
    BY <2>2, <2>3
<1>12. CASE Unexpected
  <2>1. /\ pc \in Running \ {"loading"} /\ UNCHANGED <<doc, verdict, log>>
        /\ Refuse("ERR_INTERNAL", None)
    BY <1>12 DEF Unexpected, Fallible, Running
  <2>2. pc' = "refused" /\ Answered'
    BY <2>1 DEF Refuse, Answered
  <2> QED
    BY <2>1, <2>2, RunReached
<1>13. CASE Catch
  <2>1. /\ pc = "refused" /\ pc' = "done" /\ UNCHANGED <<doc, checked, failure, verdict>>
        /\ log' = log \/ log' = Append(log, "DENIED")
    BY <1>13 DEF Catch
  <2>2. Append(<<>>, "DENIED") = <<"DENIED">>
    OBVIOUS
  <2> QED
    BY <2>1, <2>2 DEF RunInv, Running, Answered
<1>14. CASE UNCHANGED vars
  BY <1>14 DEF vars, report, RunInv, CheckedSound, Answered
<1> QED
  BY <1>1, <1>2, <1>3, <1>4, <1>5, <1>6, <1>7, <1>8, <1>9, <1>10, <1>11, <1>12, <1>13, <1>14
     DEF Next, Run

LEMMA RunAlways == Spec => []RunInv
<1> QED
  BY RunInit, RunStep, PTL DEF Spec

\* VerdictSound: a run ends in PASS only if all that the nine stages ask holds of
\* the document, and in a refusal only if something of it does not, or a check
\* failed on its own; and the refusal is the first of those the document calls for.
THEOREM VerdictSoundAlways == Spec => []VerdictSound
<1>1. RunInv => VerdictSound
  <2> SUFFICES ASSUME RunInv, pc = "done"
               PROVE  /\ verdict = "PASS" => Conforming(doc) /\ Verdict(doc) = "PASS"
                      /\ verdict = "DENY" => \/ failure.code = "ERR_INTERNAL"
                                             \/ ~Conforming(doc) /\ Verdict(doc) = failure.code
    BY DEF VerdictSound, Done
  <2>1. doc \in Document /\ doc.audit # "illformed"
    BY DocumentsAssumption DEF RunInv, Running
  <2>2. AllSound(doc) <=> Conforming(doc)
    BY <2>1, SoundConforms
  <2>3. AllSound(doc) => Verdict(doc) = "PASS"
    BY <2>1 DEF Verdict, ++, AllSound
  <2> QED
    BY <2>2, <2>3 DEF RunInv, Answered
<1> QED
  BY <1>1, RunAlways, PTL

\* OneEntry: a run leaves one audit entry at most, an ALLOWED one if and only if
\* it passes.
THEOREM OneEntryAlways == Spec => []OneEntry
<1>1. RunInv => OneEntry
  BY DEF RunInv, OneEntry, Done
<1> QED
  BY <1>1, RunAlways, PTL

-----------------------------------------------------------------------------
(***************************************************************************)
(* Types, and the subjects of the walk.                                    *)
(***************************************************************************)

AgentLabel == {"PARENT AGENT", "CHILD AGENT", "CHILD AGENT 2", "CHILD AGENT 3"}

LEMMA ChildLabels ==
  Codes(ChildLabel) = {"CHILD AGENT", "CHILD AGENT 2", "CHILD AGENT 3"} /\ Len(ChildLabel) = 3
  /\ \A i \in 1..3 : ChildLabel[i] \in {"CHILD AGENT", "CHILD AGENT 2", "CHILD AGENT 3"}
<1>1. DOMAIN ChildLabel = 1..3 /\ Len(ChildLabel) = 3
  BY DEF ChildLabel
<1>2. ChildLabel[1] = "CHILD AGENT" /\ ChildLabel[2] = "CHILD AGENT 2" /\ ChildLabel[3] = "CHILD AGENT 3"
  BY DEF ChildLabel
<1>3. 1..3 = {1, 2, 3}
  OBVIOUS
<1>4. Codes(ChildLabel) = {ChildLabel[i] : i \in {1, 2, 3}}
  BY <1>1, <1>3 DEF Codes
<1>5. {ChildLabel[i] : i \in {1, 2, 3}} = {ChildLabel[1], ChildLabel[2], ChildLabel[3]}
  OBVIOUS
<1> QED
  BY <1>1, <1>2, <1>3, <1>4, <1>5

LEMMA Subjects ==
  Subject = AgentLabel \cup {"TRUST ANCHOR", "CROSS-ORG GRANT", "POLICY UPDATE", "DELEGATION", "AUDIT CHAIN"}
BY ChildLabels DEF Subject, AgentLabel

LEMMA BlockNames == Codes(Blocks) = Running
<1> DEFINE n == 11
<1>1. DOMAIN Blocks = 1..11
  BY DEF Blocks
<1>2. /\ Blocks[1] = "loading" /\ Blocks[2] = "structure" /\ Blocks[3] = "anchor"
      /\ Blocks[4] = "agents" /\ Blocks[5] = "linking" /\ Blocks[6] = "authorities"
      /\ Blocks[7] = "granting" /\ Blocks[8] = "updating" /\ Blocks[9] = "delegating"
      /\ Blocks[10] = "scoping" /\ Blocks[11] = "auditing"
  BY DEF Blocks
<1>3. \A i \in 1..11 : \/ i = 1 \/ i = 2 \/ i = 3 \/ i = 4 \/ i = 5 \/ i = 6 \/ i = 7
                       \/ i = 8 \/ i = 9 \/ i = 10 \/ i = 11
  OBVIOUS
<1> QED
  BY <1>1, <1>2, <1>3 DEF Codes, Running

\* An agent is shown as the parent or as one of the children there are labels for.
LEMMA LabelOf ==
  ASSUME NEW d, Typed(d), Len(Claimants(d)) <= 3, NEW i \in 1..Len(d.agents)
  PROVE  Label(d, i) \in AgentLabel
<1> DEFINE roots == Roots(d)
           claimants == Claimants(d)
<1>1. roots \in Seq(Node) /\ claimants \in Seq(Node)
  BY PickedOf DEF Roots, Claimants, Typed
<1>2. Ordered(d) = roots \o claimants
  BY DEF Ordered, Sorted, Roots, Claimants
<1>3. Len(roots) \in Nat /\ Len(claimants) \in Nat
      /\ Len(roots \o claimants) = Len(roots) + Len(claimants)
  <2> HIDE DEF roots, claimants
  <2> QED
    BY <1>1, LenProperties, ConcatProperties
<1>4. Len(d.agents) = Len(roots) + Len(claimants)
  <2> HIDE DEF roots, claimants
  <2> QED
    BY <1>2, <1>3, OrderedDomain
<1>5. CASE i <= Len(Roots(d))
  BY <1>5 DEF Label, AgentLabel
<1>6. CASE ~(i <= Len(Roots(d)))
  <2>1. i - Len(Roots(d)) \in 1..3
    <3> HIDE DEF roots, claimants
    <3>1. i \in Int /\ i <= Len(roots) + Len(claimants) /\ Len(claimants) <= 3 /\ ~(i <= Len(roots))
      BY <1>3, <1>4, <1>6 DEF roots, claimants
    <3>2. i - Len(roots) \in 1..3
      BY <1>3, <3>1
    <3> QED
      BY <3>2 DEF roots
  <2> QED
    BY <1>6, <2>1, ChildLabels DEF Label, AgentLabel
<1> QED
  BY <1>5, <1>6

WalkTyped == walk \in [Subject -> Result \cup {None}]

LEMMA StepOf ==
  ASSUME WalkTyped, NEW s \in Subject, NEW r \in Result
  PROVE  /\ Step(s, r) \in [Subject -> Result \cup {None}]
         /\ \A t \in Subject \ {s} : Step(s, r)[t] = walk[t]
         /\ Step(s, r)[s] = IF walk[s] = None \/ r = "DENY" THEN r ELSE walk[s]
BY DEF WalkTyped, Step

LEMMA StageNumber ==
  ASSUME NEW code
  PROVE  StageOf(code) \in 0..9
<1> DEFINE listed == {n \in DOMAIN Catalogue : code \in Catalogue[n]}
<1>1. DOMAIN Catalogue = {0, 1, 3, 4, 5, 6, 7, 8, 9}
  BY DEF Catalogue
<1>2. CASE listed = {}
  BY <1>2 DEF StageOf
<1>3. CASE listed # {}
  <2>1. (CHOOSE n \in listed : TRUE) \in listed
    BY <1>3
  <2> QED
    BY <1>1, <1>3, <2>1 DEF StageOf
<1> QED
  BY <1>2, <1>3

-----------------------------------------------------------------------------
(***************************************************************************)
(* The rows of the decision log: which stages have one when a block is     *)
(* reached, and that none denies before the catch block adds the one that  *)
(* does.                                                                   *)
(***************************************************************************)

OneRowEach(rows) == rows \subseteq Row /\ \A r, s \in rows : r.n = s.n => r = s

Numbers(rows) == {r.n : r \in rows}

NoDenial(rows) == \A r \in rows : r.result # "DENY"

LEMMA NewRow ==
  ASSUME NEW n \in 1..9, NEW result \in Result
  PROVE  /\ [n |-> n, result |-> result] \in Row
         /\ [n |-> n, result |-> result].n = n
         /\ [n |-> n, result |-> result].result = result
BY DEF Row

LEMMA RecordAllOf ==
  ASSUME NEW rows, OneRowEach(rows), NEW ns, \A n \in ns : n \in 1..9
  PROVE  /\ OneRowEach(RecordAll(rows, ns))
         /\ Numbers(RecordAll(rows, ns)) = Numbers(rows) \cup ns
         /\ NoDenial(rows) => NoDenial(RecordAll(rows, ns))
<1> DEFINE fresh == {m \in ns : \A r \in rows : r.n # m}
           new == {[n |-> n, result |-> "PASS"] : n \in fresh}
<1>1. RecordAll(rows, ns) = rows \cup new
  BY DEF RecordAll
<1>2. \A r \in new : r \in Row /\ r.n \in fresh /\ r.result = "PASS" /\ r = [n |-> r.n, result |-> "PASS"]
  BY NewRow DEF Result
<1>3. \A n \in fresh : \E r \in new : r.n = n
  BY NewRow DEF Result
<1> HIDE DEF new
<1>4. OneRowEach(rows \cup new)
  BY <1>2 DEF OneRowEach
<1>5. Numbers(rows \cup new) = Numbers(rows) \cup ns
  <2>1. \A n \in ns : n \in fresh \/ \E r \in rows : r.n = n
    OBVIOUS
  <2> QED
    BY <1>2, <1>3, <2>1 DEF Numbers
<1>6. NoDenial(rows) => NoDenial(rows \cup new)
  BY <1>2 DEF NoDenial
<1> QED
  BY <1>1, <1>4, <1>5, <1>6

LEMMA RecordOf ==
  ASSUME NEW rows, OneRowEach(rows), NEW n \in 1..9, NEW result \in Result
  PROVE  /\ OneRowEach(Record(rows, n, result))
         /\ Numbers(Record(rows, n, result)) = Numbers(rows) \cup {n}
         /\ NoDenial(rows) /\ result # "DENY" => NoDenial(Record(rows, n, result))
         /\ NoDenial(rows) /\ result = "DENY" =>
              {r \in Record(rows, n, result) : r.result = "DENY"} = {[n |-> n, result |-> "DENY"]}
<1> DEFINE row == [n |-> n, result |-> result]
           others == {r \in rows : r.n # n}
<1>1. row \in Row /\ row.n = n /\ row.result = result
  BY NewRow
<1>2. \/ Record(rows, n, result) = others \cup {row}
      \/ /\ Record(rows, n, result) = rows
         /\ result # "DENY" /\ \E r \in rows : r.n = n
  BY DEF Record
<1>3. CASE Record(rows, n, result) = others \cup {row}
  <2>1. result = "DENY" => row = [n |-> n, result |-> "DENY"]
    OBVIOUS
  <2> HIDE DEF row
  <2>2. OneRowEach(others \cup {row})
    BY <1>1 DEF OneRowEach
  <2>3. Numbers(others \cup {row}) = Numbers(rows) \cup {n}
    BY <1>1 DEF Numbers
  <2>4. NoDenial(rows) /\ result # "DENY" => NoDenial(others \cup {row})
    BY <1>1 DEF NoDenial
  <2>5. NoDenial(rows) /\ result = "DENY" => {r \in others \cup {row} : r.result = "DENY"} = {row}
    BY <1>1 DEF NoDenial
  <2> QED
    BY <1>3, <2>1, <2>2, <2>3, <2>4, <2>5
<1>4. CASE /\ Record(rows, n, result) = rows
           /\ result # "DENY" /\ \E r \in rows : r.n = n
  BY <1>4 DEF Numbers
<1> QED
  BY <1>2, <1>3, <1>4

\* A row that does not deny, among rows that do not.
LEMMA RecordPass ==
  ASSUME NEW rows, OneRowEach(rows), NoDenial(rows), NEW n \in 1..9, NEW result \in {"PASS", "ADVISORY"}
  PROVE  /\ OneRowEach(Record(rows, n, result)) /\ NoDenial(Record(rows, n, result))
         /\ Numbers(Record(rows, n, result)) = Numbers(rows) \cup {n}
<1>1. result \in Result /\ result # "DENY"
  BY DEF Result
<1>2. OneRowEach(Record(rows, n, result))
  BY <1>1, RecordOf
<1>3. Numbers(Record(rows, n, result)) = Numbers(rows) \cup {n}
  BY <1>1, RecordOf
<1>4. NoDenial(Record(rows, n, result))
  BY <1>1, RecordOf
<1> QED
  BY <1>2, <1>3, <1>4

\* Rows of different stages, none of them the ninth, are eight at most.
LEMMA FewRows ==
  ASSUME NEW rows, OneRowEach(rows), \A n \in Numbers(rows) : n \in 1..8
  PROVE  Cardinality(rows) \in 0..8
<1> DEFINE number == [r \in rows |-> r.n]
<1>1. number \in Injection(rows, 1..8)
  BY DEF Injection, IsInjective, OneRowEach, Numbers
<1>2. IsFiniteSet(1..8) /\ Cardinality(1..8) = 8
  BY SegmentCount
<1> HIDE DEF number
<1>3. IsFiniteSet(rows) /\ Cardinality(rows) <= 8
  BY <1>1, <1>2, FS_Injection
<1> QED
  BY <1>3, FS_CardinalityType

\* The stages with a row when a block is reached.
Rowed ==
  CASE pc \in {"loading", "structure", "anchor"} -> {}
    [] pc = "agents" -> IF checked = 0 THEN {2} ELSE 1..3
    [] pc \in {"linking", "authorities", "granting", "updating"} -> 1..3
    [] pc = "delegating" -> 1..6
    [] pc = "scoping" -> 1..7
    [] pc = "auditing" -> 1..8

RowsInv ==
  /\ OneRowEach(stages)
  /\ \A n \in completed : n \in 4..6
  /\ pc \in Running \cup {"refused", "thrown"} =>
       NoDenial(stages) /\ \A n \in Numbers(stages) : n \in 1..8
  /\ pc \in Running => Numbers(stages) = Rowed
  /\ pc = "done" /\ verdict = "PASS" => NoDenial(stages) /\ Numbers(stages) = 1..9
  /\ pc = "done" /\ verdict = "DENY" =>
       \E n \in 1..9 :
         /\ {r \in stages : r.result = "DENY"} = {[n |-> n, result |-> "DENY"]}
         /\ StageOf(failure.code) # 0 => n = StageOf(failure.code)

LEMMA RowsInit == Init => RowsInv
<1> SUFFICES ASSUME Init PROVE RowsInv
  OBVIOUS
<1>1. stages = {} /\ completed = {} /\ pc = "loading"
  BY DEF Init
<1>2. Rowed = {} /\ Numbers(stages) = {}
  BY <1>1 DEF Rowed, Numbers
<1> QED
  BY <1>1, <1>2 DEF RowsInv, OneRowEach, NoDenial, Running

\* A step to another block, or to a refusal, with rows that suit it.
LEMMA RowsReached ==
  ASSUME RowsInv, OneRowEach(stages'), NoDenial(stages'),
         \A n \in Numbers(stages') : n \in 1..8, \A n \in completed' : n \in 4..6,
         \/ pc' \in {"refused", "thrown"}
         \/ pc' \in Running /\ Numbers(stages') = Rowed'
  PROVE  RowsInv'
BY DEF RowsInv, Running

LEMMA RowsUnchanged ==
  ASSUME RowsInv, pc \in Running, UNCHANGED <<stages, completed>>,
         \/ pc' \in {"refused", "thrown"}
         \/ pc' \in Running /\ Rowed' = Rowed
  PROVE  RowsInv'
<1>1. /\ OneRowEach(stages') /\ NoDenial(stages') /\ \A n \in Numbers(stages') : n \in 1..8
      /\ (\A n \in completed' : n \in 4..6) /\ Numbers(stages') = Rowed
  BY DEF RowsInv
<1>2. CASE pc' \in {"refused", "thrown"}
  BY <1>1, <1>2, RowsReached
<1>3. CASE pc' \in Running /\ Rowed' = Rowed
  BY <1>1, <1>3, RowsReached
<1> QED
  BY <1>2, <1>3

LEMMA PassedStages ==
  ASSUME NEW d, NEW node
  PROVE  /\ \A n \in nodeChecks(d, node).passed : n \in 1..3
         /\ nodeChecks(d, node).code = Sound => nodeChecks(d, node).passed = 1..3
<1> DEFINE named == Require({node.id, node.claims} \cap Misnamed = {}, "ERR_AGENT_ID_FORMAT")
           identified == named ++ CertificateRefusal(node.cert) ++ LinkRefusal(node)
           inStanding == identified ++ assertNotRevoked(d, node.id)
<1>1. /\ nodeChecks(d, node).code = inStanding
      /\ nodeChecks(d, node).passed = {n \in 1..3 : Sound = <<named, identified, inStanding>>[n]}
  BY DEF nodeChecks
<1>2. inStanding = Sound => identified = Sound /\ named = Sound
  BY ThenSound
<1> HIDE DEF named, identified, inStanding
<1>3. ASSUME inStanding = Sound, NEW n \in 1..3
      PROVE  <<named, identified, inStanding>>[n] = Sound
  <2>1. n = 1 \/ n = 2 \/ n = 3
    OBVIOUS
  <2> QED
    BY <1>2, <1>3, <2>1
<1> QED
  BY <1>1, <1>3

LEMMA RowsAgent == RunInv /\ RowsInv /\ CheckAgent => RowsInv'
<1> SUFFICES ASSUME RunInv, RowsInv, CheckAgent PROVE RowsInv'
  OBVIOUS
<1> DEFINE checks == nodeChecks(doc, Ordered(doc)[checked + 1])
           i == checked + 1
<1>1. /\ pc = "agents" /\ UNCHANGED completed /\ stages' = RecordAll(stages, checks.passed)
      /\ \/ pc' = "refused"
         \/ /\ checks.code = Sound /\ checked' = checked + 1
            /\ pc' = IF i = Len(doc.agents) THEN "linking" ELSE "agents"
  BY DEF CheckAgent, Refuse, Proceed, Advance
<1>2. (\A n \in checks.passed : n \in 1..3) /\ (checks.code = Sound => checks.passed = 1..3)
  BY PassedStages
<1> HIDE DEF checks
<1>3. /\ OneRowEach(stages) /\ NoDenial(stages) /\ (\A n \in Numbers(stages) : n \in 1..3)
      /\ \A n \in completed' : n \in 4..6
  <2>1. Numbers(stages) = Rowed
    BY <1>1 DEF RowsInv, Running
  <2>2. \A n \in Rowed : n \in 1..3
    BY <1>1 DEF Rowed
  <2> QED
    BY <1>1, <2>1, <2>2 DEF RowsInv, Running
<1>4. /\ OneRowEach(stages') /\ NoDenial(stages') /\ Numbers(stages') = Numbers(stages) \cup checks.passed
  <2>1. \A n \in checks.passed : n \in 1..9
    BY <1>2
  <2> QED
    BY <1>1, <1>3, <2>1, RecordAllOf
<1>5. \A n \in Numbers(stages') : n \in 1..8
  BY <1>2, <1>3, <1>4
<1>6. CASE pc' = "refused"
  BY <1>3, <1>4, <1>5, <1>6, RowsReached
<1>7. CASE /\ checks.code = Sound /\ checked' = checked + 1
           /\ pc' = IF i = Len(doc.agents) THEN "linking" ELSE "agents"
  <2>1. Numbers(stages') = 1..3
    BY <1>2, <1>3, <1>4, <1>7
  <2>2. checked' # 0
    BY <1>1, <1>7 DEF RunInv, CheckedSound
  <2>3. Rowed' = 1..3
    BY <1>7, <2>2 DEF Rowed
  <2>4. pc' \in Running
    BY <1>7 DEF Running
  <2> QED
    BY <1>3, <1>4, <1>5, <2>1, <2>3, <2>4, RowsReached
<1> QED
  BY <1>1, <1>6, <1>7

LEMMA RowsCatch == RowsInv /\ RunInv /\ Catch => RowsInv'
<1> SUFFICES ASSUME RowsInv, RunInv, Catch PROVE RowsInv'
  OBVIOUS
<1> DEFINE ns == {n \in completed : n < RefusalRow}
           rows == RecordAll(stages, ns)
<1>1. /\ pc = "refused" /\ pc' = "done" /\ stages' = Record(rows, RefusalRow, "DENY")
      /\ UNCHANGED <<completed, failure, verdict>>
  BY DEF Catch
<1>2. /\ OneRowEach(stages) /\ NoDenial(stages) /\ (\A n \in Numbers(stages) : n \in 1..8)
      /\ \A n \in completed : n \in 4..6
  BY <1>1 DEF RowsInv
<1>3. RefusalRow \in 1..9
  <2>1. Cardinality(stages) \in 0..8
    BY <1>2, FewRows
  <2>2. StageOf(failure.code) \in 0..9
    BY StageNumber
  <2> QED
    BY <2>1, <2>2 DEF RefusalRow
<1>4. OneRowEach(rows) /\ NoDenial(rows)
  <2>1. \A n \in ns : n \in 1..9
    BY <1>2
  <2> HIDE DEF ns
  <2> QED
    BY <1>2, <2>1, RecordAllOf
<1> HIDE DEF rows
<1>5. /\ OneRowEach(stages')
      /\ {r \in stages' : r.result = "DENY"} = {[n |-> RefusalRow, result |-> "DENY"]}
  <2>1. "DENY" \in Result
    BY DEF Result
  <2> QED
    BY <1>1, <1>3, <1>4, <2>1, RecordOf
<1>6. StageOf(failure.code) # 0 => RefusalRow = StageOf(failure.code)
  BY StageNumber DEF RefusalRow
<1>7. verdict' = "DENY"
  BY <1>1 DEF RunInv
<1> QED
  BY <1>1, <1>2, <1>3, <1>5, <1>6, <1>7 DEF RowsInv, Running

LEMMA RowsStep == RunInv /\ RowsInv /\ [Next]_vars => RowsInv'
<1> SUFFICES ASSUME RunInv, RowsInv, [Next]_vars PROVE RowsInv'
  OBVIOUS
<1>0. /\ pc \in Running => /\ OneRowEach(stages) /\ NoDenial(stages) /\ Numbers(stages) = Rowed
                           /\ \A n \in Numbers(stages) : n \in 1..8
      /\ \A n \in completed : n \in 4..6
  BY DEF RowsInv
<1>1. CASE Load
  <2>1. pc = "loading" /\ pc' \in {"structure", "thrown"} /\ UNCHANGED <<stages, completed>>
    BY <1>1 DEF Load, report
  <2>2. CASE pc' = "structure"
    BY <2>1, <2>2, RowsUnchanged DEF Rowed, Running
  <2> QED
    BY <2>1, <2>2, RowsUnchanged DEF Running
<1>2. CASE CheckStructure
  <2>1. pc = "structure" /\ pc' \in {"anchor", "refused"} /\ UNCHANGED <<stages, completed>>
    BY <1>2 DEF CheckStructure, Refuse
  <2>2. CASE pc' = "anchor"
    BY <2>1, <2>2, RowsUnchanged DEF Rowed, Running
  <2> QED
    BY <2>1, <2>2, RowsUnchanged DEF Running
<1>3. CASE CheckAnchor
  <2>1. /\ pc = "anchor" /\ UNCHANGED <<checked, completed>>
        /\ \/ pc' = "refused" /\ UNCHANGED stages
           \/ pc' = "agents" /\ stages' = Record(stages, 2, "PASS")
    BY <1>3 DEF CheckAnchor, Refuse, Proceed
  <2>2. CASE pc' = "refused" /\ UNCHANGED stages
    BY <2>1, <2>2, RowsUnchanged DEF Running
  <2>3. CASE pc' = "agents" /\ stages' = Record(stages, 2, "PASS")
    <3>1. pc \in Running /\ Rowed = {}
      BY <2>1 DEF Running, Rowed
    <3>2. OneRowEach(stages') /\ NoDenial(stages') /\ Numbers(stages') = {2}
      <4>1. 2 \in 1..9 /\ OneRowEach(stages) /\ NoDenial(stages) /\ Numbers(stages) = Rowed
        BY <1>0, <3>1
      <4> QED
        BY <2>3, <3>1, <4>1, RecordPass
    <3>3. checked' = 0
      BY <2>1 DEF RunInv
    <3>4. pc' \in Running /\ Rowed' = {2}
      BY <2>3, <3>3 DEF Running, Rowed
    <3>5. (\A n \in Numbers(stages') : n \in 1..8) /\ \A n \in completed' : n \in 4..6
      BY <1>0, <2>1, <3>2
    <3> QED
      BY <3>2, <3>4, <3>5, RowsReached
  <2> QED
    BY <2>1, <2>2, <2>3
<1>4. CASE CheckAgent
  BY <1>4, RowsAgent
<1>5. CASE CheckLinks
  <2>1. pc = "linking" /\ pc' \in {"authorities", "refused"} /\ UNCHANGED <<stages, completed>>
    BY <1>5 DEF CheckLinks, Refuse
  <2>2. CASE pc' = "authorities"
    BY <2>1, <2>2, RowsUnchanged DEF Rowed, Running
  <2> QED
    BY <2>1, <2>2, RowsUnchanged DEF Running
<1>6. CASE CheckAuthorities
  <2>1. pc = "authorities" /\ pc' \in {"granting", "refused"} /\ UNCHANGED <<stages, completed>>
    BY <1>6 DEF CheckAuthorities, Refuse
  <2>2. CASE pc' = "granting"
    BY <2>1, <2>2, RowsUnchanged DEF Rowed, Running
  <2> QED
    BY <2>1, <2>2, RowsUnchanged DEF Running
<1>7. CASE CheckGrant
  <2>1. pc = "granting" /\ pc' \in {"updating", "refused"} /\ UNCHANGED <<stages, completed>>
    BY <1>7 DEF CheckGrant, Refuse, Proceed
  <2>2. CASE pc' = "updating"
    BY <2>1, <2>2, RowsUnchanged DEF Rowed, Running
  <2> QED
    BY <2>1, <2>2, RowsUnchanged DEF Running
<1>8. CASE CheckUpdate
  <2>1. /\ pc = "updating"
        /\ completed' = IF doc.policy # None THEN onStage(doc, doc.policy) ELSE {}
        /\ \/ pc' = "refused" /\ UNCHANGED stages
           \/ pc' = "delegating" /\ stages' = RecordAll(stages, 4..6)
    BY <1>8 DEF CheckUpdate, Refuse, Proceed
  <2>2. \A n \in completed' : n \in 4..6
    BY <2>1 DEF onStage
  <2>3. pc \in Running /\ Rowed = 1..3
    BY <2>1 DEF Running, Rowed
  <2>4. CASE pc' = "refused" /\ UNCHANGED stages
    BY <1>0, <2>2, <2>3, <2>4, RowsReached
  <2>5. CASE pc' = "delegating" /\ stages' = RecordAll(stages, 4..6)
    <3>1. OneRowEach(stages') /\ NoDenial(stages') /\ Numbers(stages') = (1..3) \cup (4..6)
      <4>1. \A n \in 4..6 : n \in 1..9
        OBVIOUS
      <4> QED
        BY <1>0, <2>3, <2>5, <4>1, RecordAllOf
    <3>2. (1..3) \cup (4..6) = 1..6 /\ \A n \in 1..6 : n \in 1..8
      OBVIOUS
    <3>3. pc' \in Running /\ Rowed' = 1..6
      BY <2>5 DEF Running, Rowed
    <3> QED
      BY <2>2, <3>1, <3>2, <3>3, RowsReached
  <2> QED
    BY <2>1, <2>4, <2>5
<1>9. CASE CheckSpawns
  <2>1. /\ pc = "delegating" /\ UNCHANGED completed
        /\ \/ pc' = "refused" /\ UNCHANGED stages
           \/ pc' = "scoping" /\ stages' = Record(stages, 7, "PASS")
    BY <1>9 DEF CheckSpawns, Refuse
  <2>2. pc \in Running /\ Rowed = 1..6
    BY <2>1 DEF Running, Rowed
  <2>3. CASE pc' = "refused" /\ UNCHANGED stages
    BY <2>1, <2>2, <2>3, RowsUnchanged
  <2>4. CASE pc' = "scoping" /\ stages' = Record(stages, 7, "PASS")
    <3>1. OneRowEach(stages') /\ NoDenial(stages') /\ Numbers(stages') = (1..6) \cup {7}
      <4>1. 7 \in 1..9 /\ OneRowEach(stages) /\ NoDenial(stages) /\ Numbers(stages) = Rowed
        BY <1>0, <2>2
      <4> QED
        BY <2>2, <2>4, <4>1, RecordPass
    <3>2. (1..6) \cup {7} = 1..7 /\ \A n \in 1..7 : n \in 1..8
      OBVIOUS
    <3>3. pc' \in Running /\ Rowed' = 1..7
      BY <2>4 DEF Running, Rowed
    <3>4. \A n \in completed' : n \in 4..6
      BY <1>0, <2>1
    <3> QED
      BY <3>1, <3>2, <3>3, <3>4, RowsReached
  <2> QED
    BY <2>1, <2>3, <2>4
<1>10. CASE CheckScopes
  <2>1. PICK advised \in {TRUE, FALSE} :
          \E advisory \in {IF advised THEN Record(stages, 8, "ADVISORY") ELSE stages} :
            /\ pc = "scoping" /\ UNCHANGED completed
            /\ \/ pc' = "refused" /\ stages' = advisory
               \/ pc' = "auditing" /\ stages' = Record(advisory, 8, "PASS")
    <3>1. Advised(doc) \in {TRUE, FALSE}
      BY DEF Advised
    <3> QED
      BY <1>10, <3>1 DEF CheckScopes, Refuse, Proceed
  <2>2. PICK advisory \in {IF advised THEN Record(stages, 8, "ADVISORY") ELSE stages} :
            /\ pc = "scoping" /\ UNCHANGED completed
            /\ \/ pc' = "refused" /\ stages' = advisory
               \/ pc' = "auditing" /\ stages' = Record(advisory, 8, "PASS")
    BY <2>1
  <2>3. pc \in Running /\ Rowed = 1..7
    BY <2>2 DEF Running, Rowed
  <2>4. 8 \in 1..9 /\ OneRowEach(stages) /\ NoDenial(stages) /\ Numbers(stages) = 1..7
    BY <1>0, <2>3
  <2>5. /\ OneRowEach(advisory) /\ NoDenial(advisory)
        /\ Numbers(advisory) = 1..7 \/ Numbers(advisory) = (1..7) \cup {8}
    <3>1. CASE advised
      BY <2>4, <3>1, RecordPass
    <3>2. CASE ~advised
      BY <2>4, <3>2
    <3> QED
      BY <3>1, <3>2
  <2>6. (1..7) \cup {8} = 1..8 /\ (1..8) \cup {8} = 1..8 /\ \A n \in 1..7 : n \in 1..8
    OBVIOUS
  <2>7. \A n \in completed' : n \in 4..6
    BY <1>0, <2>2
  <2>8. CASE pc' = "refused" /\ stages' = advisory
    BY <2>5, <2>6, <2>7, <2>8, RowsReached
  <2>9. CASE pc' = "auditing" /\ stages' = Record(advisory, 8, "PASS")
    <3>1. OneRowEach(stages') /\ NoDenial(stages') /\ Numbers(stages') = 1..8
      BY <2>4, <2>5, <2>6, <2>9, RecordPass
    <3>2. pc' \in Running /\ Rowed' = 1..8
      BY <2>9 DEF Running, Rowed
    <3> QED
      BY <2>7, <3>1, <3>2, RowsReached
  <2> QED
    BY <2>2, <2>8, <2>9
<1>11. CASE CheckAudit
  <2>1. /\ pc = "auditing" /\ UNCHANGED completed
        /\ \/ pc' = "refused" /\ UNCHANGED stages
           \/ pc' = "done" /\ stages' = Record(stages, 9, "PASS") /\ verdict' = "PASS"
    BY <1>11 DEF CheckAudit, Refuse, Proceed
  <2>2. pc \in Running /\ Rowed = 1..8
    BY <2>1 DEF Running, Rowed
  <2>3. CASE pc' = "refused" /\ UNCHANGED stages
    BY <2>1, <2>2, <2>3, RowsUnchanged
  <2>4. CASE pc' = "done" /\ stages' = Record(stages, 9, "PASS") /\ verdict' = "PASS"
    <3>1. OneRowEach(stages') /\ NoDenial(stages') /\ Numbers(stages') = (1..8) \cup {9}
      <4>1. 9 \in 1..9 /\ OneRowEach(stages) /\ NoDenial(stages) /\ Numbers(stages) = Rowed
        BY <1>0, <2>2
      <4> QED
        BY <2>2, <2>4, <4>1, RecordPass
    <3>2. (1..8) \cup {9} = 1..9
      OBVIOUS
    <3>3. \A n \in completed' : n \in 4..6
      BY <1>0, <2>1
    <3> QED
      BY <2>4, <3>1, <3>2, <3>3 DEF RowsInv, Running
  <2> QED
    BY <2>1, <2>3, <2>4
<1>12. CASE Unexpected
  <2>1. /\ pc \in Running /\ pc' = "refused" /\ UNCHANGED completed
        /\ \/ UNCHANGED stages
           \/ pc = "agents" /\ stages' = RecordAll(stages, {1})
    BY <1>12 DEF Unexpected, Fallible, Refuse, Running
  <2>2. CASE UNCHANGED stages
    BY <2>1, <2>2, RowsUnchanged
  <2>3. CASE pc = "agents" /\ stages' = RecordAll(stages, {1})
    <3>1. OneRowEach(stages') /\ NoDenial(stages') /\ Numbers(stages') = Numbers(stages) \cup {1}
      BY <1>0, <2>1, <2>3, RecordAllOf
    <3>2. (\A n \in Numbers(stages') : n \in 1..8) /\ \A n \in completed' : n \in 4..6
      BY <1>0, <2>1, <3>1
    <3> QED
      BY <2>1, <3>1, <3>2, RowsReached
  <2> QED
    BY <2>1, <2>2, <2>3
<1>13. CASE Catch
  BY <1>13, RowsCatch
<1>14. CASE UNCHANGED vars
  BY <1>14 DEF vars, report, RowsInv, Rowed
<1> QED
  BY <1>1, <1>2, <1>3, <1>4, <1>5, <1>6, <1>7, <1>8, <1>9, <1>10, <1>11, <1>12, <1>13, <1>14
     DEF Next, Run

LEMMA RowsAlways == Spec => []RowsInv
<1> QED
  BY RowsInit, RowsStep, RunAlways, PTL DEF Spec

\* OneDenial: the log of a run that ends has one row for each stage it shows: nine
\* rows without a refusal, or one refusal, at the stage of the refusal caught.
THEOREM OneDenialAlways == Spec => []OneDenial
<1>1. RunInv /\ RowsInv => OneDenial
  <2> SUFFICES ASSUME RunInv, RowsInv, pc = "done",
                      NEW denied, denied = {r \in stages : r.result = "DENY"}
               PROVE  /\ \A r, s \in stages : r.n = s.n => r = s
                      /\ verdict = "PASS" => denied = {} /\ {r.n : r \in stages} = 1..9
                      /\ verdict = "DENY" => /\ Cardinality(denied) = 1
                                             /\ StageOf(failure.code) # 0 =>
                                                  \A r \in denied : r.n = StageOf(failure.code)
    BY DEF OneDenial, Done
  <2>1. \A r, s \in stages : r.n = s.n => r = s
    BY DEF RowsInv, OneRowEach
  <2>2. ASSUME verdict = "PASS"
        PROVE  denied = {} /\ {r.n : r \in stages} = 1..9
    BY <2>2 DEF RowsInv, NoDenial, Numbers
  <2>3. ASSUME verdict = "DENY"
        PROVE  /\ Cardinality(denied) = 1
               /\ StageOf(failure.code) # 0 => \A r \in denied : r.n = StageOf(failure.code)
    <3>1. PICK n \in 1..9 : /\ denied = {[n |-> n, result |-> "DENY"]}
                            /\ StageOf(failure.code) # 0 => n = StageOf(failure.code)
      BY <2>3 DEF RowsInv
    <3>2. Cardinality(denied) = 1
      BY <3>1, FS_Singleton
    <3> QED
      BY <3>1, <3>2
  <2> QED
    BY <2>1, <2>2, <2>3
<1> QED
  BY <1>1, RowsAlways, RunAlways, PTL

-----------------------------------------------------------------------------
(***************************************************************************)
(* The walk: which subjects have no row yet when a block is reached, and    *)
(* that none is denied before a refusal names it.                          *)
(***************************************************************************)

FromGrant == {"CROSS-ORG GRANT", "POLICY UPDATE", "DELEGATION", "AUDIT CHAIN"}
FromUpdate == {"POLICY UPDATE", "DELEGATION", "AUDIT CHAIN"}
FromDelegation == {"DELEGATION", "AUDIT CHAIN"}

\* The subjects without a row when a block is reached.
Unwalked ==
  CASE pc \in {"loading", "structure", "anchor"} -> Subject
    [] pc \in {"agents", "linking", "authorities", "granting"} -> FromGrant
    [] pc = "updating" -> FromUpdate
    [] pc \in {"delegating", "scoping"} -> FromDelegation
    [] pc = "auditing" -> {"AUDIT CHAIN"}

\* The subjects of the blocks after the one that shows s.
After(s) ==
  CASE s \in AgentLabel -> FromGrant
    [] s = "CROSS-ORG GRANT" -> FromUpdate
    [] s = "POLICY UPDATE" -> FromDelegation
    [] s = "DELEGATION" -> {"AUDIT CHAIN"}
    [] s = "AUDIT CHAIN" -> {}

\* The subjects a refusal may name: those of no block after the one it is made in.
Blamable == {s \in Subject \ {"TRUST ANCHOR"} : \A t \in After(s) : t \in Unwalked}

DeniedOnly(s) ==
  /\ s \in (Subject \ {"TRUST ANCHOR"}) \cup {None}
  /\ \A t \in Subject : walk[t] = "DENY" <=> t = s
  /\ s # None => \A t \in After(s) : walk[t] = None

WalkInv ==
  /\ WalkTyped
  /\ pc \in Running \cup {"thrown"} => failure = None /\ \A t \in Subject : walk[t] # "DENY"
  /\ pc \in Running => \A t \in Unwalked : walk[t] = None
  /\ pc = "done" /\ verdict = "PASS" => failure = None /\ \A t \in Subject : walk[t] # "DENY"
  /\ pc = "refused" \/ (pc = "done" /\ verdict = "DENY") => DeniedOnly(failure.subject)

LEMMA WalkInit == Init => WalkInv
<1> SUFFICES ASSUME Init PROVE WalkInv
  OBVIOUS
<1>1. \A t \in Subject : walk[t] = None /\ walk[t] # "DENY"
  BY RowsAssumption DEF Init, Result
<1>2. WalkTyped
  BY DEF Init, WalkTyped
<1>3. pc = "loading" /\ failure = None /\ Unwalked = Subject
  BY DEF Init, Unwalked
<1> QED
  BY <1>1, <1>2, <1>3 DEF WalkInv

\* What is refused is shown denied, and nothing after it has a row.
LEMMA WalkRefused ==
  ASSUME WalkInv, pc \in Running, NEW code, NEW s \in Blamable \cup {None}, Refuse(code, s)
  PROVE  WalkInv'
<1>1. pc' = "refused" /\ failure' = [code |-> code, subject |-> s] /\ failure'.subject = s
  BY DEF Refuse
<1>2. /\ WalkTyped /\ \A t \in Subject : walk[t] # "DENY"
      /\ \A t \in Unwalked : walk[t] = None
  BY DEF WalkInv
<1>3. "DENY" \in Result
  BY DEF Result
<1>4. CASE s = None
  <2>1. walk' = walk
    BY <1>4 DEF Refuse
  <2>2. \A t \in Subject : t # s
    BY <1>4, RowsAssumption
  <2>3. WalkTyped' /\ DeniedOnly(s)'
    BY <1>2, <1>4, <2>1, <2>2 DEF DeniedOnly, WalkTyped
  <2> QED
    BY <1>1, <2>3 DEF WalkInv, Running, DeniedOnly
<1>5. CASE s # None
  <2>1. /\ walk' = Step(s, "DENY") /\ s \in Subject \ {"TRUST ANCHOR"}
        /\ \A t \in After(s) : t \in Unwalked
    BY <1>5 DEF Refuse, Blamable
  <2>2. /\ walk' \in [Subject -> Result \cup {None}]
        /\ \A t \in Subject \ {s} : walk'[t] = walk[t]
        /\ walk'[s] = "DENY"
    BY <1>2, <1>3, <2>1, StepOf
  <2>3. \A t \in After(s) : t \in Subject \ {s}
    BY <2>1, Subjects DEF After, FromGrant, FromUpdate, FromDelegation, AgentLabel
  <2>4. \A t \in After(s) : walk'[t] = None
    BY <1>2, <2>1, <2>2, <2>3
  <2>5. \A t \in Subject : walk'[t] = "DENY" <=> t = s
    BY <1>2, <2>2
  <2>6. WalkTyped' /\ DeniedOnly(s)'
    BY <2>1, <2>2, <2>4, <2>5 DEF DeniedOnly, WalkTyped
  <2> QED
    BY <1>1, <2>6 DEF WalkInv, Running, DeniedOnly
<1> QED
  BY <1>4, <1>5

\* A subject passed is shown, and those of the blocks to come are not.
LEMMA WalkPassed ==
  ASSUME WalkInv, pc \in Running, NEW s \in Subject, NEW result \in {"PASS", "ADVISORY"},
         Proceed(pc', s, result),
         \/ pc' = "done" /\ verdict' = "PASS"
         \/ pc' \in Running /\ \A t \in Unwalked' : t \in Unwalked /\ t \in Subject \ {s}
  PROVE  WalkInv'
<1>1. /\ WalkTyped /\ (\A t \in Subject : walk[t] # "DENY") /\ failure' = None
      /\ \A t \in Unwalked : walk[t] = None
  BY DEF WalkInv, Proceed
<1>2. result \in Result /\ result # "DENY" /\ walk' = Step(s, result)
  BY DEF Result, Proceed
<1>3. /\ walk' \in [Subject -> Result \cup {None}]
      /\ \A t \in Subject \ {s} : walk'[t] = walk[t]
      /\ walk'[s] = result \/ walk'[s] = walk[s]
  BY <1>1, <1>2, StepOf
<1>4. WalkTyped' /\ \A t \in Subject : walk'[t] # "DENY"
  BY <1>1, <1>2, <1>3 DEF WalkTyped
<1>5. CASE pc' = "done" /\ verdict' = "PASS"
  BY <1>1, <1>4, <1>5 DEF WalkInv, Running
<1>6. CASE pc' \in Running /\ \A t \in Unwalked' : t \in Unwalked /\ t \in Subject \ {s}
  <2>1. \A t \in Unwalked' : walk'[t] = None
    BY <1>1, <1>3, <1>6
  <2> QED
    BY <1>1, <1>4, <1>6, <2>1 DEF WalkInv, Running
<1> QED
  BY <1>5, <1>6

\* A step that shows nothing.
LEMMA WalkUnchanged ==
  ASSUME WalkInv, pc \in Running, UNCHANGED <<walk, failure>>,
         \/ pc' = "thrown"
         \/ pc' \in Running /\ Unwalked' = Unwalked
  PROVE  WalkInv'
<1>1. /\ WalkTyped' /\ (\A t \in Subject : walk'[t] # "DENY") /\ failure' = None
      /\ \A t \in Unwalked : walk'[t] = None
  BY DEF WalkInv, WalkTyped
<1> QED
  BY <1>1 DEF WalkInv, Running

\* The subjects each block may name.
LEMMA BlamableAt ==
  /\ pc \in {"loading", "structure", "anchor", "agents", "linking", "authorities", "granting"} =>
       \A s \in AgentLabel \cup {"CROSS-ORG GRANT", "POLICY UPDATE"} : s \in Blamable
  /\ pc = "updating" => "POLICY UPDATE" \in Blamable
  /\ pc \in {"delegating", "scoping"} => "DELEGATION" \in Blamable
  /\ pc = "auditing" => "AUDIT CHAIN" \in Blamable
BY Subjects DEF Blamable, Unwalked, After, AgentLabel, FromGrant, FromUpdate, FromDelegation

LEMMA WalkStep == RunInv /\ WalkInv /\ [Next]_vars => WalkInv'
<1> SUFFICES ASSUME RunInv, WalkInv, [Next]_vars PROVE WalkInv'
  OBVIOUS
<1>0. /\ Typed(doc) /\ Len(Claimants(doc)) <= 3
      /\ \A i \in 1..Len(doc.agents) : Label(doc, i) \in AgentLabel
  <2>1. doc \in Document /\ Len(Claimants(doc)) <= 3
    BY DocumentsAssumption, ChildLabels DEF RunInv
  <2>2. Typed(doc)
    BY <2>1, DocumentTyped
  <2> QED
    BY <2>1, <2>2, LabelOf
<1>1. CASE Load
  <2>1. pc = "loading" /\ pc' \in {"structure", "thrown"} /\ UNCHANGED <<walk, failure>>
    BY <1>1 DEF Load, report
  <2>2. CASE pc' = "structure"
    BY <2>1, <2>2, WalkUnchanged DEF Unwalked, Running
  <2> QED
    BY <2>1, <2>2, WalkUnchanged DEF Running
<1>2. CASE CheckStructure
  <2>1. /\ pc = "structure"
        /\ \/ \E code : \E s \in {None, "CHILD AGENT", "PARENT AGENT"} : Refuse(code, s)
           \/ pc' = "anchor" /\ UNCHANGED <<walk, failure>>
    BY <1>2 DEF CheckStructure
  <2>2. CASE pc' = "anchor" /\ UNCHANGED <<walk, failure>>
    BY <2>1, <2>2, WalkUnchanged DEF Unwalked, Running
  <2>3. ASSUME NEW code, NEW s \in {None, "CHILD AGENT", "PARENT AGENT"}, Refuse(code, s)
        PROVE  WalkInv'
    <3>1. s \in Blamable \cup {None}
      BY <2>1, BlamableAt DEF AgentLabel
    <3> QED
      BY <2>1, <2>3, <3>1, WalkRefused DEF Running
  <2> QED
    BY <2>1, <2>2, <2>3
<1>3. CASE CheckAnchor
  <2>1. /\ pc = "anchor"
        /\ \/ \E code : Refuse(code, None)
           \/ pc' = "agents" /\ Proceed(pc', "TRUST ANCHOR", "PASS")
    BY <1>3 DEF CheckAnchor, Proceed
  <2>2. CASE \E code : Refuse(code, None)
    BY <2>1, <2>2, WalkRefused DEF Running
  <2>3. CASE pc' = "agents" /\ Proceed(pc', "TRUST ANCHOR", "PASS")
    <3>1. /\ "TRUST ANCHOR" \in Subject
          /\ \A t \in Unwalked' : t \in Unwalked /\ t \in Subject \ {"TRUST ANCHOR"}
      BY <2>1, <2>3, Subjects DEF Unwalked, FromGrant
    <3> QED
      BY <2>1, <2>3, <3>1, WalkPassed DEF Running
  <2> QED
    BY <2>1, <2>2, <2>3
<1>4. CASE CheckAgent
  <2> DEFINE label == Label(doc, checked + 1)
  <2>1. /\ pc = "agents"
        /\ \/ \E code : Refuse(code, label)
           \/ pc' \in {"agents", "linking"} /\ Proceed(pc', label, "PASS")
    BY <1>4 DEF CheckAgent, Proceed
  <2>2. label \in AgentLabel
    <3>1. checked + 1 \in 1..Len(doc.agents)
      BY <1>0, <2>1 DEF RunInv, CheckedSound, Typed
    <3> QED
      BY <1>0, <3>1
  <2> HIDE DEF label
  <2>3. CASE \E code : Refuse(code, label)
    <3>1. label \in Blamable
      BY <2>1, <2>2, BlamableAt
    <3> QED
      BY <2>1, <2>3, <3>1, WalkRefused DEF Running
  <2>4. CASE pc' \in {"agents", "linking"} /\ Proceed(pc', label, "PASS")
    <3>1. label \in Subject /\ \A t \in Unwalked' : t \in Unwalked /\ t \in Subject \ {label}
      BY <2>1, <2>2, <2>4, Subjects DEF Unwalked, FromGrant, AgentLabel
    <3> QED
      BY <2>1, <2>4, <3>1, WalkPassed DEF Running
  <2> QED
    BY <2>1, <2>3, <2>4
<1>5. CASE CheckLinks
  <2>1. \A i \in Orphans(doc) : Label(doc, i) \in AgentLabel
    BY <1>0, OrderedDomain DEF Orphans
  <2>2. /\ pc = "linking"
        /\ \/ \E code : \E s \in AgentLabel : Refuse(code, s)
           \/ pc' = "authorities" /\ UNCHANGED <<walk, failure>>
    BY <1>5, <2>1 DEF CheckLinks, AgentLabel
  <2>3. CASE pc' = "authorities" /\ UNCHANGED <<walk, failure>>
    BY <2>2, <2>3, WalkUnchanged DEF Unwalked, Running
  <2>4. ASSUME NEW code, NEW s \in AgentLabel, Refuse(code, s)
        PROVE  WalkInv'
    <3>1. s \in Blamable
      BY <2>2, BlamableAt
    <3> QED
      BY <2>2, <2>4, <3>1, WalkRefused DEF Running
  <2> QED
    BY <2>2, <2>3, <2>4
<1>6. CASE CheckAuthorities
  <2>1. /\ pc = "authorities"
        /\ \/ \E code : \E s \in {None, "CROSS-ORG GRANT", "POLICY UPDATE"} : Refuse(code, s)
           \/ pc' = "granting" /\ UNCHANGED <<walk, failure>>
    BY <1>6 DEF CheckAuthorities
  <2>2. CASE pc' = "granting" /\ UNCHANGED <<walk, failure>>
    BY <2>1, <2>2, WalkUnchanged DEF Unwalked, Running
  <2>3. ASSUME NEW code, NEW s \in {None, "CROSS-ORG GRANT", "POLICY UPDATE"}, Refuse(code, s)
        PROVE  WalkInv'
    <3>1. s \in Blamable \cup {None}
      BY <2>1, BlamableAt
    <3> QED
      BY <2>1, <2>3, <3>1, WalkRefused DEF Running
  <2> QED
    BY <2>1, <2>2, <2>3
<1>7. CASE CheckGrant
  <2>1. /\ pc = "granting"
        /\ \/ \E code : Refuse(code, "CROSS-ORG GRANT")
           \/ pc' = "updating" /\ Proceed(pc', "CROSS-ORG GRANT", "PASS")
    BY <1>7 DEF CheckGrant, Proceed
  <2>2. "CROSS-ORG GRANT" \in Blamable
    BY <2>1, BlamableAt
  <2>3. CASE \E code : Refuse(code, "CROSS-ORG GRANT")
    BY <2>1, <2>2, <2>3, WalkRefused DEF Running
  <2>4. CASE pc' = "updating" /\ Proceed(pc', "CROSS-ORG GRANT", "PASS")
    <3>1. /\ "CROSS-ORG GRANT" \in Subject
          /\ \A t \in Unwalked' : t \in Unwalked /\ t \in Subject \ {"CROSS-ORG GRANT"}
      BY <2>1, <2>4, Subjects DEF Unwalked, FromGrant, FromUpdate
    <3> QED
      BY <2>1, <2>4, <3>1, WalkPassed DEF Running
  <2> QED
    BY <2>1, <2>3, <2>4
<1>8. CASE CheckUpdate
  <2>1. /\ pc = "updating"
        /\ \/ \E code : Refuse(code, "POLICY UPDATE")
           \/ pc' = "delegating" /\ Proceed(pc', "POLICY UPDATE", "PASS")
    BY <1>8 DEF CheckUpdate, Proceed
  <2>2. "POLICY UPDATE" \in Blamable
    BY <2>1, BlamableAt
  <2>3. CASE \E code : Refuse(code, "POLICY UPDATE")
    BY <2>1, <2>2, <2>3, WalkRefused DEF Running
  <2>4. CASE pc' = "delegating" /\ Proceed(pc', "POLICY UPDATE", "PASS")
    <3>1. /\ "POLICY UPDATE" \in Subject
          /\ \A t \in Unwalked' : t \in Unwalked /\ t \in Subject \ {"POLICY UPDATE"}
      BY <2>1, <2>4, Subjects DEF Unwalked, FromUpdate, FromDelegation
    <3> QED
      BY <2>1, <2>4, <3>1, WalkPassed DEF Running
  <2> QED
    BY <2>1, <2>3, <2>4
<1>9. CASE CheckSpawns
  <2>1. /\ pc = "delegating"
        /\ \/ \E code : Refuse(code, "DELEGATION")
           \/ pc' = "scoping" /\ UNCHANGED <<walk, failure>>
    BY <1>9 DEF CheckSpawns
  <2>2. "DELEGATION" \in Blamable
    BY <2>1, BlamableAt
  <2>3. CASE \E code : Refuse(code, "DELEGATION")
    BY <2>1, <2>2, <2>3, WalkRefused DEF Running
  <2>4. CASE pc' = "scoping" /\ UNCHANGED <<walk, failure>>
    BY <2>1, <2>4, WalkUnchanged DEF Unwalked, Running
  <2> QED
    BY <2>1, <2>3, <2>4
<1>10. CASE CheckScopes
  <2>1. /\ pc = "scoping"
        /\ \/ \E code : Refuse(code, "DELEGATION")
           \/ pc' = "auditing" /\ \E r \in {"PASS", "ADVISORY"} : Proceed(pc', "DELEGATION", r)
    BY <1>10 DEF CheckScopes, Proceed
  <2>2. "DELEGATION" \in Blamable
    BY <2>1, BlamableAt
  <2>3. CASE \E code : Refuse(code, "DELEGATION")
    BY <2>1, <2>2, <2>3, WalkRefused DEF Running
  <2>4. ASSUME pc' = "auditing", NEW r \in {"PASS", "ADVISORY"}, Proceed(pc', "DELEGATION", r)
        PROVE  WalkInv'
    <3>1. /\ "DELEGATION" \in Subject
          /\ \A t \in Unwalked' : t \in Unwalked /\ t \in Subject \ {"DELEGATION"}
      BY <2>1, <2>4, Subjects DEF Unwalked, FromDelegation
    <3> QED
      BY <2>1, <2>4, <3>1, WalkPassed DEF Running
  <2> QED
    BY <2>1, <2>3, <2>4
<1>11. CASE CheckAudit
  <2>1. /\ pc = "auditing"
        /\ \/ \E code : Refuse(code, "AUDIT CHAIN")
           \/ pc' = "done" /\ verdict' = "PASS" /\ Proceed(pc', "AUDIT CHAIN", "PASS")
    BY <1>11 DEF CheckAudit, Proceed
  <2>2. "AUDIT CHAIN" \in Blamable /\ "AUDIT CHAIN" \in Subject
    BY <2>1, BlamableAt, Subjects
  <2>3. CASE \E code : Refuse(code, "AUDIT CHAIN")
    BY <2>1, <2>2, <2>3, WalkRefused DEF Running
  <2>4. CASE pc' = "done" /\ verdict' = "PASS" /\ Proceed(pc', "AUDIT CHAIN", "PASS")
    BY <2>1, <2>2, <2>4, WalkPassed DEF Running
  <2> QED
    BY <2>1, <2>3, <2>4
<1>12. CASE Unexpected
  <2>1. pc \in Running /\ Refuse("ERR_INTERNAL", None)
    BY <1>12 DEF Unexpected, Fallible, Running
  <2> QED
    BY <2>1, WalkRefused
<1>13. CASE Catch
  <2>1. /\ pc = "refused" /\ pc' = "done" /\ UNCHANGED <<walk, failure, verdict>>
    BY <1>13 DEF Catch
  <2>2. verdict' = "DENY"
    BY <2>1 DEF RunInv
  <2> QED
    BY <2>1, <2>2 DEF WalkInv, WalkTyped, DeniedOnly, Running
<1>14. CASE UNCHANGED vars
  BY <1>14 DEF vars, report, WalkInv, WalkTyped, DeniedOnly, Unwalked
<1> QED
  BY <1>1, <1>2, <1>3, <1>4, <1>5, <1>6, <1>7, <1>8, <1>9, <1>10, <1>11, <1>12, <1>13, <1>14
     DEF Next, Run

LEMMA WalkAlways == Spec => []WalkInv
<1> QED
  BY WalkInit, WalkStep, RunAlways, PTL DEF Spec

\* The blocks of the walk, in order.
LEMMA WalkedBlocks ==
  /\ DOMAIN Walked = 1..6
  /\ Walked[1] = {"TRUST ANCHOR"} /\ Walked[2] = AgentLabel
  /\ Walked[3] = {"CROSS-ORG GRANT"} /\ Walked[4] = {"POLICY UPDATE"}
  /\ Walked[5] = {"DELEGATION"} /\ Walked[6] = {"AUDIT CHAIN"}
<1>1. DOMAIN Walked = 1..6
  BY DEF Walked
<1>2. /\ Walked[1] = {"TRUST ANCHOR"} /\ Walked[2] = {"PARENT AGENT"} \cup Codes(ChildLabel)
      /\ Walked[3] = {"CROSS-ORG GRANT"} /\ Walked[4] = {"POLICY UPDATE"}
      /\ Walked[5] = {"DELEGATION"} /\ Walked[6] = {"AUDIT CHAIN"}
  BY DEF Walked
<1> QED
  BY <1>1, <1>2, ChildLabels DEF AgentLabel

LEMMA WalkedSubjects == \A i \in DOMAIN Walked : \A s \in Walked[i] : s \in Subject
<1>1. \A i \in DOMAIN Walked : i = 1 \/ i = 2 \/ i = 3 \/ i = 4 \/ i = 5 \/ i = 6
  <2>1. DOMAIN Walked = 1..6
    BY WalkedBlocks
  <2> QED
    BY <2>1
<1>2. /\ Walked[1] \subseteq Subject /\ Walked[2] \subseteq Subject /\ Walked[3] \subseteq Subject
      /\ Walked[4] \subseteq Subject /\ Walked[5] \subseteq Subject /\ Walked[6] \subseteq Subject
  BY WalkedBlocks, Subjects
<1>3. \A i \in DOMAIN Walked : Walked[i] \subseteq Subject
  BY <1>1, <1>2
<1> QED
  BY <1>3

\* What comes after a subject.
LEMMA WalkedOrder ==
  \A i, j \in DOMAIN Walked :
    i < j => \A s \in Walked[i], t \in Walked[j] : s # "TRUST ANCHOR" => t \in After(s)
<1>1. \A i, j \in DOMAIN Walked :
        i < j => \/ i = 1
                 \/ i = 2 /\ (j = 3 \/ j = 4 \/ j = 5 \/ j = 6)
                 \/ i = 3 /\ (j = 4 \/ j = 5 \/ j = 6)
                 \/ i = 4 /\ (j = 5 \/ j = 6)
                 \/ i = 5 /\ j = 6
  <2>1. DOMAIN Walked = 1..6
    BY WalkedBlocks
  <2> QED
    BY <2>1
<1>2. \A i, j \in DOMAIN Walked :
        i < j => \/ Walked[i] = {"TRUST ANCHOR"}
                 \/ Walked[i] = AgentLabel /\ Walked[j] \subseteq FromGrant
                 \/ Walked[i] = {"CROSS-ORG GRANT"} /\ Walked[j] \subseteq FromUpdate
                 \/ Walked[i] = {"POLICY UPDATE"} /\ Walked[j] \subseteq FromDelegation
                 \/ Walked[i] = {"DELEGATION"} /\ Walked[j] \subseteq {"AUDIT CHAIN"}
  <2>1. /\ \A j : j = 3 \/ j = 4 \/ j = 5 \/ j = 6 => Walked[j] \subseteq FromGrant
        /\ \A j : j = 4 \/ j = 5 \/ j = 6 => Walked[j] \subseteq FromUpdate
        /\ \A j : j = 5 \/ j = 6 => Walked[j] \subseteq FromDelegation
        /\ Walked[6] \subseteq {"AUDIT CHAIN"}
    <3>1. Walked[3] \subseteq FromGrant /\ Walked[4] \subseteq FromGrant
          /\ Walked[5] \subseteq FromGrant /\ Walked[6] \subseteq FromGrant
      BY WalkedBlocks DEF FromGrant
    <3>2. Walked[4] \subseteq FromUpdate /\ Walked[5] \subseteq FromUpdate /\ Walked[6] \subseteq FromUpdate
      BY WalkedBlocks DEF FromUpdate
    <3>3. /\ Walked[5] \subseteq FromDelegation /\ Walked[6] \subseteq FromDelegation
          /\ Walked[6] \subseteq {"AUDIT CHAIN"}
      BY WalkedBlocks DEF FromDelegation
    <3> QED
      BY <3>1, <3>2, <3>3
  <2>2. /\ Walked[1] = {"TRUST ANCHOR"} /\ Walked[2] = AgentLabel /\ Walked[3] = {"CROSS-ORG GRANT"}
        /\ Walked[4] = {"POLICY UPDATE"} /\ Walked[5] = {"DELEGATION"}
    BY WalkedBlocks
  <2> SUFFICES ASSUME NEW i \in DOMAIN Walked, NEW j \in DOMAIN Walked, i < j
               PROVE  \/ Walked[i] = {"TRUST ANCHOR"}
                      \/ Walked[i] = AgentLabel /\ Walked[j] \subseteq FromGrant
                      \/ Walked[i] = {"CROSS-ORG GRANT"} /\ Walked[j] \subseteq FromUpdate
                      \/ Walked[i] = {"POLICY UPDATE"} /\ Walked[j] \subseteq FromDelegation
                      \/ Walked[i] = {"DELEGATION"} /\ Walked[j] \subseteq {"AUDIT CHAIN"}
    OBVIOUS
  <2> QED
    BY <1>1, <2>1, <2>2
<1>3. /\ \A s \in AgentLabel : After(s) = FromGrant
      /\ After("CROSS-ORG GRANT") = FromUpdate /\ After("POLICY UPDATE") = FromDelegation
      /\ After("DELEGATION") = {"AUDIT CHAIN"}
  BY DEF After, AgentLabel
<1> QED
  BY <1>2, <1>3

\* WalkBlames: the walk of a run that ends denies the subject its refusal names
\* and no other, and shows nothing of the blocks after that subject's.
THEOREM WalkBlamesAlways == Spec => []WalkBlames
<1>1. RunInv /\ WalkInv => WalkBlames
  <2> SUFFICES ASSUME RunInv, WalkInv, pc = "done"
               PROVE  /\ {s \in Subject : walk[s] = "DENY"} =
                           IF verdict = "PASS" THEN {} ELSE {failure.subject} \ {None}
                      /\ \A i, j \in DOMAIN Walked : \A s \in Walked[i], t \in Walked[j] :
                           i < j /\ walk[s] = "DENY" => walk[t] = None
    BY DEF WalkBlames, Done
  <2>0. \A i \in DOMAIN Walked : \A s \in Walked[i] : s \in Subject
    BY WalkedSubjects
  <2>1. CASE verdict = "PASS"
    BY <2>0, <2>1 DEF WalkInv
  <2>2. CASE verdict # "PASS"
    <3>1. verdict = "DENY" /\ DeniedOnly(failure.subject)
      BY <2>2 DEF RunInv, WalkInv, Running
    <3>2. {s \in Subject : walk[s] = "DENY"} = {failure.subject} \ {None}
      BY <3>1, RowsAssumption DEF DeniedOnly
    <3>3. ASSUME NEW i \in DOMAIN Walked, NEW j \in DOMAIN Walked, NEW s \in Walked[i],
                 NEW t \in Walked[j], i < j, walk[s] = "DENY"
          PROVE  walk[t] = None
      <4>1. s = failure.subject /\ s # "TRUST ANCHOR" /\ s # None
        BY <2>0, <3>1, <3>3, RowsAssumption DEF DeniedOnly
      <4>2. t \in After(s)
        BY <3>3, <4>1, WalkedOrder
      <4> QED
        BY <3>1, <4>1, <4>2 DEF DeniedOnly
    <3> QED
      BY <2>2, <3>2, <3>3
  <2> QED
    BY <2>1, <2>2
<1> QED
  BY <1>1, RunAlways, WalkAlways, PTL

\* What is left of the types: the agents counted, the verdict and the entries.
CountTyped ==
  /\ checked \in 0..Len(doc.agents)
  /\ verdict \in {"PASS", "DENY"}
  /\ log \in Seq({"ALLOWED", "DENIED"})

LEMMA CountStep == RunInv /\ CountTyped /\ [Next]_vars => CountTyped'
<1> SUFFICES ASSUME RunInv, CountTyped, [Next]_vars PROVE CountTyped'
  OBVIOUS
<1>0. Typed(doc)
  BY DocumentsAssumption, DocumentTyped DEF RunInv
<1>1. CASE Load \/ CheckStructure \/ CheckAnchor \/ CheckLinks \/ CheckAuthorities \/ CheckGrant
           \/ CheckUpdate \/ CheckSpawns \/ CheckScopes \/ Unexpected \/ UNCHANGED vars
  <2>1. UNCHANGED <<doc, checked, verdict, log>>
    BY <1>1 DEF Load, CheckStructure, CheckAnchor, CheckLinks, CheckAuthorities, CheckGrant,
                CheckUpdate, CheckSpawns, CheckScopes, Unexpected, vars, report
  <2> QED
    BY <2>1 DEF CountTyped
<1>2. CASE CheckAgent
  <2>1. /\ pc = "agents" /\ UNCHANGED <<doc, verdict, log>>
        /\ checked' = checked \/ checked' = checked + 1
    BY <1>2 DEF CheckAgent, Advance
  <2>2. checked' \in 0..Len(doc.agents)
    BY <1>0, <2>1 DEF RunInv, CheckedSound, Typed
  <2> QED
    BY <2>1, <2>2 DEF CountTyped
<1>3. CASE CheckAudit
  <2>1. /\ UNCHANGED <<doc, checked>> /\ (verdict' = verdict \/ verdict' = "PASS")
        /\ log' = log \/ log' = Append(log, "ALLOWED")
    BY <1>3 DEF CheckAudit
  <2> QED
    BY <2>1 DEF CountTyped
<1>4. CASE Catch
  <2>1. /\ UNCHANGED <<doc, checked, verdict>>
        /\ log' = log \/ log' = Append(log, "DENIED")
    BY <1>4 DEF Catch
  <2> QED
    BY <2>1 DEF CountTyped
<1> QED
  BY <1>1, <1>2, <1>3, <1>4 DEF Next, Run

\* TypeOK: every variable has its type, however many agents and policies there are.
THEOREM TypeOKAlways == Spec => []TypeOK
<1>1. Init => CountTyped
  <2> SUFFICES ASSUME Init PROVE CountTyped
    OBVIOUS
  <2>1. Typed(doc)
    BY DocumentsAssumption, DocumentTyped DEF Init
  <2> QED
    BY <2>1 DEF Init, CountTyped, Typed
<1>2. Spec => []CountTyped
  BY <1>1, CountStep, RunAlways, PTL DEF Spec
<1>3. RunInv /\ RowsInv /\ WalkInv /\ CountTyped => TypeOK
  <2> SUFFICES ASSUME RunInv, RowsInv, WalkInv, CountTyped PROVE TypeOK
    OBVIOUS
  <2>1. pc \in Codes(Blocks) \cup {"refused", "done", "thrown"}
    BY BlockNames DEF RunInv
  <2>2. stages \subseteq Row /\ completed \subseteq 4..6
    BY DEF RowsInv, OneRowEach
  <2>3. failure # None => failure.subject \in Subject \cup {None}
    BY DEF RunInv, WalkInv, DeniedOnly, Running
  <2> QED
    BY <2>1, <2>2, <2>3 DEF TypeOK, WalkInv, WalkTyped, CountTyped
<1> QED
  BY <1>2, <1>3, RunAlways, RowsAlways, WalkAlways, PTL

-----------------------------------------------------------------------------
(***************************************************************************)
(* The lineage of an agent in a conforming document.                       *)
(***************************************************************************)

\* The agents reached from a in at most n steps, for each n.
LineageUpTo(d, a, n, reach) ==
  reach = [m \in 0..n |->
             IF m = 0 THEN {a}
             ELSE reach[m - 1] \cup {ParentOf(d, b) : b \in reach[m - 1] \cap ChildrenOf(d)}]

LEMMA LineageDefined ==
  ASSUME NEW d, NEW a, NEW n \in Nat
  PROVE  \E reach : LineageUpTo(d, a, n, reach)
<1> DEFINE Above(set) == {ParentOf(d, b) : b \in set \cap ChildrenOf(d)}
           undefined == {m \in Nat : ~ \E reach : LineageUpTo(d, a, m, reach)}
<1>1. SUFFICES ASSUME undefined # {} PROVE FALSE
  OBVIOUS
<1>2. PICK m \in undefined : \A j \in undefined : m <= j
  BY <1>1, LeastMember
<1>3. CASE m = 0
  <2>1. LineageUpTo(d, a, 0, [k \in 0..0 |-> {a}])
    BY DEF LineageUpTo
  <2> QED
    BY <1>2, <1>3, <2>1
<1>4. CASE m # 0
  <2>1. m - 1 \in Nat /\ m - 1 \notin undefined
    BY <1>2, <1>4
  <2>2. PICK before : LineageUpTo(d, a, m - 1, before)
    BY <2>1
  <2> DEFINE reach == [k \in 0..m |-> IF k < m THEN before[k]
                                      ELSE before[m - 1] \cup Above(before[m - 1])]
  <2>3. \A k \in 0..m : k # 0 => k - 1 \in 0..m - 1 /\ reach[k - 1] = before[k - 1]
    BY <1>2, <1>4
  <2>4. \A k \in 0..m - 1 : before[k] = IF k = 0 THEN {a} ELSE before[k - 1] \cup Above(before[k - 1])
    BY <2>2 DEF LineageUpTo
  <2>5. ASSUME NEW k \in 0..m
        PROVE  reach[k] = IF k = 0 THEN {a} ELSE reach[k - 1] \cup Above(reach[k - 1])
    <3> HIDE DEF Above
    <3>1. CASE k < m
      <4>1. k \in 0..m - 1
        BY <3>1, <1>2
      <4> QED
        BY <4>1, <3>1, <2>3, <2>4
    <3>2. CASE k = m
      BY <3>2, <1>4, <2>3
    <3> QED
      BY <3>1, <3>2, <1>2
  <2>6. LineageUpTo(d, a, m, reach)
    <3>1. reach = [k \in 0..m |-> reach[k]]
      OBVIOUS
    <3> HIDE DEF reach
    <3> QED
      BY <2>5, <3>1 DEF LineageUpTo
  <2> QED
    BY <1>2, <2>6
<1> QED
  BY <1>3, <1>4

\* Whatever holds of a, and of a parent when it holds of its child, holds of the
\* whole lineage.
LEMMA LineageClosed ==
  ASSUME NEW d, Len(d.agents) \in Nat, NEW a, NEW S, a \in S,
         \A b \in S \cap ChildrenOf(d) : ParentOf(d, b) \in S
  PROVE  Lineage(d, a) \subseteq S
<1> DEFINE reach == CHOOSE f : LineageUpTo(d, a, Len(d.agents), f)
           bad == {n \in 0..Len(d.agents) : ~(reach[n] \subseteq S)}
<1>1. LineageUpTo(d, a, Len(d.agents), reach)
  BY LineageDefined
<1>2. Lineage(d, a) = reach[Len(d.agents)]
  BY DEF Lineage, LineageUpTo
<1>3. \A n \in 0..Len(d.agents) :
        reach[n] = IF n = 0 THEN {a}
                   ELSE reach[n - 1] \cup {ParentOf(d, b) : b \in reach[n - 1] \cap ChildrenOf(d)}
  BY <1>1 DEF LineageUpTo
<1> HIDE DEF reach
<1>4. bad = {}
  <2>1. SUFFICES ASSUME bad # {} PROVE FALSE
    OBVIOUS
  <2>2. bad \subseteq Nat
    OBVIOUS
  <2>3. PICK n \in bad : \A j \in bad : n <= j
    <3> HIDE DEF bad
    <3> QED
      BY <2>1, <2>2, LeastMember
  <2>4. n # 0
    <3>1. reach[0] = {a}
      <4>1. 0 \in 0..Len(d.agents)
        OBVIOUS
      <4> HIDE DEF bad
      <4> QED
        BY <1>3, <4>1
    <3> QED
      BY <2>3, <3>1
  <2>5. n - 1 \in 0..Len(d.agents) /\ n - 1 \notin bad
    BY <2>3, <2>4
  <2>6. reach[n - 1] \subseteq S
    BY <2>5
  <2>7. reach[n] = reach[n - 1] \cup {ParentOf(d, b) : b \in reach[n - 1] \cap ChildrenOf(d)}
    BY <1>3, <2>3, <2>4
  <2>8. reach[n] \subseteq S
    BY <2>6, <2>7
  <2> QED
    BY <2>3, <2>8
<1> QED
  BY <1>2, <1>4

\* NoEscalation: neighbours alone are compared, yet in a chain that passes, of any
\* length, no agent holds or requests a scope that any agent above it lacks.
THEOREM NoEscalationAlways == Spec => []NoEscalation
<1>1. RunInv => NoEscalation
  <2> SUFFICES ASSUME RunInv, pc = "done", verdict = "PASS", NEW i \in DOMAIN doc.agents
               PROVE  \A b \in Lineage(doc, doc.agents[i].id) :
                        /\ doc.agents[i].cert.template.scopes \subseteq TemplateOf(doc, b).scopes
                        /\ doc.agents[i].requested # None =>
                             doc.agents[i].requested \subseteq TemplateOf(doc, b).scopes
    BY DEF NoEscalation, Done
  <2> DEFINE node == doc.agents[i]
             wider == {b \in AgentsOf(doc) : node.cert.template.scopes \subseteq TemplateOf(doc, b).scopes}
  <2>1. doc \in Document /\ Typed(doc) /\ Conforming(doc)
    <3>1. doc \in Document /\ doc.audit # "illformed" /\ AllSound(doc)
      BY DocumentsAssumption DEF RunInv, Running
    <3> QED
      BY <3>1, DocumentTyped, SoundConforms
  <2>2. Distinct(doc) /\ Requested(doc, node)
        /\ \A a \in ChildrenOf(doc) : ParentOf(doc, a) \in AgentsOf(doc) /\ Delegated(doc, a)
    BY <2>1 DEF Conforming, Distinct
  <2>3. node.id \in wider
    <3>1. node.id \in AgentsOf(doc)
      BY DEF AgentsOf
    <3>2. NodeOf(doc, node.id) = node
      BY <2>2, NodeOfAt
    <3>3. TemplateOf(doc, node.id) = node.cert.template
      BY <3>2 DEF TemplateOf
    <3> QED
      BY <3>1, <3>3
  <2>4. ASSUME NEW b \in wider \cap ChildrenOf(doc)
        PROVE  ParentOf(doc, b) \in wider
    <3>1. /\ ParentOf(doc, b) \in AgentsOf(doc)
          /\ TemplateOf(doc, b).scopes \subseteq TemplateOf(doc, ParentOf(doc, b)).scopes
      <4>1. ParentOf(doc, b) \in AgentsOf(doc) /\ Delegated(doc, b)
        BY <2>2, <2>4
      <4> QED
        BY <4>1 DEF Delegated
    <3> QED
      BY <2>4, <3>1
  <2>5. Lineage(doc, node.id) \subseteq wider
    <3> HIDE DEF wider
    <3> QED
      BY <2>1, <2>3, <2>4, LineageClosed DEF Typed
  <2>6. node.requested # None => node.requested \subseteq node.cert.template.scopes
    BY <2>2 DEF Requested
  <2> QED
    BY <2>5, <2>6
<1> QED
  BY <1>1, RunAlways, PTL

=============================================================================
