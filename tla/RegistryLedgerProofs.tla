------------------------- MODULE RegistryLedgerProofs -------------------------
(***************************************************************************)
(* Clients that await each call before the next: what a call read before   *)
(* an await is still so after it, whence the limits, the dates and the     *)
(* policies hold, the audit chain links, and the Registry implements the   *)
(* ledger.                                                                 *)
(***************************************************************************)
EXTENDS RegistryProofs

-----------------------------------------------------------------------------
(***************************************************************************)
(* MaxChildren holds for clients that await each call before the next: the *)
(* count read at step 5 of spawn is still the count when issue returns.    *)
(***************************************************************************)

\* At most one call is under way.
Alone == \A r, s \in Call : Running(r) /\ Running(s) => r = s

\* The Set object of a parent was made by a spawn of that parent which counted.
Owned ==
  \A p \in Agent : children[p] # None =>
    pc[children[p]] \in {"logging", "done"} /\ req[children[p]].parent = p

\* A call that has not counted has put nothing in a Set object of its own.
Unshared == \A o \in Call : pc[o] \notin {"logging", "done"} => kidSet[o] = {}

\* A spawn that awaits issuance still holds the object children would yield,
\* and there is room in it.
HasRoom(r) ==
  LET p == req[r].parent IN
  kids[r] = KidsObject(p, r) /\ Cardinality(Kids(p)) < T[p].maxChildren

Expected == \A r \in Call : pc[r] \in {"issuing", "issued"} => HasRoom(r)

CountWithin == \A p \in Agent : Cardinality(Kids(p)) <= T[p].maxChildren

\* Certificate c is yet to be counted by the call that obtained it.
Uncounted(c) ==
  /\ pc[c.call] = "issued"
  /\ req[c.call].parent = c.parent
  /\ req[c.call].child = c.subject

CertsCounted ==
  \A c \in certs : c.parent # None => c.subject \in Kids(c.parent) \/ Uncounted(c)

CountInv == Alone /\ Owned /\ Unshared /\ Expected /\ CountWithin /\ CertsCounted

-----------------------------------------------------------------------------
LEMMA AddOne ==
  ASSUME NEW S, NEW x, IsFiniteSet(S)
  PROVE  /\ Cardinality(S) \in Nat
         /\ Cardinality(S \cup {x}) \in Nat
         /\ Cardinality(S \cup {x}) <= Cardinality(S) + 1
<1>1. Cardinality(S) \in Nat
  BY FS_CardinalityType
<1>2. Cardinality(S \cup {x}) = IF x \in S THEN Cardinality(S) ELSE Cardinality(S) + 1
  BY FS_AddElement
<1> QED
  BY <1>1, <1>2

LEMMA KidsFinite == TypeOK => \A p \in Agent : IsFiniteSet(Kids(p)) /\ Kids(p) \subseteq Agent
<1> SUFFICES ASSUME TypeOK, NEW p \in Agent
             PROVE  IsFiniteSet(Kids(p)) /\ Kids(p) \subseteq Agent
  OBVIOUS
<1>1. Kids(p) \subseteq Agent
  BY DEF Kids, TypeOK
<1> QED
  BY <1>1, FS_Subset, FiniteAssumption

\* Room found at step 5 is room at the time it is found.
LEMMA PermittedHasRoom ==
  ASSUME TypeOK, NEW q \in SpawnRequest, NEW t, EvaluationRefusal(q, t) = Permitted
  PROVE  Cardinality(Kids(q.parent)) < T[q.parent].maxChildren
<1>1. q.parent \in Agent
  BY DEF SpawnRequest
<1>2. Cardinality(Kids(q.parent)) \in Nat
  BY <1>1, KidsFinite, FS_CardinalityType
<1>3. T[q.parent].maxChildren \in Nat
  BY <1>1, TemplateAssumption DEF Template
<1>4. ~(Cardinality(Kids(q.parent)) >= T[q.parent].maxChildren)
  BY DEF EvaluationRefusal, CountRefusal, Permitted
<1> QED
  BY <1>2, <1>3, <1>4

\* A step of call r that neither counts nor certifies for a parent.
LEMMA CountFrame ==
  ASSUME TypeOK, CountInv, NEW r \in Call, Alone',
         UNCHANGED <<children, kidSet>>,
         \A c \in certs' : c \in certs \/ c.parent = None,
         \A s \in Call : s # r => pc'[s] = pc[s] /\ req'[s] = req[s] /\ kids'[s] = kids[s],
         pc[r] # "issued", pc'[r] # "issued",
         pc[r] \in {"logging", "done"} => pc'[r] \in {"logging", "done"} /\ req'[r] = req[r],
         pc'[r] = "issuing" => HasRoom(r)'
  PROVE  CountInv'
<1>1. \A p \in Agent : Kids(p)' = Kids(p)
  BY DEF Kids
<1>2. Owned'
  BY DEF CountInv, Owned, TypeOK
<1>3. Unshared'
  BY DEF CountInv, Unshared
<1>4. Expected'
  <2> SUFFICES ASSUME NEW s \in Call, s # r, pc[s] \in {"issuing", "issued"}
               PROVE  HasRoom(s)'
    BY DEF Expected
  <2> QED
    BY DEF CountInv, Expected, HasRoom, KidsObject, Kids
<1>5. CountWithin'
  BY <1>1 DEF CountInv, CountWithin
<1>6. CertsCounted'
  <2> SUFFICES ASSUME NEW c \in certs', c.parent # None
               PROVE  c.subject \in Kids(c.parent)' \/ Uncounted(c)'
    BY DEF CertsCounted
  <2>1. c \in certs /\ c.call \in Call
    BY DEF TypeOK, Certificate
  <2>2. c.subject \in Kids(c.parent) \/ Uncounted(c)
    BY <2>1 DEF CountInv, CertsCounted
  <2> QED
    BY <2>1, <2>2 DEF Kids, Uncounted
<1> QED
  BY <1>2, <1>3, <1>4, <1>5, <1>6 DEF CountInv

-----------------------------------------------------------------------------
(***************************************************************************)
(* At most one call is under way.                                          *)
(***************************************************************************)

LEMMA AloneCalled ==
  ASSUME Serialized, NEW r \in Call, NEW q, Called(r, q),
         \A s \in Call : s # r => pc'[s] = pc[s]
  PROVE  Alone'
BY DEF Alone, Called, Running

LEMMA AloneResumed ==
  ASSUME CountInv, NEW r \in Call, Running(r),
         \A s \in Call : s # r => pc'[s] = pc[s]
  PROVE  Alone'
BY DEF CountInv, Alone, Running

-----------------------------------------------------------------------------
(***************************************************************************)
(* The steps of spawn.                                                     *)
(***************************************************************************)

\* Evaluate, run for a call that has counted nothing.
LEMMA CountEvaluate ==
  ASSUME TypeInv, CountInv, Alone', NEW r \in Call, NEW q \in SpawnRequest, NEW t,
         Evaluate(r, q, t), req'[r] = q,
         \A s \in Call : s # r => req'[s] = req[s],
         pc[r] \in {"idle", "granting"}, UNCHANGED <<children, kidSet, certs>>
  PROVE  CountInv'
<1>1. /\ pc'[r] \in {"logging", "issuing"}
      /\ \A s \in Call : s # r => pc'[s] = pc[s] /\ kids'[s] = kids[s]
  BY EvaluateType
<1>2. ASSUME pc'[r] = "issuing"
      PROVE  HasRoom(r)'
  <2>1. EvaluationRefusal(q, t) = Permitted /\ kids' = [kids EXCEPT ![r] = KidsObject(q.parent, r)]
    BY <1>2 DEF Evaluate, Deny, Log, TypeInv, TypeOK
  <2>2. kids'[r] = KidsObject(q.parent, r)
    BY <2>1 DEF TypeInv, TypeOK
  <2>3. Cardinality(Kids(q.parent)) < T[q.parent].maxChildren
    BY <2>1, PermittedHasRoom DEF TypeInv
  <2> QED
    BY <2>2, <2>3 DEF HasRoom, KidsObject, Kids
<1> QED
  BY <1>1, <1>2, CountFrame DEF TypeInv

LEMMA CountTurnedAway ==
  ASSUME Serialized, TypeInv, CountInv, NEW r \in Call, NEW q \in Requests,
         SpawnTurnedAway(r, q)
  PROVE  CountInv'
<1>1. Called(r, q) /\ pc[r] = "idle" /\ UNCHANGED <<children, kidSet, certs, kids>>
  BY DEF SpawnTurnedAway, Called, stores
<1>2. pc'[r] = "done" /\ \A s \in Call : s # r => pc'[s] = pc[s] /\ req'[s] = req[s]
  BY DEF SpawnTurnedAway, Settle, Called, TypeInv, TypeOK
<1>3. Alone'
  BY <1>1, <1>2, AloneCalled
<1> QED
  BY <1>1, <1>2, <1>3, CountFrame DEF TypeInv

LEMMA CountPresented ==
  ASSUME Serialized, TypeInv, CountInv, NEW r \in Call, NEW q \in Requests,
         q.op = "spawn", SpawnPresented(r, q)
  PROVE  CountInv'
<1> DEFINE code == PresentedRefusal(q)
<1>1. Called(r, q) /\ pc[r] = "idle" /\ UNCHANGED <<children, kidSet, certs>>
  BY DEF SpawnPresented, Called
<1>2. req'[r] = q /\ \A s \in Call : s # r => req'[s] = req[s]
  BY <1>1 DEF Called, TypeInv, TypeOK
<1>3. q \in SpawnRequest
  BY RequestKinds
<1>4. CASE Deny(r, code) /\ UNCHANGED kids
  <2>1. pc'[r] = "logging" /\ \A s \in Call : s # r => pc'[s] = pc[s]
    BY <1>4 DEF Deny, Log, TypeInv, TypeOK
  <2>2. Alone'
    BY <1>1, <2>1, AloneCalled
  <2> QED
    BY <1>1, <1>2, <1>4, <2>1, <2>2, CountFrame DEF TypeInv
<1>5. CASE Goto(r, "granting") /\ UNCHANGED kids
  <2>1. pc'[r] = "granting" /\ \A s \in Call : s # r => pc'[s] = pc[s]
    BY <1>5 DEF Goto, TypeInv, TypeOK
  <2>2. Alone'
    BY <1>1, <2>1, AloneCalled
  <2> QED
    BY <1>1, <1>2, <1>5, <2>1, <2>2, CountFrame DEF TypeInv
<1>6. CASE Evaluate(r, q, clock)
  <2>1. \A s \in Call : s # r => pc'[s] = pc[s]
    BY <1>3, <1>6, EvaluateType
  <2>2. Alone'
    BY <1>1, <2>1, AloneCalled
  <2> QED
    BY <1>1, <1>2, <1>3, <1>6, <2>2, CountEvaluate
<1> QED
  BY <1>4, <1>5, <1>6 DEF SpawnPresented

LEMMA CountValidated ==
  ASSUME TypeInv, CountInv, NEW r \in Call, GrantValidated(r)
  PROVE  CountInv'
<1> DEFINE code == GrantRefusal(req[r], now[r], under[r])
<1>1. /\ pc[r] = "granting" /\ Running(r) /\ req[r] \in SpawnRequest
      /\ UNCHANGED <<req, children, kidSet, certs>>
  BY DEF GrantValidated, TypeInv, CallOK, stores, Running
<1>2. CASE Deny(r, code) /\ UNCHANGED kids
  <2>1. pc'[r] = "logging" /\ \A s \in Call : s # r => pc'[s] = pc[s]
    BY <1>2 DEF Deny, Log, TypeInv, TypeOK
  <2>2. Alone'
    BY <1>1, <2>1, AloneResumed
  <2> QED
    BY <1>1, <1>2, <2>1, <2>2, CountFrame DEF TypeInv
<1>3. CASE Evaluate(r, req[r], now[r])
  <2>1. \A s \in Call : s # r => pc'[s] = pc[s]
    BY <1>1, <1>3, EvaluateType
  <2>2. Alone'
    BY <1>1, <2>1, AloneResumed
  <2> QED
    BY <1>1, <1>3, <2>2, CountEvaluate
<1> QED
  BY <1>2, <1>3 DEF GrantValidated

LEMMA CountSpawnIssues ==
  ASSUME TypeInv, CountInv, NEW r \in Call, SpawnIssues(r)
  PROVE  CountInv'
<1>1. /\ pc[r] = "issuing" /\ Running(r) /\ req[r] \in SpawnRequest
      /\ UNCHANGED <<req, children, kidSet, kids>>
  BY DEF SpawnIssues, TypeInv, CallOK, Running
<1>2. CASE Deny(r, "ERR_TEMPLATE_SIGNATURE") /\ UNCHANGED certs
  <2>1. pc'[r] = "logging" /\ \A s \in Call : s # r => pc'[s] = pc[s]
    BY <1>2 DEF Deny, Log, TypeInv, TypeOK
  <2>2. Alone'
    BY <1>1, <2>1, AloneResumed
  <2> QED
    BY <1>1, <1>2, <2>1, <2>2, CountFrame DEF TypeInv
<1>3. CASE /\ Goto(r, "issued")
           /\ Certify(r, req[r].parent, GrantUsed(req[r]), req[r].nonce)
  <2>1. pc'[r] = "issued" /\ \A s \in Call : s # r => pc'[s] = pc[s]
    BY <1>3 DEF Goto, TypeInv, TypeOK
  <2>2. Alone'
    BY <1>1, <2>1, AloneResumed
  <2>3. /\ Owned'
        /\ Unshared'
        /\ CountWithin'
    <3>1. Owned'
      <4> SUFFICES ASSUME NEW b \in Agent, children[b] # None
                   PROVE  pc'[children[b]] \in {"logging", "done"} /\ req[children[b]].parent = b
        BY <1>1 DEF Owned
      <4>1. children[b] \in Call
        BY DEF TypeInv, TypeOK
      <4> QED
        BY <1>1, <2>1, <4>1 DEF CountInv, Owned
    <3>2. Unshared'
      BY <1>1, <2>1 DEF CountInv, Unshared
    <3>3. CountWithin'
      BY <1>1 DEF CountInv, CountWithin, Kids
    <3> QED
      BY <3>1, <3>2, <3>3
  <2>4. Expected'
    BY <1>1, <2>1 DEF CountInv, Expected, HasRoom, KidsObject, Kids
  <2>5. CertsCounted'
    <3> SUFFICES ASSUME NEW c \in certs', c.parent # None
                 PROVE  c.subject \in Kids(c.parent)' \/ Uncounted(c)'
      BY DEF CertsCounted
    <3>1. CASE c \in certs
      <4>1. c.call \in Call
        BY <3>1 DEF TypeInv, TypeOK, Certificate
      <4>2. c.subject \in Kids(c.parent) \/ Uncounted(c)
        BY <3>1 DEF CountInv, CertsCounted
      <4> QED
        BY <1>1, <2>1, <4>1, <4>2 DEF Kids, Uncounted
    <3>2. CASE c \notin certs
      <4>1. c.call = r /\ c.parent = req[r].parent /\ c.subject = req[r].child
        BY <1>3, <3>2 DEF Certify
      <4> QED
        BY <1>1, <2>1, <4>1 DEF Uncounted
    <3> QED
      BY <3>1, <3>2
  <2> QED
    BY <2>2, <2>3, <2>4, <2>5 DEF CountInv
<1> QED
  BY <1>2, <1>3 DEF SpawnIssues

\* The count taken at SpawnCounts is one more than the count read at step 5.
LEMMA CountSpawnCounts ==
  ASSUME TypeInv, CountInv, NEW r \in Call, SpawnCounts(r)
  PROVE  CountInv'
<1> DEFINE p == req[r].parent
           a == req[r].child
           o == kids[r]
<1>1. /\ pc[r] = "issued" /\ Running(r) /\ p \in Agent /\ a \in Agent /\ o \in Call
      /\ UNCHANGED <<req, kids, certs>>
  BY DEF SpawnCounts, TypeInv, CallOK, SpawnRequest, Running
<1>2. pc'[r] = "logging" /\ \A s \in Call : s # r => pc'[s] = pc[s]
  BY DEF SpawnCounts, Log, TypeInv, TypeOK
<1>3. /\ kidSet' = [kidSet EXCEPT ![o] = @ \cup {a}]
      /\ children' = [children EXCEPT ![p] = o]
  BY DEF SpawnCounts
<1>4. HasRoom(r)
  BY <1>1 DEF CountInv, Expected
<1>5. o # None
  BY <1>1, NoneAssumption
<1>6. kidSet[o] = Kids(p) /\ pc'[o] \in {"logging", "done"} /\ req[o].parent = p
  <2>1. CASE children[p] = None
    BY <1>1, <1>2, <1>4, <2>1 DEF HasRoom, KidsObject, Kids, CountInv, Unshared
  <2>2. CASE children[p] # None
    BY <1>1, <1>2, <1>4, <2>2 DEF HasRoom, KidsObject, Kids, CountInv, Owned
  <2> QED
    BY <2>1, <2>2
<1>7. \A b \in Agent : b = p => Kids(b)' = Kids(b) \cup {a}
  BY <1>1, <1>3, <1>5, <1>6 DEF Kids, TypeInv, TypeOK
<1>8. \A b \in Agent : b # p => Kids(b)' = Kids(b)
  <2> SUFFICES ASSUME NEW b \in Agent, b # p PROVE Kids(b)' = Kids(b)
    OBVIOUS
  <2>1. children'[b] = children[b]
    BY <1>3 DEF TypeInv, TypeOK
  <2>2. CASE children[b] = None
    BY <2>1, <2>2 DEF Kids
  <2>3. CASE children[b] # None
    <3>1. children[b] # o
      BY <1>6, <2>3 DEF CountInv, Owned
    <3>2. kidSet'[children[b]] = kidSet[children[b]]
      BY <1>3, <2>3, <3>1 DEF TypeInv, TypeOK
    <3> QED
      BY <2>1, <2>3, <3>2 DEF Kids
  <2> QED
    BY <2>2, <2>3
<1>9. Alone'
  BY <1>1, <1>2, AloneResumed
<1>10. Owned'
  <2> SUFFICES ASSUME NEW b \in Agent, children'[b] # None
               PROVE  pc'[children'[b]] \in {"logging", "done"} /\ req'[children'[b]].parent = b
    BY DEF Owned
  <2>1. CASE b = p
    BY <1>1, <1>3, <1>6, <2>1 DEF TypeInv, TypeOK
  <2>2. CASE b # p
    <3>1. children'[b] = children[b] /\ children[b] \in Call
      BY <1>3, <2>2 DEF TypeInv, TypeOK
    <3>2. pc[children[b]] \in {"logging", "done"} /\ req[children[b]].parent = b
      BY <3>1 DEF CountInv, Owned
    <3> QED
      BY <1>1, <1>2, <3>1, <3>2
  <2> QED
    BY <2>1, <2>2
<1>11. Unshared'
  BY <1>1, <1>2, <1>3, <1>6 DEF CountInv, Unshared, TypeInv, TypeOK
<1>12. Expected'
  <2>1. \A s \in Call : pc'[s] \notin {"issuing", "issued"}
    BY <1>1, <1>2, <1>9 DEF CountInv, Alone, Running
  <2> QED
    BY <2>1 DEF Expected
<1>13. CountWithin'
  <2> SUFFICES ASSUME NEW b \in Agent
               PROVE  Cardinality(Kids(b)') <= T[b].maxChildren
    BY DEF CountWithin, Kids
  <2>1. CASE b # p
    BY <1>8, <2>1 DEF CountInv, CountWithin
  <2>2. CASE b = p
    <3>1. Kids(b)' = Kids(b) \cup {a} /\ IsFiniteSet(Kids(b))
      BY <1>7, <2>2, KidsFinite DEF TypeInv
    <3>2. T[b].maxChildren \in Nat /\ Cardinality(Kids(b)) < T[b].maxChildren
      BY <1>4, <2>2, TemplateAssumption DEF HasRoom, Template
    <3>3. /\ Cardinality(Kids(b)) \in Nat
          /\ Cardinality(Kids(b) \cup {a}) \in Nat
          /\ Cardinality(Kids(b) \cup {a}) <= Cardinality(Kids(b)) + 1
      BY <3>1, AddOne
    <3> QED
      BY <3>1, <3>2, <3>3
  <2> QED
    BY <2>1, <2>2
<1>14. CertsCounted'
  <2> SUFFICES ASSUME NEW c \in certs, c.parent # None
               PROVE  c.subject \in Kids(c.parent)' \/ Uncounted(c)'
    BY <1>1 DEF CertsCounted
  <2>1. c.call \in Call /\ c.parent \in Agent
    BY DEF TypeInv, TypeOK, Certificate
  <2>2. CASE c.subject \in Kids(c.parent)
    BY <1>7, <1>8, <2>1, <2>2
  <2>3. CASE Uncounted(c)
    <3>1. c.call = r
      BY <1>1, <2>1, <2>3 DEF Uncounted, CountInv, Alone, Running
    <3> QED
      BY <1>7, <2>1, <2>3, <3>1 DEF Uncounted
  <2> QED
    BY <2>2, <2>3 DEF CountInv, CertsCounted
<1> QED
  BY <1>9, <1>10, <1>11, <1>12, <1>13, <1>14 DEF CountInv

-----------------------------------------------------------------------------
(***************************************************************************)
(* The other operations leave the counts and the parents alone.            *)
(***************************************************************************)

LEMMA CountIssue ==
  ASSUME Serialized, TypeInv, CountInv, NEW r \in Call, NEW q \in Requests,
         IssueCalled(r, q) \/ AdoptCalled(r, q)
  PROVE  CountInv'
<1>1. Called(r, q) /\ pc[r] = "idle" /\ UNCHANGED <<children, kidSet, certs, kids>>
  BY DEF IssueCalled, AdoptCalled, Called, stores
<1>2. /\ pc'[r] \in {"done", "rooting", "signing"}
      /\ \A s \in Call : s # r => pc'[s] = pc[s]
  BY DEF IssueCalled, AdoptCalled, Settle, Goto, TypeInv, TypeOK
<1>3. \A s \in Call : s # r => req'[s] = req[s]
  BY <1>1 DEF Called, TypeInv, TypeOK
<1>4. Alone'
  BY <1>1, <1>2, AloneCalled
<1> QED
  BY <1>1, <1>2, <1>3, <1>4, CountFrame DEF TypeInv

LEMMA CountSettling ==
  ASSUME TypeInv, CountInv, NEW r \in Call,
         IssueSigned(r) \/ PolicySigned(r) \/ EntryHashed(r)
  PROVE  CountInv'
<1>1. pc[r] \in {"rooting", "signing", "logging"} /\ Running(r)
  BY DEF IssueSigned, PolicySigned, EntryHashed, Running
<1>2. UNCHANGED <<children, kidSet, kids, req>>
  BY DEF IssueSigned, PolicySigned, EntryHashed
<1>3. /\ pc'[r] \in {"done", "logging"}
      /\ \A s \in Call : s # r => pc'[s] = pc[s]
  BY DEF IssueSigned, PolicySigned, EntryHashed, Settle, Log, TypeInv, TypeOK
<1>4. \A c \in certs' : c \in certs \/ c.parent = None
  BY DEF IssueSigned, PolicySigned, EntryHashed, Certify
<1>5. Alone'
  BY <1>1, <1>3, AloneResumed
<1> QED
  BY <1>1, <1>2, <1>3, <1>4, <1>5, CountFrame DEF TypeInv

\* A fresh Registry has no calls, no children and no certificates.
Unused ==
  /\ \A r \in Call : pc[r] = "idle" /\ kidSet[r] = {}
  /\ \A a \in Agent : children[a] = None
  /\ certs = {}

LEMMA UnusedCount == Unused => CountInv
<1> SUFFICES ASSUME Unused PROVE CountInv
  OBVIOUS
<1>1. Alone /\ Owned /\ Unshared /\ Expected /\ CertsCounted
  BY DEF Unused, Alone, Running, Owned, Unshared, Expected, CertsCounted
<1>2. CountWithin
  <2> SUFFICES ASSUME NEW p \in Agent PROVE Cardinality(Kids(p)) <= T[p].maxChildren
    BY DEF CountWithin
  <2>1. Kids(p) = {} /\ T[p].maxChildren \in Nat
    BY TemplateAssumption DEF Unused, Kids, Template
  <2>2. Cardinality(Kids(p)) = 0
    BY <2>1, FS_EmptySet
  <2> QED
    BY <2>1, <2>2
<1> QED
  BY <1>1, <1>2 DEF CountInv

LEMMA CountInit == Init => CountInv
BY UnusedCount DEF Init, Unused

LEMMA CountFromDocument == fromDocument => CountInv'
<1>1. fromDocument => Unused'
  BY DEF fromDocument, Unused
<1> QED
  BY <1>1, UnusedCount, PTL

LEMMA CountStep == Serialized /\ TypeInv /\ CountInv /\ [Next]_vars => CountInv'
<1> SUFFICES ASSUME Serialized, TypeInv, CountInv, [Next]_vars PROVE CountInv'
  OBVIOUS
<1>1. CASE UNCHANGED vars
  BY <1>1 DEF vars, stores, locals, CountInv, Alone, Running, Owned, Unshared, Expected,
              HasRoom, KidsObject, CountWithin, Kids, CertsCounted, Uncounted
<1>2. CASE \E r \in Call : Arrive(r)
  <2>1. PICK r \in Call, q \in Requests :
          \/ SpawnTurnedAway(r, q)
          \/ q.op = "spawn" /\ SpawnPresented(r, q)
          \/ IssueCalled(r, q) \/ AdoptCalled(r, q)
    BY <1>2 DEF Arrive
  <2>2. CASE SpawnTurnedAway(r, q)
    BY <2>2, CountTurnedAway
  <2>3. CASE q.op = "spawn" /\ SpawnPresented(r, q)
    BY <2>3, CountPresented
  <2>4. CASE IssueCalled(r, q) \/ AdoptCalled(r, q)
    BY <2>4, CountIssue
  <2> QED
    BY <2>1, <2>2, <2>3, <2>4
<1>3. CASE \E r \in Call : Resume(r)
  <2>1. PICK r \in Call : Resume(r)
    BY <1>3
  <2>2. CASE GrantValidated(r)
    BY <2>2, CountValidated
  <2>3. CASE SpawnIssues(r)
    BY <2>3, CountSpawnIssues
  <2>4. CASE SpawnCounts(r)
    BY <2>4, CountSpawnCounts
  <2>5. CASE IssueSigned(r) \/ PolicySigned(r) \/ EntryHashed(r)
    BY <2>5, CountSettling
  <2> QED
    BY <2>1, <2>2, <2>3, <2>4, <2>5 DEF Resume
<1>4. CASE Tick
  BY <1>4 DEF Tick, stores, locals, CountInv, Alone, Running, Owned, Unshared, Expected,
              HasRoom, KidsObject, CountWithin, Kids, CertsCounted, Uncounted
<1>5. CASE fromDocument
  BY <1>5, CountFromDocument
<1> QED
  BY <1>1, <1>2, <1>3, <1>4, <1>5 DEF Next

-----------------------------------------------------------------------------
\* Of the certificates a parent has, at most the one being issued is uncounted.
LEMMA CountBounds == TypeInv /\ CountInv => MaxChildrenHeld
<1> SUFFICES ASSUME TypeInv, CountInv, NEW p \in Agent
             PROVE  Cardinality(SpawnedBy(certs, p)) <= T[p].maxChildren
  BY DEF MaxChildrenHeld
<1>1. IsFiniteSet(Kids(p)) /\ T[p].maxChildren \in Nat /\ p # None
  BY KidsFinite, TemplateAssumption, NoneAssumption DEF TypeInv, Template
<1>2. Cardinality(Kids(p)) \in Nat /\ Cardinality(Kids(p)) <= T[p].maxChildren
  BY <1>1, FS_CardinalityType DEF CountInv, CountWithin
<1>3. CASE \E r \in Call : pc[r] = "issued" /\ req[r].parent = p
  <2>1. PICK r \in Call : pc[r] = "issued" /\ req[r].parent = p
    BY <1>3
  <2>2. SpawnedBy(certs, p) \subseteq Kids(p) \cup {req[r].child}
    <3> SUFFICES ASSUME NEW c \in certs, c.parent = p
                 PROVE  c.subject \in Kids(p) \cup {req[r].child}
      BY DEF SpawnedBy
    <3>1. CASE Uncounted(c)
      <4>1. c.call \in Call
        BY DEF TypeInv, TypeOK, Certificate
      <4>2. c.call = r
        BY <2>1, <3>1, <4>1 DEF Uncounted, CountInv, Alone, Running
      <4> QED
        BY <3>1, <4>2 DEF Uncounted
    <3> QED
      BY <1>1, <3>1 DEF CountInv, CertsCounted
  <2>3. Cardinality(Kids(p)) < T[p].maxChildren
    BY <2>1 DEF CountInv, Expected, HasRoom
  <2>4. /\ IsFiniteSet(Kids(p) \cup {req[r].child})
        /\ Cardinality(Kids(p) \cup {req[r].child}) \in Nat
        /\ Cardinality(Kids(p) \cup {req[r].child}) <= Cardinality(Kids(p)) + 1
    BY <1>1, AddOne, FS_AddElement
  <2>5. /\ Cardinality(SpawnedBy(certs, p)) \in Nat
        /\ Cardinality(SpawnedBy(certs, p)) <= Cardinality(Kids(p) \cup {req[r].child})
    BY <2>2, <2>4, FS_Subset, FS_CardinalityType
  <2> QED
    BY <1>1, <1>2, <2>3, <2>4, <2>5
<1>4. CASE ~\E r \in Call : pc[r] = "issued" /\ req[r].parent = p
  <2>1. SpawnedBy(certs, p) \subseteq Kids(p)
    <3> SUFFICES ASSUME NEW c \in certs, c.parent = p
                 PROVE  c.subject \in Kids(p)
      BY DEF SpawnedBy
    <3>1. c.call \in Call
      BY DEF TypeInv, TypeOK, Certificate
    <3> QED
      BY <1>1, <1>4, <3>1 DEF CountInv, CertsCounted, Uncounted
  <2>2. /\ Cardinality(SpawnedBy(certs, p)) \in Nat
        /\ Cardinality(SpawnedBy(certs, p)) <= Cardinality(Kids(p))
    BY <1>1, <2>1, FS_Subset, FS_CardinalityType
  <2> QED
    BY <1>1, <1>2, <2>2
<1> QED
  BY <1>3, <1>4

\* Section 10.2 step 5, for any templates, requests and number of calls: if
\* clients await each call before the next, a parent never has more children
\* certified than its MaxChildren, at no instant between the count and its
\* update.
THEOREM MaxChildrenAlways == Serialized => (Spec => []MaxChildrenHeld)
<1> SUFFICES ASSUME Serialized PROVE Spec => []MaxChildrenHeld
  OBVIOUS
<1>1. Init => CountInv
  BY CountInit
<1>2. TypeInv /\ CountInv /\ [Next]_vars => CountInv'
  BY CountStep
<1>3. TypeInv /\ CountInv => MaxChildrenHeld
  BY CountBounds
<1> QED
  BY <1>1, <1>2, <1>3, TypeAlways, PTL DEF Spec

-----------------------------------------------------------------------------

\* No certificate is dated after the clock, and live keeps the latest end.
Dated ==
  \A c \in certs : /\ c.from <= clock
                   /\ c.until = c.from + T[c.subject].ttl
                   /\ c.until <= live[c.subject]

\* A certificate with a parent carries the nonce its call presented.
NonceCarried ==
  \A c \in certs :
    IF c.parent = None THEN c.nonce = None
    ELSE Presented(c.call) /\ c.nonce = req[c.call].nonce

GrantsWithin == \A g \in Grant : grantSpawns[g] <= G[g].maxSpawns

\* What the call under way has found, before its await, of the stores.
Held(r) ==
  /\ Running(r) => now[r] <= clock
  /\ pc[r] \in {"granting", "issuing", "rooting"} => \A c \in certs : c.from <= now[r]
  /\ pc[r] \in {"granting", "issuing"} => PresentedRefusal(req[r]) = Permitted
  /\ pc[r] = "granting" => CrossOrg(req[r].parent, req[r].child) /\ under[r] = CountUnder(req[r])
  /\ pc[r] = "issuing" =>
       /\ EvaluationRefusal(req[r], now[r]) = Permitted
       /\ CrossOrg(req[r].parent, req[r].child) =>
            GrantRefusal(req[r], now[r], CountUnder(req[r])) = Permitted
  /\ pc[r] = "issued" /\ CrossOrg(req[r].parent, req[r].child) =>
       CountUnder(req[r]) <= G[req[r].grant].maxSpawns
  /\ pc[r] = "signing" => PolicyRefusal(req[r]) = Permitted
  /\ pc[r] = "logging" => prev[r] = HeadHash

Kept == Dated /\ NonceCarried /\ GrantsWithin /\ AuditLinked

HeldInv == Kept /\ \A r \in Call : Held(r)

-----------------------------------------------------------------------------
\* The invariants the clients' discipline rests on, together.
SerialInv == TypeInv /\ NonceInv /\ AccountInv /\ CountInv

LEMMA OthersCalled ==
  ASSUME Serialized, NEW r \in Call, NEW q, Called(r, q)
  PROVE  \A s \in Call : ~Running(s)
BY DEF Called

LEMMA OthersResumed ==
  ASSUME CountInv, NEW r \in Call, Running(r)
  PROVE  \A s \in Call : s # r => ~Running(s)
BY DEF CountInv, Alone

\* A call that is not under way has nothing to hold.
LEMMA HeldFrame ==
  ASSUME NEW r \in Call, Held(r)', Kept',
         \A s \in Call : s # r => ~Running(s) /\ pc'[s] = pc[s]
  PROVE  HeldInv'
<1> SUFFICES ASSUME NEW s \in Call, s # r PROVE Held(s)'
  BY DEF HeldInv
<1> QED
  BY DEF Held, Running

\* A segment before a certificate touches nothing of what is kept.
LEMMA KeptFrame ==
  ASSUME TypeInv, AccountInv, Kept, NEW r \in Call,
         UNCHANGED <<clock, certs, live, grantSpawns, audit>>,
         pc[r] \notin {"issued", "logging", "done"},
         \A s \in Call : s # r => /\ pc'[s] = pc[s]
                                  /\ req'[s] = req[s]
                                  /\ answer'[s] = answer[s]
  PROVE  Kept'
<1>1. \A c \in certs : c.call \in Call /\ c.call # r
  BY DEF TypeInv, TypeOK, Certificate, AccountInv, GrantInv, Obtainers
<1>2. NonceCarried'
  BY <1>1 DEF Kept, NonceCarried, Presented
<1>3. Dated' /\ GrantsWithin' /\ AuditLinked'
  BY DEF Kept, Dated, GrantsWithin, AuditLinked
<1> QED
  BY <1>2, <1>3 DEF Kept

\* The head an entry commits to, and what a permitted evaluation leaves.
LEMMA PiecesHold ==
  ASSUME TypeOK, NEW r \in Call
  PROVE  /\ \A code : Log(r, code) => prev'[r] = HeadHash
         /\ \A q, t : Evaluate(r, q, t) =>
              \/ pc'[r] = "logging" /\ prev'[r] = HeadHash
              \/ pc'[r] = "issuing" /\ EvaluationRefusal(q, t) = Permitted
BY DEF Log, Goto, Evaluate, Deny, TypeOK

\* An entry begun commits to the head there is.
LEMMA HeldLogging ==
  ASSUME NEW r \in Call, pc'[r] = "logging", prev'[r] = HeadHash, audit' = audit,
         now'[r] <= clock'
  PROVE  Held(r)'
BY DEF Held, HeadHash

\* A settled call holds nothing.
LEMMA HeldDone ==
  ASSUME NEW r \in Call, pc'[r] = "done"
  PROVE  Held(r)'
BY DEF Held, Running

\* What was found at the evaluation, of stores that no segment has changed since.
LEMMA HeldIssuing ==
  ASSUME NEW r \in Call, NEW q, NEW t, pc'[r] = "issuing", req'[r] = q, now'[r] = t,
         UNCHANGED <<clock, certs, policies, live, children, kidSet, grantSpawns>>,
         t <= clock, \A c \in certs : c.from <= t,
         PresentedRefusal(q) = Permitted, EvaluationRefusal(q, t) = Permitted,
         CrossOrg(q.parent, q.child) => GrantRefusal(q, t, CountUnder(q)) = Permitted
  PROVE  Held(r)'
<1>1. (PresentedRefusal(req[r]) = Permitted)'
  BY DEF PresentedRefusal
<1>2. (EvaluationRefusal(req[r], now[r]) = Permitted)'
  BY DEF EvaluationRefusal, CountRefusal, PolicyInForce, Kids
<1>3. (CrossOrg(req[r].parent, req[r].child) =>
         GrantRefusal(req[r], now[r], CountUnder(req[r])) = Permitted)'
  BY DEF CrossOrg, GrantRefusal, CountUnder
<1>4. (Running(r) => now[r] <= clock)' /\ (\A c \in certs : c.from <= now[r])'
  OBVIOUS
<1> QED
  BY <1>1, <1>2, <1>3, <1>4 DEF Held

-----------------------------------------------------------------------------
(***************************************************************************)
(* The segments of a call that do not certify.                             *)
(***************************************************************************)

\* A call made while none is under way: what the other calls keep, and the time.
LEMMA CalledAlone ==
  ASSUME Serialized, TypeInv, HeldInv, NEW r \in Call, NEW q, Called(r, q)
  PROVE  /\ pc[r] = "idle" /\ req'[r] = q /\ now'[r] = clock
         /\ \A s \in Call : ~Running(s)
         /\ \A s \in Call : s # r => req'[s] = req[s]
         /\ \A c \in certs : c.from <= clock
<1>1. \A c \in certs : c.from <= clock
  BY DEF HeldInv, Kept, Dated
<1> QED
  BY <1>1, OthersCalled DEF Called, TypeInv, TypeOK

LEMMA HeldTurnedAway ==
  ASSUME Serialized, SerialInv, HeldInv, NEW r \in Call, NEW q \in Requests,
         SpawnTurnedAway(r, q)
  PROVE  HeldInv'
<1>1. Called(r, q) /\ UNCHANGED <<clock, certs, live, grantSpawns, audit>>
  BY DEF SpawnTurnedAway, stores
<1>2. Moved(r, {"done"})
  BY PiecesMove DEF SpawnTurnedAway, SerialInv, TypeInv, Moved
<1>3. Kept'
  BY <1>1, <1>2, CalledAlone, KeptFrame DEF SerialInv, HeldInv, Moved
<1>4. Held(r)'
  BY <1>2, HeldDone DEF Moved
<1> QED
  BY <1>1, <1>2, <1>3, <1>4, CalledAlone, HeldFrame DEF SerialInv, Moved

LEMMA HeldUnrelated ==
  ASSUME Serialized, SerialInv, HeldInv, NEW r \in Call, NEW q \in Requests,
         IssueCalled(r, q) \/ AdoptCalled(r, q)
  PROVE  HeldInv'
<1>1. /\ Called(r, q)
      /\ UNCHANGED <<clock, certs, live, grantSpawns, audit, policies>>
  BY DEF IssueCalled, AdoptCalled, stores
<1>2. /\ Moved(r, {"done", "rooting", "signing"})
      /\ pc'[r] = "signing" => PolicyRefusal(q) = Permitted
  BY PiecesMove DEF IssueCalled, AdoptCalled, SerialInv, TypeInv, Moved
<1>3. Kept'
  BY <1>1, <1>2, CalledAlone, KeptFrame DEF SerialInv, HeldInv, Moved
<1>4. Held(r)'
  <2>1. (pc[r] = "signing" => PolicyRefusal(req[r]) = Permitted)'
    BY <1>1, <1>2, CalledAlone DEF PolicyRefusal, SerialInv
  <2>2. now'[r] <= clock' /\ \A c \in certs' : c.from <= now'[r]
    BY <1>1, CalledAlone DEF SerialInv, TypeInv, TypeOK
  <2> QED
    BY <1>2, <2>1, <2>2 DEF Held, Moved
<1> QED
  BY <1>1, <1>2, <1>3, <1>4, CalledAlone, HeldFrame DEF SerialInv, Moved

LEMMA HeldPresented ==
  ASSUME Serialized, SerialInv, HeldInv, NEW r \in Call, NEW q \in Requests,
         SpawnPresented(r, q)
  PROVE  HeldInv'
<1> DEFINE code == PresentedRefusal(q)
<1>1. /\ Called(r, q)
      /\ UNCHANGED <<clock, certs, live, grantSpawns, audit, policies, children, kidSet>>
  BY DEF SpawnPresented
<1>2. Moved(r, {"logging", "granting", "issuing"})
  BY PiecesMove, EvaluationMoves DEF SpawnPresented, Deny, Moved, SerialInv, TypeInv
<1>3. Kept'
  BY <1>1, <1>2, CalledAlone, KeptFrame DEF SerialInv, HeldInv, Moved
<1>4. now'[r] <= clock' /\ \A c \in certs' : c.from <= now'[r]
  BY <1>1, CalledAlone DEF SerialInv, TypeInv, TypeOK
<1>5. CASE Log(r, code)
  BY <1>1, <1>4, <1>5, PiecesMove, PiecesHold, HeldLogging, HeldFrame, <1>2, <1>3, CalledAlone
     DEF Moved, SerialInv, TypeInv
<1>6. CASE /\ code = Permitted /\ CrossOrg(q.parent, q.child)
           /\ Goto(r, "granting") /\ under' = [under EXCEPT ![r] = CountUnder(q)]
  <2>1. pc'[r] = "granting" /\ under'[r] = CountUnder(q) /\ req'[r] = q
    BY <1>1, <1>6, PiecesMove, CalledAlone DEF Moved, SerialInv, TypeInv, TypeOK
  <2>2. (/\ PresentedRefusal(req[r]) = Permitted
         /\ CrossOrg(req[r].parent, req[r].child)
         /\ under[r] = CountUnder(req[r]))'
    BY <1>1, <1>6, <2>1 DEF PresentedRefusal, CrossOrg, CountUnder
  <2>3. Held(r)'
    BY <1>4, <2>1, <2>2 DEF Held
  <2> QED
    BY <1>1, <1>2, <1>3, <2>3, CalledAlone, HeldFrame DEF SerialInv, Moved
<1>7. CASE code = Permitted /\ ~CrossOrg(q.parent, q.child) /\ Evaluate(r, q, clock)
  <2>1. CASE pc'[r] = "logging" /\ prev'[r] = HeadHash
    BY <1>1, <1>2, <1>3, <1>4, <2>1, HeldLogging, HeldFrame, CalledAlone DEF Moved, SerialInv
  <2>2. CASE pc'[r] = "issuing" /\ EvaluationRefusal(q, clock) = Permitted
    <3>1. Held(r)'
      <4>1. req'[r] = q /\ now'[r] = clock /\ clock <= clock /\ \A c \in certs : c.from <= clock
        BY <1>1, <1>4, CalledAlone DEF SerialInv, TypeInv, TypeOK
      <4> QED
        BY <1>1, <1>7, <2>2, <4>1, HeldIssuing
    <3> QED
      BY <1>1, <1>2, <1>3, <3>1, HeldFrame, CalledAlone DEF Moved, SerialInv
  <2> QED
    BY <1>7, <2>1, <2>2, PiecesHold DEF SerialInv, TypeInv
<1> QED
  BY <1>5, <1>6, <1>7 DEF SpawnPresented, Deny

LEMMA HeldValidated ==
  ASSUME SerialInv, HeldInv, NEW r \in Call, GrantValidated(r)
  PROVE  HeldInv'
<1> DEFINE q == req[r]
           t == now[r]
<1>1. /\ pc[r] = "granting" /\ Running(r)
      /\ UNCHANGED <<clock, stores, certs, req, now>>
  BY DEF GrantValidated, Running
<1>2. Moved(r, {"logging", "issuing"})
  BY PiecesMove, EvaluationMoves DEF GrantValidated, Deny, Moved, SerialInv, TypeInv
<1>3. Kept'
  BY <1>1, <1>2, KeptFrame DEF SerialInv, HeldInv, Moved, stores
<1>4. /\ t <= clock /\ \A c \in certs : c.from <= t
      /\ PresentedRefusal(q) = Permitted
      /\ under[r] = CountUnder(q)
  BY <1>1 DEF HeldInv, Held
<1>5. CASE pc'[r] = "logging" /\ prev'[r] = HeadHash
  BY <1>1, <1>2, <1>3, <1>4, <1>5, HeldLogging, HeldFrame, OthersResumed
     DEF Moved, SerialInv, stores
<1>6. CASE /\ GrantRefusal(q, t, under[r]) = Permitted
           /\ pc'[r] = "issuing" /\ EvaluationRefusal(q, t) = Permitted
  <2>1. Held(r)'
    <3>1. req'[r] = q /\ now'[r] = t
      BY <1>1
    <3>2. UNCHANGED <<clock, certs, policies, live, children, kidSet, grantSpawns>>
      BY <1>1 DEF stores
    <3> QED
      BY <1>4, <1>6, <3>1, <3>2, HeldIssuing
  <2> QED
    BY <1>1, <1>2, <1>3, <2>1, HeldFrame, OthersResumed DEF Moved, SerialInv
<1>7. TypeOK
  BY DEF SerialInv, TypeInv
<1>8. CASE \E code : Log(r, code)
  BY <1>2, <1>5, <1>7, <1>8, PiecesHold, PiecesMove DEF Moved
<1>9. CASE GrantRefusal(q, t, under[r]) = Permitted /\ Evaluate(r, q, t)
  BY <1>5, <1>6, <1>7, <1>9, PiecesHold
<1> QED
  BY <1>8, <1>9 DEF GrantValidated, Deny

LEMMA HeldPolicySigned ==
  ASSUME SerialInv, HeldInv, NEW r \in Call, PolicySigned(r)
  PROVE  HeldInv'
<1>1. /\ pc[r] = "signing" /\ Running(r)
      /\ UNCHANGED <<clock, certs, live, grantSpawns, audit, req, now>>
  BY DEF PolicySigned, Running
<1>2. Moved(r, {"logging"}) /\ prev'[r] = HeadHash
  BY PiecesMove, PiecesHold DEF PolicySigned, SerialInv, TypeInv
<1>3. Kept'
  BY <1>1, <1>2, KeptFrame DEF SerialInv, HeldInv, Moved
<1>4. Held(r)'
  BY <1>1, <1>2, HeldLogging DEF Moved, HeldInv, Held
<1> QED
  BY <1>1, <1>2, <1>3, <1>4, HeldFrame, OthersResumed DEF Moved, SerialInv

\* The entry is pushed onto the chain whose head it commits to.
LEMMA HeldEntryHashed ==
  ASSUME SerialInv, HeldInv, NEW r \in Call, EntryHashed(r)
  PROVE  HeldInv'
<1> DEFINE e == [call |-> r, prev |-> prev[r],
                 outcome |-> IF answer[r] = Permitted THEN "ALLOWED" ELSE "DENIED"]
<1>1. /\ pc[r] = "logging" /\ Running(r)
      /\ UNCHANGED <<clock, certs, live, grantSpawns, req, answer>>
      /\ audit' = Append(audit, e)
  BY DEF EntryHashed, Running
<1>2. pc'[r] = "done" /\ \A s \in Call : s # r => pc'[s] = pc[s]
  BY DEF EntryHashed, SerialInv, TypeInv, TypeOK
<1>3. e.call = r /\ e.prev = HeadHash
  BY <1>1 DEF HeldInv, Held
<1> HIDE DEF e
<1>4. /\ Len(audit) \in Nat
      /\ Len(audit') = Len(audit) + 1
      /\ audit'[Len(audit) + 1] = e
      /\ \A i \in 1..Len(audit) : audit'[i] = audit[i]
      /\ audit = <<>> <=> Len(audit) = 0
  BY <1>1 DEF SerialInv, TypeInv, TypeOK
<1>5. AuditLinked'
  <2> SUFFICES ASSUME NEW i \in 1..Len(audit)'
               PROVE  audit'[i].prev = IF i = 1 THEN None ELSE audit'[i - 1].call
    BY DEF AuditLinked
  <2>1. CASE i \in 1..Len(audit)
    <3>1. audit[i].prev = IF i = 1 THEN None ELSE audit[i - 1].call
      BY <2>1 DEF HeldInv, Kept, AuditLinked
    <3>2. i = 1 \/ i - 1 \in 1..Len(audit)
      BY <1>4, <2>1
    <3> QED
      BY <1>4, <2>1, <3>1, <3>2
  <2>2. CASE i = Len(audit) + 1 /\ Len(audit) = 0
    BY <1>3, <1>4, <2>2 DEF HeadHash
  <2>3. CASE i = Len(audit) + 1 /\ Len(audit) # 0
    <3>1. i - 1 = Len(audit) /\ i # 1 /\ Len(audit) \in 1..Len(audit)
      BY <1>4, <2>3
    <3> QED
      BY <1>3, <1>4, <2>3, <3>1 DEF HeadHash
  <2> QED
    BY <1>4, <2>1, <2>2, <2>3
<1>6. NonceCarried'
  <2>1. \A s \in Call : Presented(s) => Presented(s)'
    BY <1>1, <1>2 DEF Presented
  <2>2. \A c \in certs : c.call \in Call
    BY DEF SerialInv, TypeInv, TypeOK, Certificate
  <2> QED
    BY <1>1, <2>1, <2>2 DEF HeldInv, Kept, NonceCarried
<1>7. Dated' /\ GrantsWithin'
  BY <1>1 DEF HeldInv, Kept, Dated, GrantsWithin
<1>8. Held(r)'
  BY <1>2, HeldDone
<1> QED
  BY <1>1, <1>2, <1>5, <1>6, <1>7, <1>8, HeldFrame, OthersResumed DEF Kept, SerialInv

-----------------------------------------------------------------------------
(***************************************************************************)
(* The segments that certify and count.                                    *)
(***************************************************************************)

\* A certificate for the request of a call under way is dated after all others.
LEMMA DatedCertify ==
  ASSUME SerialInv, HeldInv, NEW r \in Call, pc[r] \in {"issuing", "rooting"},
         NEW p, NEW g, NEW n, Certify(r, p, g, n), UNCHANGED clock
  PROVE  Dated'
<1> DEFINE a == req[r].child
           c == Obtains(r, p, g, n)
<1>1. a \in Agent /\ now[r] \in Nat /\ T[a].ttl \in Nat
  BY TemplateAssumption DEF SerialInv, TypeInv, TypeOK, CallOK, SpawnRequest, IssueRequest, Template
<1>2. certs' = certs \cup {c} /\ live' = [live EXCEPT ![a] = now[r] + T[a].ttl]
  BY Certifies DEF Certify
<1>3. c.subject = a /\ c.from = now[r] /\ c.until = now[r] + T[a].ttl
  BY DEF Obtains
<1> HIDE DEF c
<1>4. now[r] <= clock /\ \A d \in certs : d.from <= now[r]
  BY DEF HeldInv, Held, Running
<1>5. live'[a] = now[r] + T[a].ttl /\ \A b \in Agent : b # a => live'[b] = live[b]
  BY <1>1, <1>2 DEF SerialInv, TypeInv, TypeOK
<1> SUFFICES ASSUME NEW d \in certs'
             PROVE  /\ d.from <= clock
                    /\ d.until = d.from + T[d.subject].ttl
                    /\ d.until <= live'[d.subject]
  BY DEF Dated
<1>6. CASE d = c
  BY <1>1, <1>3, <1>4, <1>5, <1>6
<1>7. CASE d \in certs
  <2>1. d.subject \in Agent /\ d.from \in Nat /\ d.from <= now[r]
    BY <1>4, <1>7 DEF SerialInv, TypeInv, TypeOK, Certificate
  <2>2. d.from <= clock /\ d.until = d.from + T[d.subject].ttl /\ d.until <= live[d.subject]
    BY <1>7 DEF HeldInv, Kept, Dated
  <2> QED
    BY <1>1, <1>5, <2>1, <2>2
<1> QED
  BY <1>2, <1>6, <1>7

\* A spawn about to be certified uses a grant within its terms.
LEMMA IssuingWithin ==
  ASSUME SerialInv, HeldInv, NEW r \in Call, pc[r] = "issuing",
         CrossOrg(req[r].parent, req[r].child)
  PROVE  /\ req[r].grant \in Grant
         /\ G[req[r].grant].template = req[r].child
         /\ G[req[r].grant].signed
         /\ CountUnder(req[r]) <= G[req[r].grant].maxSpawns
<1> DEFINE q == req[r]
<1>1. /\ q \in SpawnRequest /\ PresentedRefusal(q) = Permitted
      /\ GrantRefusal(q, now[r], CountUnder(q)) = Permitted
  BY DEF SerialInv, TypeInv, CallOK, HeldInv, Held
<1>2. q.grant # None
  BY <1>1 DEF PresentedRefusal, Permitted
<1>3. q.grant \in Grant
  BY <1>1, <1>2 DEF SpawnRequest
<1>4. G[q.grant].maxSpawns \in Nat /\ CountUnder(q) \in Nat
  BY <1>3, GrantAssumption DEF Terms, CountUnder, SerialInv, TypeInv, TypeOK
<1>5. /\ G[q.grant].template = q.child /\ G[q.grant].signed
      /\ ~(CountUnder(q) > G[q.grant].maxSpawns)
  BY <1>1 DEF GrantRefusal, Permitted
<1> QED
  BY <1>3, <1>4, <1>5

LEMMA HeldSpawnIssues ==
  ASSUME SerialInv, HeldInv, NEW r \in Call, SpawnIssues(r)
  PROVE  HeldInv'
<1> DEFINE q == req[r]
<1>1. /\ pc[r] = "issuing" /\ Running(r) /\ q \in SpawnRequest
      /\ UNCHANGED <<clock, grantSpawns, audit, req, now>>
  BY DEF SpawnIssues, Running, SerialInv, TypeInv, CallOK
<1>2. Moved(r, {"logging", "issued"})
  BY PiecesMove DEF SpawnIssues, Deny, Moved, SerialInv, TypeInv
<1>3. now'[r] <= clock'
  BY <1>1 DEF HeldInv, Held
<1>4. CASE Deny(r, "ERR_TEMPLATE_SIGNATURE") /\ UNCHANGED <<live, certs>>
  <2>1. Kept'
    BY <1>1, <1>2, <1>4, KeptFrame DEF SerialInv, HeldInv, Moved
  <2>2. Held(r)'
    BY <1>1, <1>3, <1>4, PiecesMove, PiecesHold, HeldLogging DEF Deny, Moved, SerialInv, TypeInv
  <2> QED
    BY <1>1, <1>2, <2>1, <2>2, HeldFrame, OthersResumed DEF Moved, SerialInv
<1>5. CASE Goto(r, "issued") /\ Certify(r, q.parent, GrantUsed(q), q.nonce)
  <2> DEFINE c == Obtains(r, q.parent, GrantUsed(q), q.nonce)
  <2>1. certs' = certs \cup {c}
    BY <1>5, Certifies
  <2>2. c.call = r /\ c.parent = q.parent /\ c.nonce = q.nonce
    BY DEF Obtains
  <2> HIDE DEF c
  <2>3. pc'[r] = "issued" /\ answer'[r] = answer[r]
    BY <1>5 DEF Goto, SerialInv, TypeInv, TypeOK
  <2>4. Dated'
    BY <1>1, <1>5, DatedCertify
  <2>5. NonceCarried'
    <3>1. \A d \in certs : d.call \in Call /\ d.call # r
      BY <1>1 DEF SerialInv, TypeInv, TypeOK, Certificate, AccountInv, GrantInv, Obtainers
    <3>2. \A s \in Call : s # r => (Presented(s)' <=> Presented(s))
      BY <1>1, <1>2 DEF Presented, Moved
    <3>3. Presented(r)'
      BY <1>1, <2>3 DEF Presented, SerialInv, NonceInv, TurnedAwaySettled, TurnedAway, SpawnRequest
    <3>4. q.parent # None
      BY <1>1, NoneAssumption DEF SpawnRequest
    <3> QED
      BY <1>1, <2>1, <2>2, <3>1, <3>2, <3>3, <3>4 DEF HeldInv, Kept, NonceCarried
  <2>6. GrantsWithin' /\ AuditLinked'
    BY <1>1 DEF HeldInv, Kept, GrantsWithin, AuditLinked
  <2>7. Held(r)'
    <3>1. (CrossOrg(req[r].parent, req[r].child) =>
             CountUnder(req[r]) <= G[req[r].grant].maxSpawns)'
      BY <1>1, IssuingWithin DEF CrossOrg, CountUnder
    <3> QED
      BY <1>3, <2>3, <3>1 DEF Held
  <2> QED
    BY <1>1, <1>2, <2>4, <2>5, <2>6, <2>7, HeldFrame, OthersResumed DEF Kept, Moved, SerialInv
<1> QED
  BY <1>4, <1>5 DEF SpawnIssues

LEMMA HeldSpawnCounts ==
  ASSUME SerialInv, HeldInv, NEW r \in Call, SpawnCounts(r)
  PROVE  HeldInv'
<1> DEFINE q == req[r]
<1>1. /\ pc[r] = "issued" /\ Running(r) /\ q \in SpawnRequest
      /\ UNCHANGED <<clock, certs, live, audit, req, now>>
  BY DEF SpawnCounts, Running, SerialInv, TypeInv, CallOK
<1>2. Moved(r, {"logging"}) /\ prev'[r] = HeadHash /\ answer'[r] = Permitted
  BY PiecesMove, PiecesHold DEF SpawnCounts, SerialInv, TypeInv
<1>3. Held(r)'
  BY <1>1, <1>2, HeldLogging DEF Moved, HeldInv, Held
<1>4. GrantsWithin'
  <2> SUFFICES ASSUME NEW g \in Grant PROVE grantSpawns'[g] <= G[g].maxSpawns
    BY DEF GrantsWithin
  <2>1. grantSpawns'[g] = IF g = GrantUsed(q) THEN grantSpawns[g] + 1 ELSE grantSpawns[g]
    BY DEF SpawnCounts, Counted
  <2>2. CASE g = GrantUsed(q)
    <3>1. CrossOrg(q.parent, q.child) /\ q.grant = g
      BY <2>2, NoneAssumption DEF GrantUsed
    <3>2. CountUnder(q) <= G[q.grant].maxSpawns
      BY <1>1, <3>1 DEF HeldInv, Held
    <3> QED
      BY <2>1, <2>2, <3>1, <3>2 DEF CountUnder
  <2>3. CASE g # GrantUsed(q)
    BY <2>1, <2>3 DEF HeldInv, Kept, GrantsWithin
  <2> QED
    BY <2>2, <2>3
<1>5. NonceCarried'
  <2>1. \A s \in Call : Presented(s) => Presented(s)'
    BY <1>1, <1>2 DEF Presented, Moved, Permitted
  <2>2. \A c \in certs : c.call \in Call
    BY DEF SerialInv, TypeInv, TypeOK, Certificate
  <2> QED
    BY <1>1, <2>1, <2>2 DEF HeldInv, Kept, NonceCarried
<1>6. Dated' /\ AuditLinked'
  BY <1>1 DEF HeldInv, Kept, Dated, AuditLinked
<1> QED
  BY <1>1, <1>2, <1>3, <1>4, <1>5, <1>6, HeldFrame, OthersResumed DEF Kept, Moved, SerialInv

LEMMA HeldIssueSigned ==
  ASSUME SerialInv, HeldInv, NEW r \in Call, IssueSigned(r)
  PROVE  HeldInv'
<1>1. /\ pc[r] = "rooting" /\ Running(r)
      /\ UNCHANGED <<clock, grantSpawns, audit, req, now>>
  BY DEF IssueSigned, Running
<1>2. CASE Settle(r, "ERR_TEMPLATE_SIGNATURE") /\ UNCHANGED <<live, certs>>
  <2>1. Moved(r, {"done"})
    BY <1>2, PiecesMove DEF SerialInv, TypeInv
  <2>2. Kept'
    BY <1>1, <1>2, <2>1, KeptFrame DEF SerialInv, HeldInv, Moved
  <2> QED
    BY <1>1, <2>1, <2>2, HeldDone, HeldFrame, OthersResumed DEF Moved, SerialInv
<1>3. CASE Log(r, Permitted) /\ Certify(r, None, None, None)
  <2> DEFINE c == Obtains(r, None, None, None)
  <2>1. certs' = certs \cup {c}
    BY <1>3, Certifies
  <2>2. c.call = r /\ c.parent = None /\ c.nonce = None
    BY DEF Obtains
  <2> HIDE DEF c
  <2>3. Moved(r, {"logging"}) /\ prev'[r] = HeadHash
    BY <1>3, PiecesMove, PiecesHold DEF SerialInv, TypeInv
  <2>4. Dated'
    BY <1>1, <1>3, DatedCertify
  <2>5. NonceCarried'
    <3>1. \A d \in certs : d.call \in Call /\ d.call # r
      BY <1>1 DEF SerialInv, TypeInv, TypeOK, Certificate, AccountInv, GrantInv, Obtainers
    <3>2. \A s \in Call : s # r => (Presented(s)' <=> Presented(s))
      BY <1>1, <2>3 DEF Presented, Moved
    <3> QED
      BY <1>1, <2>1, <2>2, <3>1, <3>2 DEF HeldInv, Kept, NonceCarried
  <2>6. GrantsWithin' /\ AuditLinked'
    BY <1>1 DEF HeldInv, Kept, GrantsWithin, AuditLinked
  <2>7. Held(r)'
    BY <1>1, <2>3, HeldLogging DEF Moved, HeldInv, Held
  <2> QED
    BY <1>1, <2>3, <2>4, <2>5, <2>6, <2>7, HeldFrame, OthersResumed DEF Kept, Moved, SerialInv
<1> QED
  BY <1>2, <1>3 DEF IssueSigned

-----------------------------------------------------------------------------
\* Time passes, or nothing does.
LEMMA HeldTick ==
  ASSUME TypeInv, HeldInv, Tick \/ UNCHANGED vars
  PROVE  HeldInv'
<1>1. clock \in Nat /\ clock' \in Nat /\ clock <= clock'
  BY DEF TypeInv, TypeOK, Tick, vars
<1>2. UNCHANGED <<seenNonces, policies, live, children, kidSet, grantSpawns, audit,
                  pc, req, now, under, prev, answer, certs>>
  BY DEF Tick, vars, stores, locals
<1>3. Dated'
  <2>1. \A c \in certs : c.from \in Nat
    BY DEF TypeInv, TypeOK, Certificate
  <2> QED
    BY <1>1, <1>2, <2>1 DEF HeldInv, Kept, Dated
<1>4. NonceCarried' /\ GrantsWithin' /\ AuditLinked'
  BY <1>2 DEF HeldInv, Kept, NonceCarried, Presented, GrantsWithin, AuditLinked
<1>5. ASSUME NEW r \in Call PROVE Held(r)'
  <2>1. Held(r) /\ now[r] \in Nat
    BY DEF HeldInv, TypeInv, TypeOK
  <2>2. (Running(r) => now[r] <= clock)'
    BY <1>1, <1>2, <2>1 DEF Held, Running
  <2> QED
    BY <1>2, <2>1, <2>2
       DEF Held, Running, PresentedRefusal, CrossOrg, CountUnder, EvaluationRefusal,
           CountRefusal, PolicyInForce, Kids, GrantRefusal, PolicyRefusal, HeadHash
<1> QED
  BY <1>3, <1>4, <1>5 DEF HeldInv, Kept

LEMMA UntouchedHeld == Untouched => HeldInv
<1> SUFFICES ASSUME Untouched PROVE HeldInv
  OBVIOUS
<1>1. \A i : i \notin 1..Len(audit)
  BY DEF Untouched
<1>2. GrantsWithin
  BY GrantAssumption DEF Untouched, GrantsWithin, Terms
<1>3. Kept
  BY <1>1, <1>2 DEF Untouched, Kept, Dated, NonceCarried, AuditLinked
<1>4. \A r \in Call : Held(r)
  BY DEF Untouched, Held, Running
<1> QED
  BY <1>3, <1>4 DEF HeldInv

LEMMA HeldInit == Init => HeldInv
BY UntouchedHeld DEF Init, Untouched

LEMMA HeldFromDocument == fromDocument => HeldInv'
<1>1. fromDocument => Untouched'
  BY DEF fromDocument, Untouched
<1> QED
  BY <1>1, UntouchedHeld, PTL

LEMMA HeldStep == Serialized /\ SerialInv /\ HeldInv /\ [Next]_vars => HeldInv'
<1> SUFFICES ASSUME Serialized, SerialInv, HeldInv, [Next]_vars PROVE HeldInv'
  OBVIOUS
<1>1. CASE UNCHANGED vars \/ Tick
  BY <1>1, HeldTick DEF SerialInv
<1>2. CASE \E r \in Call : Arrive(r)
  BY <1>2, HeldTurnedAway, HeldPresented, HeldUnrelated DEF Arrive
<1>3. CASE \E r \in Call : Resume(r)
  BY <1>3, HeldValidated, HeldSpawnIssues, HeldSpawnCounts, HeldIssueSigned,
     HeldPolicySigned, HeldEntryHashed DEF Resume
<1>4. CASE fromDocument
  BY <1>4, HeldFromDocument
<1> QED
  BY <1>1, <1>2, <1>3, <1>4 DEF Next

LEMMA SerialAlways == Serialized => (Spec => [](SerialInv /\ HeldInv))
<1> SUFFICES ASSUME Serialized PROVE Spec => [](SerialInv /\ HeldInv)
  OBVIOUS
<1>1. Init => NonceInv /\ CountInv /\ HeldInv
  BY NonceInit, CountInit, HeldInit
<1>2. TypeInv /\ NonceInv /\ [Next]_vars => NonceInv'
  BY NonceStep DEF TypeInv
<1>3. TypeInv /\ CountInv /\ [Next]_vars => CountInv'
  BY CountStep
<1>4. SerialInv /\ HeldInv /\ [Next]_vars => HeldInv'
  BY HeldStep
<1>5. SerialInv <=> TypeInv /\ NonceInv /\ AccountInv /\ CountInv
  BY DEF SerialInv
<1> QED
  BY <1>1, <1>2, <1>3, <1>4, <1>5, TypeAlways, AccountAlways, PTL DEF Spec

-----------------------------------------------------------------------------
\* Section 10.2 step 5, for clients that await each call: a child that has
\* counted itself is in the set its parent's next spawn is measured by.
THEOREM ChildrenRecordedAlways == Serialized => (Spec => []ChildrenRecorded)
<1> SUFFICES ASSUME Serialized PROVE Spec => []ChildrenRecorded
  OBVIOUS
<1>1. SerialInv => ChildrenRecorded
  BY DEF SerialInv, CountInv, CertsCounted, Uncounted, ChildrenRecorded
<1> QED
  BY <1>1, SerialAlways, PTL

\* Section 19.7, for clients that await each call: each entry commits to the
\* entry before it, though the head is read before the hash is awaited.
THEOREM AuditLinkedAlways == Serialized => (Spec => []AuditLinked)
<1> SUFFICES ASSUME Serialized PROVE Spec => []AuditLinked
  OBVIOUS
<1>1. HeldInv => AuditLinked
  BY DEF HeldInv, Kept
<1> QED
  BY <1>1, SerialAlways, PTL

\* The certificates that name a grant are those counted and at most one, that
\* of the spawn about to count itself, which left room for it.
LEMMA GrantBounds == SerialInv /\ HeldInv => MaxSpawnsHeld
<1> SUFFICES ASSUME SerialInv, HeldInv, NEW g \in Grant
             PROVE  Cardinality(IssuedUnder(certs, g)) <= G[g].maxSpawns
  BY DEF MaxSpawnsHeld
<1>1. grantSpawns[g] = Cardinality(CountedUnder(g)) /\ grantSpawns[g] \in Nat
  BY DEF SerialInv, AccountInv, GrantInv, GrantCountExact, CountedUnder, TypeInv, TypeOK
<1>2. grantSpawns[g] <= G[g].maxSpawns /\ G[g].maxSpawns \in Nat
  BY GrantAssumption DEF HeldInv, Kept, GrantsWithin, Terms
<1>3. CASE \A c \in IssuedUnder(certs, g) : pc[c.call] # "issued"
  <2>1. IssuedUnder(certs, g) = CountedUnder(g)
    BY <1>3 DEF IssuedUnder, CountedUnder
  <2> QED
    BY <1>1, <1>2, <2>1
<1>4. CASE \E c \in IssuedUnder(certs, g) : pc[c.call] = "issued"
  <2>1. PICK c \in certs : c.grant = g /\ pc[c.call] = "issued"
    BY <1>4 DEF IssuedUnder
  <2>2. \A d \in certs : d.call \in Call
    BY DEF SerialInv, TypeInv, TypeOK, Certificate
  <2>3. \A d \in certs : pc[d.call] = "issued" => d = c
    BY <2>1, <2>2 DEF SerialInv, CountInv, Alone, Running, AccountInv, GrantInv, OneEach
  <2>4. IssuedUnder(certs, g) = CountedUnder(g) \cup {c}
    BY <2>1, <2>3 DEF IssuedUnder, CountedUnder
  <2>5. GrantUsed(req[c.call]) = g
    BY <2>1, <2>2 DEF SerialInv, AccountInv, GrantInv, IssuedHold, OneEach
  <2>6. CountUnder(req[c.call]) <= G[g].maxSpawns /\ req[c.call].grant = g
    BY <2>1, <2>2, <2>5, NoneAssumption DEF GrantUsed, HeldInv, Held
  <2>7. grantSpawns[g] + 1 <= G[g].maxSpawns
    BY <2>6 DEF CountUnder
  <2>8. IsFiniteSet(CountedUnder(g))
    <3>1. CountedUnder(g) \subseteq certs
      BY DEF CountedUnder
    <3> QED
      BY <3>1, FS_Subset DEF SerialInv, AccountInv, GrantInv
  <2>9. /\ Cardinality(CountedUnder(g) \cup {c}) \in Nat
        /\ Cardinality(CountedUnder(g) \cup {c}) <= Cardinality(CountedUnder(g)) + 1
    BY <2>8, AddOne
  <2> QED
    BY <1>1, <1>2, <2>4, <2>7, <2>9
<1> QED
  BY <1>3, <1>4

\* Section 13.2, for clients that await each call: no more certificates name a
\* grant than its MaxSpawns, at no instant between the comparison, two awaits
\* earlier, and the increment.
THEOREM MaxSpawnsAlways == Serialized => (Spec => []MaxSpawnsHeld)
<1> SUFFICES ASSUME Serialized PROVE Spec => []MaxSpawnsHeld
  OBVIOUS
<1> QED
  BY GrantBounds, SerialAlways, PTL

-----------------------------------------------------------------------------
(***************************************************************************)
(* What a step does to the ledger, whatever the clients.                   *)
(***************************************************************************)

\* Call r, a spawn, certifies c.
Spawned(r, c) ==
  /\ pc[r] = "issuing"
  /\ c = Obtains(r, req[r].parent, GrantUsed(req[r]), req[r].nonce)
  /\ certs' = certs \cup {c}
  /\ UNCHANGED <<policies, signed, now>>

\* Call r, of issue, certifies c.
Rooted(r, c) ==
  /\ pc[r] = "rooting"
  /\ c = Obtains(r, None, None, None)
  /\ certs' = certs \cup {c}
  /\ UNCHANGED <<policies, signed, now>>

LEMMA LedgerSteps ==
  ASSUME [Next]_vars
  PROVE  \/ UNCHANGED <<certs, policies, signed>>
         \/ \E r \in Call : \E c : Spawned(r, c)
         \/ \E r \in Call : \E c : Rooted(r, c)
         \/ \E r \in Call : PolicySigned(r)
         \/ fromDocument
<1>1. CASE UNCHANGED vars \/ Tick
  BY <1>1 DEF vars, Tick, stores
<1>2. CASE \E r \in Call : Arrive(r)
  BY <1>2 DEF Arrive, SpawnTurnedAway, SpawnPresented, IssueCalled, AdoptCalled, stores
<1>3. CASE \E r \in Call : Resume(r)
  <2>1. PICK r \in Call : Resume(r)
    BY <1>3
  <2>2. CASE GrantValidated(r) \/ SpawnCounts(r) \/ EntryHashed(r)
    BY <2>2 DEF GrantValidated, SpawnCounts, EntryHashed, stores
  <2>3. CASE SpawnIssues(r)
    BY <2>3, Certifies DEF SpawnIssues, Spawned
  <2>4. CASE IssueSigned(r)
    BY <2>4, Certifies DEF IssueSigned, Rooted
  <2> QED
    BY <2>1, <2>2, <2>3, <2>4 DEF Resume
<1> QED
  BY <1>1, <1>2, <1>3 DEF Next

\* What is true of the ledger when a spawn certifies, if each call is awaited.
LEMMA SpawnedWithin ==
  ASSUME SerialInv, HeldInv, NEW r \in Call, NEW c, Spawned(r, c)
  PROVE  /\ c.parent \in Agent /\ c.subject \in Agent /\ c.parent # None
         /\ c.until = c.from + T[c.subject].ttl
         /\ \A d \in certs : /\ d.from <= c.from
                             /\ d.subject = c.subject => d.until <= c.from
         /\ PolicyInForce(T[c.parent].policyRef) # None
         /\ c.subject \in PolicyInForce(T[c.parent].policyRef).targets
         /\ T[c.parent].spawner /\ c.subject \in T[c.parent].canSpawn
         /\ T[c.subject].scopes # {} /\ T[c.subject].scopes \subseteq T[c.parent].scopes
<1> DEFINE q == req[r]
           t == now[r]
<1>1. /\ c.parent = q.parent /\ c.subject = q.child
      /\ c.from = t /\ c.until = t + T[q.child].ttl
  BY DEF Spawned, Obtains
<1>2. q \in SpawnRequest /\ q.parent \in Agent /\ q.child \in Agent /\ t \in Nat
  BY DEF SpawnRequest, Spawned, SerialInv, TypeInv, TypeOK, CallOK
<1>3. /\ EvaluationRefusal(q, t) = Permitted
      /\ PresentedRefusal(q) = Permitted
      /\ \A d \in certs : d.from <= t
  BY DEF Spawned, HeldInv, Held
<1>4. ~(live[q.child] > t)
  BY <1>3 DEF EvaluationRefusal, CountRefusal, Permitted
<1>5. ASSUME NEW d \in certs, d.subject = q.child PROVE d.until <= t
  <2>1. d.until <= live[q.child] /\ d.until \in Nat /\ live[q.child] \in Nat
    BY <1>2, <1>5 DEF HeldInv, Kept, Dated, SerialInv, TypeInv, TypeOK, Certificate
  <2> QED
    BY <1>2, <1>4, <2>1
<1>6. /\ PolicyInForce(T[q.parent].policyRef) # None
      /\ q.child \in PolicyInForce(T[q.parent].policyRef).targets
      /\ T[q.child].scopes # {} /\ T[q.child].scopes \subseteq T[q.parent].scopes
  BY <1>3 DEF EvaluationRefusal, Permitted
<1>7. T[q.parent].spawner /\ q.child \in T[q.parent].canSpawn
  BY <1>3 DEF PresentedRefusal, Permitted
<1>8. q.parent # None
  BY <1>2, NoneAssumption
<1> QED
  BY <1>1, <1>2, <1>3, <1>5, <1>6, <1>7, <1>8

\* Sections 10.2 step 5 and 12.1, for clients that await each call: no
\* certificate this Registry issued for a subject is live when spawn certifies it.
THEOREM OneLiveCertificateAlways == Serialized => (Spec => OneLiveCertificate)
<1> SUFFICES ASSUME Serialized PROVE Spec => OneLiveCertificate
  OBVIOUS
<1>1. SerialInv /\ HeldInv /\ [Next]_vars =>
        \A c \in certs' \ certs : c.parent # None =>
          \A d \in certs : d.subject = c.subject => d.until <= c.from
  <2> SUFFICES ASSUME SerialInv, HeldInv, [Next]_vars, NEW c \in certs' \ certs, c.parent # None
               PROVE  \A d \in certs : d.subject = c.subject => d.until <= c.from
    OBVIOUS
  <2>1. ~UNCHANGED certs /\ ~fromDocument /\ ~\E r \in Call : PolicySigned(r)
    BY DEF fromDocument, PolicySigned
  <2>2. ~\E r \in Call : \E d : Rooted(r, d)
    BY DEF Rooted, Obtains
  <2>3. PICK r \in Call : \E d : Spawned(r, d)
    BY <2>1, <2>2, LedgerSteps
  <2>4. Spawned(r, c)
    BY <2>3 DEF Spawned
  <2> QED
    BY <2>4, SpawnedWithin
<1> QED
  BY <1>1, SerialAlways, PTL DEF Spec, OneLiveCertificate

\* Section 10.2 step 3, for clients that await each call: the policy in force
\* when a child is certified names it, though it was read before the await.
THEOREM PolicyInForceAlways == Serialized => (Spec => SpawnUnderPolicyInForce)
<1> SUFFICES ASSUME Serialized PROVE Spec => SpawnUnderPolicyInForce
  OBVIOUS
<1>1. SerialInv /\ HeldInv /\ [Next]_vars =>
        \A c \in certs' \ certs : c.parent # None =>
          LET p == PolicyInForce(T[c.parent].policyRef) IN
          IF p = None THEN FALSE ELSE c.subject \in p.targets
  <2> SUFFICES ASSUME SerialInv, HeldInv, [Next]_vars, NEW c \in certs' \ certs, c.parent # None
               PROVE  /\ PolicyInForce(T[c.parent].policyRef) # None
                      /\ c.subject \in PolicyInForce(T[c.parent].policyRef).targets
    OBVIOUS
  <2>1. ~UNCHANGED certs /\ ~fromDocument /\ ~\E r \in Call : PolicySigned(r)
    BY DEF fromDocument, PolicySigned
  <2>2. ~\E r \in Call : \E d : Rooted(r, d)
    BY DEF Rooted, Obtains
  <2>3. PICK r \in Call : \E d : Spawned(r, d)
    BY <2>1, <2>2, LedgerSteps
  <2>4. Spawned(r, c)
    BY <2>3 DEF Spawned
  <2> QED
    BY <2>4, SpawnedWithin
<1> QED
  BY <1>1, SerialAlways, PTL DEF Spec, SpawnUnderPolicyInForce

\* What adoptPolicy puts in the store, if each call is awaited.
LEMMA AdoptedWithin ==
  ASSUME SerialInv, HeldInv, NEW r \in Call, PolicySigned(r)
  PROVE  LET body == req[r].policy IN
         /\ body \in Policy
         /\ policies' = [policies EXCEPT ![body.subject] = body]
         /\ policies'[body.subject] = body
         /\ \A a \in Agent : a # body.subject => policies'[a] = policies[a]
         /\ body.targets \subseteq T[body.subject].canSpawn
         /\ policies[body.subject] # None => policies[body.subject].version < body.version
<1> DEFINE body == req[r].policy
<1>1. pc[r] = "signing" /\ policies' = [policies EXCEPT ![body.subject] = body]
  BY DEF PolicySigned
<1>2. body \in Policy /\ body.subject \in Agent /\ body.version \in Nat
  BY <1>1 DEF SerialInv, TypeInv, CallOK, AdoptRequest, Policy
<1>3. PolicyRefusal(req[r]) = Permitted
  BY <1>1 DEF HeldInv, Held
<1>4. body.targets \subseteq T[body.subject].canSpawn
  BY <1>3 DEF PolicyRefusal, Permitted
<1>5. ASSUME policies[body.subject] # None
      PROVE  policies[body.subject].version < body.version
  <2>1. policies[body.subject] \in Policy
    BY <1>2, <1>5 DEF SerialInv, TypeInv, TypeOK
  <2>2. ~(body.version <= policies[body.subject].version)
    BY <1>3, <1>5 DEF PolicyRefusal, Permitted
  <2> QED
    BY <1>2, <2>1, <2>2 DEF Policy
<1>6. /\ policies'[body.subject] = body
      /\ \A a \in Agent : a # body.subject => policies'[a] = policies[a]
  BY <1>1, <1>2 DEF SerialInv, TypeInv, TypeOK
<1> QED
  BY <1>1, <1>2, <1>4, <1>5, <1>6

\* Section 11.4, for clients that await each call: within one Registry object
\* the policy in force for a subject gives way only to a higher version.
THEOREM PolicyNeverRegressesAlways == Serialized => (Spec => PolicyNeverRegresses)
<1> SUFFICES ASSUME Serialized PROVE Spec => PolicyNeverRegresses
  OBVIOUS
<1>1. SerialInv /\ HeldInv /\ [Next]_vars =>
        \A a \in Agent : policies[a] # None /\ ~fromDocument =>
          \/ policies'[a] = policies[a]
          \/ policies'[a] # None /\ policies'[a].version > policies[a].version
  <2> SUFFICES ASSUME SerialInv, HeldInv, [Next]_vars, NEW a \in Agent,
                      policies[a] # None, ~fromDocument, policies'[a] # policies[a]
               PROVE  policies'[a] # None /\ policies'[a].version > policies[a].version
    OBVIOUS
  <2>1. PICK r \in Call : PolicySigned(r)
    BY LedgerSteps DEF Spawned, Rooted
  <2> DEFINE body == req[r].policy
  <2>2. /\ body \in Policy /\ a = body.subject /\ policies'[a] = body
        /\ policies[a].version < body.version
    BY <2>1, AdoptedWithin
  <2>3. policies[a].version \in Nat /\ body.version \in Nat /\ body # None
    BY <2>2, NoneAssumption DEF SerialInv, TypeInv, TypeOK, Policy
  <2> QED
    BY <2>2, <2>3
<1> QED
  BY <1>1, SerialAlways, PTL DEF Spec, PolicyNeverRegresses

-----------------------------------------------------------------------------
(***************************************************************************)
(* The refinement: each step of the Registry is one of the ledger or a     *)
(* stutter.                                                                *)
(***************************************************************************)

\* While a spawn awaits issuance no certificate is yet to be counted, so the
\* counts it read are those of the ledger.
LEMMA CountsStand ==
  ASSUME SerialInv, HeldInv, NEW r \in Call, pc[r] = "issuing"
  PROVE  /\ Cardinality(SpawnedBy(certs, req[r].parent)) < T[req[r].parent].maxChildren
         /\ \A g \in Grant : Cardinality(IssuedUnder(certs, g)) = grantSpawns[g]
<1> DEFINE p == req[r].parent
<1>1. p \in Agent /\ p # None /\ T[p].maxChildren \in Nat
  BY NoneAssumption, TemplateAssumption
     DEF SerialInv, TypeInv, CallOK, SpawnRequest, Template
<1>2. \A c \in certs : c.call \in Call /\ pc[c.call] # "issued"
  BY DEF SerialInv, TypeInv, TypeOK, Certificate, CountInv, Alone, Running
<1>3. SpawnedBy(certs, p) \subseteq Kids(p)
  BY <1>1, <1>2 DEF SpawnedBy, SerialInv, CountInv, CertsCounted, Uncounted
<1>4. IsFiniteSet(Kids(p)) /\ Cardinality(Kids(p)) < T[p].maxChildren
  BY <1>1, KidsFinite DEF SerialInv, TypeInv, CountInv, Expected, HasRoom
<1>5. /\ Cardinality(Kids(p)) \in Nat /\ Cardinality(SpawnedBy(certs, p)) \in Nat
      /\ Cardinality(SpawnedBy(certs, p)) <= Cardinality(Kids(p))
  BY <1>3, <1>4, FS_Subset, FS_CardinalityType
<1>6. \A g \in Grant : IssuedUnder(certs, g) = CountedUnder(g)
  BY <1>2 DEF IssuedUnder, CountedUnder
<1>7. \A g \in Grant : Cardinality(CountedUnder(g)) = grantSpawns[g]
  BY DEF SerialInv, AccountInv, GrantInv, GrantCountExact, CountedUnder
<1> QED
  BY <1>1, <1>4, <1>5, <1>6, <1>7

\* The nonce a spawn presented is in no certificate there is.
LEMMA NonceUnused ==
  ASSUME SerialInv, HeldInv, NEW r \in Call, pc[r] = "issuing", NEW d \in certs
  PROVE  d.nonce # req[r].nonce
<1>1. d.call \in Call /\ d.call # r
  BY DEF SerialInv, TypeInv, TypeOK, Certificate, AccountInv, GrantInv, Obtainers
<1>2. Presented(r)
  BY DEF Presented, SerialInv, TypeInv, CallOK, SpawnRequest, NonceInv, TurnedAwaySettled, TurnedAway
<1>3. req[r].nonce # None
  BY NoneAssumption DEF SerialInv, TypeInv, CallOK, SpawnRequest
<1>4. CASE d.parent = None
  BY <1>3, <1>4 DEF HeldInv, Kept, NonceCarried
<1>5. CASE d.parent # None
  <2>1. Presented(d.call) /\ d.nonce = req[d.call].nonce
    BY <1>5 DEF HeldInv, Kept, NonceCarried
  <2> QED
    BY <1>1, <1>2, <2>1 DEF SerialInv, NonceInv, NonceSpentOnce
<1> QED
  BY <1>4, <1>5

\* The ledger counts as the Registry does: both take FiniteSets.
LEMMA SameCount == \A S : Ledger!Cardinality(S) = Cardinality(S)
BY DEF Ledger!Cardinality, Cardinality

LEMMA SpawnImplements ==
  ASSUME SerialInv, HeldInv, NEW r \in Call, NEW c, Spawned(r, c)
  PROVE  c \in certs' \ certs /\ Ledger!Spawn(c)
<1>1. /\ c.call = r /\ c.parent = req[r].parent /\ c.subject = req[r].child
      /\ c.grant = GrantUsed(req[r]) /\ c.nonce = req[r].nonce
      /\ pc[r] = "issuing"
      /\ certs' = certs \cup {c} /\ UNCHANGED <<policies, signed>>
  BY DEF Spawned, Obtains
<1>2. c \in certs' \ certs
  BY <1>1 DEF SerialInv, AccountInv, GrantInv, Obtainers
<1>3. c.parent # None /\ \A d \in certs : d.nonce # c.nonce
  BY <1>1, SpawnedWithin, NonceUnused
<1>4. Ledger!WithinTemplate(c)
  BY SpawnedWithin DEF Ledger!WithinTemplate
<1>5. Ledger!Granted(c)
  <2>1. CASE ~CrossOrg(c.parent, c.subject)
    BY <1>1, <2>1 DEF Ledger!Granted, Ledger!CrossOrg, CrossOrg, GrantUsed
  <2>2. CASE CrossOrg(c.parent, c.subject)
    <3>1. c.grant = req[r].grant
      BY <1>1, <2>2 DEF GrantUsed
    <3>2. /\ c.grant \in Grant /\ G[c.grant].template = c.subject /\ G[c.grant].signed
          /\ grantSpawns[c.grant] + 1 <= G[c.grant].maxSpawns
      BY <1>1, <2>2, <3>1, IssuingWithin DEF CountUnder
    <3>3. c.grant # None
      BY <3>2, NoneAssumption
    <3>4. Cardinality(IssuedUnder(certs, c.grant)) = grantSpawns[c.grant]
      BY <1>1, <3>2, CountsStand
    <3>5. grantSpawns[c.grant] \in Nat /\ G[c.grant].maxSpawns \in Nat
      BY <3>2, GrantAssumption DEF Terms, SerialInv, TypeInv, TypeOK
    <3>6. Cardinality(IssuedUnder(certs, c.grant)) < G[c.grant].maxSpawns
      BY <3>2, <3>4, <3>5
    <3> QED
      BY <2>2, <3>2, <3>3, <3>6, SameCount
         DEF Ledger!Granted, Ledger!CrossOrg, CrossOrg, Ledger!IssuedUnder, IssuedUnder
  <2> QED
    BY <2>1, <2>2
<1>6. Ledger!InPolicy(c)
  BY SpawnedWithin DEF Ledger!InPolicy, PolicyInForce
<1>7. Ledger!Cardinality(Ledger!SpawnedBy(certs, c.parent)) < T[c.parent].maxChildren
  BY <1>1, CountsStand, SameCount DEF Ledger!SpawnedBy, SpawnedBy
<1>8. Ledger!NoneLive(c) /\ Ledger!Certified(c)
  BY <1>1, SpawnedWithin DEF Ledger!NoneLive, Ledger!Certified
<1> QED
  BY <1>2, <1>3, <1>4, <1>5, <1>6, <1>7, <1>8 DEF Ledger!Spawn

LEMMA IssueImplements ==
  ASSUME SerialInv, HeldInv, NEW r \in Call, NEW c, Rooted(r, c)
  PROVE  c \in certs' \ certs /\ Ledger!Issue(c)
<1>1. /\ c.call = r /\ c.parent = None /\ c.grant = None /\ c.nonce = None
      /\ c.from = now[r] /\ c.subject = req[r].child
      /\ c.until = now[r] + T[req[r].child].ttl
      /\ pc[r] = "rooting"
      /\ certs' = certs \cup {c} /\ UNCHANGED <<policies, signed>>
  BY DEF Rooted, Obtains
<1>2. c \in certs' \ certs
  BY <1>1 DEF SerialInv, AccountInv, GrantInv, Obtainers
<1>3. \A d \in certs : d.from <= c.from
  BY <1>1 DEF HeldInv, Held
<1> QED
  BY <1>1, <1>2, <1>3 DEF Ledger!Issue, Ledger!Certified

LEMMA AdoptImplements ==
  ASSUME SerialInv, HeldInv, NEW r \in Call, PolicySigned(r)
  PROVE  \E a \in Agent : Ledger!Adopt(a)
<1> DEFINE body == req[r].policy
<1>1. /\ signed' = signed \cup {body} /\ UNCHANGED certs
  BY DEF PolicySigned
<1>2. /\ body \in Policy /\ body.subject \in Agent
      /\ policies' = [policies EXCEPT ![body.subject] = body]
      /\ policies'[body.subject] = body
      /\ body.targets \subseteq T[body.subject].canSpawn
      /\ policies[body.subject] # None => policies[body.subject].version < body.version
  BY AdoptedWithin DEF Policy
<1>3. Ledger!Adopt(body.subject)
  BY <1>1, <1>2 DEF Ledger!Adopt, Ledger!Policy, Policy
<1> QED
  BY <1>2, <1>3

LEMMA RestartImplements == fromDocument => Ledger!Restart
<1> SUFFICES ASSUME fromDocument PROVE Ledger!Restart
  OBVIOUS
<1>1. /\ certs' = {} /\ UNCHANGED signed
      /\ policies' \in [Agent -> signed \cup {None}]
      /\ \A a \in Agent : policies'[a] # None => policies'[a].subject = a
  BY DEF fromDocument, adoptEnvelope
<1> QED
  BY <1>1 DEF Ledger!Restart

\* For clients that await each call before the next, any templates, grants,
\* requests and number of calls: the Registry implements the ledger, so the
\* counts, the live set and the policy that a call reads before an await still
\* describe the ledger when its certificate is issued.
THEOREM LedgerImplemented == Serialized => (Spec => ImplementsLedger)
<1> SUFFICES ASSUME Serialized PROVE Spec => ImplementsLedger
  OBVIOUS
<1>1. Init => Ledger!Init
  BY DEF Init, Ledger!Init
<1>2. SerialInv /\ HeldInv /\ [Next]_vars => [Ledger!Next]_(Ledger!ledgerVars)
  <2> SUFFICES ASSUME SerialInv, HeldInv, [Next]_vars
               PROVE  Ledger!Next \/ UNCHANGED Ledger!ledgerVars
    OBVIOUS
  <2>1. CASE UNCHANGED <<certs, policies, signed>>
    BY <2>1 DEF Ledger!ledgerVars
  <2>2. CASE \E r \in Call : \E c : Spawned(r, c)
    BY <2>2, SpawnImplements DEF Ledger!Next
  <2>3. CASE \E r \in Call : \E c : Rooted(r, c)
    BY <2>3, IssueImplements DEF Ledger!Next
  <2>4. CASE \E r \in Call : PolicySigned(r)
    BY <2>4, AdoptImplements DEF Ledger!Next
  <2>5. CASE fromDocument
    BY <2>5, RestartImplements DEF Ledger!Next
  <2> QED
    BY <2>1, <2>2, <2>3, <2>4, <2>5, LedgerSteps
<1> QED
  BY <1>1, <1>2, SerialAlways, PTL DEF Spec, ImplementsLedger, Ledger!Spec

=============================================================================
