--------------------------- MODULE RegistryProofs ---------------------------
(***************************************************************************)
(* Theorems about the Registry for any calls, templates, grants and        *)
(* requests.                                                               *)
(***************************************************************************)
EXTENDS Registry, TLAPS, FiniteSetTheorems

\* What a call waiting for a segment is known to be.
CallOK ==
  \A r \in Call :
    /\ pc[r] \in {"granting", "issuing", "issued"} => req[r] \in SpawnRequest
    /\ pc[r] \in {"issuing", "issued"} => kids[r] \in Call
    /\ pc[r] = "rooting" => req[r] \in IssueRequest
    /\ pc[r] = "signing" => req[r] \in AdoptRequest

TypeInv == TypeOK /\ CallOK

-----------------------------------------------------------------------------
\* A request that a client makes is one of the three kinds, by its op.
LEMMA RequestKinds ==
  ASSUME NEW q \in Requests
  PROVE  /\ q \in AnyRequest
         /\ q.op = "spawn" => q \in SpawnRequest
         /\ q.op = "issue" => q \in IssueRequest
         /\ q.op = "adopt" => q \in AdoptRequest
BY RequestAssumption DEF AnyRequest, SpawnRequest, IssueRequest, AdoptRequest

LEMMA HeadHashType == TypeOK => HeadHash \in Call \cup {None}
<1> SUFFICES ASSUME audit \in Seq(Entry), audit # <<>>
             PROVE  audit[Len(audit)] \in Entry
  BY DEF TypeOK, HeadHash, Entry
<1>1. Len(audit) \in Nat /\ Len(audit) # 0
  OBVIOUS
<1>2. Len(audit) \in 1..Len(audit)
  BY <1>1
<1> QED
  BY <1>2

LEMMA RefusalTypes ==
  ASSUME NEW q, NEW t, NEW n
  PROVE  /\ PresentedRefusal(q) \in Refusals \cup {Permitted}
         /\ GrantRefusal(q, t, n) \in Refusals \cup {Permitted}
         /\ EvaluationRefusal(q, t) \in Refusals \cup {Permitted}
         /\ PolicyRefusal(q) \in Refusals \cup {Permitted}
<1>1. PresentedRefusal(q) \in Refusals \cup {Permitted}
  BY DEF PresentedRefusal, Refusals
<1>2. GrantRefusal(q, t, n) \in Refusals \cup {Permitted}
  BY DEF GrantRefusal, Refusals
<1>3. EvaluationRefusal(q, t) \in Refusals \cup {Permitted}
  BY DEF EvaluationRefusal, CountRefusal, Refusals
<1>4. PolicyRefusal(q) \in Refusals \cup {Permitted}
  BY DEF PolicyRefusal, Refusals
<1> QED BY <1>1, <1>2, <1>3, <1>4

LEMMA CalledType ==
  ASSUME TypeInv, NEW r \in Call, NEW q \in Requests, Called(r, q)
  PROVE  /\ req' \in [Call -> AnyRequest \cup {None}]
         /\ now' \in [Call -> Nat]
         /\ req'[r] = q
         /\ \A s \in Call : s # r => req'[s] = req[s]
BY RequestKinds DEF TypeInv, TypeOK, Called

LEMMA SettleType ==
  ASSUME TypeInv, NEW r \in Call, NEW code \in Refusals, Settle(r, code)
  PROVE  /\ pc' \in [Call -> Segments]
         /\ pc'[r] = "done"
         /\ \A s \in Call : s # r => pc'[s] = pc[s]
         /\ answer' \in [Call -> Refusals \cup {Permitted, None}]
         /\ prev' \in [Call -> Call \cup {None}]
BY DEF TypeInv, TypeOK, Settle, Segments

LEMMA LogType ==
  ASSUME TypeInv, NEW r \in Call, NEW code \in Refusals \cup {Permitted}, Log(r, code)
  PROVE  /\ pc' \in [Call -> Segments]
         /\ pc'[r] = "logging"
         /\ \A s \in Call : s # r => pc'[s] = pc[s]
         /\ answer' \in [Call -> Refusals \cup {Permitted, None}]
         /\ prev' \in [Call -> Call \cup {None}]
BY HeadHashType DEF TypeInv, TypeOK, Log, Segments

LEMMA GotoType ==
  ASSUME TypeInv, NEW r \in Call, NEW segment \in Segments, Goto(r, segment)
  PROVE  /\ pc' \in [Call -> Segments]
         /\ pc'[r] = segment
         /\ \A s \in Call : s # r => pc'[s] = pc[s]
         /\ answer' \in [Call -> Refusals \cup {Permitted, None}]
         /\ prev' \in [Call -> Call \cup {None}]
BY DEF TypeInv, TypeOK, Goto

LEMMA EvaluateType ==
  ASSUME TypeInv, NEW r \in Call, NEW q \in SpawnRequest, NEW t, Evaluate(r, q, t)
  PROVE  /\ pc' \in [Call -> Segments]
         /\ pc'[r] \in {"logging", "issuing"}
         /\ \A s \in Call : s # r => pc'[s] = pc[s]
         /\ answer' \in [Call -> Refusals \cup {Permitted, None}]
         /\ prev' \in [Call -> Call \cup {None}]
         /\ kids' \in [Call -> Call \cup {None}]
         /\ \A s \in Call : s # r => kids'[s] = kids[s]
         /\ pc'[r] = "issuing" => kids'[r] \in Call
<1> DEFINE code == EvaluationRefusal(q, t)
<1>1. code \in Refusals \cup {Permitted}
  BY RefusalTypes
<1>2. KidsObject(q.parent, r) \in Call
  BY DEF SpawnRequest, TypeInv, TypeOK, KidsObject
<1>3. CASE code # Permitted /\ Deny(r, code) /\ UNCHANGED kids
  <2>1. Log(r, code)
    BY <1>3 DEF Deny
  <2> QED
    BY <1>1, <1>3, <2>1, LogType DEF TypeInv, TypeOK
<1>4. CASE /\ code = Permitted
           /\ Goto(r, "issuing")
           /\ kids' = [kids EXCEPT ![r] = KidsObject(q.parent, r)]
  <2>1. "issuing" \in Segments
    BY DEF Segments
  <2> QED
    BY <1>2, <1>4, <2>1, GotoType DEF TypeInv, TypeOK
<1> QED
  BY <1>3, <1>4 DEF Evaluate

LEMMA CertifyType ==
  ASSUME TypeInv, NEW r \in Call, req[r].child \in Agent,
         NEW p \in Agent \cup {None}, NEW g \in Grant \cup {None}, NEW n \in Nonce \cup {None},
         Certify(r, p, g, n)
  PROVE  live' \in [Agent -> Nat] /\ certs' \subseteq Certificate
<1>1. now[r] + T[req[r].child].ttl \in Nat
  BY TemplateAssumption DEF TypeInv, TypeOK, Template
<1> QED
  BY <1>1 DEF TypeInv, TypeOK, Certify, Certificate

-----------------------------------------------------------------------------
(***************************************************************************)
(* Type correctness, one lemma per action.                                 *)
(***************************************************************************)

LEMMA TurnedAwayType ==
  ASSUME TypeInv, NEW r \in Call, NEW q \in Requests, SpawnTurnedAway(r, q)
  PROVE  TypeInv'
<1>1. \E code \in Refusals : Settle(r, code)
  BY DEF SpawnTurnedAway, Refusals
<1>2. PICK code \in Refusals : Settle(r, code)
  BY <1>1
<1>3. Called(r, q)
  BY DEF SpawnTurnedAway
<1>4. TypeOK'
  BY <1>2, <1>3, SettleType, CalledType DEF SpawnTurnedAway, TypeInv, TypeOK, stores
<1>5. CallOK'
  BY <1>2, <1>3, SettleType, CalledType DEF SpawnTurnedAway, TypeInv, CallOK
<1> QED
  BY <1>4, <1>5 DEF TypeInv

LEMMA PresentedType ==
  ASSUME TypeInv, NEW r \in Call, NEW q \in Requests, q.op = "spawn", SpawnPresented(r, q)
  PROVE  TypeInv'
<1> DEFINE code == PresentedRefusal(q)
<1>1. q \in SpawnRequest /\ q.nonce \in Nonce
  BY RequestKinds DEF SpawnRequest
<1>2. Called(r, q)
  BY DEF SpawnPresented
<1>3. seenNonces' \subseteq Nonce
  BY <1>1 DEF SpawnPresented, Spend, TypeInv, TypeOK
<1>4. code \in Refusals \cup {Permitted}
  BY RefusalTypes
<1>5. UNCHANGED <<clock, policies, live, children, kidSet, grantSpawns, audit, certs, signed>>
  BY DEF SpawnPresented
<1>6. CASE code # Permitted /\ Deny(r, code) /\ UNCHANGED <<kids, under>>
  <2>1. Log(r, code)
    BY <1>6 DEF Deny
  <2>2. TypeOK'
    BY <2>1, <1>2, <1>3, <1>4, <1>5, <1>6, LogType, CalledType DEF TypeInv, TypeOK
  <2>3. CallOK'
    BY <2>1, <1>2, <1>4, <1>6, LogType, CalledType DEF TypeInv, CallOK
  <2> QED
    BY <2>2, <2>3 DEF TypeInv
<1>7. CASE /\ code = Permitted
           /\ CrossOrg(q.parent, q.child)
           /\ Goto(r, "granting")
           /\ under' = [under EXCEPT ![r] = CountUnder(q)]
           /\ UNCHANGED kids
  <2>1. q.grant # None
    BY <1>7 DEF PresentedRefusal, Permitted
  <2>2. q.grant \in Grant
    BY <1>1, <2>1 DEF SpawnRequest
  <2>3. CountUnder(q) \in Nat
    BY <2>2 DEF CountUnder, TypeInv, TypeOK
  <2>4. under' \in [Call -> Nat]
    BY <2>3, <1>7 DEF TypeInv, TypeOK
  <2>5. "granting" \in Segments
    BY DEF Segments
  <2>6. TypeOK'
    BY <2>4, <2>5, <1>2, <1>3, <1>5, <1>7, GotoType, CalledType DEF TypeInv, TypeOK
  <2>7. CallOK'
    BY <2>5, <1>1, <1>2, <1>7, GotoType, CalledType DEF TypeInv, CallOK
  <2> QED
    BY <2>6, <2>7 DEF TypeInv
<1>8. CASE /\ code = Permitted
           /\ ~CrossOrg(q.parent, q.child)
           /\ Evaluate(r, q, clock)
           /\ UNCHANGED under
  <2>1. TypeOK'
    BY <1>1, <1>2, <1>3, <1>5, <1>8, EvaluateType, CalledType DEF TypeInv, TypeOK
  <2>2. CallOK'
    BY <1>1, <1>2, <1>8, EvaluateType, CalledType DEF TypeInv, CallOK
  <2> QED
    BY <2>1, <2>2 DEF TypeInv
<1> QED
  BY <1>6, <1>7, <1>8 DEF SpawnPresented

LEMMA ValidatedType ==
  ASSUME TypeInv, NEW r \in Call, GrantValidated(r)
  PROVE  TypeInv'
<1> DEFINE code == GrantRefusal(req[r], now[r], under[r])
<1>1. pc[r] = "granting" /\ req[r] \in SpawnRequest
  BY DEF GrantValidated, TypeInv, CallOK
<1>2. code \in Refusals \cup {Permitted}
  BY RefusalTypes
<1>3. UNCHANGED <<clock, stores, req, now, under, certs, signed>>
  BY DEF GrantValidated
<1>4. CASE code # Permitted /\ Deny(r, code) /\ UNCHANGED kids
  <2>1. Log(r, code)
    BY <1>4 DEF Deny
  <2>2. TypeOK'
    BY <2>1, <1>2, <1>3, <1>4, LogType DEF TypeInv, TypeOK, stores
  <2>3. CallOK'
    BY <2>1, <1>2, <1>3, <1>4, LogType DEF TypeInv, CallOK
  <2> QED
    BY <2>2, <2>3 DEF TypeInv
<1>5. CASE code = Permitted /\ Evaluate(r, req[r], now[r])
  <2>1. TypeOK'
    BY <1>1, <1>3, <1>5, EvaluateType DEF TypeInv, TypeOK, stores
  <2>2. CallOK'
    BY <1>1, <1>3, <1>5, EvaluateType DEF TypeInv, CallOK
  <2> QED
    BY <2>1, <2>2 DEF TypeInv
<1> QED
  BY <1>4, <1>5 DEF GrantValidated

LEMMA SpawnIssuesType ==
  ASSUME TypeInv, NEW r \in Call, SpawnIssues(r)
  PROVE  TypeInv'
<1>1. /\ pc[r] = "issuing" /\ req[r] \in SpawnRequest
      /\ req[r].child \in Agent /\ req[r].parent \in Agent
      /\ GrantUsed(req[r]) \in Grant \cup {None} /\ req[r].nonce \in Nonce
      /\ kids[r] \in Call
  BY DEF SpawnIssues, TypeInv, CallOK, SpawnRequest, GrantUsed
<1>2. UNCHANGED <<clock, seenNonces, policies, children, kidSet, grantSpawns, audit,
                  req, now, kids, under, signed>>
  BY DEF SpawnIssues
<1>3. CASE Deny(r, "ERR_TEMPLATE_SIGNATURE") /\ UNCHANGED <<live, certs>>
  <2>1. Log(r, "ERR_TEMPLATE_SIGNATURE") /\ "ERR_TEMPLATE_SIGNATURE" \in Refusals
    BY <1>3 DEF Deny, Refusals
  <2> QED
    BY <1>2, <1>3, <2>1, LogType DEF TypeInv, TypeOK, CallOK
<1>4. CASE /\ Goto(r, "issued")
           /\ Certify(r, req[r].parent, GrantUsed(req[r]), req[r].nonce)
  <2>1. "issued" \in Segments
    BY DEF Segments
  <2>2. live' \in [Agent -> Nat] /\ certs' \subseteq Certificate
    BY <1>1, <1>4, CertifyType
  <2> QED
    BY <1>1, <1>2, <1>4, <2>1, <2>2, GotoType DEF TypeInv, TypeOK, CallOK
<1> QED
  BY <1>3, <1>4 DEF SpawnIssues

LEMMA SpawnCountsType ==
  ASSUME TypeInv, NEW r \in Call, SpawnCounts(r)
  PROVE  TypeInv'
<1>1. /\ pc[r] = "issued" /\ req[r] \in SpawnRequest
      /\ req[r].child \in Agent /\ req[r].parent \in Agent
      /\ kids[r] \in Call
  BY DEF SpawnCounts, TypeInv, CallOK, SpawnRequest
<1>2. UNCHANGED <<clock, seenNonces, policies, live, audit, req, now, kids, under,
                  certs, signed>>
  BY DEF SpawnCounts
<1>3. Log(r, Permitted)
  BY DEF SpawnCounts
<1>4. kidSet' \in [Call -> SUBSET Agent]
  BY <1>1 DEF SpawnCounts, TypeInv, TypeOK
<1>5. children' \in [Agent -> Call \cup {None}]
  BY <1>1 DEF SpawnCounts, TypeInv, TypeOK
<1>6. grantSpawns' \in [Grant -> Nat]
  BY DEF SpawnCounts, Counted, TypeInv, TypeOK
<1> QED
  BY <1>1, <1>2, <1>3, <1>4, <1>5, <1>6, LogType DEF TypeInv, TypeOK, CallOK

LEMMA IssueCalledType ==
  ASSUME TypeInv, NEW r \in Call, NEW q \in Requests, q.op = "issue", IssueCalled(r, q)
  PROVE  TypeInv'
<1>1. q \in IssueRequest /\ Called(r, q)
  BY RequestKinds DEF IssueCalled
<1>2. UNCHANGED <<clock, stores, kids, under, certs, signed>>
  BY DEF IssueCalled
<1>3. CASE Settle(r, "ERR_TEMPLATE_NONCONFORMING")
  <2>1. "ERR_TEMPLATE_NONCONFORMING" \in Refusals
    BY DEF Refusals
  <2>2. TypeOK'
    BY <1>1, <1>2, <1>3, <2>1, SettleType, CalledType DEF TypeInv, TypeOK, stores
  <2>3. CallOK'
    BY <1>1, <1>2, <1>3, <2>1, SettleType, CalledType DEF TypeInv, CallOK
  <2> QED
    BY <2>2, <2>3 DEF TypeInv
<1>4. CASE Goto(r, "rooting")
  <2>1. "rooting" \in Segments
    BY DEF Segments
  <2>2. TypeOK'
    BY <1>1, <1>2, <1>4, <2>1, GotoType, CalledType DEF TypeInv, TypeOK, stores
  <2>3. CallOK'
    BY <1>1, <1>2, <1>4, <2>1, GotoType, CalledType DEF TypeInv, CallOK
  <2> QED
    BY <2>2, <2>3 DEF TypeInv
<1> QED
  BY <1>3, <1>4 DEF IssueCalled

LEMMA IssueSignedType ==
  ASSUME TypeInv, NEW r \in Call, IssueSigned(r)
  PROVE  TypeInv'
<1>1. pc[r] = "rooting" /\ req[r] \in IssueRequest /\ req[r].child \in Agent
  BY DEF IssueSigned, TypeInv, CallOK, IssueRequest
<1>2. UNCHANGED <<clock, seenNonces, policies, children, kidSet, grantSpawns, audit,
                  req, now, kids, under, signed>>
  BY DEF IssueSigned
<1>3. CASE Settle(r, "ERR_TEMPLATE_SIGNATURE") /\ UNCHANGED <<live, certs>>
  <2>1. "ERR_TEMPLATE_SIGNATURE" \in Refusals
    BY DEF Refusals
  <2> QED
    BY <1>2, <1>3, <2>1, SettleType DEF TypeInv, TypeOK, CallOK
<1>4. CASE Log(r, Permitted) /\ Certify(r, None, None, None)
  <2>1. live' \in [Agent -> Nat] /\ certs' \subseteq Certificate
    BY <1>1, <1>4, CertifyType
  <2> QED
    BY <1>1, <1>2, <1>4, <2>1, LogType DEF TypeInv, TypeOK, CallOK
<1> QED
  BY <1>3, <1>4 DEF IssueSigned

LEMMA AdoptCalledType ==
  ASSUME TypeInv, NEW r \in Call, NEW q \in Requests, q.op = "adopt", AdoptCalled(r, q)
  PROVE  TypeInv'
<1> DEFINE code == PolicyRefusal(q)
<1>1. q \in AdoptRequest /\ Called(r, q)
  BY RequestKinds DEF AdoptCalled
<1>2. UNCHANGED <<clock, stores, kids, under, certs, signed>>
  BY DEF AdoptCalled
<1>3. CASE code # Permitted /\ Settle(r, code)
  <2>1. code \in Refusals
    BY <1>3, RefusalTypes
  <2>2. TypeOK'
    BY <1>1, <1>2, <1>3, <2>1, SettleType, CalledType DEF TypeInv, TypeOK, stores
  <2>3. CallOK'
    BY <1>1, <1>2, <1>3, <2>1, SettleType, CalledType DEF TypeInv, CallOK
  <2> QED
    BY <2>2, <2>3 DEF TypeInv
<1>4. CASE Goto(r, "signing")
  <2>1. "signing" \in Segments
    BY DEF Segments
  <2>2. TypeOK'
    BY <1>1, <1>2, <1>4, <2>1, GotoType, CalledType DEF TypeInv, TypeOK, stores
  <2>3. CallOK'
    BY <1>1, <1>2, <1>4, <2>1, GotoType, CalledType DEF TypeInv, CallOK
  <2> QED
    BY <2>2, <2>3 DEF TypeInv
<1> QED
  BY <1>3, <1>4 DEF AdoptCalled

LEMMA PolicySignedType ==
  ASSUME TypeInv, NEW r \in Call, PolicySigned(r)
  PROVE  TypeInv'
<1>1. pc[r] = "signing" /\ req[r].policy \in Policy
  BY DEF PolicySigned, TypeInv, CallOK, AdoptRequest
<1>2. policies' \in [Agent -> Policy \cup {None}] /\ signed' \subseteq Policy
  BY <1>1 DEF PolicySigned, TypeInv, TypeOK
<1>3. Log(r, Permitted)
  BY DEF PolicySigned
<1>4. UNCHANGED <<clock, seenNonces, live, children, kidSet, grantSpawns, audit,
                  req, now, kids, under, certs>>
  BY DEF PolicySigned
<1> QED
  BY <1>2, <1>3, <1>4, LogType DEF TypeInv, TypeOK, CallOK

LEMMA EntryHashedType ==
  ASSUME TypeInv, NEW r \in Call, EntryHashed(r)
  PROVE  TypeInv'
<1>1. audit' \in Seq(Entry)
  BY DEF EntryHashed, Entry, TypeInv, TypeOK
<1>2. pc' \in [Call -> Segments] /\ pc'[r] = "done" /\ \A s \in Call : s # r => pc'[s] = pc[s]
  BY DEF EntryHashed, Segments, TypeInv, TypeOK
<1>3. UNCHANGED <<clock, seenNonces, policies, live, children, kidSet, grantSpawns,
                  req, now, kids, under, prev, answer, certs, signed>>
  BY DEF EntryHashed
<1> QED
  BY <1>1, <1>2, <1>3 DEF TypeInv, TypeOK, CallOK

LEMMA TickType ==
  ASSUME TypeInv, Tick
  PROVE  TypeInv'
<1>1. clock' \in Nat
  BY DEF Tick, TypeInv, TypeOK
<1> QED
  BY <1>1 DEF Tick, TypeInv, TypeOK, CallOK, stores, locals

LEMMA FromDocumentType ==
  ASSUME TypeInv, fromDocument
  PROVE  TypeInv'
<1>1. /\ audit' \in Seq(Entry)
      /\ pc' \in [Call -> Segments]
      /\ \A r \in Call : pc'[r] = "idle"
  BY DEF fromDocument, Segments
<1>2. policies' \in [Agent -> Policy \cup {None}]
  BY DEF fromDocument, adoptEnvelope, TypeInv, TypeOK
<1>3. TypeOK'
  BY <1>1, <1>2 DEF fromDocument, TypeInv, TypeOK
<1>4. CallOK'
  BY <1>1 DEF CallOK
<1> QED
  BY <1>3, <1>4 DEF TypeInv

LEMMA TypeInit == Init => TypeInv
BY DEF Init, TypeInv, TypeOK, CallOK, Segments

LEMMA TypeStep == TypeInv /\ [Next]_vars => TypeInv'
<1> SUFFICES ASSUME TypeInv, [Next]_vars PROVE TypeInv'
  OBVIOUS
<1>1. CASE UNCHANGED vars
  BY <1>1 DEF vars, stores, locals, TypeInv, TypeOK, CallOK
<1>2. CASE \E r \in Call : Arrive(r)
  BY <1>2, TurnedAwayType, PresentedType, IssueCalledType, AdoptCalledType DEF Arrive
<1>3. CASE \E r \in Call : Resume(r)
  BY <1>3, ValidatedType, SpawnIssuesType, SpawnCountsType, IssueSignedType,
     PolicySignedType, EntryHashedType DEF Resume
<1>4. CASE Tick
  BY <1>4, TickType
<1>5. CASE fromDocument
  BY <1>5, FromDocumentType
<1> QED
  BY <1>1, <1>2, <1>3, <1>4, <1>5 DEF Next

LEMMA TypeAlways == Spec => []TypeInv
<1>1. Init => TypeInv
  BY TypeInit
<1>2. TypeInv /\ [Next]_vars => TypeInv'
  BY TypeStep
<1> QED
  BY <1>1, <1>2, PTL DEF Spec

\* The Registry keeps its types under every interleaving of any calls: no
\* segment resumes into a record, a Set object or an audit entry of another kind.
THEOREM TypeCorrect == Spec => []TypeOK
<1>1. TypeInv => TypeOK
  BY DEF TypeInv
<1> QED
  BY <1>1, TypeAlways, PTL

-----------------------------------------------------------------------------
(***************************************************************************)
(* A nonce is spent once, for any calls in any interleaving.               *)
(***************************************************************************)

TurnedAway == {"ERR_TEMPLATE_NONCONFORMING", "ERR_NONCE_REUSED"}

\* A presented nonce is in the store the next request is compared with.
PresentedSeen == \A r \in Call : Presented(r) => req[r].nonce \in seenNonces

\* Only a settled call was turned away, so a resumed one had spent its nonce.
TurnedAwaySettled == \A r \in Call : answer[r] \in TurnedAway => pc[r] = "done"

NonceInv == PresentedSeen /\ TurnedAwaySettled /\ NonceSpentOnce

-----------------------------------------------------------------------------
LEMMA RefusalsOfEvaluation ==
  ASSUME NEW q, NEW t, NEW n
  PROVE  /\ PresentedRefusal(q) \notin TurnedAway
         /\ GrantRefusal(q, t, n) \notin TurnedAway
         /\ EvaluationRefusal(q, t) \notin TurnedAway
<1>1. PresentedRefusal(q) \notin TurnedAway
  BY DEF PresentedRefusal, TurnedAway, Permitted
<1>2. GrantRefusal(q, t, n) \notin TurnedAway
  BY DEF GrantRefusal, TurnedAway, Permitted
<1>3. EvaluationRefusal(q, t) \notin TurnedAway
  BY DEF EvaluationRefusal, CountRefusal, TurnedAway, Permitted
<1> QED
  BY <1>1, <1>2, <1>3

\* What any piece of a segment does to pc and answer, outside a turning away.
MovedOn(r) ==
  /\ pc'[r] # "idle"
  /\ answer'[r] \notin TurnedAway
  /\ \A s \in Call : s # r => pc'[s] = pc[s] /\ answer'[s] = answer[s]

LEMMA LogMoves ==
  ASSUME TypeOK, NEW r \in Call, NEW code, code \notin TurnedAway, Log(r, code)
  PROVE  MovedOn(r)
BY DEF Log, MovedOn, TypeOK

LEMMA SettleMoves ==
  ASSUME TypeOK, NEW r \in Call, NEW code, code \notin TurnedAway, Settle(r, code)
  PROVE  MovedOn(r)
BY DEF Settle, MovedOn, TypeOK

LEMMA GotoMoves ==
  ASSUME TypeOK, NEW r \in Call, NEW segment, segment # "idle",
         answer[r] \notin TurnedAway, Goto(r, segment)
  PROVE  MovedOn(r)
BY DEF Goto, MovedOn, TypeOK

LEMMA EvaluateMoves ==
  ASSUME TypeOK, NEW r \in Call, NEW q, NEW t,
         answer[r] \notin TurnedAway, Evaluate(r, q, t)
  PROVE  MovedOn(r)
BY RefusalsOfEvaluation, LogMoves, GotoMoves DEF Evaluate, Deny

\* A resumed call keeps its request, and no segment forgets a nonce.
LEMMA ResumeMoves ==
  ASSUME TypeOK, TurnedAwaySettled, NEW r \in Call, Resume(r)
  PROVE  MovedOn(r) /\ pc[r] # "idle" /\ UNCHANGED <<req, seenNonces>>
<1>1. ASSUME GrantValidated(r)
      PROVE  MovedOn(r) /\ pc[r] # "idle" /\ UNCHANGED <<req, seenNonces>>
  <2>1. pc[r] = "granting" /\ answer[r] \notin TurnedAway
    BY <1>1 DEF GrantValidated, TurnedAwaySettled
  <2> QED
    BY <1>1, <2>1, RefusalsOfEvaluation, LogMoves, EvaluateMoves
       DEF GrantValidated, Deny, stores
<1>2. ASSUME SpawnIssues(r)
      PROVE  MovedOn(r) /\ pc[r] # "idle" /\ UNCHANGED <<req, seenNonces>>
  <2>1. pc[r] = "issuing" /\ answer[r] \notin TurnedAway
    BY <1>2 DEF SpawnIssues, TurnedAwaySettled
  <2>2. "ERR_TEMPLATE_SIGNATURE" \notin TurnedAway
    BY DEF TurnedAway
  <2> QED
    BY <1>2, <2>1, <2>2, LogMoves, GotoMoves DEF SpawnIssues, Deny
<1>3. ASSUME SpawnCounts(r)
      PROVE  MovedOn(r) /\ pc[r] # "idle" /\ UNCHANGED <<req, seenNonces>>
  <2>1. Permitted \notin TurnedAway
    BY DEF TurnedAway, Permitted
  <2> QED
    BY <1>3, <2>1, LogMoves DEF SpawnCounts
<1>4. ASSUME IssueSigned(r)
      PROVE  MovedOn(r) /\ pc[r] # "idle" /\ UNCHANGED <<req, seenNonces>>
  <2>1. Permitted \notin TurnedAway /\ "ERR_TEMPLATE_SIGNATURE" \notin TurnedAway
    BY DEF TurnedAway, Permitted
  <2> QED
    BY <1>4, <2>1, LogMoves, SettleMoves DEF IssueSigned
<1>5. ASSUME PolicySigned(r)
      PROVE  MovedOn(r) /\ pc[r] # "idle" /\ UNCHANGED <<req, seenNonces>>
  <2>1. Permitted \notin TurnedAway
    BY DEF TurnedAway, Permitted
  <2> QED
    BY <1>5, <2>1, LogMoves DEF PolicySigned
<1>6. ASSUME EntryHashed(r)
      PROVE  MovedOn(r) /\ pc[r] # "idle" /\ UNCHANGED <<req, seenNonces>>
  BY <1>6 DEF EntryHashed, TurnedAwaySettled, MovedOn, TypeOK
<1> QED
  BY <1>1, <1>2, <1>3, <1>4, <1>5, <1>6 DEF Resume

-----------------------------------------------------------------------------
LEMMA NonceResume ==
  ASSUME TypeOK, NonceInv, NEW r \in Call, Resume(r)
  PROVE  NonceInv'
<1>1. MovedOn(r) /\ pc[r] # "idle" /\ UNCHANGED <<req, seenNonces>>
  BY ResumeMoves DEF NonceInv
<1>2. \A s \in Call : Presented(s)' => Presented(s)
  <2>1. answer[r] \notin TurnedAway
    <3>1. SUFFICES pc[r] # "done"
      BY DEF NonceInv, TurnedAwaySettled
    <3> QED
      BY DEF Resume, GrantValidated, SpawnIssues, SpawnCounts, IssueSigned,
             PolicySigned, EntryHashed
  <2> QED
    BY <1>1, <2>1 DEF MovedOn, Presented, TurnedAway
<1>3. PresentedSeen' /\ NonceSpentOnce'
  BY <1>1, <1>2 DEF NonceInv, PresentedSeen, NonceSpentOnce
<1>4. TurnedAwaySettled'
  BY <1>1 DEF MovedOn, NonceInv, TurnedAwaySettled
<1> QED
  BY <1>3, <1>4 DEF NonceInv

\* A call that did not present a nonce leaves what the others presented alone.
LEMMA NonceOther ==
  ASSUME NonceInv, NEW r \in Call, ~Presented(r)', seenNonces' = seenNonces,
         answer'[r] \in TurnedAway => pc'[r] = "done",
         \A s \in Call : s # r => /\ req'[s] = req[s]
                                  /\ pc'[s] = pc[s]
                                  /\ answer'[s] = answer[s]
  PROVE  NonceInv'
<1>1. \A s \in Call : Presented(s)' => s # r /\ Presented(s) /\ req'[s] = req[s]
  BY DEF Presented
<1>2. PresentedSeen' /\ NonceSpentOnce'
  BY <1>1 DEF NonceInv, PresentedSeen, NonceSpentOnce
<1>3. TurnedAwaySettled'
  BY DEF NonceInv, TurnedAwaySettled
<1> QED
  BY <1>2, <1>3 DEF NonceInv

LEMMA NonceTurnedAway ==
  ASSUME TypeOK, NonceInv, NEW r \in Call, NEW q \in Requests, SpawnTurnedAway(r, q)
  PROVE  NonceInv'
<1>1. seenNonces' = seenNonces
  BY DEF SpawnTurnedAway, stores
<1>2. answer'[r] \in TurnedAway /\ pc'[r] = "done"
  BY DEF SpawnTurnedAway, Settle, TurnedAway, TypeOK
<1>3. \A s \in Call : s # r => req'[s] = req[s] /\ pc'[s] = pc[s] /\ answer'[s] = answer[s]
  BY DEF SpawnTurnedAway, Settle, Called, TypeOK
<1>4. ~Presented(r)'
  BY <1>2 DEF Presented, TurnedAway
<1> QED
  BY <1>1, <1>2, <1>3, <1>4, NonceOther

LEMMA NonceUnrelated ==
  ASSUME TypeOK, NonceInv, NEW r \in Call, NEW q \in Requests,
         q.op # "spawn", IssueCalled(r, q) \/ AdoptCalled(r, q)
  PROVE  NonceInv'
<1>1. Called(r, q) /\ q.op # "spawn" /\ pc[r] = "idle" /\ seenNonces' = seenNonces
  BY DEF IssueCalled, AdoptCalled, Called, stores
<1>2. req'[r] = q /\ \A s \in Call : s # r => req'[s] = req[s]
  BY <1>1 DEF Called, TypeOK
<1>3. \A s \in Call : s # r => pc'[s] = pc[s] /\ answer'[s] = answer[s]
  BY DEF IssueCalled, AdoptCalled, Settle, Goto, TypeOK
<1>4. answer[r] \notin TurnedAway
  BY <1>1 DEF NonceInv, TurnedAwaySettled
<1>5. answer'[r] \in TurnedAway => pc'[r] = "done"
  BY <1>4 DEF IssueCalled, AdoptCalled, Settle, Goto, TypeOK
<1>6. ~Presented(r)'
  BY <1>1, <1>2 DEF Presented
<1> QED
  BY <1>1, <1>2, <1>3, <1>5, <1>6, NonceOther

LEMMA NoncePresented ==
  ASSUME TypeOK, NonceInv, NEW r \in Call, NEW q \in Requests, SpawnPresented(r, q)
  PROVE  NonceInv'
<1>1. /\ Called(r, q) /\ pc[r] = "idle"
      /\ q.nonce \notin seenNonces
      /\ seenNonces' = seenNonces \cup {q.nonce}
  BY DEF SpawnPresented, Called, Spend
<1>2. req'[r] = q /\ \A s \in Call : s # r => req'[s] = req[s]
  BY <1>1 DEF Called, TypeOK
<1>3. answer[r] \notin TurnedAway
  BY <1>1 DEF NonceInv, TurnedAwaySettled
<1>4. MovedOn(r)
  BY <1>3, RefusalsOfEvaluation, LogMoves, GotoMoves, EvaluateMoves DEF SpawnPresented, Deny
<1>5. \A s \in Call : s # r /\ Presented(s)' => Presented(s) /\ req'[s] = req[s]
  BY <1>2, <1>4 DEF MovedOn, Presented
<1>6. PresentedSeen'
  BY <1>1, <1>2, <1>5 DEF NonceInv, PresentedSeen
<1>7. NonceSpentOnce'
  <2> SUFFICES ASSUME NEW s \in Call, NEW u \in Call, s # u, Presented(s)', Presented(u)'
               PROVE  req'[s].nonce # req'[u].nonce
    BY DEF NonceSpentOnce
  <2>1. CASE s # r /\ u # r
    BY <1>5, <2>1 DEF NonceInv, NonceSpentOnce
  <2>2. CASE s = r
    BY <1>1, <1>2, <1>5, <2>2 DEF NonceInv, PresentedSeen
  <2>3. CASE u = r
    BY <1>1, <1>2, <1>5, <2>3 DEF NonceInv, PresentedSeen
  <2> QED
    BY <2>1, <2>2, <2>3
<1>8. TurnedAwaySettled'
  BY <1>4 DEF MovedOn, NonceInv, TurnedAwaySettled
<1> QED
  BY <1>6, <1>7, <1>8 DEF NonceInv

\* A fresh Registry has been asked nothing.
Fresh == \A r \in Call : pc[r] = "idle" /\ answer[r] = None

LEMMA FreshNonce == Fresh => NonceInv
<1> SUFFICES ASSUME Fresh PROVE NonceInv
  OBVIOUS
<1>1. \A r \in Call : ~Presented(r)
  BY DEF Fresh, Presented
<1>2. None \notin TurnedAway
  BY AnswerAssumption DEF Refusals, TurnedAway
<1> QED
  BY <1>1, <1>2 DEF Fresh, NonceInv, PresentedSeen, TurnedAwaySettled, NonceSpentOnce

LEMMA NonceInit == Init => NonceInv
BY FreshNonce DEF Init, Fresh

LEMMA NonceFromDocument == fromDocument => NonceInv'
<1>1. fromDocument => Fresh'
  BY DEF fromDocument, Fresh
<1> QED
  BY <1>1, FreshNonce, PTL

LEMMA NonceStep == TypeOK /\ NonceInv /\ [Next]_vars => NonceInv'
<1> SUFFICES ASSUME TypeOK, NonceInv, [Next]_vars PROVE NonceInv'
  OBVIOUS
<1>1. CASE UNCHANGED vars
  BY <1>1 DEF vars, stores, locals, NonceInv, PresentedSeen, TurnedAwaySettled,
              NonceSpentOnce, Presented
<1>2. CASE \E r \in Call : Arrive(r)
  <2>1. PICK r \in Call, q \in Requests :
          \/ SpawnTurnedAway(r, q)
          \/ SpawnPresented(r, q)
          \/ q.op # "spawn" /\ (IssueCalled(r, q) \/ AdoptCalled(r, q))
    BY <1>2 DEF Arrive
  <2>2. CASE SpawnTurnedAway(r, q)
    BY <2>2, NonceTurnedAway
  <2>3. CASE SpawnPresented(r, q)
    BY <2>3, NoncePresented
  <2>4. CASE q.op # "spawn" /\ (IssueCalled(r, q) \/ AdoptCalled(r, q))
    BY <2>4, NonceUnrelated
  <2> QED
    BY <2>1, <2>2, <2>3, <2>4
<1>3. CASE \E r \in Call : Resume(r)
  BY <1>3, NonceResume
<1>4. CASE Tick
  BY <1>4 DEF Tick, stores, locals, NonceInv, PresentedSeen, TurnedAwaySettled,
              NonceSpentOnce, Presented
<1>5. CASE fromDocument
  BY <1>5, NonceFromDocument
<1> QED
  BY <1>1, <1>2, <1>3, <1>4, <1>5 DEF Next

\* Section 19.2, for any number of calls in any interleaving, any requests and
\* any templates: a nonce is evaluated at most once in the life of a Registry.
THEOREM NonceSpentOnceAlways == Spec => []NonceSpentOnce
<1>1. Init => NonceInv
  BY NonceInit
<1>2. TypeOK /\ NonceInv /\ [Next]_vars => NonceInv'
  BY NonceStep
<1>3. NonceInv => NonceSpentOnce
  BY DEF NonceInv
<1> QED
  BY <1>1, <1>2, <1>3, TypeCorrect, PTL DEF Spec

-----------------------------------------------------------------------------
(***************************************************************************)
(* What the Registry keeps account of is exact for any calls in any        *)
(* interleaving: the spawns counted under a grant, and the audit log.      *)
(***************************************************************************)

\* Call r has obtained a certificate.
Obtained(r) == \E c \in certs : c.call = r

\* A call obtains one certificate, and only in the segment that ends "issued"
\* or that of issue, which begins the entry.
OneEach == \A c, d \in certs : c.call = d.call => c = d

Obtainers == \A c \in certs : pc[c.call] \in {"issued", "logging", "done"}

\* What a spawn that is about to count itself will be counted under.
IssuedHold ==
  \A r \in Call : pc[r] = "issued" => \E c \in certs : c.call = r /\ c.grant = GrantUsed(req[r])

\* The certificates counted under grant g.
CountedUnder(g) == {c \in certs : c.grant = g /\ pc[c.call] # "issued"}

GrantInv == IsFiniteSet(certs) /\ OneEach /\ Obtainers /\ IssuedHold /\ GrantCountExact

\* The entry a call has begun tells what the call has done.
BegunTruthful ==
  \A r \in Call : pc[r] = "logging" /\ req[r].op # "adopt" => (answer[r] = Permitted <=> Obtained(r))

\* An entry is its call's last act, and its only one.
EntriesLast == \A i \in 1..Len(audit) : pc[audit[i].call] = "done"

EntriesDistinct == \A i, j \in 1..Len(audit) : audit[i].call = audit[j].call => i = j

EntriesTruthful ==
  \A i \in 1..Len(audit) :
    req[audit[i].call].op # "adopt" => (audit[i].outcome = "ALLOWED" <=> Obtained(audit[i].call))

\* A settled call without an entry did nothing.
NoneMissing ==
  \A r \in Call : pc[r] = "done" /\ (Obtained(r) \/ Presented(r)) =>
    \E i \in 1..Len(audit) : audit[i].call = r

LogInv == BegunTruthful /\ EntriesLast /\ EntriesDistinct /\ EntriesTruthful /\ NoneMissing

AccountInv == GrantInv /\ LogInv

-----------------------------------------------------------------------------
LEMMA EntryType ==
  ASSUME TypeOK, NEW i \in 1..Len(audit)
  PROVE  audit[i] \in Entry /\ audit[i].call \in Call
<1>1. audit \in Seq(Entry)
  BY DEF TypeOK
<1>2. audit[i] \in Entry
  BY <1>1
<1> QED
  BY <1>2 DEF Entry

\* What a segment that certifies nobody and appends nothing leaves true.  Call r
\* has obtained nothing, so it has no certificate and no entry.
LEMMA AccountFrame ==
  ASSUME TypeInv, AccountInv, NEW r \in Call,
         UNCHANGED <<certs, audit, grantSpawns>>,
         \A s \in Call : s # r => /\ pc'[s] = pc[s]
                                  /\ req'[s] = req[s]
                                  /\ answer'[s] = answer[s],
         pc[r] \notin {"issued", "logging", "done"}, pc'[r] # "issued",
         pc'[r] = "logging" /\ req'[r].op # "adopt" => answer'[r] # Permitted,
         pc'[r] = "done" => ~Presented(r)'
  PROVE  AccountInv'
<1>1. \A c \in certs : c.call \in Call /\ c.call # r
  BY DEF TypeInv, TypeOK, Certificate, AccountInv, GrantInv, Obtainers
<1>2. \A i \in 1..Len(audit) : audit[i].call \in Call /\ audit[i].call # r
  BY EntryType DEF TypeInv, AccountInv, LogInv, EntriesLast
<1>3. \A s \in Call : Obtained(s)' = Obtained(s)
  BY DEF Obtained
<1>4. GrantInv'
  <2>1. (IsFiniteSet(certs) /\ OneEach /\ Obtainers)'
    BY <1>1 DEF AccountInv, GrantInv, OneEach, Obtainers
  <2>2. IssuedHold'
    BY DEF AccountInv, GrantInv, IssuedHold, GrantUsed
  <2>3. \A g \in Grant : CountedUnder(g)' = CountedUnder(g)
    BY <1>1 DEF CountedUnder
  <2>4. GrantCountExact'
    BY <2>3 DEF AccountInv, GrantInv, GrantCountExact, CountedUnder
  <2> QED
    BY <2>1, <2>2, <2>4 DEF GrantInv
<1>5. LogInv'
  <2>1. BegunTruthful'
    <3>1. ~Obtained(r)
      BY <1>1 DEF Obtained
    <3> QED
      BY <1>3, <3>1 DEF AccountInv, LogInv, BegunTruthful
  <2>2. EntriesLast' /\ EntriesDistinct' /\ EntriesTruthful'
    BY <1>2, <1>3 DEF AccountInv, LogInv, EntriesLast, EntriesDistinct, EntriesTruthful
  <2>3. NoneMissing'
    <3> SUFFICES ASSUME NEW s \in Call, pc'[s] = "done", Obtained(s)' \/ Presented(s)'
                 PROVE  \E i \in 1..Len(audit) : audit[i].call = s
      BY DEF NoneMissing
    <3>1. s # r
      BY <1>1, <1>3 DEF Obtained
    <3>2. Presented(s)' = Presented(s)
      BY <3>1 DEF Presented
    <3> QED
      BY <1>3, <3>1, <3>2 DEF AccountInv, LogInv, NoneMissing
  <2> QED
    BY <2>1, <2>2, <2>3 DEF LogInv
<1> QED
  BY <1>4, <1>5 DEF AccountInv

-----------------------------------------------------------------------------
(***************************************************************************)
(* The segments before a certificate.                                      *)
(***************************************************************************)

\* Where the pieces of a segment leave its call and the others.
Moved(r, places) ==
  /\ pc'[r] \in places
  /\ \A s \in Call : s # r => pc'[s] = pc[s] /\ answer'[s] = answer[s]

LEMMA PiecesMove ==
  ASSUME TypeOK, NEW r \in Call
  PROVE  /\ \A code : Settle(r, code) => Moved(r, {"done"}) /\ answer'[r] = code
         /\ \A code : Log(r, code) => Moved(r, {"logging"}) /\ answer'[r] = code
         /\ \A place : Goto(r, place) => Moved(r, {place})
BY DEF Settle, Log, Goto, Moved, TypeOK

LEMMA EvaluationMoves ==
  ASSUME TypeOK, NEW r \in Call, NEW q, NEW t, Evaluate(r, q, t)
  PROVE  Moved(r, {"logging", "issuing"}) /\ (pc'[r] = "logging" => answer'[r] # Permitted)
<1> DEFINE code == EvaluationRefusal(q, t)
<1>1. CASE code # Permitted /\ Log(r, code)
  BY <1>1, PiecesMove DEF Moved
<1>2. CASE Goto(r, "issuing")
  BY <1>2, PiecesMove DEF Moved
<1> QED
  BY <1>1, <1>2 DEF Evaluate, Deny

LEMMA CalledMoves ==
  ASSUME TypeOK, NEW r \in Call, NEW q, Called(r, q)
  PROVE  pc[r] = "idle" /\ req'[r] = q /\ \A s \in Call : s # r => req'[s] = req[s]
BY DEF Called, TypeOK

LEMMA AccountTurnedAway ==
  ASSUME TypeInv, AccountInv, NEW r \in Call, NEW q \in Requests, SpawnTurnedAway(r, q)
  PROVE  AccountInv'
<1>1. Called(r, q) /\ UNCHANGED <<certs, audit, grantSpawns>>
  BY DEF SpawnTurnedAway, stores
<1>2. PICK code \in {"ERR_TEMPLATE_NONCONFORMING", "ERR_NONCE_REUSED"} : Settle(r, code)
  BY DEF SpawnTurnedAway
<1>3. Moved(r, {"done"}) /\ answer'[r] = code
  BY <1>2, PiecesMove DEF TypeInv
<1>4. ~Presented(r)'
  BY <1>3 DEF Presented
<1> QED
  BY <1>1, <1>3, <1>4, CalledMoves, AccountFrame DEF Moved, TypeInv

LEMMA AccountPresented ==
  ASSUME TypeInv, AccountInv, NEW r \in Call, NEW q \in Requests, SpawnPresented(r, q)
  PROVE  AccountInv'
<1>1. Called(r, q) /\ UNCHANGED <<certs, audit, grantSpawns>>
  BY DEF SpawnPresented
<1>2. /\ Moved(r, {"logging", "granting", "issuing"})
      /\ pc'[r] = "logging" => answer'[r] # Permitted
  BY PiecesMove, EvaluationMoves DEF SpawnPresented, Deny, Moved, TypeInv
<1> QED
  BY <1>1, <1>2, CalledMoves, AccountFrame DEF Moved, TypeInv

LEMMA AccountUnrelated ==
  ASSUME TypeInv, AccountInv, NEW r \in Call, NEW q \in Requests,
         q.op # "spawn", IssueCalled(r, q) \/ AdoptCalled(r, q)
  PROVE  AccountInv'
<1>1. Called(r, q) /\ UNCHANGED <<certs, audit, grantSpawns>>
  BY DEF IssueCalled, AdoptCalled, stores
<1>2. Moved(r, {"done", "rooting", "signing"})
  BY PiecesMove DEF IssueCalled, AdoptCalled, Moved, TypeInv
<1>3. ~Presented(r)'
  BY <1>1, CalledMoves DEF Presented, TypeInv
<1> QED
  BY <1>1, <1>2, <1>3, CalledMoves, AccountFrame DEF Moved, TypeInv

LEMMA AccountValidated ==
  ASSUME TypeInv, AccountInv, NEW r \in Call, GrantValidated(r)
  PROVE  AccountInv'
<1>1. pc[r] = "granting" /\ UNCHANGED <<req, certs, audit, grantSpawns>>
  BY DEF GrantValidated, stores
<1>2. Moved(r, {"logging", "issuing"}) /\ (pc'[r] = "logging" => answer'[r] # Permitted)
  BY PiecesMove, EvaluationMoves DEF GrantValidated, Deny, Moved, TypeInv
<1> QED
  BY <1>1, <1>2, AccountFrame DEF Moved

LEMMA AccountPolicySigned ==
  ASSUME TypeInv, AccountInv, NEW r \in Call, PolicySigned(r)
  PROVE  AccountInv'
<1>1. /\ pc[r] = "signing" /\ req[r].op = "adopt"
      /\ UNCHANGED <<req, certs, audit, grantSpawns>>
  BY DEF PolicySigned, TypeInv, CallOK, AdoptRequest
<1>2. Moved(r, {"logging"})
  BY PiecesMove DEF PolicySigned, TypeInv
<1> QED
  BY <1>1, <1>2, AccountFrame DEF Moved

-----------------------------------------------------------------------------
(***************************************************************************)
(* The segments that certify, count and append.                            *)
(***************************************************************************)

\* The certificate that call r obtains, with the members its spawn extension has.
Obtains(r, p, g, n) ==
  [call |-> r, subject |-> req[r].child, parent |-> p, grant |-> g, nonce |-> n,
   from |-> now[r], until |-> now[r] + T[req[r].child].ttl]

LEMMA Certifies ==
  ASSUME NEW r, NEW p, NEW g, NEW n, Certify(r, p, g, n)
  PROVE  certs' = certs \cup {Obtains(r, p, g, n)}
BY DEF Certify, Obtains

\* A certificate is issued by a call that has none: a spawn, which does not yet
\* count, or issue, whose certificate names no grant.
LEMMA AccountCertify ==
  ASSUME TypeInv, AccountInv, NEW r \in Call, NEW p, NEW g, NEW n,
         pc[r] \in {"issuing", "rooting"}, Certify(r, p, g, n),
         UNCHANGED <<req, audit, grantSpawns>>,
         \/ Moved(r, {"issued"}) /\ g = GrantUsed(req[r])
         \/ Moved(r, {"logging"}) /\ answer'[r] = Permitted /\ g = None
  PROVE  AccountInv'
<1> DEFINE c == Obtains(r, p, g, n)
<1>1. certs' = certs \cup {c} /\ c.call = r /\ c.grant = g
  BY Certifies DEF Obtains
<1> HIDE DEF c
<1>2. \A d \in certs : d.call \in Call /\ d.call # r
  BY DEF TypeInv, TypeOK, Certificate, AccountInv, GrantInv, Obtainers
<1>3. \A i \in 1..Len(audit) : audit[i].call \in Call /\ audit[i].call # r
  BY EntryType DEF TypeInv, AccountInv, LogInv, EntriesLast
<1>4. \A s \in Call : Obtained(s)' <=> Obtained(s) \/ s = r
  BY <1>1 DEF Obtained
<1>5. GrantInv'
  <2>1. IsFiniteSet(certs)' /\ OneEach' /\ Obtainers'
    BY <1>1, <1>2, FS_AddElement DEF AccountInv, GrantInv, OneEach, Obtainers, Moved
  <2>2. IssuedHold'
    BY <1>1 DEF AccountInv, GrantInv, IssuedHold, GrantUsed, Moved
  <2>3. \A h \in Grant : CountedUnder(h)' = CountedUnder(h)
    <3> SUFFICES ASSUME NEW h \in Grant PROVE CountedUnder(h)' = CountedUnder(h)
      OBVIOUS
    <3>1. ~(c.grant = h /\ pc'[c.call] # "issued")
      BY <1>1, NoneAssumption DEF Moved
    <3> QED
      BY <1>1, <1>2, <3>1 DEF CountedUnder, Moved
  <2>4. GrantCountExact'
    BY <2>3 DEF AccountInv, GrantInv, GrantCountExact, CountedUnder
  <2> QED
    BY <2>1, <2>2, <2>4 DEF GrantInv
<1>6. LogInv'
  <2>1. BegunTruthful'
    BY <1>4 DEF AccountInv, LogInv, BegunTruthful, Moved
  <2>2. EntriesLast' /\ EntriesDistinct' /\ EntriesTruthful'
    BY <1>3, <1>4 DEF AccountInv, LogInv, EntriesLast, EntriesDistinct, EntriesTruthful, Moved
  <2>3. NoneMissing'
    <3> SUFFICES ASSUME NEW s \in Call, pc'[s] = "done", Obtained(s)' \/ Presented(s)'
                 PROVE  \E i \in 1..Len(audit) : audit[i].call = s
      BY DEF NoneMissing
    <3>1. s # r
      BY DEF Moved
    <3>2. Presented(s)' = Presented(s)
      BY <3>1 DEF Presented, Moved
    <3> QED
      BY <1>4, <3>1, <3>2 DEF AccountInv, LogInv, NoneMissing, Moved
  <2> QED
    BY <2>1, <2>2, <2>3 DEF LogInv
<1> QED
  BY <1>5, <1>6 DEF AccountInv

LEMMA AccountSpawnIssues ==
  ASSUME TypeInv, AccountInv, NEW r \in Call, SpawnIssues(r)
  PROVE  AccountInv'
<1>1. pc[r] = "issuing" /\ UNCHANGED <<req, audit, grantSpawns>>
  BY DEF SpawnIssues
<1>2. CASE Deny(r, "ERR_TEMPLATE_SIGNATURE") /\ UNCHANGED <<live, certs>>
  <2>1. Moved(r, {"logging"}) /\ answer'[r] # Permitted
    BY <1>2, PiecesMove DEF Deny, Permitted, TypeInv
  <2> QED
    BY <1>1, <1>2, <2>1, AccountFrame DEF Moved
<1>3. CASE /\ Goto(r, "issued")
           /\ Certify(r, req[r].parent, GrantUsed(req[r]), req[r].nonce)
  <2>1. Moved(r, {"issued"})
    BY <1>3, PiecesMove DEF TypeInv
  <2> QED
    BY <1>1, <1>3, <2>1, AccountCertify
<1> QED
  BY <1>2, <1>3 DEF SpawnIssues

LEMMA AccountIssueSigned ==
  ASSUME TypeInv, AccountInv, NEW r \in Call, IssueSigned(r)
  PROVE  AccountInv'
<1>1. pc[r] = "rooting" /\ req[r].op = "issue" /\ UNCHANGED <<req, audit, grantSpawns>>
  BY DEF IssueSigned, TypeInv, CallOK, IssueRequest
<1>2. CASE Settle(r, "ERR_TEMPLATE_SIGNATURE") /\ UNCHANGED <<live, certs>>
  <2>1. Moved(r, {"done"})
    BY <1>2, PiecesMove DEF TypeInv
  <2>2. ~Presented(r)'
    BY <1>1 DEF Presented
  <2> QED
    BY <1>1, <1>2, <2>1, <2>2, AccountFrame DEF Moved
<1>3. CASE Log(r, Permitted) /\ Certify(r, None, None, None)
  <2>1. Moved(r, {"logging"}) /\ answer'[r] = Permitted
    BY <1>3, PiecesMove DEF TypeInv
  <2> QED
    BY <1>1, <1>3, <2>1, AccountCertify
<1> QED
  BY <1>2, <1>3 DEF IssueSigned

\* A spawn counts itself: its certificate, and no other, joins those counted.
LEMMA AccountSpawnCounts ==
  ASSUME TypeInv, AccountInv, NEW r \in Call, SpawnCounts(r)
  PROVE  AccountInv'
<1>1. pc[r] = "issued" /\ UNCHANGED <<req, certs, audit>>
  BY DEF SpawnCounts
<1>2. Moved(r, {"logging"}) /\ answer'[r] = Permitted
  BY PiecesMove DEF SpawnCounts, TypeInv
<1>3. PICK c \in certs : c.call = r /\ c.grant = GrantUsed(req[r])
  BY <1>1 DEF AccountInv, GrantInv, IssuedHold
<1>4. \A d \in certs : d.call \in Call /\ (d.call = r <=> d = c)
  BY <1>3 DEF TypeInv, TypeOK, Certificate, AccountInv, GrantInv, OneEach
<1>5. \A i \in 1..Len(audit) : audit[i].call \in Call /\ audit[i].call # r
  BY <1>1, EntryType DEF TypeInv, AccountInv, LogInv, EntriesLast
<1>6. \A s \in Call : Obtained(s)' = Obtained(s)
  BY <1>1 DEF Obtained
<1>7. GrantCountExact'
  <2> SUFFICES ASSUME NEW g \in Grant
               PROVE  grantSpawns'[g] = Cardinality(CountedUnder(g)')
    BY DEF GrantCountExact, CountedUnder
  <2>1. grantSpawns[g] = Cardinality(CountedUnder(g)) /\ grantSpawns[g] \in Nat
    BY DEF AccountInv, GrantInv, GrantCountExact, CountedUnder, TypeInv, TypeOK
  <2>2. grantSpawns'[g] = IF g = c.grant THEN grantSpawns[g] + 1 ELSE grantSpawns[g]
    BY <1>3 DEF SpawnCounts, Counted
  <2>3. CountedUnder(g)' = IF g = c.grant THEN CountedUnder(g) \cup {c} ELSE CountedUnder(g)
    BY <1>1, <1>2, <1>4 DEF CountedUnder, Moved
  <2>4. IsFiniteSet(CountedUnder(g)) /\ c \notin CountedUnder(g)
    <3>1. CountedUnder(g) \subseteq certs /\ c \notin CountedUnder(g)
      BY <1>1, <1>3 DEF CountedUnder
    <3> QED
      BY <3>1, FS_Subset DEF AccountInv, GrantInv
  <2>5. Cardinality(CountedUnder(g) \cup {c}) = Cardinality(CountedUnder(g)) + 1
    BY <2>4, FS_AddElement
  <2> QED
    BY <2>1, <2>2, <2>3, <2>5
<1>8. IsFiniteSet(certs)' /\ OneEach' /\ Obtainers' /\ IssuedHold'
  <2>1. IsFiniteSet(certs)' /\ OneEach'
    BY <1>1 DEF AccountInv, GrantInv, OneEach
  <2>2. Obtainers'
    BY <1>1, <1>2, <1>4 DEF AccountInv, GrantInv, Obtainers, Moved
  <2>3. IssuedHold'
    BY <1>1, <1>2 DEF AccountInv, GrantInv, IssuedHold, GrantUsed, Moved
  <2> QED
    BY <2>1, <2>2, <2>3
<1>9. LogInv'
  <2>1. BegunTruthful'
    <3>1. Obtained(r)
      BY <1>3 DEF Obtained
    <3> QED
      BY <1>1, <1>2, <1>6, <3>1 DEF AccountInv, LogInv, BegunTruthful, Moved
  <2>2. EntriesLast' /\ EntriesDistinct' /\ EntriesTruthful'
    BY <1>1, <1>2, <1>5, <1>6
       DEF AccountInv, LogInv, EntriesLast, EntriesDistinct, EntriesTruthful, Moved
  <2>3. NoneMissing'
    <3> SUFFICES ASSUME NEW s \in Call, pc'[s] = "done", Obtained(s)' \/ Presented(s)'
                 PROVE  \E i \in 1..Len(audit) : audit[i].call = s
      BY <1>1 DEF NoneMissing
    <3>1. s # r
      BY <1>2 DEF Moved
    <3>2. Presented(s)' = Presented(s)
      BY <1>1, <1>2, <3>1 DEF Presented, Moved
    <3> QED
      BY <1>2, <1>6, <3>1, <3>2 DEF AccountInv, LogInv, NoneMissing, Moved
  <2> QED
    BY <2>1, <2>2, <2>3 DEF LogInv
<1> QED
  BY <1>7, <1>8, <1>9 DEF AccountInv, GrantInv

\* The one entry of a call is pushed, and tells what its answer told.
LEMMA AccountEntryHashed ==
  ASSUME TypeInv, AccountInv, NEW r \in Call, EntryHashed(r)
  PROVE  AccountInv'
<1> DEFINE e == [call |-> r, prev |-> prev[r],
                 outcome |-> IF answer[r] = Permitted THEN "ALLOWED" ELSE "DENIED"]
<1>1. pc[r] = "logging" /\ UNCHANGED <<req, answer, certs, grantSpawns>> /\ audit' = Append(audit, e)
  BY DEF EntryHashed
<1>2. pc'[r] = "done" /\ \A s \in Call : s # r => pc'[s] = pc[s]
  BY DEF EntryHashed, TypeInv, TypeOK
<1>3. e.call = r /\ (e.outcome = "ALLOWED" <=> answer[r] = Permitted)
  OBVIOUS
<1> HIDE DEF e
<1>4. /\ Len(audit) \in Nat
      /\ Len(audit') = Len(audit) + 1
      /\ audit'[Len(audit) + 1] = e
      /\ \A i \in 1..Len(audit) : audit'[i] = audit[i]
  BY <1>1 DEF TypeInv, TypeOK
<1>5. \A i \in 1..Len(audit) : audit[i].call \in Call /\ audit[i].call # r
  BY <1>1, EntryType DEF TypeInv, AccountInv, LogInv, EntriesLast
<1>6. \A s \in Call : Obtained(s)' = Obtained(s)
  BY <1>1 DEF Obtained
<1>7. GrantInv'
  <2>1. \A c \in certs : c.call \in Call /\ (pc'[c.call] = "issued" <=> pc[c.call] = "issued")
    BY <1>1, <1>2 DEF TypeInv, TypeOK, Certificate
  <2>2. \A g \in Grant : CountedUnder(g)' = CountedUnder(g)
    BY <1>1, <2>1 DEF CountedUnder
  <2>3. GrantCountExact'
    BY <1>1, <2>2 DEF AccountInv, GrantInv, GrantCountExact, CountedUnder
  <2>4. IsFiniteSet(certs)' /\ OneEach' /\ Obtainers'
    BY <1>1, <1>2, <2>1 DEF AccountInv, GrantInv, OneEach, Obtainers
  <2>5. IssuedHold'
    BY <1>1, <1>2 DEF AccountInv, GrantInv, IssuedHold, GrantUsed
  <2> QED
    BY <2>3, <2>4, <2>5 DEF GrantInv
<1>8. LogInv'
  <2>1. BegunTruthful'
    BY <1>1, <1>2, <1>6 DEF AccountInv, LogInv, BegunTruthful
  <2>2. \A i \in 1..Len(audit)' : i \in 1..Len(audit) \/ i = Len(audit) + 1
    BY <1>4
  <2>3. EntriesLast'
    BY <1>2, <1>3, <1>4, <1>5, <2>2 DEF AccountInv, LogInv, EntriesLast
  <2>4. EntriesDistinct'
    BY <1>3, <1>4, <1>5, <2>2 DEF AccountInv, LogInv, EntriesDistinct
  <2>5. EntriesTruthful'
    <3> SUFFICES ASSUME NEW i \in 1..Len(audit)', req[audit'[i].call].op # "adopt"
                 PROVE  audit'[i].outcome = "ALLOWED" <=> \E c \in certs : c.call = audit'[i].call
      BY <1>1 DEF EntriesTruthful, Obtained
    <3>1. CASE i \in 1..Len(audit)
      BY <1>4, <3>1 DEF AccountInv, LogInv, EntriesTruthful, Obtained
    <3>2. CASE i = Len(audit) + 1
      BY <1>1, <1>3, <1>4, <3>2 DEF AccountInv, LogInv, BegunTruthful, Obtained
    <3> QED
      BY <2>2, <3>1, <3>2
  <2>6. NoneMissing'
    <3> SUFFICES ASSUME NEW s \in Call, pc'[s] = "done", Obtained(s)' \/ Presented(s)'
                 PROVE  \E i \in 1..Len(audit)' : audit'[i].call = s
      BY DEF NoneMissing
    <3>1. CASE s = r
      <4>1. Len(audit) + 1 \in 1..Len(audit)'
        BY <1>4
      <4> QED
        BY <1>3, <1>4, <3>1, <4>1
    <3>2. CASE s # r
      <4>1. pc[s] = "done" /\ (Obtained(s) \/ Presented(s))
        BY <1>1, <1>2, <1>6, <3>2 DEF Presented
      <4>2. PICK i \in 1..Len(audit) : audit[i].call = s
        BY <4>1 DEF AccountInv, LogInv, NoneMissing
      <4>3. i \in 1..Len(audit)'
        BY <1>4
      <4> QED
        BY <1>4, <4>2, <4>3
    <3> QED
      BY <3>1, <3>2
  <2> QED
    BY <2>1, <2>3, <2>4, <2>5, <2>6 DEF LogInv
<1> QED
  BY <1>7, <1>8 DEF AccountInv

-----------------------------------------------------------------------------
\* A Registry that has received no call.
Untouched ==
  /\ \A r \in Call : pc[r] = "idle"
  /\ \A g \in Grant : grantSpawns[g] = 0
  /\ audit = <<>>
  /\ certs = {}

LEMMA UntouchedAccount == Untouched => AccountInv
<1> SUFFICES ASSUME Untouched PROVE AccountInv
  OBVIOUS
<1>1. IsFiniteSet(certs) /\ \A g \in Grant : CountedUnder(g) = {}
  BY FS_EmptySet DEF Untouched, CountedUnder
<1>2. GrantCountExact
  BY <1>1, FS_EmptySet DEF Untouched, GrantCountExact, CountedUnder
<1>3. GrantInv
  BY <1>1, <1>2 DEF Untouched, GrantInv, OneEach, Obtainers, IssuedHold
<1>4. \A i : i \notin 1..Len(audit)
  BY DEF Untouched
<1>5. LogInv
  BY <1>4 DEF Untouched, LogInv, BegunTruthful, EntriesLast, EntriesDistinct,
              EntriesTruthful, NoneMissing
<1> QED
  BY <1>3, <1>5 DEF AccountInv

LEMMA AccountInit == Init => AccountInv
BY UntouchedAccount DEF Init, Untouched

LEMMA AccountFromDocument == fromDocument => AccountInv'
<1>1. fromDocument => Untouched'
  BY DEF fromDocument, Untouched
<1> QED
  BY <1>1, UntouchedAccount, PTL

LEMMA AccountStutters ==
  ASSUME AccountInv, UNCHANGED <<certs, audit, grantSpawns, pc, req, answer>>
  PROVE  AccountInv'
BY DEF AccountInv, GrantInv, OneEach, Obtainers, IssuedHold, GrantUsed, GrantCountExact,
       LogInv, BegunTruthful, Obtained, EntriesLast, EntriesDistinct, EntriesTruthful,
       NoneMissing, Presented

LEMMA AccountStep == TypeInv /\ AccountInv /\ [Next]_vars => AccountInv'
<1> SUFFICES ASSUME TypeInv, AccountInv, [Next]_vars PROVE AccountInv'
  OBVIOUS
<1>1. CASE UNCHANGED vars \/ Tick
  BY <1>1, AccountStutters DEF vars, Tick, stores, locals
<1>2. CASE \E r \in Call : Arrive(r)
  BY <1>2, AccountTurnedAway, AccountPresented, AccountUnrelated DEF Arrive
<1>3. CASE \E r \in Call : Resume(r)
  BY <1>3, AccountValidated, AccountSpawnIssues, AccountSpawnCounts, AccountIssueSigned,
     AccountPolicySigned, AccountEntryHashed DEF Resume
<1>4. CASE fromDocument
  BY <1>4, AccountFromDocument
<1> QED
  BY <1>1, <1>2, <1>3, <1>4 DEF Next

LEMMA AccountAlways == Spec => []AccountInv
<1>1. Init => AccountInv
  BY AccountInit
<1>2. TypeInv /\ AccountInv /\ [Next]_vars => AccountInv'
  BY AccountStep
<1> QED
  BY <1>1, <1>2, TypeAlways, PTL DEF Spec

\* Section 13.2, for any calls in any interleaving: the count of a grant is the
\* number of certificates of it whose spawn has counted itself; no increment is
\* lost between the two awaits of two spawns.
THEOREM GrantCountAlways == Spec => []GrantCountExact
<1>1. AccountInv => GrantCountExact
  BY DEF AccountInv, GrantInv
<1> QED
  BY <1>1, AccountAlways, PTL

LEMMA OneEntryEach ==
  ASSUME TypeInv, AccountInv, NEW r \in Call
  PROVE  Cardinality(EntriesOf(r)) <= 1
<1>1. CASE EntriesOf(r) = {}
  BY <1>1, FS_EmptySet
<1>2. CASE EntriesOf(r) # {}
  <2>1. PICK i : i \in EntriesOf(r)
    BY <1>2
  <2>2. EntriesOf(r) = {i}
    BY <2>1 DEF EntriesOf, AccountInv, LogInv, EntriesDistinct
  <2>3. Cardinality({i}) = 1
    BY FS_Singleton
  <2> QED
    BY <2>2, <2>3
<1> QED
  BY <1>1, <1>2

\* Section 10.4, for any calls in any interleaving: the log has no entry twice,
\* none that tells of another outcome than the call had, and lacks none of a
\* call that certified or spent a nonce.
THEOREM AuditAccountsAlways == Spec => []AuditAccounts
<1>1. TypeInv /\ AccountInv => AuditAccounts
  <2> SUFFICES ASSUME TypeInv, AccountInv, NEW r \in Call
               PROVE  /\ Cardinality(EntriesOf(r)) <= 1
                      /\ \A i \in EntriesOf(r) : req[r].op # "adopt" =>
                           (audit[i].outcome = "ALLOWED" <=> Obtained(r))
                      /\ pc[r] = "done" /\ (Obtained(r) \/ Presented(r)) => EntriesOf(r) # {}
    BY DEF AuditAccounts, Obtained
  <2>1. Cardinality(EntriesOf(r)) <= 1
    BY OneEntryEach
  <2>2. ASSUME NEW i \in EntriesOf(r), req[r].op # "adopt"
        PROVE  audit[i].outcome = "ALLOWED" <=> Obtained(r)
    BY <2>2 DEF EntriesOf, AccountInv, LogInv, EntriesTruthful
  <2>3. pc[r] = "done" /\ (Obtained(r) \/ Presented(r)) => EntriesOf(r) # {}
    BY DEF EntriesOf, AccountInv, LogInv, NoneMissing
  <2> QED
    BY <2>1, <2>2, <2>3
<1> QED
  BY <1>1, AccountAlways, TypeAlways, PTL

=============================================================================
