------------------------------ MODULE Registry ------------------------------
(***************************************************************************)
(* The Template Registry of src/mint.js: one Registry object, the calls    *)
(* its clients make on it (issue, adoptPolicy, spawn) and fromDocument,    *)
(* which replaces the object by a fresh one.                               *)
(*                                                                         *)
(* Every method is asynchronous.  JavaScript runs a method without         *)
(* interruption up to its next await, so one action stands for one such    *)
(* segment, and what a segment reads into a local variable is kept in the  *)
(* call's state until the segment that uses it.  Serialized = TRUE is a    *)
(* client that awaits each call before it makes the next, as every caller  *)
(* in the repository does; Serialized = FALSE is a client that does not.   *)
(***************************************************************************)
EXTENDS RegistryData, Sequences

CONSTANTS
  Requests,    \* the requests clients make
  Window,      \* FRESHNESS_WINDOW_MS
  MaxTime,     \* last instant of the clock (bounds the model)
  Serialized   \* clients await each call before the next

(***************************************************************************)
(* What a caller hands in.  An attested template is "sound",               *)
(* "nonconforming" (the gate of section 9.1 refuses it; for a spawn also a *)
(* malformed parent, timestamp or nonce) or "unsigned" (issue refuses it:  *)
(* a stray member, a missing or wrong signature, another owner).  skew is  *)
(* the request timestamp less the Registry's clock.                        *)
(***************************************************************************)
Attested == {"sound", "nonconforming", "unsigned"}

SpawnRequest == [op: {"spawn"}, parent: Agent, child: Agent, nonce: Nonce,
                 skew: Int, attested: Attested, grant: Grant \cup {None}]
IssueRequest == [op: {"issue"}, child: Agent, attested: Attested]
AdoptRequest == [op: {"adopt"}, policy: Policy, conforming: BOOLEAN]

AnyRequest == SpawnRequest \cup IssueRequest \cup AdoptRequest

ASSUME RequestAssumption == Requests \subseteq AnyRequest
ASSUME NumberAssumption == Window \in Nat /\ MaxTime \in Nat /\ Serialized \in BOOLEAN

VARIABLES
  clock,        \* the clock a caller passes as now
  seenNonces,   \* nonces presented to this Registry
  policies,     \* subject -> the policy body in force, or None
  live,         \* subject -> notAfter of its latest certificate, 0 if none
  children,     \* parent -> the Set object holding its children, or None
  kidSet,       \* the contents of the Set object a call created
  grantSpawns,  \* grant -> spawns issued under it
  audit,        \* the audit chain
  pc,           \* call -> the segment it has to run next
  req,          \* call -> its request
  now,          \* call -> its now argument
  kids,         \* call -> the Set object read at step 5 of spawn
  under,        \* call -> the grant count read at step 2 of spawn
  prev,         \* call -> previous_hash of the entry it is hashing
  answer,       \* call -> its result
  certs,        \* history: certificates this Registry issued
  signed        \* history: policy bodies both authorities have signed

stores == <<seenNonces, policies, live, children, kidSet, grantSpawns, audit>>
locals == <<pc, req, now, kids, under, prev, answer>>
vars   == <<clock, stores, locals, certs, signed>>

Permitted == "ALLOWED"

Refusals == {"ERR_TEMPLATE_NONCONFORMING", "ERR_NONCE_REUSED", "ERR_SPAWN_STALE",
             "ERR_SPAWN_NOT_PERMITTED", "ERR_CHILD_NOT_WHITELISTED", "ERR_GRANT_MISSING",
             "ERR_GRANT_INVALID", "ERR_GRANT_EXPIRED", "ERR_GRANT_EXCEEDS_TEMPLATE",
             "ERR_MAX_SPAWNS", "ERR_SPAWN_NOT_IN_POLICY", "ERR_EMPTY_SCOPES",
             "ERR_SCOPE_ESCALATION", "ERR_MAX_CHILDREN", "ERR_DUPLICATE_SUBJECT",
             "ERR_TEMPLATE_SIGNATURE", "ERR_POLICY", "ERR_POLICY_VERSION"}

ASSUME AnswerAssumption == None \notin Refusals \cup {Permitted}

Segments == {"idle", "granting", "issuing", "issued", "rooting", "signing",
             "logging", "done"}

\* An audit entry.  Its entry_hash is the call that appended it: the hash is
\* taken as injective and a call appends at most one entry.
Entry == [call: Call, outcome: {"ALLOWED", "DENIED"}, prev: Call \cup {None}]

TypeOK ==
  /\ clock \in Nat
  /\ seenNonces \subseteq Nonce
  /\ policies \in [Agent -> Policy \cup {None}]
  /\ live \in [Agent -> Nat]
  /\ children \in [Agent -> Call \cup {None}]
  /\ kidSet \in [Call -> SUBSET Agent]
  /\ grantSpawns \in [Grant -> Nat]
  /\ audit \in Seq(Entry)
  /\ pc \in [Call -> Segments]
  /\ req \in [Call -> AnyRequest \cup {None}]
  /\ now \in [Call -> Nat]
  /\ kids \in [Call -> Call \cup {None}]
  /\ under \in [Call -> Nat]
  /\ prev \in [Call -> Call \cup {None}]
  /\ answer \in [Call -> Refusals \cup {Permitted, None}]
  /\ certs \subseteq Certificate
  /\ signed \subseteq Policy

-----------------------------------------------------------------------------
(***************************************************************************)
(* The Registry object.                                                    *)
(***************************************************************************)

KidsObjectAlwaysNew(p, r) == r

\* children.get(p) ?? new Set(): a Set object made here belongs to call r.
KidsObject(p, r) == IF children[p] = None THEN r ELSE children[p]

\* The children counted for p.
Kids(p) == IF children[p] = None THEN {} ELSE kidSet[children[p]]

\* policyInForce: the ref names the subject whose policy is read.
PolicyInForce(ref) == IF ref = None THEN None ELSE policies[ref]

HeadHashOfFirst == IF audit = <<>> THEN None ELSE audit[1].call
HeadHashAsIndex == Len(audit)

HeadHash == IF audit = <<>> THEN None ELSE audit[Len(audit)].call

Running(r) == pc[r] \notin {"idle", "done"}

Init ==
  /\ clock = 0
  /\ seenNonces = {}
  /\ live = [a \in Agent |-> 0]
  /\ children = [a \in Agent |-> None]
  /\ kidSet = [r \in Call |-> {}]
  /\ grantSpawns = [g \in Grant |-> 0]
  /\ audit = <<>>
  /\ certs = {}
  /\ pc = [r \in Call |-> "idle"]
  /\ req = [r \in Call |-> None]
  /\ now = [r \in Call |-> 0]
  /\ kids = [r \in Call |-> None]
  /\ under = [r \in Call |-> 0]
  /\ prev = [r \in Call |-> None]
  /\ answer = [r \in Call |-> None]
  /\ policies = [a \in Agent |-> None]
  /\ signed = {}

-----------------------------------------------------------------------------
(***************************************************************************)
(* The steps of spawn that may refuse, in the code's order.                *)
(***************************************************************************)

CountUnderExclusive(q) == grantSpawns[q.grant]

\* The spawns under the request's grant, this one included.
CountUnder(q) == grantSpawns[q.grant] + 1

\* Freshness, Check 1 and the presence of a grant: before the first await.
PresentedRefusal(q) ==
  IF q.skew > Window \/ -q.skew > Window THEN "ERR_SPAWN_STALE"
  ELSE IF ~T[q.parent].spawner THEN "ERR_SPAWN_NOT_PERMITTED"
  ELSE IF q.child \notin T[q.parent].canSpawn THEN "ERR_CHILD_NOT_WHITELISTED"
  ELSE IF CrossOrg(q.parent, q.child) /\ q.grant = None THEN "ERR_GRANT_MISSING"
  ELSE Permitted

\* validateGrant, called with the count read before it was awaited.
GrantRefusal(q, t, count) ==
  LET g == G[q.grant] IN
  IF \/ g.template # q.child
     \/ g.grantor # T[q.child].org
     \/ g.grantee # T[q.parent].org THEN "ERR_GRANT_INVALID"
  ELSE IF g.issued > t + Window \/ t > g.issued + g.ttl THEN "ERR_GRANT_EXPIRED"
  ELSE IF ~(g.scopes \subseteq T[q.child].scopes) THEN "ERR_GRANT_EXCEEDS_TEMPLATE"
  ELSE IF ~g.signed THEN "ERR_GRANT_INVALID"
  ELSE IF count > g.maxSpawns THEN "ERR_MAX_SPAWNS"
  ELSE Permitted

CountRefusalOffByOne(q, t) ==
  IF Cardinality(Kids(q.parent)) > T[q.parent].maxChildren THEN "ERR_MAX_CHILDREN"
  ELSE IF live[q.child] > t THEN "ERR_DUPLICATE_SUBJECT"
  ELSE Permitted

\* Step 5 of spawn: the count and the one live certificate.
CountRefusal(q, t) ==
  IF Cardinality(Kids(q.parent)) >= T[q.parent].maxChildren THEN "ERR_MAX_CHILDREN"
  ELSE IF live[q.child] > t THEN "ERR_DUPLICATE_SUBJECT"
  ELSE Permitted

EvaluationRefusalUnderCanSpawn(q, t) ==
  IF T[q.child].scopes = {} THEN "ERR_EMPTY_SCOPES"
  ELSE IF ~(T[q.child].scopes \subseteq T[q.parent].scopes) THEN "ERR_SCOPE_ESCALATION"
  ELSE CountRefusal(q, t)

\* Steps 3 to 5 of spawn.
EvaluationRefusal(q, t) ==
  LET p == PolicyInForce(T[q.parent].policyRef) IN
  IF p = None THEN "ERR_SPAWN_NOT_IN_POLICY"
  ELSE IF q.child \notin p.targets THEN "ERR_SPAWN_NOT_IN_POLICY"
  ELSE IF T[q.child].scopes = {} THEN "ERR_EMPTY_SCOPES"
  ELSE IF ~(T[q.child].scopes \subseteq T[q.parent].scopes) THEN "ERR_SCOPE_ESCALATION"
  ELSE CountRefusal(q, t)

SpendOnAcceptance(q) ==
  IF EvaluationRefusal(q, clock) = Permitted THEN seenNonces \cup {q.nonce} ELSE seenNonces

\* A nonce is spent by being presented.
Spend(q) == seenNonces \cup {q.nonce}

-----------------------------------------------------------------------------
(***************************************************************************)
(* Pieces of a segment.                                                    *)
(***************************************************************************)

\* The call settles without an audit entry.
Settle(r, code) ==
  /\ pc' = [pc EXCEPT ![r] = "done"]
  /\ answer' = [answer EXCEPT ![r] = code]
  /\ UNCHANGED prev

\* The first half of AuditChain.append: the head is read, the hash awaited.
Log(r, code) ==
  /\ pc' = [pc EXCEPT ![r] = "logging"]
  /\ answer' = [answer EXCEPT ![r] = code]
  /\ prev' = [prev EXCEPT ![r] = HeadHash]

DenyUnrecorded(r, code) == Settle(r, code)

\* The catch block of spawn: a refused request is recorded like an accepted one.
Deny(r, code) == Log(r, code)

Goto(r, segment) ==
  /\ pc' = [pc EXCEPT ![r] = segment]
  /\ UNCHANGED <<answer, prev>>

\* A client makes call r with request q.
Called(r, q) ==
  /\ pc[r] = "idle"
  /\ Serialized => \A s \in Call : ~Running(s)
  /\ req' = [req EXCEPT ![r] = q]
  /\ now' = [now EXCEPT ![r] = clock]

\* Steps 3 to 5 of spawn and the start of issue.
Evaluate(r, q, t) ==
  LET code == EvaluationRefusal(q, t) IN
  \/ /\ code # Permitted
     /\ Deny(r, code)
     /\ UNCHANGED kids
  \/ /\ code = Permitted
     /\ Goto(r, "issuing")
     /\ kids' = [kids EXCEPT ![r] = KidsObject(q.parent, r)]

-----------------------------------------------------------------------------
(***************************************************************************)
(* spawn, one action per segment.                                          *)
(***************************************************************************)

\* The gate, or a nonce already seen: thrown outside the try block.
SpawnTurnedAway(r, q) ==
  /\ Called(r, q)
  /\ \/ /\ q.attested = "nonconforming"
        /\ Settle(r, "ERR_TEMPLATE_NONCONFORMING")
     \/ /\ q.attested # "nonconforming"
        /\ q.nonce \in seenNonces
        /\ Settle(r, "ERR_NONCE_REUSED")
  /\ UNCHANGED <<clock, stores, kids, under, certs, signed>>

\* The nonce is spent, then everything up to the first await.
SpawnPresented(r, q) ==
  /\ Called(r, q)
  /\ q.attested # "nonconforming"
  /\ q.nonce \notin seenNonces
  /\ seenNonces' = Spend(q)
  /\ LET code == PresentedRefusal(q) IN
     \/ /\ code # Permitted
        /\ Deny(r, code)
        /\ UNCHANGED <<kids, under>>
     \/ /\ code = Permitted
        /\ CrossOrg(q.parent, q.child)
        /\ Goto(r, "granting")
        /\ under' = [under EXCEPT ![r] = CountUnder(q)]
        /\ UNCHANGED kids
     \/ /\ code = Permitted
        /\ ~CrossOrg(q.parent, q.child)
        /\ Evaluate(r, q, clock)
        /\ UNCHANGED under
  /\ UNCHANGED <<clock, policies, live, children, kidSet, grantSpawns, audit,
                 certs, signed>>

\* validateGrant has answered.
GrantValidated(r) ==
  /\ pc[r] = "granting"
  /\ LET code == GrantRefusal(req[r], now[r], under[r]) IN
     \/ /\ code # Permitted
        /\ Deny(r, code)
        /\ UNCHANGED kids
     \/ /\ code = Permitted
        /\ Evaluate(r, req[r], now[r])
  /\ UNCHANGED <<clock, stores, req, now, under, certs, signed>>

CertifyFirstLive(r, parent, grant, nonce) ==
  LET a == req[r].child
      end == now[r] + T[a].ttl
  IN
  /\ live' = [live EXCEPT ![a] = IF @ = 0 THEN end ELSE @]
  /\ certs' = certs \cup {[call |-> r, subject |-> a, parent |-> parent, grant |-> grant,
                           nonce |-> nonce, from |-> now[r], until |-> end]}

\* issueCertificate, then live.set.
Certify(r, parent, grant, nonce) ==
  LET a == req[r].child
      end == now[r] + T[a].ttl
  IN
  /\ live' = [live EXCEPT ![a] = end]
  /\ certs' = certs \cup {[call |-> r, subject |-> a, parent |-> parent, grant |-> grant,
                           nonce |-> nonce, from |-> now[r], until |-> end]}

\* The grant the certificate names: grantId is set only for a cross-org spawn.
GrantUsed(q) == IF CrossOrg(q.parent, q.child) THEN q.grant ELSE None

\* issue, called by spawn, has verified the signatures.
SpawnIssues(r) ==
  /\ pc[r] = "issuing"
  /\ \/ /\ req[r].attested = "unsigned"
        /\ Deny(r, "ERR_TEMPLATE_SIGNATURE")
        /\ UNCHANGED <<live, certs>>
     \/ /\ req[r].attested = "sound"
        /\ Goto(r, "issued")
        /\ Certify(r, req[r].parent, GrantUsed(req[r]), req[r].nonce)
  /\ UNCHANGED <<clock, seenNonces, policies, children, kidSet, grantSpawns, audit,
                 req, now, kids, under, signed>>

CountedFromStale(r, g) ==
  [h \in Grant |-> IF h = g THEN under[r] ELSE grantSpawns[h]]

\* The spawns under grant g once call r has counted itself.
Counted(r, g) ==
  [h \in Grant |-> IF h = g THEN grantSpawns[h] + 1 ELSE grantSpawns[h]]

\* issue has returned: the counts are taken and the entry is begun.
SpawnCounts(r) ==
  LET q == req[r]
      g == GrantUsed(q)
  IN
  /\ pc[r] = "issued"
  /\ kidSet' = [kidSet EXCEPT ![kids[r]] = @ \cup {q.child}]
  /\ children' = [children EXCEPT ![q.parent] = kids[r]]
  /\ grantSpawns' = Counted(r, g)
  /\ Log(r, Permitted)
  /\ UNCHANGED <<clock, seenNonces, policies, live, audit, req, now, kids, under,
                 certs, signed>>

-----------------------------------------------------------------------------
(***************************************************************************)
(* issue called by a client (record = true).  Its refusals are not logged. *)
(***************************************************************************)

IssueCalled(r, q) ==
  /\ Called(r, q)
  /\ \/ /\ q.attested = "nonconforming"
        /\ Settle(r, "ERR_TEMPLATE_NONCONFORMING")
     \/ /\ q.attested # "nonconforming"
        /\ Goto(r, "rooting")
  /\ UNCHANGED <<clock, stores, kids, under, certs, signed>>

IssueSigned(r) ==
  /\ pc[r] = "rooting"
  /\ \/ /\ req[r].attested = "unsigned"
        /\ Settle(r, "ERR_TEMPLATE_SIGNATURE")
        /\ UNCHANGED <<live, certs>>
     \/ /\ req[r].attested = "sound"
        /\ Log(r, Permitted)
        /\ Certify(r, None, None, None)
  /\ UNCHANGED <<clock, seenNonces, policies, children, kidSet, grantSpawns, audit,
                 req, now, kids, under, signed>>

-----------------------------------------------------------------------------
(***************************************************************************)
(* adoptPolicy.  Its refusals are not logged either.                       *)
(***************************************************************************)

PolicyRefusalOtherVersion(q) ==
  LET body == q.policy
      current == policies[body.subject]
  IN
  IF ~q.conforming \/ ~(body.targets \subseteq T[body.subject].canSpawn) THEN "ERR_POLICY"
  ELSE IF current = None THEN Permitted
  ELSE IF body.version = current.version THEN "ERR_POLICY_VERSION"
  ELSE Permitted

\* Field guard, required fields and section 8.3 bounds, then the version.
PolicyRefusal(q) ==
  LET body == q.policy
      current == policies[body.subject]
  IN
  IF ~q.conforming \/ ~(body.targets \subseteq T[body.subject].canSpawn) THEN "ERR_POLICY"
  ELSE IF current = None THEN Permitted
  ELSE IF body.version <= current.version THEN "ERR_POLICY_VERSION"
  ELSE Permitted

AdoptCalled(r, q) ==
  /\ Called(r, q)
  /\ LET code == PolicyRefusal(q) IN
     \/ code # Permitted /\ Settle(r, code)
     \/ code = Permitted /\ Goto(r, "signing")
  /\ UNCHANGED <<clock, stores, kids, under, certs, signed>>

\* signEnvelope has returned: policies.set, and the entry is begun.
PolicySigned(r) ==
  LET body == req[r].policy IN
  /\ pc[r] = "signing"
  /\ policies' = [policies EXCEPT ![body.subject] = body]
  /\ signed' = signed \cup {body}
  /\ Log(r, Permitted)
  /\ UNCHANGED <<clock, seenNonces, live, children, kidSet, grantSpawns, audit,
                 req, now, kids, under, certs>>

-----------------------------------------------------------------------------
\* The second half of AuditChain.append: the hash is known, the entry pushed.
EntryHashed(r) ==
  /\ pc[r] = "logging"
  /\ audit' = Append(audit, [call |-> r, prev |-> prev[r],
                             outcome |-> IF answer[r] = Permitted THEN "ALLOWED"
                                                                  ELSE "DENIED"])
  /\ pc' = [pc EXCEPT ![r] = "done"]
  /\ UNCHANGED <<clock, seenNonces, policies, live, children, kidSet, grantSpawns,
                 req, now, kids, under, prev, answer, certs, signed>>

Tick ==
  /\ clock < MaxTime
  /\ clock' = clock + 1
  /\ UNCHANGED <<stores, locals, certs, signed>>

\* The policy stores that adoptEnvelope, called for each envelope of a document,
\* can leave: any body the two authorities signed, the last of a subject winning.
adoptEnvelope == {f \in [Agent -> signed \cup {None}] :
                    \A a \in Agent : f[a] # None => f[a].subject = a}

(***************************************************************************)
(* fromDocument: a fresh object under the same keys.  The policy store is  *)
(* filled from the document's envelopes; nothing else is carried over.     *)
(* The page rebuilds only when no call of the old object is outstanding.   *)
(***************************************************************************)
fromDocument ==
  /\ \A r \in Call : ~Running(r)
  /\ \E r \in Call : pc[r] = "done"
  /\ policies' \in adoptEnvelope
  /\ seenNonces' = {}
  /\ live' = [a \in Agent |-> 0]
  /\ children' = [a \in Agent |-> None]
  /\ kidSet' = [r \in Call |-> {}]
  /\ grantSpawns' = [g \in Grant |-> 0]
  /\ audit' = <<>>
  /\ certs' = {}
  /\ pc' = [r \in Call |-> "idle"]
  /\ req' = [r \in Call |-> None]
  /\ now' = [r \in Call |-> 0]
  /\ kids' = [r \in Call |-> None]
  /\ under' = [r \in Call |-> 0]
  /\ prev' = [r \in Call |-> None]
  /\ answer' = [r \in Call |-> None]
  /\ UNCHANGED <<clock, signed>>

Arrive(r) ==
  \E q \in Requests :
    \/ q.op = "spawn" /\ (SpawnTurnedAway(r, q) \/ SpawnPresented(r, q))
    \/ q.op = "issue" /\ IssueCalled(r, q)
    \/ q.op = "adopt" /\ AdoptCalled(r, q)

\* The segments that run when a promise the call awaits is settled.
Resume(r) ==
  \/ GrantValidated(r)
  \/ SpawnIssues(r)
  \/ SpawnCounts(r)
  \/ IssueSigned(r)
  \/ PolicySigned(r)
  \/ EntryHashed(r)

Next ==
  \/ \E r \in Call : Arrive(r) \/ Resume(r)
  \/ Tick
  \/ fromDocument

Spec == Init /\ [][Next]_vars

\* The promises are those of Web Crypto, which settle, and their
\* continuations, which the event loop runs.
Fairness == \A r \in Call : WF_vars(Resume(r))

FairSpec == Spec /\ Fairness

-----------------------------------------------------------------------------
(***************************************************************************)
(* Properties of the Registry.                                             *)
(***************************************************************************)

\* Call r spent its nonce by presenting it.
Presented(r) ==
  /\ pc[r] # "idle"
  /\ req[r].op = "spawn"
  /\ answer[r] \notin {"ERR_TEMPLATE_NONCONFORMING", "ERR_NONCE_REUSED"}

\* Section 19.2: a nonce is spent by being presented, so of two requests that
\* bring the same nonce at most one is evaluated, whatever became of it and
\* however the calls interleave.
NonceSpentOnce ==
  \A r, s \in Call :
    r # s /\ Presented(r) /\ Presented(s) => req[r].nonce # req[s].nonce

EntriesOf(r) == {i \in 1..Len(audit) : audit[i].call = r}

\* Section 10.2 step 5: the children certified for a parent never outnumber
\* its MaxChildren, though the count is read before issuance and written after.
MaxChildrenHeld ==
  \A p \in Agent : Cardinality(SpawnedBy(certs, p)) <= T[p].maxChildren

\* Section 13.2: no more certificates name a grant than its MaxSpawns, though
\* the count is compared two awaits before it is incremented.
MaxSpawnsHeld ==
  \A g \in Grant : Cardinality(IssuedUnder(certs, g)) <= G[g].maxSpawns

\* Section 13.2: the count of a grant is exact for the spawns that have counted
\* themselves, however the calls interleave: no increment is lost.
GrantCountExact ==
  \A g \in Grant :
    grantSpawns[g] = Cardinality({c \in certs : c.grant = g /\ pc[c.call] # "issued"})

\* Section 10.2 step 5: a child that has counted itself stays in the count its
\* parent is held to.
ChildrenRecorded ==
  \A c \in certs : c.parent # None /\ pc[c.call] # "issued" => c.subject \in Kids(c.parent)

\* Sections 10.2 step 5 and 12.1: spawn never certifies a subject while any
\* certificate this Registry issued for it is live, so live, which keeps one
\* instant per subject, must stand for all of them.
OneLiveCertificate ==
  [][ \A c \in certs' \ certs : c.parent # None =>
        \A d \in certs : d.subject = c.subject => d.until <= c.from ]_vars

\* Section 10.2 step 3: when a child's certificate is issued, the policy then
\* in force for its parent still names it, though it was read before the await.
SpawnUnderPolicyInForce ==
  [][ \A c \in certs' \ certs : c.parent # None =>
        LET p == PolicyInForce(T[c.parent].policyRef) IN
        IF p = None THEN FALSE ELSE c.subject \in p.targets ]_vars

\* Section 11.4: within the life of one Registry object a policy in force gives
\* way only to one of a higher version, though it is compared before the
\* signatures are made and replaced after.
PolicyNeverRegresses ==
  [][ \A a \in Agent : policies[a] # None /\ ~fromDocument =>
        \/ policies'[a] = policies[a]
        \/ policies'[a] # None /\ policies'[a].version > policies[a].version ]_vars

\* Section 19.7: each entry commits to the entry before it.
AuditLinked ==
  \A i \in 1..Len(audit) :
    audit[i].prev = IF i = 1 THEN None ELSE audit[i - 1].call

\* Section 10.4: the log tells what happened.  A call has one entry at most;
\* an ALLOWED entry of spawn or issue stands for a certificate, a DENIED one
\* for none; a settled call that certified, or whose nonce was spent, has one.
AuditAccounts ==
  \A r \in Call :
    LET certified == \E c \in certs : c.call = r IN
    /\ Cardinality(EntriesOf(r)) <= 1
    /\ \A i \in EntriesOf(r) :
         req[r].op # "adopt" => (audit[i].outcome = "ALLOWED" <=> certified)
    /\ pc[r] = "done" /\ (certified \/ Presented(r)) => EntriesOf(r) # {}

\* Every evaluated spawn request is settled and has its audit entry in the
\* end, and every other call is settled.
EventuallyAudited ==
  \A r \in Call : pc[r] # "idle" ~> /\ pc[r] = "done"
                                    /\ Presented(r) => EntriesOf(r) # {}

-----------------------------------------------------------------------------
Ledger == INSTANCE RegistryLedger WITH certs <- certs, policies <- policies, signed <- signed

\* The Registry implements the ledger: the counts, the live set and the policy
\* read before an await still describe the ledger when a certificate is issued.
ImplementsLedger == Ledger!Spec

=============================================================================
