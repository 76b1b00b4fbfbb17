----------------------------- MODULE Scenarios -----------------------------
(***************************************************************************)
(* What the page's buttons do to a document: the functions of              *)
(* src/scenarios.js, the operations of a Registry rebuilt from the         *)
(* document (fromDocument, attest, issue, spawn and adoptPolicy of         *)
(* src/mint.js).                                                           *)
(*                                                                         *)
(* An operation ends in a document or in the code of what it throws; a     *)
(* throw that is no DenyError is shown as ERR_INTERNAL.  Each operation    *)
(* rebuilds a Registry, so nonces, live certificates and counts start      *)
(* empty.                                                                  *)
(***************************************************************************)
EXTENDS Stages, FiniteSetsExt, TLC

Outcome(code, d) == [code |-> code, doc |-> d]

\* One operation after another.
Then(outcome, F(_)) == IF outcome.code = Sound THEN F(outcome.doc) ELSE outcome

Least(S, otherwise) == IF S = {} THEN otherwise ELSE Min(S)

\* Where childOf and parentOf find their nodes.
childOf(d) == Least({i \in DOMAIN d.agents : d.agents[i].claims # None}, 2)
parentOf(d) == Least({i \in DOMAIN d.agents : d.agents[i].claims = None}, 1)

Child(d) == d.agents[childOf(d)]
Parent(d) == d.agents[parentOf(d)]

\* newAgentId, newNonce and a new grant_id: none the document mentions.
newAgentId(d) ==
  CHOOSE a \in Agent : \A i \in DOMAIN d.agents : a \notin {d.agents[i].id, d.agents[i].claims}

Spawns(d) == {d.agents[i].cert.spawn : i \in DOMAIN d.agents} \ {None}

newNonce(d) == CHOOSE n \in Nonce : \A s \in Spawns(d) : s.nonce # n

newGrantId(d) ==
  CHOOSE g \in GrantId : (\A s \in Spawns(d) : s.grant # g) /\ (d.grant # None => d.grant.id # g)

-----------------------------------------------------------------------------
(***************************************************************************)
(* Reading a certificate, and signing.                                     *)
(***************************************************************************)

templateOf(node) == FirstFailing(<<"ERR_MALFORMED_PEM">> \o parseTemplateExtension, FaultsOf(node.cert))

spawnOf(node) == FirstFailing(<<"ERR_MALFORMED_PEM">> \o parseSpawnExtension, node.cert.faults)

\* Without the authorities' keys there is nothing to sign with.
authorityKeys(d) == Require(d.authorities.state # "absent", "ERR_INTERNAL")

\* signEnvelope: a new envelope around the body.
Signed(d, e) ==
  [e EXCEPT !.ownerSig = d.authorities.ownerKey, !.paSig = d.authorities.paKey,
            !.faults = @ \ {"other", "stray"}]

SignedPolicy(d, p) == [Signed(d, p) EXCEPT !.hash = "fresh"]

\* A body edited and not signed again.
Stale(value) == IF value = None THEN None ELSE "stale"

Edited(p, edit) ==
  IF edit = p THEN p
  ELSE [edit EXCEPT !.hash = Stale(@), !.ownerSig = Stale(@), !.paSig = Stale(@)]

\* The policy update becomes edit: without an update there is nothing to edit.
EditPolicy(d, edit) ==
  IF d.policy = None THEN Outcome("ERR_INTERNAL", d)
  ELSE Outcome(Sound, [d EXCEPT !.policy = edit])

resignPolicy(d) ==
  Then(Outcome(authorityKeys(d), d), LAMBDA x : EditPolicy(x, SignedPolicy(x, x.policy)))

WithoutInForce(d, a) == SelectSeq(d.policies, LAMBDA p : p.subject # a)

dropInForcePolicy(d, a) == [d EXCEPT !.policies = WithoutInForce(d, a)]

\* A body of which only the subject and what is then changed are stated.
Bare(a) ==
  [subject |-> a, owner |-> "owner-authority", org |-> "home", version |-> 0, scopes |-> {},
   targets |-> None, ends |-> "open", hash |-> None, ownerSig |-> None, paSig |-> None,
   faults |-> {"incomplete"}]

inForceOf(d, a) ==
  LET there == {i \in DOMAIN d.policies : d.policies[i].subject = a} IN
  IF there = {} THEN Bare(a) ELSE d.policies[Min(there)]

\* The policy that is replaced left in the store.
setInForcePolicyBeside(d, a, changes) ==
  Outcome(authorityKeys(d),
    [d EXCEPT !.policies = Append(@, SignedPolicy(d, changes @@ inForceOf(d, a)))])

\* The policy in force for agent a, restated with changes, signed, after the others.
setInForcePolicy(d, a, changes) ==
  Outcome(authorityKeys(d),
    [d EXCEPT !.policies = Append(WithoutInForce(d, a), SignedPolicy(d, changes @@ inForceOf(d, a)))])

-----------------------------------------------------------------------------
(***************************************************************************)
(* The Registry a document carries.                                        *)
(***************************************************************************)

adoptEnvelope(p, auth) ==
  assertEnvelope(p) ++ assertFieldGuard(p) ++ assertRequiredFields(p) ++ SignaturesVerify(p, auth)

fromDocument(d) ==
  Require(d.anchors > 0 /\ d.authorities.state # "absent" /\ d.policies # None,
          "ERR_SCHEMA_VIOLATION")
  ++ FirstRefusal([i \in DOMAIN d.policies |-> adoptEnvelope(d.policies[i], d.authorities)])

\* A template that was read from a certificate conforms.
attest(t, ownerName) == Require(t.owner = ownerName, "ERR_OWNER_CERT_MISMATCH")

\* The policy for a the rebuilt Registry keeps is the last it adopted.
Kept(d, a) ==
  LET there == {i \in DOMAIN d.policies : d.policies[i].subject = a} IN
  IF there = {} THEN Bare(a) ELSE d.policies[Max(there)]

Targets(d, a) == IF Kept(d, a).targets = None THEN {} ELSE Kept(d, a).targets

\* A request as reissueThroughRegistry makes it: not yet presented, dated now,
\* of a template both authorities attested.  live: the subject has a certificate.
request == [spent |-> FALSE, fresh |-> TRUE, attested |-> TRUE, live |-> FALSE, children |-> 0]

spawnAnyTemplate(d, targets, a, t, u, grant, q) ==
  Require(~q.spent, "ERR_NONCE_REUSED")
  ++ Require(q.fresh, "ERR_SPAWN_STALE")
  ++ Require(u.spawner, "ERR_SPAWN_NOT_PERMITTED")
  ++ Require(a \in u.canSpawn, "ERR_CHILD_NOT_WHITELISTED")
  ++ Require(t.org = u.org \/ grant # None, "ERR_GRANT_MISSING")
  ++ (IF t.org = u.org THEN Sound ELSE validateGrant(grant, d.authorities, a, t, u, 1))
  ++ Require(a \in targets, "ERR_SPAWN_NOT_IN_POLICY")
  ++ SubsetRefusal(t.scopes, u.scopes)
  ++ Require(q.children < u.maxChildren, "ERR_MAX_CHILDREN")
  ++ Require(~q.live, "ERR_DUPLICATE_SUBJECT")

\* Section 10.2: request q to spawn a, of template t, from a parent of template u.
spawn(d, targets, a, t, u, grant, q) ==
  Require(~q.spent, "ERR_NONCE_REUSED")
  ++ Require(q.fresh, "ERR_SPAWN_STALE")
  ++ Require(u.spawner, "ERR_SPAWN_NOT_PERMITTED")
  ++ Require(a \in u.canSpawn, "ERR_CHILD_NOT_WHITELISTED")
  ++ Require(t.org = u.org \/ grant # None, "ERR_GRANT_MISSING")
  ++ (IF t.org = u.org THEN Sound ELSE validateGrant(grant, d.authorities, a, t, u, 1))
  ++ Require(a \in targets, "ERR_SPAWN_NOT_IN_POLICY")
  ++ SubsetRefusal(t.scopes, u.scopes)
  ++ Require(q.children < u.maxChildren, "ERR_MAX_CHILDREN")
  ++ Require(~q.live, "ERR_DUPLICATE_SUBJECT")
  ++ Require(q.attested, "ERR_TEMPLATE_SIGNATURE")

Certified(t, provenance, faults) == [faults |-> faults, template |-> t, spawn |-> provenance]

\* A child's provenance from the chain's first parent, under a nonce of its own.
ProvenanceUnder(d, grant, crosses) ==
  [parent |-> Parent(d).id, nonce |-> newNonce(d), grant |-> IF crosses /\ grant # None THEN grant.id ELSE None]

\* Node i again with template t: a child is spawned, a root issued.
reissueThroughRegistry(d, i, t, grant) ==
  LET node == d.agents[i]
      u == Parent(d).cert.template
      root == node.claims = None
  IN Outcome(
       fromDocument(d) ++ templateOf(node) ++ attest(t, d.authorities.ownerName)
       ++ (IF root THEN Sound
           ELSE templateOf(Parent(d))
                ++ spawn(d, Targets(d, Parent(d).id), node.id, t, u, grant, request)),
       [d EXCEPT !.agents[i].cert =
          Certified(t, IF root THEN None ELSE ProvenanceUnder(d, grant, t.org # u.org), {})])

\* The CA key with no gate.
issueRaw(d, i, t, provenance, faults) ==
  Outcome(fromDocument(d) ++ templateOf(d.agents[i]) ++ spawnOf(d.agents[i]),
          [d EXCEPT !.agents[i].cert = Certified(t, provenance, faults)])

\* Its common use: the node's own template and provenance, but for one fault.
Flawed(d, fault) ==
  issueRaw(d, childOf(d), Child(d).cert.template, Child(d).cert.spawn, {fault})

\* ... or but for the parent's template.
ParentRaw(d, t) == issueRaw(d, parentOf(d), t, Parent(d).cert.spawn, {})

\* No member of a record is changed.
NoChanges == <<>>

\* The grant is changed, and signed again, after the spawn.
spawnAcrossOrganizations(d, grantChanges) ==
  LET c == Child(d)
      t == [c.cert.template EXCEPT !.org = "partner"]
      grant == [id |-> newGrantId(d), template |-> c.id, grantor |-> "partner",
                grantee |-> Parent(d).cert.template.org, scopes |-> t.scopes, maxSpawns |-> 3,
                time |-> "current", ownerSig |-> d.authorities.ownerKey,
                paSig |-> d.authorities.paKey, faults |-> {}]
      MovedUpdate(x) == IF x.policy = None THEN Outcome(Sound, x)
                        ELSE resignPolicy([x EXCEPT !.policy.org = "partner"])
      MovedInForce(x) == IF \A j \in DOMAIN x.policies : x.policies[j].subject # c.id
                         THEN Outcome(Sound, x) ELSE setInForcePolicy(x, c.id, [org |-> "partner"])
      spawned == Then(Outcome(templateOf(c) ++ templateOf(Parent(d)) ++ authorityKeys(d),
                              [d EXCEPT !.grant = grant]),
                      LAMBDA x : reissueThroughRegistry(x, childOf(x), t, grant))
      Regranted(x) == Outcome(Sound, [x EXCEPT !.grant = Signed(x, grantChanges @@ grant)])
  IN Then(Then(Then(spawned, Regranted), MovedUpdate), MovedInForce)

\* A second child under the first child's nonce.
issueSecondChildWithNonce(d) ==
  LET second == [Child(d) EXCEPT !.id = newAgentId(d)]
      i == Len(d.agents) + 1
  IN issueRaw([d EXCEPT !.agents = Append(@, second)], i, second.cert.template,
              second.cert.spawn, {})

=============================================================================
