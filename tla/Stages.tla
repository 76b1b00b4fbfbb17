-------------------------------- MODULE Stages --------------------------------
(***************************************************************************)
(* What each block of runPipeline (src/pipeline.js) answers for a document *)
(* that has passed the blocks before it: the code of its refusal, or       *)
(* Sound.  Verdict puts the blocks together, with no rows and no walk; the *)
(* run itself, block by block, is Pipeline.                                *)
(***************************************************************************)
EXTENDS ChainDocument

ChildLabel == <<"CHILD AGENT", "CHILD AGENT 2", "CHILD AGENT 3">>

\* The members of s at some of its places, in their order.
Picked(s, places) ==
  LET upTo[n \in 0..Len(s)] ==
        IF n = 0 THEN <<>>
        ELSE IF n \in places THEN Append(upTo[n - 1], s[n]) ELSE upTo[n - 1]
  IN upTo[Len(s)]

\* Agents the chain presents as children (bounded by ChildLabel).
Claimants(d) == Picked(d.agents, {i \in DOMAIN d.agents : d.agents[i].claims # None})

\* The stage each refusal of a run belongs to (src/errors.js); 0 for ERR_INTERNAL.
Catalogue ==
  [n \in {0, 1, 3, 4, 5, 6, 7, 8, 9} |->
    CASE n = 0 -> {"ERR_INTERNAL"}
      [] n = 1 -> {"ERR_SCHEMA_VIOLATION", "ERR_AGENT_ID_FORMAT", "ERR_MALFORMED_PEM",
                   "ERR_DUPLICATE_MEMBER", "ERR_OBJECT_NOT_FLAT", "ERR_SCOPE_SYNTAX",
                   "ERR_TIMESTAMP_FORMAT"}
      [] n = 3 -> {"ERR_AGENT_REVOKED", "ERR_AGENT_DISABLED"}
      [] n = 4 -> {"ERR_AUTHORITY_CHAIN", "ERR_ENVELOPE_MEMBER", "ERR_OWNER_SIG_MISSING",
                   "ERR_PA_SIG_MISSING", "ERR_OWNER_SIG_INVALID", "ERR_PA_SIG_INVALID",
                   "ERR_SINGLE_SIGNATURE", "ERR_OWNER_CERT_MISMATCH", "ERR_OWNER_MISMATCH",
                   "ERR_ORG_MISMATCH", "ERR_SUBJECT_UNKNOWN"}
      [] n = 5 -> {"ERR_IMMUTABLE_FIELD", "ERR_UNKNOWN_POLICY_FIELD"}
      [] n = 6 -> {"ERR_REQUIRED_FIELD", "ERR_POLICY_VERSION", "ERR_POLICY_EXPIRED",
                   "ERR_CONTENT_HASH"}
      [] n = 7 -> {"ERR_POLICY_EXCEEDS_TEMPLATE", "ERR_SPAWN_EXCEEDS_TEMPLATE",
                   "ERR_SPAWN_NOT_PERMITTED", "ERR_CHILD_NOT_WHITELISTED",
                   "ERR_SPAWN_NOT_IN_POLICY", "ERR_MAX_CHILDREN", "ERR_GRANT_ID_MISMATCH",
                   "ERR_GRANT_MISSING", "ERR_GRANT_INVALID", "ERR_GRANT_EXPIRED",
                   "ERR_GRANT_EXCEEDS_TEMPLATE", "ERR_MAX_SPAWNS"}
      [] n = 8 -> {"ERR_SCOPE_ESCALATION", "ERR_EMPTY_SCOPES"}
      [] n = 9 -> {"ERR_AUDIT_ENTRY_INVALID", "ERR_AUDIT_CHAIN_BROKEN"}]

\* Every other refusal of a run is about a certificate: stage 2.
StageOf(code) ==
  LET listed == {n \in DOMAIN Catalogue : code \in Catalogue[n]} IN
  IF listed = {} THEN 2 ELSE CHOOSE n \in listed : TRUE

-----------------------------------------------------------------------------
(***************************************************************************)
(* The document's structure, its anchor and its agents, roots first.       *)
(***************************************************************************)

DuplicateAt(d) == {i \in DOMAIN d.agents : \E j \in 1..i - 1 : d.agents[j].id = d.agents[i].id}

\* The first node that presents the identity the first duplicate repeats.
Doubled(d) ==
  LET i == CHOOSE i \in DuplicateAt(d) : \A j \in DuplicateAt(d) : i <= j IN NodeOf(d, d.agents[i].id)

\* The chain has no nodes.
Absent(d) == d.anchors = 0 /\ d.agents = <<>> /\ ~d.stray

StructureRefusal(d) ==
  Require(d.chain = "array" /\ ~Absent(d) /\ d.wellFormed, "ERR_SCHEMA_VIOLATION")
  ++ Require(d.anchors = 1, "ERR_CHAIN_INVALID")
  ++ Require(d.agents # <<>> /\ ~d.stray, "ERR_SCHEMA_VIOLATION")
  ++ Require(DuplicateAt(d) = {}, "ERR_DUPLICATE_SUBJECT")
  ++ Require(d.audit # "missing" /\ d.crl # "missing", "ERR_SCHEMA_VIOLATION")

\* validateAnchor, then the CRL: one that is unreadable names no anchor.
AnchorBlock(d) ==
  AnchorRefusal(d) ++ Require(~(d.anchorRevoked /\ d.crl = "read"), "ERR_AGENT_REVOKED")

Roots(d) == Picked(d.agents, {i \in DOMAIN d.agents : d.agents[i].claims = None})

\* The agents at some places, roots first: a stable sort.
Sorted(d, places) ==
  Picked(d.agents, {i \in places : d.agents[i].claims = None})
  \o Picked(d.agents, {i \in places : d.agents[i].claims # None})

\* The agents in the order they are checked.
Ordered(d) == Sorted(d, DOMAIN d.agents)

Label(d, i) ==
  IF i <= Len(Roots(d)) THEN "PARENT AGENT" ELSE ChildLabel[i - Len(Roots(d))]

LinkRefusalUnread(node) ==
  Require(node.claims # None => node.cert.spawn # None, "ERR_SPAWN_EXT_INVALID")
  ++ Require(node.cert.spawn # None => node.claims # None, "ERR_PARENT_MISMATCH")

\* The parent the chain names against the one the certificate attests.
LinkRefusal(node) ==
  Require(node.claims # None => node.cert.spawn # None, "ERR_SPAWN_EXT_INVALID")
  ++ Require(node.cert.spawn # None => node.claims = node.cert.spawn.parent,
             "ERR_PARENT_MISMATCH")

\* assertNotRevoked: an unreadable list is not an empty one.
assertNotRevoked(d, a) ==
  Require(d.crl # "unreadable" /\ a \notin d.revoked, "ERR_AGENT_REVOKED")
  ++ Require(a \notin d.disabled, "ERR_AGENT_DISABLED")

\* nodeChecks: its answer, and the stages it records before it.
nodeChecks(d, node) ==
  LET named == Require({node.id, node.claims} \cap Misnamed = {}, "ERR_AGENT_ID_FORMAT")
      identified == named ++ CertificateRefusal(node.cert) ++ LinkRefusal(node)
      inStanding == identified ++ assertNotRevoked(d, node.id)
  IN [code |-> inStanding,
      passed |-> {n \in 1..3 : Sound = <<named, identified, inStanding>>[n]}]

AgentsBlock(d) ==
  FirstRefusal([i \in DOMAIN d.agents |-> nodeChecks(d, Ordered(d)[i]).code])

-----------------------------------------------------------------------------
(***************************************************************************)
(* Provenance, the signing authorities, the grant and the policies.        *)
(***************************************************************************)

\* The nodes whose certificate attests a spawn, in the order they were checked.
Attested(d) == {i \in DOMAIN d.agents : d.agents[i].cert.spawn # None}
Children(d) == Sorted(d, Attested(d))

\* The first that refuses of the agents at some places, in that order.
FirstOf(d, places, refusal) ==
  LET nodes == Sorted(d, places) IN FirstRefusal([i \in DOMAIN nodes |-> refusal[nodes[i].id]])

\* The children, in that order, whose attested parent is not in the chain.
Orphans(d) ==
  {i \in DOMAIN Ordered(d) : LET s == Ordered(d)[i].cert.spawn IN
                               s # None /\ s.parent \notin AgentsOf(d)}

\* No nonce is issued twice.
LinksBlock(d) ==
  Require(Orphans(d) = {}, "ERR_PARENT_MISMATCH")
  ++ Require(\A a, b \in ChildrenOf(d) : SpawnOf(d, a).nonce = SpawnOf(d, b).nonce => a = b,
             "ERR_NONCE_REUSED")

\* Some envelope of the document is signed by the authorities.
NeedAuthorities(d) == d.policy # None \/ d.grant # None \/ d.policies # <<>>

AuthoritiesBlock(d) ==
  Require(d.policies # None, "ERR_SCHEMA_VIOLATION")
  ++ Require(NeedAuthorities(d) => d.authorities.state = "sound", "ERR_AUTHORITY_CHAIN")

\* A cross-organizational child against the grant its certificate must name.
GrantedRefusal(d, a) ==
  LET under == {b \in CrossOrg(d) : TemplateOf(d, b).org = TemplateOf(d, a).org} IN
  GrantRefusal(d, a, ParentOf(d, a), Cardinality(under))
  ++ Require(SpawnOf(d, a).grant # None, "ERR_GRANT_ID_MISMATCH")
  ++ Require(SpawnOf(d, a).grant = d.grant.id, "ERR_GRANT_INVALID")

\* A grant nothing uses is checked against the agent it names.
UnusedRefusal(d) ==
  LET first == IF Children(d) # <<>> THEN Children(d)[1].id ELSE Ordered(d)[1].id
      a == IF d.grant.template \in AgentsOf(d) THEN d.grant.template ELSE first
  IN GrantRefusal(d, a, IF a \in ChildrenOf(d) THEN ParentOf(d, a) ELSE a, 0)

GrantBlock(d) ==
  LET crossing == {i \in DOMAIN d.agents : d.agents[i].id \in CrossOrg(d)} IN
  IF crossing # {}
  THEN Require(d.grant # None, "ERR_GRANT_MISSING")
       ++ FirstOf(d, crossing, [a \in CrossOrg(d) |-> GrantedRefusal(d, a)])
  ELSE IF d.grant # None THEN UnusedRefusal(d) ELSE Sound

\* A document without an update passes.
UpdateBlock(d) ==
  IF d.policy = None THEN Sound ELSE PolicyRefusal(d, d.policy, d.current)

-----------------------------------------------------------------------------
(***************************************************************************)
(* Stages 7 to 9.                                                          *)
(***************************************************************************)

\* The policies in force are verified like any envelope, one per subject.
InForceRefusal(d) ==
  FirstRefusal([i \in DOMAIN d.policies |->
    PolicyRefusal(d, d.policies[i], 0)
    ++ Require(\A j \in 1..i - 1 : d.policies[j].subject # d.policies[i].subject,
               "ERR_SCHEMA_VIOLATION")])

\* The spawn targets of the policy in force for agent a: none without one.
TargetsInForce(d, a) ==
  UNION {d.policies[i].targets : i \in
           {j \in DOMAIN d.policies : d.policies[j].subject = a /\ d.policies[j].targets # None}}

\* assertSpawnPermitted, assertSpawnInPolicy and the grant_id rule.
SpawnRefusal(d, a) ==
  LET parent == TemplateOf(d, ParentOf(d, a)) IN
  Require(parent.spawner, "ERR_SPAWN_NOT_PERMITTED")
  ++ Require(a \in parent.canSpawn, "ERR_CHILD_NOT_WHITELISTED")
  ++ Require(Cardinality(SiblingsOf(d, a)) + 1 <= parent.maxChildren, "ERR_MAX_CHILDREN")
  ++ Require(a \in TargetsInForce(d, ParentOf(d, a)), "ERR_SPAWN_NOT_IN_POLICY")
  ++ Require(a \notin CrossOrg(d) => SpawnOf(d, a).grant = None, "ERR_GRANT_ID_MISMATCH")

SpawnsBlock(d) ==
  InForceRefusal(d)
  ++ FirstOf(d, Attested(d), [a \in ChildrenOf(d) |-> SpawnRefusal(d, a)])

\* assertScopeSubset
SubsetRefusal(requested, allowed) ==
  Require(requested # Malformed, "ERR_SCHEMA_VIOLATION")
  ++ Require(requested # {}, "ERR_EMPTY_SCOPES")
  ++ Require(requested \subseteq allowed, "ERR_SCOPE_ESCALATION")

InheritedRefusalOfRequest(d, a) ==
  LET requested == NodeOf(d, a).requested IN
  SubsetRefusal(IF requested \notin {None, Malformed} THEN requested ELSE TemplateOf(d, a).scopes,
                TemplateOf(d, ParentOf(d, a)).scopes)

\* A child's scopes against its parent's.
InheritedRefusal(d, a) ==
  SubsetRefusal(TemplateOf(d, a).scopes, TemplateOf(d, ParentOf(d, a)).scopes)

\* What an agent requests against its certificate, and its grant if it has one.
RequestRefusal(d, node) ==
  IF node.requested = None THEN Sound
  ELSE SubsetRefusal(node.requested, node.cert.template.scopes)
       ++ IF node.id \in CrossOrg(d) THEN SubsetRefusal(node.requested, d.grant.scopes)
          ELSE Sound

\* Advisory only: a child whose certificate may outlive its parent's.
Outlives(d, a) == TemplateOf(d, a).ttl > TemplateOf(d, ParentOf(d, a)).ttl

ScopesBlock(d) ==
  FirstOf(d, Attested(d), [a \in ChildrenOf(d) |-> InheritedRefusal(d, a)])
  ++ FirstRefusal([i \in DOMAIN d.agents |-> RequestRefusal(d, d.agents[i])])

\* Some child reached before a refusal outlives its parent.
Advised(d) ==
  LET kids == Children(d)
      refusal == [a \in ChildrenOf(d) |-> InheritedRefusal(d, a)]
      outlives == [a \in ChildrenOf(d) |-> Outlives(d, a)]
  IN \E i \in DOMAIN kids : /\ outlives[kids[i].id]
                            /\ \A j \in 1..i : refusal[kids[j].id] = Sound

AuditRefusal(d) ==
  CASE d.audit \in {"invalid", "unhashable"} -> "ERR_AUDIT_ENTRY_INVALID"
    [] d.audit = "broken" -> "ERR_AUDIT_CHAIN_BROKEN"
    [] OTHER -> Sound

-----------------------------------------------------------------------------
(***************************************************************************)
(* A whole run.                                                            *)
(***************************************************************************)

\* The entry cannot be made: no list of the agents it covers, or no head.
Unloggable(d) ==
  \/ d.chain = "other"
  \/ "notText" \in AgentsOf(d)
  \/ d.audit = "unhashable"

\* The code of the refusal a run ends in, PASS, or THROWN.
Verdict(d) ==
  LET code == StructureRefusal(d) ++ AnchorBlock(d) ++ AgentsBlock(d) ++ LinksBlock(d)
              ++ AuthoritiesBlock(d) ++ GrantBlock(d) ++ UpdateBlock(d) ++ SpawnsBlock(d)
              ++ ScopesBlock(d) ++ AuditRefusal(d)
  IN IF d.audit = "illformed" THEN "THROWN" ELSE IF code = Sound THEN "PASS" ELSE code

=============================================================================
