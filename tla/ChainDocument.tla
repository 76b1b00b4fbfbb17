--------------------------- MODULE ChainDocument ---------------------------
(***************************************************************************)
(* The document runPipeline of src/pipeline.js is given, reduced to what   *)
(* the pipeline's decisions turn on, and the validators it calls:          *)
(* validateAnchor and validateCertificate of src/x509.js, validateGrant of *)
(* src/bounds.js and validatePolicyUpdate of src/policy.js.                *)
(*                                                                         *)
(* Conditions that relate two parts of a document (a child and its         *)
(* parent, a grant and the template it grants, a signature and the body    *)
(* and key it is made with) are computed; one that concerns a single       *)
(* certificate or the shape of an envelope is a member of its faults.      *)
(***************************************************************************)
EXTENDS Integers, Sequences, FiniteSets

CONSTANTS
  Agent,  \* well-formed agent identifiers
  Nonce,  \* spawn nonces
  None,   \* an absent member
  Malformed \* a member that is there and is no array, or no set, of scopes

Org == {"home", "partner"}
Scope == {"read", "write", "admin"}
Owner == {"owner-authority", "another-owner", "attacker"}
GrantId == {"g", "h", "i", "j"}

\* An agent_id that is a string but no UUID, and one that is not a string.
Misnamed == {"notUuid", "notText"}

\* What is absent or malformed is no value, and no identifier is both well
\* and badly formed.
ASSUME ValuesAssumption ==
  /\ None # Malformed /\ \A scopes \in SUBSET Scope : scopes # None /\ scopes # Malformed
  /\ None \notin Agent \cup Misnamed \cup GrantId
  /\ Agent \cap Misnamed = {}

\* The refusals parseTemplateExtension and parseSpawnExtension can end in, in
\* the order of their checks; one that several checks give, at the first.
parseTemplateExtension ==
  <<"ERR_TEMPLATE_EXT_MISSING", "ERR_EXTENSION_TOO_LARGE", "ERR_DUPLICATE_MEMBER",
    "ERR_OBJECT_NOT_FLAT", "ERR_TEMPLATE_EXT_INVALID", "ERR_AGENT_ID_FORMAT", "ERR_SCOPE_SYNTAX",
    "ERR_MAX_CHILDREN_EXCEEDS_CAN_SPAWN", "ERR_TTL_TOO_LONG", "ERR_SUBJECT_MISMATCH">>

parseSpawnExtension ==
  <<"ERR_EXTENSION_TOO_LARGE", "ERR_DUPLICATE_MEMBER", "ERR_OBJECT_NOT_FLAT",
    "ERR_SPAWN_EXT_INVALID", "ERR_AGENT_ID_FORMAT", "ERR_TIMESTAMP_FORMAT">>

\* Likewise validateCertificate; a fault is known by the code it is refused with.
validateCertificate ==
  <<"ERR_MALFORMED_PEM", "ERR_UNKNOWN_CRITICAL_EXT", "ERR_AGENT_ID_FORMAT", "ERR_SUBJECT_MISMATCH",
    "ERR_SELF_SIGNED", "ERR_WEAK_SIGNATURE", "ERR_BASIC_CONSTRAINTS", "ERR_KEY_USAGE",
    "ERR_SERIAL_ENCODING", "ERR_SERIAL_ENTROPY", "ERR_FORGED_ISSUER", "ERR_CHAIN_INVALID",
    "ERR_NAME_CONSTRAINT", "ERR_CERT_EXPIRED", "ERR_KEY_TOO_SMALL", "ERR_NO_REVOCATION_SOURCE">>
  \o parseTemplateExtension \o parseSpawnExtension \o <<"ERR_VALIDITY_EXCEEDS_TTL">>

\* Likewise validateAnchor.
validateAnchor ==
  <<"ERR_MALFORMED_PEM", "ERR_UNKNOWN_CRITICAL_EXT", "ERR_CHAIN_INVALID",
    "ERR_WEAK_SIGNATURE", "ERR_BASIC_CONSTRAINTS", "ERR_KEY_USAGE", "ERR_KEY_TOO_SMALL",
    "ERR_CERT_EXPIRED">>

Codes(checks) == {checks[i] : i \in DOMAIN checks}

\* other: no object; stray: a member Section 3.1 lists none for.  The rest concern
\* the body: absent, with fields no policy has, without one, with one mistyped.
PolicyFault == {"other", "stray", "bodiless", "immutable", "unknown", "incomplete", "mistyped"}
GrantFault == {"stray", "malformed"}

Key == {"key1", "key2", "key3"}

\* The key a signature over the body as it is was made with; "stale" is one made
\* over another body, or no signature at all.
Signature == Key \cup {None, "stale"}

Template == [org: Org, owner: Owner, spawner: BOOLEAN, canSpawn: SUBSET Agent, maxChildren: Nat,
             scopes: SUBSET Scope, ttl: Nat \ {0}]

\* The Agent Spawn extension.
Provenance == [parent: Agent, nonce: Nonce, grant: GrantId \cup {None}]

Certificate == [faults: SUBSET Codes(validateCertificate), template: Template,
                spawn: Provenance \cup {None}]

\* An agent node.  claims is its parent_agent_id.
Node == [id: Agent \cup Misnamed, claims: Agent \cup Misnamed \cup {None},
         cert: Certificate, requested: SUBSET Scope \cup {None, Malformed}]

\* version = 0 is none, targets = None no spawn_targets member; hash compares
\* content_hash with the body, ends the policy's not_after with the clock and
\* with the certificate's.
Policy == [subject: Agent, owner: Owner, org: Org, version: Nat, scopes: SUBSET Scope,
           targets: (SUBSET Agent) \cup {None}, ends: {"open", "past", "beyond"},
           hash: {None, "stale", "fresh"}, ownerSig: Signature, paSig: Signature,
           faults: SUBSET PolicyFault]

\* time: of issued_at and ttl_seconds against the clock.
Grant == [id: GrantId, template: Agent, grantor: Org, grantee: Org,
          scopes: SUBSET Scope, maxSpawns: Nat, time: {"current", "expired", "early"},
          ownerSig: Signature, paSig: Signature, faults: SUBSET GrantFault]

\* The two authorities: whether their certificates are there and chain to the
\* anchor, the subject of the Owner's, and the key each presents.
Authorities == [state: {"absent", "unsound", "sound"}, ownerName: Owner,
                ownerKey: Key, paKey: Key]

(***************************************************************************)
(* chain: an array, absent, or something else.  wellFormed: every node is  *)
(* an object with known members.  stray: a node has an unknown role or     *)
(* unknown metadata.  audit: no log; one fromJSON throws on; one with an   *)
(* entry outside Table 6 ("unhashable": its entry_hash has no canonical    *)
(* form either); one whose hashes do not link; an intact one.              *)
(* policies = None is not an array.                                        *)
(***************************************************************************)
Document == [chain: {"array", "absent", "other"}, wellFormed: BOOLEAN, stray: BOOLEAN,
             anchors: 0..2,
             anchorFaults: SUBSET Codes(validateAnchor), anchorRevoked: BOOLEAN,
             agents: Seq(Node),
             crl: {"missing", "unreadable", "read"},
             revoked: SUBSET Agent, disabled: SUBSET Agent,
             audit: {"missing", "illformed", "invalid", "unhashable", "broken", "intact"},
             authorities: Authorities,
             grant: Grant \cup {None}, policy: Policy \cup {None}, current: Nat,
             policies: Seq(Policy) \cup {None}]

-----------------------------------------------------------------------------
(***************************************************************************)
(* The validators: the code of the refusal each throws, or Sound.          *)
(***************************************************************************)
Sound == "SOUND"

\* The second check is made when the first refuses nothing.
first ++ second == IF first # Sound THEN first ELSE second

Require(condition, code) == IF condition THEN Sound ELSE code

\* Of checks made one after the other the first that refuses throws.
FirstRefusal(answers) ==
  LET refusing == {i \in DOMAIN answers : answers[i] # Sound} IN
  IF refusing = {} THEN Sound
  ELSE answers[CHOOSE i \in refusing : \A j \in refusing : i <= j]

FirstFailing(checks, faults) ==
  FirstRefusal([i \in DOMAIN checks |-> IF checks[i] \in faults THEN checks[i] ELSE Sound])

AnchorRefusal(d) == FirstFailing(validateAnchor, d.anchorFaults)

\* A template's own consistency is checked with its members.
FaultsOf(cert) ==
  cert.faults \cup IF cert.template.maxChildren > Cardinality(cert.template.canSpawn)
                   THEN {"ERR_MAX_CHILDREN_EXCEEDS_CAN_SPAWN"} ELSE {}

CertificateRefusal(cert) == FirstFailing(validateCertificate, FaultsOf(cert))

\* The node of the chain that presents agent a.
NodeOf(d, a) == d.agents[CHOOSE i \in DOMAIN d.agents : d.agents[i].id = a]

TemplateOf(d, a) == NodeOf(d, a).cert.template
SpawnOf(d, a) == NodeOf(d, a).cert.spawn
AgentsOf(d) == {d.agents[i].id : i \in DOMAIN d.agents}
ChildrenOf(d) == {a \in AgentsOf(d) : SpawnOf(d, a) # None}
ParentOf(d, a) == SpawnOf(d, a).parent
SiblingsOf(d, a) == {b \in ChildrenOf(d) \ {a} : ParentOf(d, b) = ParentOf(d, a)}
CrossOrg(d) ==
  {a \in ChildrenOf(d) : TemplateOf(d, a).org # TemplateOf(d, ParentOf(d, a)).org}

\* validateGrant: grant g, for child a of template t, a parent of template u,
\* and count spawns.
validateGrant(g, auth, a, t, u, count) ==
  Require("stray" \notin g.faults, "ERR_ENVELOPE_MEMBER")
  ++ Require("malformed" \notin g.faults, "ERR_GRANT_INVALID")
  ++ Require(g.template = a /\ g.grantor = t.org /\ g.grantee = u.org, "ERR_GRANT_INVALID")
  ++ Require(g.time = "current", "ERR_GRANT_EXPIRED")
  ++ Require(g.scopes \subseteq t.scopes, "ERR_GRANT_EXCEEDS_TEMPLATE")
  ++ Require(g.ownerSig # None /\ g.paSig # None, "ERR_GRANT_INVALID")
  ++ Require(auth.ownerName = t.owner, "ERR_OWNER_CERT_MISMATCH")
  ++ Require(auth.ownerKey # auth.paKey, "ERR_SINGLE_SIGNATURE")
  ++ Require(g.ownerSig = auth.ownerKey /\ g.paSig = auth.paKey, "ERR_GRANT_INVALID")
  ++ Require(count <= g.maxSpawns, "ERR_MAX_SPAWNS")

\* The document's grant, for child a of p and count spawns.
GrantRefusal(d, a, p, count) ==
  validateGrant(d.grant, d.authorities, a, TemplateOf(d, a), TemplateOf(d, p), count)

assertEnvelope(p) ==
  Require("other" \notin p.faults, "ERR_SCHEMA_VIOLATION")
  ++ Require("stray" \notin p.faults, "ERR_ENVELOPE_MEMBER")
  ++ Require("bodiless" \notin p.faults, "ERR_SCHEMA_VIOLATION")
  ++ Require(p.hash # None, "ERR_CONTENT_HASH")

assertFieldGuard(p) ==
  Require("immutable" \notin p.faults, "ERR_IMMUTABLE_FIELD")
  ++ Require("unknown" \notin p.faults, "ERR_UNKNOWN_POLICY_FIELD")

assertRequiredFields(p) ==
  Require("incomplete" \notin p.faults, "ERR_REQUIRED_FIELD")
  ++ Require("mistyped" \notin p.faults, "ERR_SCHEMA_VIOLATION")
  ++ Require(p.version > 0, "ERR_POLICY_VERSION")

\* Absent is told from malformed.
SignaturesPresent(p) ==
  Require(p.ownerSig # None \/ p.paSig # None, "ERR_SINGLE_SIGNATURE")
  ++ Require(p.ownerSig # None, "ERR_OWNER_SIG_MISSING")
  ++ Require(p.paSig # None, "ERR_PA_SIG_MISSING")

SignaturesVerify(p, auth) ==
  Require(p.ownerSig = auth.ownerKey, "ERR_OWNER_SIG_INVALID")
  ++ Require(p.paSig = auth.paKey, "ERR_PA_SIG_INVALID")

\* assertOwnership, the Owner certificate's subject, and two keys for two roles.
OwnershipRefusal(p, auth, t) ==
  Require(p.owner = t.owner, "ERR_OWNER_MISMATCH")
  ++ Require(p.org = t.org, "ERR_ORG_MISMATCH")
  ++ Require(auth.ownerName = t.owner, "ERR_OWNER_CERT_MISMATCH")
  ++ Require(auth.ownerKey # auth.paKey, "ERR_SINGLE_SIGNATURE")

assertPolicyIntegrity(p, current) ==
  Require(p.version > current, "ERR_POLICY_VERSION")
  ++ Require(p.hash = "fresh", "ERR_CONTENT_HASH")
  ++ Require(p.ends = "open", "ERR_POLICY_EXPIRED")

assertWithinTemplateBounds(p, t) ==
  Require(p.scopes \subseteq t.scopes, "ERR_POLICY_EXCEEDS_TEMPLATE")
  ++ Require(p.targets # None => p.targets \subseteq t.canSpawn, "ERR_SPAWN_EXCEEDS_TEMPLATE")

\* What validatePolicyUpdate has checked when it reports stage 5, 6 and 4.
ThroughStage5(p) == assertEnvelope(p) ++ SignaturesPresent(p) ++ assertFieldGuard(p)
ThroughStage6(p) == ThroughStage5(p) ++ assertRequiredFields(p)
ThroughStage4(d, p) ==
  ThroughStage6(p)
  ++ Require(p.subject \in AgentsOf(d), "ERR_SUBJECT_UNKNOWN")
  ++ OwnershipRefusal(p, d.authorities, TemplateOf(d, p.subject))
  ++ SignaturesVerify(p, d.authorities)

\* validatePolicyUpdate: structure, authenticity, currency, and bounds last.
PolicyRefusal(d, p, current) ==
  ThroughStage4(d, p) ++ assertPolicyIntegrity(p, current)
  ++ assertWithinTemplateBounds(p, TemplateOf(d, p.subject))

\* onStage: the stages validatePolicyUpdate had reported when it answered.
onStage(d, p) ==
  {n \in 4..6 : Sound = CASE n = 5 -> ThroughStage5(p)
                           [] n = 6 -> ThroughStage6(p)
                           [] n = 4 -> ThroughStage4(d, p)}

=============================================================================
