----------------------------- MODULE MCPipeline -----------------------------
(***************************************************************************)
(* Documents for TLC: five that conform, and what becomes of them when one *)
(* thing is changed, or two.                                               *)
(***************************************************************************)
EXTENDS Pipeline

MCAgent == {"r", "q", "a", "b", "c"}
MCNonce == {"n1", "n2"}

Worker(org) == [org |-> org, owner |-> "owner-authority", spawner |-> FALSE, canSpawn |-> {},
                maxChildren |-> 0, scopes |-> {"read"}, ttl |-> 1]

Orchestrator(kids) == [Worker("home") EXCEPT !.spawner = TRUE, !.canSpawn = kids,
                         !.maxChildren = Cardinality(kids), !.scopes = {"read", "write"}]

AgentNode(id, template, spawn) ==
  [id |-> id, claims |-> IF spawn = None THEN None ELSE spawn.parent,
   cert |-> [faults |-> {}, template |-> template, spawn |-> spawn], requested |-> None]

Spawned(parent, nonce, grant) == [parent |-> parent, nonce |-> nonce, grant |-> grant]

PolicyFor(subject, targets, version) ==
  [subject |-> subject, owner |-> "owner-authority", org |-> "home", version |-> version,
   scopes |-> {"read"}, targets |-> targets, ends |-> "open", hash |-> "fresh",
   ownerSig |-> "key1", paSig |-> "key2", faults |-> {}]

TheAuthorities == [state |-> "sound", ownerName |-> "owner-authority",
                   ownerKey |-> "key1", paKey |-> "key2"]

\* A root alone: nothing is signed by the authorities.
Solo == [chain |-> "array", wellFormed |-> TRUE, stray |-> FALSE, anchors |-> 1,
         anchorFaults |-> {}, anchorRevoked |-> FALSE,
         agents |-> <<AgentNode("r", Orchestrator({"a"}), None)>>,
         crl |-> "read", revoked |-> {}, disabled |-> {}, audit |-> "intact",
         authorities |-> [TheAuthorities EXCEPT !.state = "absent"], grant |-> None, policy |-> None, current |-> 0,
         policies |-> <<>>]

\* The seed document: a home child, an update of its policy.
Seed == [Solo EXCEPT
  !.agents = <<AgentNode("r", Orchestrator({"a"}), None),
               [AgentNode("a", Worker("home"), Spawned("r", "n1", None))
                  EXCEPT !.requested = {"read"}]>>,
  !.authorities = TheAuthorities, !.policy = PolicyFor("a", {}, 2), !.current = 1,
  !.policies = <<PolicyFor("r", {"a"}, 1), PolicyFor("a", {}, 1)>>]

TheGrant == [id |-> "g", template |-> "b", grantor |-> "partner", grantee |-> "home",
             scopes |-> {"read"}, maxSpawns |-> 1, time |-> "current",
             ownerSig |-> "key1", paSig |-> "key2", faults |-> {}]

\* A partner's child under a grant, beside a home child whose policy is updated.
Partner == [Solo EXCEPT
  !.agents = <<AgentNode("a", Worker("home"), Spawned("r", "n2", None)),
               [AgentNode("b", Worker("partner"), Spawned("r", "n1", "g"))
                  EXCEPT !.requested = {"read"}],
               AgentNode("r", Orchestrator({"a", "b"}), None)>>,
  !.authorities = TheAuthorities, !.grant = TheGrant, !.policy = PolicyFor("a", {}, 2), !.current = 1,
  !.policies = <<PolicyFor("r", {"a", "b"}, 1)>>]

\* Three generations, and a second root.
Family == [Solo EXCEPT
  !.agents = <<AgentNode("r", Orchestrator({"a"}), None),
               AgentNode("a", [Orchestrator({"c"}) EXCEPT !.scopes = {"read"}],
                         Spawned("r", "n1", None)),
               [AgentNode("c", Worker("home"), Spawned("a", "n2", None))
                  EXCEPT !.requested = {"read"}],
               AgentNode("q", Worker("home"), None)>>,
  !.authorities = TheAuthorities,
  !.policies = <<PolicyFor("r", {"a"}, 1), PolicyFor("a", {"c"}, 1)>>]

\* Two agents that spawned each other.
Circle == [Solo EXCEPT
  !.agents = <<AgentNode("a", Orchestrator({"c"}), Spawned("c", "n1", None)),
               AgentNode("c", Orchestrator({"a"}), Spawned("a", "n2", None))>>,
  !.authorities = TheAuthorities,
  !.policies = <<PolicyFor("a", {"c"}, 1), PolicyFor("c", {"a"}, 1)>>]

NodeVariants(n) ==
  {[n EXCEPT !.id = x] : x \in Misnamed \cup {"r"}}
  \cup {[n EXCEPT !.claims = x] : x \in {None, "r", "c", "notUuid"}}
  \cup {[n EXCEPT !.cert.faults = {x}] : x \in {"ERR_MALFORMED_PEM", "ERR_FORGED_ISSUER", "ERR_OBJECT_NOT_FLAT"}}
  \cup {[n EXCEPT !.cert.spawn = x] : x \in
          {None, Spawned("r", "n1", None), Spawned("r", "n1", "h"), Spawned("c", "n2", None)}}
  \cup {[n EXCEPT !.cert.template.scopes = x] : x \in {{}, {"write"}, {"read", "admin"}, Scope}}
  \cup {[n EXCEPT !.cert.template.maxChildren = x] : x \in 0..2}
  \cup {[n EXCEPT !.cert.template.spawner = FALSE],
        [n EXCEPT !.cert.template.canSpawn = {"q"}, !.cert.template.maxChildren = 1],
        [n EXCEPT !.cert.template.ttl = 2], [n EXCEPT !.cert.template.org = "partner"]}
  \cup {[n EXCEPT !.requested = x] : x \in {{}, Scope, Malformed}}

SignatureVariants(e) ==
  {[e EXCEPT !.ownerSig = x] : x \in {None, "stale", "key3"}}
  \cup {[e EXCEPT !.paSig = x] : x \in {None, "key1"}}
  \cup {[e EXCEPT !.ownerSig = None, !.paSig = None]}

PolicyVariants(p) ==
  {[p EXCEPT !.faults = {x}] : x \in PolicyFault}
  \cup {[p EXCEPT !.version = x] : x \in {0, 1}}
  \cup {[p EXCEPT !.subject = x] : x \in {"r", "q"}}
  \cup {[p EXCEPT !.targets = x] : x \in {{"q"}, {}, None}}
  \cup {[p EXCEPT !.ends = x] : x \in {"past", "beyond"}}
  \cup {[p EXCEPT !.hash = x] : x \in {None, "stale"}}
  \cup {[p EXCEPT !.scopes = Scope], [p EXCEPT !.owner = "attacker"], [p EXCEPT !.org = "partner"]}
  \cup SignatureVariants(p)

GrantVariants(g) ==
  {[g EXCEPT !.faults = {x}] : x \in GrantFault}
  \cup {[g EXCEPT !.id = "h"], [g EXCEPT !.template = "a"], [g EXCEPT !.grantor = "home"],
        [g EXCEPT !.grantee = "partner"], [g EXCEPT !.scopes = Scope], [g EXCEPT !.scopes = {}],
        [g EXCEPT !.maxSpawns = 0], [g EXCEPT !.time = "expired"], [g EXCEPT !.time = "early"]}
  \cup SignatureVariants(g)

AuthoritiesVariants(auth) ==
  {[auth EXCEPT !.state = x] : x \in {"absent", "unsound"}}
  \cup {[auth EXCEPT !.ownerName = "another-owner"], [auth EXCEPT !.ownerKey = "key3"],
        [auth EXCEPT !.paKey = "key1"]}

\* A document with no array of nodes has no agents.
Chainless(d) == {[d EXCEPT !.chain = x, !.agents = <<>>, !.anchors = 0] : x \in {"absent", "other"}}

Variants(d) ==
  {[d EXCEPT !.agents[i] = n] : <<i, n>> \in
     UNION {{i} \X NodeVariants(d.agents[i]) : i \in DOMAIN d.agents}}
  \cup Chainless(d)
  \cup {[d EXCEPT !.anchors = x] : x \in {0, 2}}
  \cup {[d EXCEPT !.agents = <<>>], [d EXCEPT !.wellFormed = FALSE], [d EXCEPT !.stray = TRUE],
        [d EXCEPT !.anchorFaults = {"ERR_CERT_EXPIRED"}], [d EXCEPT !.anchorRevoked = TRUE]}
  \cup {[d EXCEPT !.crl = x] : x \in {"missing", "unreadable"}}
  \cup {[d EXCEPT !.revoked = {x}] : x \in {"r", "a"}}
  \cup {[d EXCEPT !.disabled = {x}] : x \in {"r", "a"}}
  \cup {[d EXCEPT !.audit = x] : x \in {"missing", "illformed", "invalid", "unhashable", "broken"}}
  \cup {[d EXCEPT !.authorities = x] : x \in AuthoritiesVariants(d.authorities)}
  \cup {[d EXCEPT !.grant = x] : x \in {None} \cup GrantVariants(TheGrant)}
  \cup {[d EXCEPT !.policy = x] : x \in {None} \cup PolicyVariants(PolicyFor("a", {}, 2))}
  \cup {[d EXCEPT !.policies = x] : x \in {None, <<>>}}
  \cup {[d EXCEPT !.policies[i] = p] : <<i, p>> \in
          IF d.policies = None THEN {}
          ELSE UNION {{i} \X PolicyVariants(d.policies[i]) : i \in DOMAIN d.policies}}

\* A second change, for one block of the run each.
Again(d) ==
  {[d EXCEPT !.authorities.paKey = "key1"], [d EXCEPT !.policy = PolicyFor("r", {"q"}, 2)],
   [d EXCEPT !.audit = "broken"], [d EXCEPT !.agents[1].requested = Malformed]}

Twice(d) == Variants(d) \cup UNION {Again(x) : x \in {x \in Variants(d) : x.agents # <<>>}}

AllDocuments ==
  {Solo, Seed, Family, Circle}
  \cup UNION {Variants(d) : d \in {Solo, Seed, Family, Circle}} \cup Twice(Partner)

SeedDocuments == {d \in Variants(Seed) : Len(Claimants(d)) <= Len(ChildLabel)}

MCDocuments == {d \in AllDocuments : Len(Claimants(d)) <= Len(ChildLabel)}
=============================================================================
