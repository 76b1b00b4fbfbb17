------------------------------ MODULE Buttons ------------------------------
(***************************************************************************)
(* The page's buttons that change a document (ALLOWED, ADVISORY and        *)
(* SABOTAGE of src/app.js), and those that ask the Registry for what it    *)
(* must refuse.  A button is known by its label.                           *)
(***************************************************************************)
EXTENDS Scenarios

Allowed == {"Reset the audit chain", "Narrow the parent to read-only",
            "Policy: revoke write access", "Re-issue the child, same bounds",
            "Spawn across organizations"}

Advisory == {"Child outlives its parent"}

AtRegistry ==
  {"Drop a REQUIRED template field", "Remove one attestation signature",
   "Edit a template after it was signed", "Replay the spawn request",
   "Policy withdraws the spawn target", "Exceed MaxChildren at the Registry",
   "Stale spawn timestamp (61 s)", "Future spawn timestamp (61 s)"}

OnCertificate ==
  {"Forge the issuer", "Corrupt the certificate", "Forge the parent link",
   "Expire the certificate", "Agent cert claims keyCertSign", "Outlive the template TTL",
   "Drop the revocation pointer", "Non-minimal serial number", "Oversized template extension",
   "One identity, two certificates", "Duplicate nonce in the chain",
   "Revoke the parent", "Disable the template at the Registry"}

OnGrant ==
  {"Cross-org spawn with no grant", "Expired grant", "Grant exceeds the template",
   "Remove one grant signature", "Drop the grant's issued_at", "Grant allows no spawns",
   "Revoke the grant", "Certificate omits the grant it was issued under"}

OnBounds ==
  {"Escalate the scope", "Exceed max_children", "Spawn a non-whitelisted child",
   "Parent may not spawn at all", "Policy in force omits the child",
   "MaxChildren above CanSpawn", "Widen policy past the ceiling"}

OnAuthority ==
  {"Sign with one key only", "One key, both roles", "Tamper with the policy body",
   "Replay an old policy, bump version", "Alter the stored hash only",
   "Edit can_spawn via policy", "Submit as the wrong owner",
   "Owner certificate does not match the template", "Alter an audit entry"}

\* Every other button produces a refusal.
Sabotage == OnCertificate \cup OnGrant \cup OnBounds \cup OnAuthority

Button == Allowed \cup Advisory \cup AtRegistry \cup Sabotage

\* Of the lifetimes of certificates the order alone matters.
Minute == 1
CHILD_TTL_SECONDS == 2
PARENT_TTL_SECONDS == 3

-----------------------------------------------------------------------------
AllowedOutcome(b, d) ==
  CASE b = "Reset the audit chain" ->
         Outcome(spawnOf(Child(d)) ++ templateOf(Child(d)), [d EXCEPT !.audit = "intact"])
    [] b = "Narrow the parent to read-only" ->
         Then(reissueThroughRegistry(d, parentOf(d),
                [Parent(d).cert.template EXCEPT !.scopes = {"read"}], None),
              LAMBDA x : setInForcePolicy(x, Parent(x).id, [scopes |-> {"read"}]))
    [] b = "Policy: revoke write access" ->
         Then(EditPolicy(d, [d.policy EXCEPT !.scopes = {}, !.version = (IF @ = 0 THEN 1 ELSE @) + 1]),
              resignPolicy)
    [] b = "Re-issue the child, same bounds" ->
         reissueThroughRegistry(d, childOf(d), Child(d).cert.template, None)
    [] b = "Spawn across organizations" ->
         spawnAcrossOrganizations(d, NoChanges)
    [] b = "Child outlives its parent" ->
         reissueThroughRegistry(d, childOf(d), [Child(d).cert.template EXCEPT !.ttl = PARENT_TTL_SECONDS * 2], None)

\* A second Registry, whose Owner has the seed's name, adopts a policy for the
\* parent and issues the child.
ForgedIssuer(d) ==
  LET c == Child(d)
      u == Parent(d).cert.template
  IN Outcome(
       templateOf(Parent(d)) ++ Require(c.id \in u.canSpawn, "ERR_SPAWN_EXCEEDS_TEMPLATE")
       ++ templateOf(c) ++ attest(c.cert.template, "owner-authority")
       ++ spawn(d, {c.id}, c.id, c.cert.template, u, None, request),
       [d EXCEPT !.agents[childOf(d)].cert =
          Certified(c.cert.template, ProvenanceUnder(d, None, FALSE),
                    {"ERR_FORGED_ISSUER", "ERR_CHAIN_INVALID"})])

\* One character of the certificate, A or B, the other: the signature no longer
\* verifies, the template may no longer be read, and a second press may put back
\* what the first replaced.
Corrupted(d) ==
  LET faults == Child(d).cert.faults
      With(fs) == Outcome(Sound, [d EXCEPT !.agents[childOf(d)].cert.faults = fs])
      restored == faults \ ({"ERR_TEMPLATE_EXT_INVALID"} \cup
                            IF "ERR_FORGED_ISSUER" \in faults THEN {} ELSE {"ERR_CHAIN_INVALID"})
  IN {With(faults \cup {"ERR_CHAIN_INVALID"}),
      With(faults \cup {"ERR_CHAIN_INVALID", "ERR_TEMPLATE_EXT_INVALID"})}
     \cup IF "ERR_CHAIN_INVALID" \in faults THEN {With(restored)} ELSE {}

CertificateOutcome(b, d) ==
  CASE b = "Forge the issuer" -> ForgedIssuer(d)
    [] b = "Forge the parent link" ->
         Outcome(Sound, [d EXCEPT !.agents[childOf(d)].claims = newAgentId(d)])
    [] b = "Expire the certificate" -> Flawed(d, "ERR_CERT_EXPIRED")
    [] b = "Agent cert claims keyCertSign" -> Flawed(d, "ERR_KEY_USAGE")
    [] b = "Outlive the template TTL" -> Flawed(d, "ERR_VALIDITY_EXCEEDS_TTL")
    [] b = "Drop the revocation pointer" -> Flawed(d, "ERR_NO_REVOCATION_SOURCE")
    [] b = "Non-minimal serial number" -> Flawed(d, "ERR_SERIAL_ENCODING")
    [] b = "Oversized template extension" -> Flawed(d, "ERR_EXTENSION_TOO_LARGE")
    [] b = "One identity, two certificates" ->
         Outcome(Sound, [d EXCEPT !.agents = Append(@, Child(d))])
    [] b = "Duplicate nonce in the chain" -> issueSecondChildWithNonce(d)
    [] b = "Revoke the parent" ->
         Outcome(Require(d.crl = "read", "ERR_INTERNAL"), [d EXCEPT !.revoked = @ \cup {Parent(d).id}])
    [] b = "Disable the template at the Registry" ->
         Outcome(Require(d.crl = "read", "ERR_INTERNAL"), [d EXCEPT !.disabled = @ \cup {Child(d).id}])

GrantOutcome(b, d) ==
  LET spawned == spawnAcrossOrganizations(d, NoChanges) IN
  CASE b = "Cross-org spawn with no grant" ->
         Then(spawned, LAMBDA x : Outcome(Sound, [x EXCEPT !.grant = None]))
    [] b = "Expired grant" -> spawnAcrossOrganizations(d, [time |-> "expired"])
    [] b = "Grant exceeds the template" -> spawnAcrossOrganizations(d, [scopes |-> {"read", "admin"}])
    [] b = "Remove one grant signature" ->
         Then(spawned, LAMBDA x : Outcome(Sound, [x EXCEPT !.grant.paSig = None]))
    [] b = "Drop the grant's issued_at" ->
         Then(spawned, LAMBDA x : Outcome(Sound, [x EXCEPT !.grant.faults = @ \cup {"malformed"}]))
    [] b = "Grant allows no spawns" -> spawnAcrossOrganizations(d, [maxSpawns |-> 0])
    [] b = "Revoke the grant" ->
         Then(spawned, LAMBDA x :
           Outcome(FirstRefusal([i \in DOMAIN x.agents |-> spawnOf(x.agents[i])])
                   ++ Require(x.crl = "read", "ERR_INTERNAL"),
                   [x EXCEPT !.revoked = @ \cup {a \in ChildrenOf(x) : SpawnOf(x, a).grant = x.grant.id}]))
    [] b = "Certificate omits the grant it was issued under" ->
         Then(spawned, LAMBDA x :
           issueRaw(x, childOf(x), Child(x).cert.template,
                    [Child(x).cert.spawn EXCEPT !.grant = None], {}))

BoundsOutcome(b, d) ==
  LET u == Parent(d).cert.template
      withoutTargets == [targets |-> {}]
  IN
  CASE b = "Escalate the scope" ->
         Then(issueRaw(d, childOf(d), [Child(d).cert.template EXCEPT !.scopes = {"admin"}],
                       Child(d).cert.spawn, {}),
              LAMBDA x : Outcome(Sound,
                dropInForcePolicy([x EXCEPT !.agents[childOf(x)].requested = {"admin"},
                                            !.policy = None], Child(x).id)))
    [] b = "Exceed max_children" -> ParentRaw(d, [u EXCEPT !.maxChildren = 0])
    [] b = "Spawn a non-whitelisted child" ->
         Then(ParentRaw(d, [u EXCEPT !.canSpawn = {}, !.maxChildren = 0]),
              LAMBDA x : setInForcePolicy(x, Parent(x).id, withoutTargets))
    [] b = "Parent may not spawn at all" -> ParentRaw(d, [u EXCEPT !.spawner = FALSE])
    [] b = "Policy in force omits the child" -> setInForcePolicy(d, Parent(d).id, withoutTargets)
    [] b = "MaxChildren above CanSpawn" -> ParentRaw(d, [u EXCEPT !.maxChildren = 5])
    [] b = "Widen policy past the ceiling" ->
         Then(EditPolicy(d, [d.policy EXCEPT !.scopes = {"admin"}]), resignPolicy)

AuthorityOutcome(b, d) ==
  LET p == d.policy IN
  CASE b = "Sign with one key only" -> EditPolicy(d, [p EXCEPT !.paSig = None])
    [] b = "One key, both roles" ->
         Then(Outcome(authorityKeys(d), [d EXCEPT !.authorities.paKey = d.authorities.ownerKey]),
              resignPolicy)
    [] b = "Tamper with the policy body" ->
         EditPolicy(d, [p EXCEPT !.ownerSig = Stale(@), !.paSig = Stale(@), !.hash = "fresh"])
    [] b = "Replay an old policy, bump version" ->
         EditPolicy([d EXCEPT !.current = 5], Edited(p, [p EXCEPT !.version = 6]))
    [] b = "Alter the stored hash only" -> EditPolicy(d, [p EXCEPT !.hash = "stale"])
    [] b = "Edit can_spawn via policy" ->
         EditPolicy(d, Edited(p, [p EXCEPT !.faults = @ \cup {"immutable"}]))
    [] b = "Submit as the wrong owner" ->
         EditPolicy(d, Edited(p, [p EXCEPT !.owner = "attacker"]))
    [] b = "Owner certificate does not match the template" ->
         Then(Then(issueRaw(d, childOf(d), [Child(d).cert.template EXCEPT !.owner = "another-owner"],
                            Child(d).cert.spawn, {}),
                   LAMBDA x : EditPolicy(x, [p EXCEPT !.owner = "another-owner"])),
              resignPolicy)
    [] b = "Alter an audit entry" ->
         Outcome(Sound, [d EXCEPT !.audit = IF @ = "intact" THEN "broken" ELSE @])

\* What the Registry ends in: Sound is an acceptance.  Its clock stands at the
\* instant it was rebuilt; the request's age is counted from the instant it is
\* made.  late: that was a second later, or more.
RegistryAnswer(b, d, late) ==
  LET c == Child(d)
      p == Parent(d)
      u == p.cert.template
      Asked(q) == templateOf(c) ++ attest(c.cert.template, d.authorities.ownerName) ++ templateOf(p)
                  ++ spawn(d, Targets(d, p.id), c.id, c.cert.template, u, None, q)
      inForce == inForceOf(d, p.id)
  IN fromDocument(d) ++
  CASE b = "Drop a REQUIRED template field" -> templateOf(c) ++ "ERR_TEMPLATE_NONCONFORMING"
    [] b = "Remove one attestation signature" -> Asked([request EXCEPT !.attested = FALSE])
    \* ttl_seconds = 60: the signatures verify over a body that said so already.
    [] b = "Edit a template after it was signed" ->
         Asked([request EXCEPT !.attested = c.cert.template.ttl = Minute])
    \* Refused as stale, and then as seen.
    [] b = "Replay the spawn request" -> Asked([request EXCEPT !.spent = TRUE])
    [] b = "Policy withdraws the spawn target" ->
         templateOf(p) ++ assertRequiredFields([inForce EXCEPT !.version = @ + 1])
         ++ assertWithinTemplateBounds([inForce EXCEPT !.targets = {}], u)
         ++ Require(inForce.version + 1 > Kept(d, p.id).version, "ERR_POLICY_VERSION")
         ++ templateOf(c) ++ attest(c.cert.template, d.authorities.ownerName)
         ++ spawn(d, {}, c.id, c.cert.template, u, None, request)
    \* A first spawn, and a second of the same child.
    [] b = "Exceed MaxChildren at the Registry" ->
         Asked(request) ++ Asked([request EXCEPT !.children = 1, !.live = TRUE])
    [] b = "Stale spawn timestamp (61 s)" -> Asked([request EXCEPT !.fresh = late])
    [] b = "Future spawn timestamp (61 s)" -> Asked([request EXCEPT !.fresh = FALSE])

\* What a press of b on document d may come to.
Pressed(b, d) ==
  CASE b = "Corrupt the certificate" -> Corrupted(d)
    [] b \in Allowed \cup Advisory -> {AllowedOutcome(b, d)}
    [] b \in OnCertificate \ {"Corrupt the certificate"} -> {CertificateOutcome(b, d)}
    [] b \in OnGrant -> {GrantOutcome(b, d)}
    [] b \in OnBounds -> {BoundsOutcome(b, d)}
    [] b \in OnAuthority -> {AuthorityOutcome(b, d)}
    [] b \in AtRegistry -> {Outcome(RegistryAnswer(b, d, late), d) : late \in BOOLEAN}

=============================================================================
