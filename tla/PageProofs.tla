----------------------------- MODULE PageProofs -----------------------------
(***************************************************************************)
(* Theorems about the page, over any texts a user may type and any number  *)
(* of presses and edits.                                                   *)
(***************************************************************************)
EXTENDS Page, TLAPS

-----------------------------------------------------------------------------
(***************************************************************************)
(* What a press leaves is a document, and no acceptance of a Registry.     *)
(***************************************************************************)

IsRecord(d) == d = [x \in DOMAIN d |-> d[x]]

LEMMA DocumentIsRecord ==
  ASSUME NEW d \in Document
  PROVE  IsRecord(d)
BY DEF Document, IsRecord

LEMMA EditPolicyRecord ==
  ASSUME NEW d, IsRecord(d), NEW edit
  PROVE  IsRecord(EditPolicy(d, edit).doc)
BY DEF EditPolicy, Outcome, IsRecord

LEMMA ResignPolicyRecord ==
  ASSUME NEW d, IsRecord(d)
  PROVE  IsRecord(resignPolicy(d).doc)
BY EditPolicyRecord DEF resignPolicy, Then, Outcome

LEMMA InForceRecord ==
  ASSUME NEW d, NEW a, NEW changes
  PROVE  IsRecord(setInForcePolicy(d, a, changes).doc)
BY DEF setInForcePolicy, Outcome, IsRecord

LEMMA ReissueRecord ==
  ASSUME NEW d, NEW i, NEW t, NEW grant
  PROVE  IsRecord(reissueThroughRegistry(d, i, t, grant).doc)
BY DEF reissueThroughRegistry, Outcome, IsRecord

LEMMA IssueRawRecord ==
  ASSUME NEW d, NEW i, NEW t, NEW provenance, NEW faults
  PROVE  IsRecord(issueRaw(d, i, t, provenance, faults).doc)
BY DEF issueRaw, Outcome, IsRecord

LEMMA SpawnAcrossRecord ==
  ASSUME NEW d, IsRecord(d), NEW changes
  PROVE  IsRecord(spawnAcrossOrganizations(d, changes).doc)
<1> DEFINE c == Child(d)
           t == [c.cert.template EXCEPT !.org = "partner"]
           grant == [id |-> newGrantId(d), template |-> c.id, grantor |-> "partner",
                     grantee |-> Parent(d).cert.template.org, scopes |-> t.scopes, maxSpawns |-> 3,
                     time |-> "current", ownerSig |-> d.authorities.ownerKey,
                     paSig |-> d.authorities.paKey, faults |-> {}]
           MovedUpdate(x) == IF x.policy = None THEN Outcome(Sound, x)
                             ELSE resignPolicy([x EXCEPT !.policy.org = "partner"])
           MovedInForce(x) == IF \A j \in DOMAIN x.policies : x.policies[j].subject # c.id
                              THEN Outcome(Sound, x) ELSE setInForcePolicy(x, c.id, [org |-> "partner"])
           Respawned(x) == reissueThroughRegistry(x, childOf(x), t, grant)
           Regranted(x) == Outcome(Sound, [x EXCEPT !.grant = Signed(x, changes @@ grant)])
           granted == Outcome(templateOf(c) ++ templateOf(Parent(d)) ++ authorityKeys(d),
                              [d EXCEPT !.grant = grant])
           spawned == Then(granted, Respawned)
           regranted == Then(spawned, Regranted)
           moved == Then(regranted, MovedUpdate)
<1>1. spawnAcrossOrganizations(d, changes) = Then(moved, MovedInForce)
  BY DEF spawnAcrossOrganizations
<1>2. IsRecord(granted.doc)
  BY DEF Outcome, IsRecord
<1>3. IsRecord(spawned.doc)
  BY <1>2, ReissueRecord DEF Then
<1>4. \A x : IsRecord(Regranted(x).doc)
  <2>1. \A x, e : IsRecord([x EXCEPT !.grant = e])
    BY DEF IsRecord
  <2> SUFFICES ASSUME NEW x PROVE IsRecord(Regranted(x).doc)
    OBVIOUS
  <2> DEFINE signed == Signed(x, changes @@ grant)
  <2>2. Regranted(x).doc = [x EXCEPT !.grant = signed]
    BY DEF Outcome
  <2> HIDE DEF Regranted, signed
  <2>3. IsRecord([x EXCEPT !.grant = signed])
    BY <2>1
  <2> QED
    BY <2>2, <2>3
<1>5. \A x : IsRecord(x) => IsRecord(MovedUpdate(x).doc)
  <2>1. \A x : IsRecord([x EXCEPT !.policy.org = "partner"])
    BY DEF IsRecord
  <2> QED
    BY <2>1, ResignPolicyRecord DEF Outcome
<1>6. \A x : IsRecord(x) => IsRecord(MovedInForce(x).doc)
  BY InForceRecord DEF Outcome
<1> HIDE DEF granted, Regranted, Respawned, MovedUpdate, MovedInForce
<1>7. IsRecord(regranted.doc)
  <2> HIDE DEF spawned
  <2> QED
    BY <1>3, <1>4 DEF Then
<1>8. IsRecord(moved.doc)
  <2> HIDE DEF regranted
  <2> QED
    BY <1>5, <1>7 DEF Then
<1> HIDE DEF moved
<1> QED
  BY <1>1, <1>6, <1>8 DEF Then

LEMMA AllowedRecord ==
  ASSUME NEW d, IsRecord(d), NEW b \in Allowed \cup Advisory
  PROVE  IsRecord(AllowedOutcome(b, d).doc)
<1>1. CASE b = "Reset the audit chain"
  BY <1>1 DEF AllowedOutcome, Outcome, IsRecord
<1>2. CASE b = "Narrow the parent to read-only"
  BY <1>2, ReissueRecord, InForceRecord DEF AllowedOutcome, Then
<1>3. CASE b = "Policy: revoke write access"
  BY <1>3, EditPolicyRecord, ResignPolicyRecord DEF AllowedOutcome, Then
<1>4. CASE b = "Re-issue the child, same bounds"
  BY <1>4, ReissueRecord DEF AllowedOutcome
<1>5. CASE b = "Spawn across organizations"
  BY <1>5, SpawnAcrossRecord DEF AllowedOutcome
<1>6. CASE b = "Child outlives its parent"
  BY <1>6, ReissueRecord DEF AllowedOutcome
<1> QED
  BY <1>1, <1>2, <1>3, <1>4, <1>5, <1>6 DEF Allowed, Advisory

LEMMA CorruptedRecord ==
  ASSUME NEW d, NEW outcome \in Corrupted(d)
  PROVE  IsRecord(outcome.doc)
BY DEF Corrupted, Outcome, IsRecord

\* Whatever the document, the Registry rebuilt from it refuses, but for the two
\* requests that may be accepted.
LEMMA RegistryRefuses ==
  ASSUME NEW d, NEW b \in AtRegistry, NEW late, ~MayAccept(b, d)
  PROVE  RegistryAnswer(b, d, late) # Sound
<1> DEFINE c == Child(d)
           p == Parent(d)
           u == p.cert.template
           Asked(q) == templateOf(c) ++ attest(c.cert.template, d.authorities.ownerName) ++ templateOf(p)
                       ++ spawn(d, Targets(d, p.id), c.id, c.cert.template, u, None, q)
<1>1. \A first, second : (first # Sound \/ second # Sound) => first ++ second # Sound
  BY DEF ++
<1>2. \A q : (q.spent \/ ~q.fresh \/ q.live \/ ~q.attested) => Asked(q) # Sound
  BY <1>1 DEF spawn, Require, Sound
<1>3. /\ [request EXCEPT !.attested = FALSE].attested = FALSE
      /\ [request EXCEPT !.spent = TRUE].spent = TRUE
      /\ [request EXCEPT !.children = 1, !.live = TRUE].live = TRUE
      /\ [request EXCEPT !.fresh = FALSE].fresh = FALSE
  BY DEF request
<1>4. \A t, v : spawn(d, {}, c.id, t, v, None, request) # Sound
  BY <1>1 DEF spawn, Require, Sound
<1>5. CASE b = "Edit a template after it was signed"
  <2> DEFINE same == c.cert.template.ttl = Minute
  <2>1. same = FALSE
    BY <1>5 DEF MayAccept
  <2>2. RegistryAnswer(b, d, late) = fromDocument(d) ++ Asked([request EXCEPT !.attested = same])
    BY <1>5 DEF RegistryAnswer
  <2>3. Asked([request EXCEPT !.attested = FALSE]) # Sound
    BY <1>2, <1>3
  <2> HIDE DEF Asked, same
  <2> QED
    BY <1>1, <2>1, <2>2, <2>3
<1>6. CASE b \in AtRegistry \ {"Edit a template after it was signed", "Stale spawn timestamp (61 s)"}
  <2> HIDE DEF Asked
  <2> QED
    BY <1>1, <1>2, <1>3, <1>4, <1>6 DEF RegistryAnswer, AtRegistry, Sound, Asked
<1> QED
  BY <1>5, <1>6 DEF MayAccept

LEMMA CertificateRecord ==
  ASSUME NEW d, IsRecord(d), NEW b \in OnCertificate \ {"Corrupt the certificate"}
  PROVE  IsRecord(CertificateOutcome(b, d).doc)
<1>1. \A fault : IsRecord(Flawed(d, fault).doc)
  BY IssueRawRecord DEF Flawed
<1>2. IsRecord(ForgedIssuer(d).doc)
  BY DEF ForgedIssuer, Outcome, IsRecord
<1>3. IsRecord(issueSecondChildWithNonce(d).doc)
  BY IssueRawRecord DEF issueSecondChildWithNonce
<1>4. CASE b \in {"Forge the issuer", "Expire the certificate", "Agent cert claims keyCertSign",
                  "Outlive the template TTL", "Drop the revocation pointer",
                  "Non-minimal serial number", "Oversized template extension",
                  "Duplicate nonce in the chain"}
  BY <1>1, <1>2, <1>3, <1>4 DEF CertificateOutcome
<1>5. CASE b = "Forge the parent link"
  BY <1>5 DEF CertificateOutcome, Outcome, IsRecord
<1>6. CASE b = "One identity, two certificates"
  BY <1>6 DEF CertificateOutcome, Outcome, IsRecord
<1>7. CASE b = "Revoke the parent"
  BY <1>7 DEF CertificateOutcome, Outcome, IsRecord
<1>8. CASE b = "Disable the template at the Registry"
  BY <1>8 DEF CertificateOutcome, Outcome, IsRecord
<1> QED
  BY <1>4, <1>5, <1>6, <1>7, <1>8 DEF OnCertificate

LEMMA GrantRecord ==
  ASSUME NEW d, IsRecord(d), NEW b \in OnGrant
  PROVE  IsRecord(GrantOutcome(b, d).doc)
<1> DEFINE spawned == spawnAcrossOrganizations(d, NoChanges)
<1>1. \A changes : IsRecord(spawnAcrossOrganizations(d, changes).doc)
  BY SpawnAcrossRecord
<1>2. IsRecord(spawned.doc)
  BY <1>1
<1>3. CASE b \in {"Expired grant", "Grant exceeds the template", "Grant allows no spawns"}
  BY <1>1, <1>3 DEF GrantOutcome
<1>4. CASE b = "Cross-org spawn with no grant"
  BY <1>2, <1>4 DEF GrantOutcome, Then, Outcome, IsRecord
<1>5. CASE b = "Remove one grant signature"
  BY <1>2, <1>5 DEF GrantOutcome, Then, Outcome, IsRecord
<1>6. CASE b = "Drop the grant's issued_at"
  BY <1>2, <1>6 DEF GrantOutcome, Then, Outcome, IsRecord
<1>7. CASE b = "Revoke the grant"
  BY <1>2, <1>7 DEF GrantOutcome, Then, Outcome, IsRecord
<1>8. CASE b = "Certificate omits the grant it was issued under"
  BY <1>2, <1>8, IssueRawRecord DEF GrantOutcome, Then
<1> QED
  BY <1>3, <1>4, <1>5, <1>6, <1>7, <1>8 DEF OnGrant

LEMMA BoundsRecord ==
  ASSUME NEW d, IsRecord(d), NEW b \in OnBounds
  PROVE  IsRecord(BoundsOutcome(b, d).doc)
<1>1. \A t : IsRecord(ParentRaw(d, t).doc)
  BY IssueRawRecord DEF ParentRaw
<1>2. CASE b = "Escalate the scope"
  <2>1. \A x, a : IsRecord(dropInForcePolicy(x, a))
    BY DEF dropInForcePolicy, IsRecord
  <2> QED
    BY <1>2, <2>1, IssueRawRecord DEF BoundsOutcome, Then, Outcome
<1>3. CASE b \in {"Exceed max_children", "Parent may not spawn at all", "MaxChildren above CanSpawn"}
  BY <1>1, <1>3 DEF BoundsOutcome
<1>4. CASE b = "Spawn a non-whitelisted child"
  BY <1>1, <1>4, InForceRecord DEF BoundsOutcome, Then
<1>5. CASE b = "Policy in force omits the child"
  BY <1>5, InForceRecord DEF BoundsOutcome
<1>6. CASE b = "Widen policy past the ceiling"
  BY <1>6, EditPolicyRecord, ResignPolicyRecord DEF BoundsOutcome, Then
<1> QED
  BY <1>2, <1>3, <1>4, <1>5, <1>6 DEF OnBounds

LEMMA AuthorityRecord ==
  ASSUME NEW d, IsRecord(d), NEW b \in OnAuthority
  PROVE  IsRecord(AuthorityOutcome(b, d).doc)
<1>1. \A edit : IsRecord(EditPolicy(d, edit).doc)
  BY EditPolicyRecord
<1>2. CASE b \in {"Sign with one key only", "Tamper with the policy body",
                  "Alter the stored hash only", "Edit can_spawn via policy",
                  "Submit as the wrong owner"}
  BY <1>1, <1>2 DEF AuthorityOutcome
<1>3. CASE b = "One key, both roles"
  <2>1. IsRecord([d EXCEPT !.authorities.paKey = d.authorities.ownerKey])
    BY DEF IsRecord
  <2> QED
    BY <1>3, <2>1, ResignPolicyRecord DEF AuthorityOutcome, Then, Outcome
<1>4. CASE b = "Replay an old policy, bump version"
  <2>1. IsRecord([d EXCEPT !.current = 5])
    BY DEF IsRecord
  <2> QED
    BY <1>4, <2>1, EditPolicyRecord DEF AuthorityOutcome
<1>5. CASE b = "Owner certificate does not match the template"
  BY <1>5, IssueRawRecord, EditPolicyRecord, ResignPolicyRecord DEF AuthorityOutcome, Then
<1>6. CASE b = "Alter an audit entry"
  BY <1>6 DEF AuthorityOutcome, Outcome, IsRecord
<1> QED
  BY <1>2, <1>3, <1>4, <1>5, <1>6 DEF OnAuthority

\* A press leaves a document, and one at the Registry ends in a refusal unless it
\* may be accepted.
LEMMA PressedOutcome ==
  ASSUME NEW d, IsRecord(d), NEW b \in Button, NEW outcome \in Pressed(b, d)
  PROVE  /\ IsRecord(outcome.doc)
         /\ b \in AtRegistry => outcome.code # Sound \/ MayAccept(b, d)
<1>1. CASE b = "Corrupt the certificate"
  <2>1. outcome \in Corrupted(d) /\ b \notin AtRegistry
    BY <1>1 DEF Pressed, Allowed, Advisory, OnCertificate, OnGrant, OnBounds, OnAuthority, AtRegistry
  <2> QED
    BY <2>1, CorruptedRecord
<1>2. CASE b \in Allowed \cup Advisory
  <2>1. outcome = AllowedOutcome(b, d) /\ b \notin AtRegistry
    BY <1>2 DEF Pressed, Allowed, Advisory, OnCertificate, OnGrant, OnBounds, OnAuthority, AtRegistry
  <2> QED
    BY <1>2, <2>1, AllowedRecord
<1>3. CASE b \in OnCertificate \ {"Corrupt the certificate"}
  <2>1. outcome = CertificateOutcome(b, d) /\ b \notin AtRegistry
    BY <1>3 DEF Pressed, Allowed, Advisory, OnCertificate, OnGrant, OnBounds, OnAuthority, AtRegistry
  <2> QED
    BY <1>3, <2>1, CertificateRecord
<1>4. CASE b \in OnGrant
  <2>1. outcome = GrantOutcome(b, d) /\ b \notin AtRegistry
    BY <1>4 DEF Pressed, Allowed, Advisory, OnCertificate, OnGrant, OnBounds, OnAuthority, AtRegistry
  <2> QED
    BY <1>4, <2>1, GrantRecord
<1>5. CASE b \in OnBounds
  <2>1. outcome = BoundsOutcome(b, d) /\ b \notin AtRegistry
    BY <1>5 DEF Pressed, Allowed, Advisory, OnCertificate, OnGrant, OnBounds, OnAuthority, AtRegistry
  <2> QED
    BY <1>5, <2>1, BoundsRecord
<1>6. CASE b \in OnAuthority
  <2>1. outcome = AuthorityOutcome(b, d) /\ b \notin AtRegistry
    BY <1>6 DEF Pressed, Allowed, Advisory, OnCertificate, OnGrant, OnBounds, OnAuthority, AtRegistry
  <2> QED
    BY <1>6, <2>1, AuthorityRecord
<1>7. CASE b \in AtRegistry
  <2>1. PICK late \in BOOLEAN : outcome = Outcome(RegistryAnswer(b, d, late), d)
    BY <1>7 DEF Pressed, Allowed, Advisory, OnCertificate, OnGrant, OnBounds, OnAuthority, AtRegistry
  <2> QED
    BY <1>7, <2>1, RegistryRefuses DEF Outcome
<1> QED
  BY <1>1, <1>2, <1>3, <1>4, <1>5, <1>6, <1>7 DEF Button, Sabotage

-----------------------------------------------------------------------------
(***************************************************************************)
(* The page: what the task will show, and what the panels show.            *)
(***************************************************************************)

Shown(result) ==
  result # None => /\ result.at \in {"parse", "issuance", "accepted", "pipeline"}
                   /\ result.at = "pipeline" => result.code # "THROWN"

\* What a task carries to its end.
TaskInv ==
  \/ task \in {Idle, Booting, Loading, Disabled}
  \/ /\ task.at = "applying"
     /\ IsRecord(task.outcome.doc)
     /\ pressed # <<>> /\ task.entry = Last(pressed)
     /\ task.entry \in AtRegistry => task.outcome.code # Sound \/ MayAccept(task.entry, before)
     /\ task.outcome.code = Sound => task.code = Verdict(task.outcome.doc)
  \/ /\ task.at = "verifying"
     /\ IsRecord(task.doc) /\ task.code = Verdict(task.doc)
     /\ ~dirty => editor = task.doc

EditorInv == editor # Unparseable => IsRecord(editor) /\ panels.doc = editor

\* No result is on its way.
Resting == task \in {Idle, Loading}

ShownInv ==
  /\ Shown(banner) /\ Shown(panels.result)
  /\ Resting => panels.result = banner

\* An acceptance on the screen is that of the last press, until the next begins.
AcceptedInv ==
  (Resting /\ banner # None /\ banner.at = "accepted") => MayAccept(Last(pressed), before)

VerdictInv ==
  (Resting /\ ~dirty /\ banner # None) =>
    (banner.at = "pipeline" =>
       banner.code \in {Verdict(editor), Verdict([editor EXCEPT !.audit = "missing"])})

CountInv ==
  /\ pressed \in Seq(Pressable) /\ edits \in 0..MaxEdits /\ dirty \in BOOLEAN

PageInv == TaskInv /\ EditorInv /\ ShownInv /\ AcceptedInv /\ CountInv /\ VerdictInv

\* The tasks are told apart by where they are.
LEMMA Tasks ==
  /\ Idle.at = "idle" /\ Loading.at = "loading" /\ Booting.at = "booting" /\ Disabled.at = "disabled"
  /\ \A t : t.at \in {"applying", "verifying"} => t \notin {Idle, Booting, Loading, Disabled}
  /\ Idle \notin {Booting, Loading, Disabled} /\ Loading \notin {Booting, Disabled}
BY DEF Idle, Loading, Booting, Disabled

LEMMA PublishOf ==
  ASSUME NEW text, NEW result, publish(text, result)
  PROVE  /\ panels'.result = result
         /\ text # Unparseable => panels'.doc = text
BY DEF publish

LEMMA SeedIsRecord == IsRecord(Seed)
<1>1. ASSUME NEW agents, NEW authorities, NEW policies, NEW policy
      PROVE
        IsRecord([chain |-> "array", wellFormed |-> TRUE, stray |-> FALSE, anchors |-> 1,
                  anchorFaults |-> {}, anchorRevoked |-> FALSE, agents |-> agents,
                  authorities |-> authorities, policies |-> policies, policy |-> policy, current |-> 1,
                  crl |-> "read", revoked |-> {}, disabled |-> {}, audit |-> "intact", grant |-> None])
  BY DEF IsRecord
<1> QED
  BY <1>1 DEF Seed

LEMMA WrittenRecord ==
  ASSUME NEW text, NEW d, text # Unparseable => IsRecord(text)
  PROVE  WrittenBack(text, d) # Unparseable => IsRecord(WrittenBack(text, d))
<1>1. \A a : IsRecord([text EXCEPT !.audit = a])
  BY DEF IsRecord
<1> QED
  BY <1>1 DEF WrittenBack

\* The verdict of a document with the audit chain its run leaves in it.
LEMMA WrittenVerdict ==
  ASSUME NEW d, IsRecord(d)
  PROVE  LET text == WrittenBack(d, d) IN
         Verdict(d) \in {Verdict(text), Verdict([text EXCEPT !.audit = "missing"])}
<1> DEFINE text == WrittenBack(d, d)
<1>1. [d EXCEPT !.audit = d.audit] = d
  BY DEF IsRecord
<1>2. CASE text = d
  BY <1>2
<1>3. CASE text # d
  <2>1. text = [d EXCEPT !.audit = Audited(d)] /\ Audited(d) # None
    BY <1>3 DEF WrittenBack
  <2>2. d.audit = "missing"
    BY <1>1, <1>3, <2>1 DEF Audited
  <2>3. [text EXCEPT !.audit = "missing"] = d
    BY <1>1, <2>1, <2>2 DEF IsRecord
  <2> QED
    BY <2>3
<1> QED
  BY <1>2, <1>3

LEMMA PageInit == Init => PageInv
<1> SUFFICES ASSUME Init PROVE PageInv
  OBVIOUS
<1>1. task = Booting /\ banner = None /\ panels.result = None /\ editor = Unparseable
  BY DEF Init
<1>2. CountInv
  <2>1. MaxEdits \in Nat
    BY PageAssumption
  <2>2. pressed = <<>> /\ edits = 0 /\ dirty = FALSE
    BY DEF Init
  <2>3. edits \in 0..MaxEdits
    BY <2>1, <2>2
  <2>4. <<>> \in Seq(Pressable)
    OBVIOUS
  <2>5. pressed \in Seq(Pressable)
    BY <2>2, <2>4
  <2> QED
    BY <2>2, <2>3, <2>5 DEF CountInv
<1> QED
  BY <1>1, <1>2, Tasks
     DEF PageInv, TaskInv, EditorInv, ShownInv, AcceptedInv, VerdictInv, Resting, Shown

LEMMA LoadedStep == PageInv /\ Loaded => PageInv'
<1> SUFFICES ASSUME PageInv, Loaded PROVE PageInv'
  OBVIOUS
<1>1. /\ editor' = Seed /\ panels'.doc = Seed /\ panels'.result = None /\ banner' = None
      /\ task' = Idle /\ pressed' = <<>> /\ edits' = 0 /\ dirty' = FALSE
  BY DEF Loaded, setDocument
<1>2. EditorInv' /\ ShownInv' /\ AcceptedInv' /\ TaskInv' /\ VerdictInv'
  BY <1>1, SeedIsRecord DEF EditorInv, ShownInv, AcceptedInv, TaskInv, VerdictInv, Resting, Shown
<1>3. CountInv'
  <2>1. MaxEdits \in Nat
    BY PageAssumption
  <2>2. edits' \in 0..MaxEdits
    BY <1>1, <2>1
  <2>3. <<>> \in Seq(Pressable)
    OBVIOUS
  <2>4. pressed' \in Seq(Pressable)
    BY <1>1, <2>3
  <2> QED
    BY <1>1, <2>2, <2>4 DEF CountInv
<1> QED
  BY <1>2, <1>3 DEF PageInv

LEMMA LoadFailedStep == PageInv /\ LoadFailed => PageInv'
<1> SUFFICES ASSUME PageInv, LoadFailed PROVE PageInv'
  OBVIOUS
<1>1. /\ task \in {Booting, Loading} /\ task' = IF task = Loading THEN Idle ELSE Disabled
      /\ UNCHANGED <<editor, panels, banner, pressed, before, edits, dirty>>
  BY DEF LoadFailed
<1>2. task' = Idle => task = Loading
  BY <1>1, Tasks
<1>3. ShownInv' /\ VerdictInv'
  BY <1>1, <1>2, Tasks DEF PageInv, ShownInv, VerdictInv, Resting, Shown
<1> QED
  BY <1>1, <1>2, <1>3, Tasks DEF PageInv, TaskInv, EditorInv, AcceptedInv, Resting, CountInv

LEMMA ReloadStep == PageInv /\ Reload => PageInv'
<1> SUFFICES ASSUME PageInv, Reload PROVE PageInv'
  OBVIOUS
<1>1. /\ editor' = Unparseable /\ panels'.result = None /\ edits' = 0 /\ dirty' = FALSE
      /\ task' = Booting /\ UNCHANGED <<banner, pressed, before>>
  BY DEF Reload
<1>2. CountInv'
  <2>1. MaxEdits \in Nat
    BY PageAssumption
  <2>2. edits' \in 0..MaxEdits
    BY <1>1, <2>1
  <2> QED
    BY <1>1, <2>2 DEF PageInv, CountInv
<1> QED
  BY <1>1, <1>2, Tasks
     DEF PageInv, TaskInv, EditorInv, ShownInv, AcceptedInv, VerdictInv, Resting, Shown

LEMMA TypeStep == PageInv /\ Type => PageInv'
<1> SUFFICES ASSUME PageInv, Type PROVE PageInv'
  OBVIOUS
<1>1. PICK text \in Typed : editor' = text /\ publish(text, panels.result)
  BY DEF Type
<1>2. /\ edits < MaxEdits /\ edits' = edits + 1 /\ dirty' = TRUE
      /\ UNCHANGED <<banner, task, pressed, before>>
  BY DEF Type
<1>3. text # Unparseable => IsRecord(text)
  BY PageAssumption, DocumentIsRecord
<1>4. panels'.result = panels.result /\ (text # Unparseable => panels'.doc = text)
  BY <1>1, PublishOf
<1>5. EditorInv' /\ ShownInv' /\ AcceptedInv'
  BY <1>1, <1>2, <1>3, <1>4 DEF PageInv, EditorInv, ShownInv, AcceptedInv, Resting, Shown
<1>6. TaskInv' /\ VerdictInv'
  BY <1>2 DEF PageInv, TaskInv, VerdictInv, Resting
<1>7. CountInv'
  <2>1. MaxEdits \in Nat /\ edits \in 0..MaxEdits
    BY PageAssumption DEF PageInv, CountInv
  <2>2. edits' \in 0..MaxEdits
    BY <1>2, <2>1
  <2> QED
    BY <1>2, <2>2 DEF PageInv, CountInv
<1> QED
  BY <1>5, <1>6, <1>7 DEF PageInv

LEMMA RefuseTextStep ==
  ASSUME PageInv, task = Idle, RefuseText, UNCHANGED <<pressed, edits>>
  PROVE  PageInv'
<1>1. /\ Show(Result("parse", "ERR_MALFORMED_JSON")) /\ dirty' = FALSE /\ UNCHANGED editor /\ task' = Idle
  BY DEF RefuseText
<1>2. /\ banner' = Result("parse", "ERR_MALFORMED_JSON") /\ banner'.at = "parse"
      /\ panels'.result = banner' /\ (editor # Unparseable => panels'.doc = editor)
  BY <1>1, PublishOf DEF Show, Result
<1>3. EditorInv' /\ ShownInv' /\ CountInv'
  BY <1>1, <1>2 DEF PageInv, EditorInv, ShownInv, CountInv, Resting, Shown
<1>4. TaskInv' /\ VerdictInv'
  BY <1>1, <1>2 DEF TaskInv, VerdictInv, Resting
<1>5. AcceptedInv'
  BY <1>2 DEF AcceptedInv
<1> QED
  BY <1>3, <1>4, <1>5 DEF PageInv

LEMMA ValidateStep == PageInv /\ Validate => PageInv'
<1> SUFFICES ASSUME PageInv, Validate PROVE PageInv'
  OBVIOUS
<1>1. CASE RefuseText
  BY <1>1, RefuseTextStep DEF Validate
<1>2. CASE editor # Unparseable /\ StartVerify(editor, Verdict(editor)) /\ UNCHANGED <<editor, panels, banner>>
  <2>1. /\ task'.at = "verifying" /\ task'.doc = editor /\ task'.code = Verdict(editor)
        /\ dirty' = FALSE /\ UNCHANGED <<editor, panels, banner, pressed, before, edits>>
    BY <1>2 DEF Validate, StartVerify, Verifying
  <2>2. TaskInv' /\ EditorInv'
    BY <1>2, <2>1 DEF PageInv, TaskInv, EditorInv
  <2>3. ~Resting'
    BY <2>1, Tasks DEF Resting
  <2> QED
    BY <2>1, <2>2, <2>3 DEF PageInv, ShownInv, AcceptedInv, CountInv, VerdictInv, Shown
<1> QED
  BY <1>1, <1>2 DEF Validate

LEMMA PressStep ==
  ASSUME PageInv, NEW entry \in Pressable, Press(entry)
  PROVE  PageInv'
<1>1. CASE RefuseText /\ UNCHANGED <<pressed, before>>
  BY <1>1, RefuseTextStep DEF Press
<1>2. CASE ~(RefuseText /\ UNCHANGED <<pressed, before>>)
  <2>1. PICK outcome \in Pressed(entry, editor) :
          task' = Applying(entry, outcome,
                    IF outcome.code = Sound THEN Verdict(outcome.doc) ELSE outcome.code)
    BY <1>2 DEF Press
  <2>2. /\ editor # Unparseable /\ pressed' = Append(pressed, entry) /\ before' = editor
        /\ UNCHANGED <<editor, panels, banner, dirty, edits>>
    BY <1>2 DEF Press
  <2>3. /\ task'.at = "applying" /\ task'.entry = entry /\ task'.outcome = outcome
        /\ outcome.code = Sound => task'.code = Verdict(outcome.doc)
    BY <2>1 DEF Applying
  <2>4. IsRecord(outcome.doc) /\ (entry \in AtRegistry => outcome.code # Sound \/ MayAccept(entry, editor))
    <3>1. IsRecord(editor) /\ entry \in Button
      BY <2>2, PageAssumption DEF PageInv, EditorInv
    <3> QED
      BY <3>1, PressedOutcome
  <2>5. pressed' \in Seq(Pressable) /\ pressed' # <<>> /\ Last(pressed') = entry
    <3>1. /\ pressed' \in Seq(Pressable) /\ Len(pressed') = Len(pressed) + 1
          /\ Len(pressed) \in Nat /\ pressed'[Len(pressed) + 1] = entry
      BY <2>2 DEF PageInv, CountInv
    <3>2. Last(pressed') = entry
      BY <3>1 DEF Last
    <3>3. pressed' # <<>>
      BY <3>1
    <3> QED
      BY <3>1, <3>2, <3>3
  <2>6. TaskInv' /\ EditorInv'
    BY <2>2, <2>3, <2>4, <2>5 DEF PageInv, TaskInv, EditorInv
  <2>7. ~Resting'
    BY <2>3, Tasks DEF Resting
  <2>8. CountInv'
    BY <2>2, <2>5 DEF PageInv, CountInv
  <2> QED
    BY <2>2, <2>6, <2>7, <2>8 DEF PageInv, ShownInv, AcceptedInv, VerdictInv, Shown
<1> QED
  BY <1>1, <1>2

LEMMA AnsweredStep == PageInv /\ Answered => PageInv'
<1> SUFFICES ASSUME PageInv, Answered PROVE PageInv'
  OBVIOUS
<1>1. /\ task.at = "applying" /\ Show(IssuanceResult(task.outcome.code)) /\ task' = Idle
      /\ UNCHANGED <<editor, pressed, before, edits, dirty>>
      /\ task.outcome.code # Sound \/ MayAccept(Last(pressed), before)
  BY Tasks DEF Answered, PageInv, TaskInv
<1>2. /\ IssuanceResult(task.outcome.code).at \in {"accepted", "issuance"}
      /\ IssuanceResult(task.outcome.code).at = "accepted" => task.outcome.code = Sound
      /\ banner' = IssuanceResult(task.outcome.code)
      /\ panels'.result = banner' /\ (editor # Unparseable => panels'.doc = editor)
  BY <1>1, PublishOf DEF Show, IssuanceResult, Result
<1>3. EditorInv' /\ ShownInv' /\ CountInv'
  BY <1>1, <1>2 DEF PageInv, EditorInv, ShownInv, CountInv, Resting, Shown
<1>4. TaskInv' /\ VerdictInv'
  BY <1>1, <1>2 DEF TaskInv, VerdictInv
<1>5. AcceptedInv'
  BY <1>1, <1>2 DEF AcceptedInv
<1> QED
  BY <1>3, <1>4, <1>5 DEF PageInv

LEMMA AppliedStep == PageInv /\ Applied => PageInv'
<1> SUFFICES ASSUME PageInv, Applied PROVE PageInv'
  OBVIOUS
<1>1. /\ task.at = "applying" /\ task.outcome.code = Sound
      /\ editor' = task.outcome.doc /\ panels'.doc = editor' /\ panels'.result = None
      /\ task'.at = "verifying" /\ task'.doc = editor' /\ task'.code = task.code /\ dirty' = FALSE
      /\ UNCHANGED <<banner, pressed, before, edits>>
  BY DEF Applied, setDocument, StartVerify, Verifying
<1>2. IsRecord(editor') /\ task.code = Verdict(task.outcome.doc)
  BY <1>1, Tasks DEF PageInv, TaskInv
<1>3. TaskInv' /\ EditorInv'
  BY <1>1, <1>2 DEF TaskInv, EditorInv
<1>4. ~Resting'
  BY <1>1, Tasks DEF Resting
<1> QED
  BY <1>1, <1>3, <1>4 DEF PageInv, ShownInv, AcceptedInv, CountInv, VerdictInv, Shown

LEMMA VerifiedStep == PageInv /\ Verified => PageInv'
<1> SUFFICES ASSUME PageInv, Verified PROVE PageInv'
  OBVIOUS
<1>1. /\ task.at = "verifying" /\ task' = Idle
      /\ editor' = IF task.code = "THROWN" THEN editor ELSE WrittenBack(editor, task.doc)
      /\ banner' = Answer(task.code) /\ publish(editor', Answer(task.code))
      /\ UNCHANGED <<pressed, edits, dirty>>
  BY DEF Verified
<1>2. task.code = Verdict(task.doc) /\ IsRecord(task.doc) /\ (~dirty => editor = task.doc)
  BY <1>1, Tasks DEF PageInv, TaskInv
<1>3. /\ banner'.at \in {"parse", "pipeline"} /\ Shown(banner')
      /\ banner'.at = "pipeline" => task.code # "THROWN" /\ banner'.code = task.code
  BY <1>1 DEF Answer, Result, Shown
<1>4. panels'.result = banner' /\ (editor' # Unparseable => panels'.doc = editor')
  BY <1>1, PublishOf
<1>5. editor' # Unparseable => IsRecord(editor')
  BY <1>1, WrittenRecord DEF PageInv, EditorInv
<1>6. TaskInv' /\ EditorInv' /\ ShownInv' /\ AcceptedInv' /\ CountInv'
  BY <1>1, <1>3, <1>4, <1>5
     DEF PageInv, TaskInv, EditorInv, ShownInv, AcceptedInv, CountInv, Resting, Shown
<1>7. VerdictInv'
  <2> SUFFICES ASSUME ~dirty', banner'.at = "pipeline"
               PROVE  banner'.code \in {Verdict(editor'), Verdict([editor' EXCEPT !.audit = "missing"])}
    BY DEF VerdictInv
  <2>1. editor = task.doc /\ editor' = WrittenBack(task.doc, task.doc) /\ banner'.code = Verdict(task.doc)
    BY <1>1, <1>2, <1>3
  <2> QED
    BY <1>2, <2>1, WrittenVerdict
<1> QED
  BY <1>6, <1>7 DEF PageInv

LEMMA PageStep == PageInv /\ [Next]_vars => PageInv'
<1> SUFFICES ASSUME PageInv, [Next]_vars PROVE PageInv'
  OBVIOUS
<1>1. CASE ResetCerts
  <2>1. task = Idle /\ task' = Loading /\ UNCHANGED <<editor, panels, banner, pressed, before, edits, dirty>>
    BY <1>1 DEF ResetCerts
  <2> QED
    BY <2>1, Tasks
       DEF PageInv, TaskInv, EditorInv, ShownInv, AcceptedInv, CountInv, VerdictInv, Resting, Shown
<1>2. CASE UNCHANGED vars
  BY <1>2
     DEF vars, PageInv, TaskInv, EditorInv, ShownInv, AcceptedInv, CountInv, VerdictInv, Resting, Shown
<1> QED
  BY <1>1, <1>2, LoadedStep, LoadFailedStep, ReloadStep, TypeStep, ValidateStep, PressStep, AnsweredStep, AppliedStep, VerifiedStep
     DEF Next, Settle

LEMMA PageAlways == Spec => []PageInv
<1> QED
  BY PageInit, PageStep, PTL DEF Spec

\* TypeOK: every variable has its type, whatever is typed and pressed.
THEOREM TypeOKAlways == Spec => []TypeOK
<1>1. PageInv => TypeOK
  <2> SUFFICES ASSUME PageInv PROVE TypeOK
    OBVIOUS
  <2>1. task.at \in {"idle", "booting", "loading", "disabled", "applying", "verifying"}
    BY Tasks DEF PageInv, TaskInv
  <2> QED
    BY <2>1 DEF PageInv, ShownInv, CountInv, Shown, TypeOK
<1> QED
  BY <1>1, PageAlways, PTL

\* PanelsAgree: when nothing runs the panels show the banner's result, and the text
\* on the screen if it parses; of which text the result is, StableVerdict says.
THEOREM PanelsAgreeAlways == Spec => []PanelsAgree
<1>1. PageInv => PanelsAgree
  BY DEF PageInv, ShownInv, EditorInv, Resting, PanelsAgree
<1> QED
  BY <1>1, PageAlways, PTL

\* StableVerdict: the verdict on the screen is that of the text on the screen,
\* with the audit chain the run wrote into it or without one.
THEOREM StableVerdictAlways == Spec => []StableVerdict
<1>1. PageInv => StableVerdict
  BY DEF PageInv, VerdictInv, Resting, StableVerdict
<1> QED
  BY <1>1, PageAlways, PTL

\* RefusedAtIssuance: of what the REGISTRY buttons ask, the Registry rebuilt from
\* a document accepts at most the request dated 61 s ago, and the edit that sets
\* a ttl of sixty seconds to sixty seconds.
THEOREM RefusedAtIssuanceAlways == Spec => []RefusedAtIssuance
<1>1. PageInv => RefusedAtIssuance
  BY DEF PageInv, AcceptedInv, Resting, RefusedAtIssuance
<1> QED
  BY <1>1, PageAlways, PTL

\* EditsSurviveValidation: a run that ends changes the audit chain of the text on
\* the screen and nothing else, also of a text typed while it ran.
THEOREM EditsSurviveValidationAlways == Spec => EditsSurviveValidation
<1>1. PageInv /\ [Next]_vars =>
        [(task.at = "verifying" /\ task' = Idle /\ editor' # editor)
           => editor' = [editor EXCEPT !.audit = editor'.audit]]_vars
  <2> SUFFICES ASSUME PageInv, Next, task.at = "verifying", task' = Idle, editor' # editor
               PROVE  editor' = [editor EXCEPT !.audit = editor'.audit]
    BY DEF vars
  <2>1. Verified
    <3>1. task \notin {Idle, Booting, Loading, Disabled}
      BY Tasks
    <3>2. ~Type
      BY <3>1 DEF Type
    <3> QED
      BY <3>1, <3>2 DEF Next, Settle, Loaded, LoadFailed, Answered, Applied, Reload, ResetCerts, Validate,
                        Press
  <2>2. PICK audit : editor' = [editor EXCEPT !.audit = audit]
    BY <2>1 DEF Verified, WrittenBack
  <2>3. editor # Unparseable /\ IsRecord(editor)
    BY <2>1 DEF Verified, WrittenBack, PageInv, EditorInv
  <2> QED
    BY <2>2, <2>3 DEF IsRecord
<1> QED
  BY <1>1, PageAlways, PTL DEF Spec, EditsSurviveValidation

=============================================================================
