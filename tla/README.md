# A formal model of the A2A trust playground

`src/` is a browser page that plays every party of a delegation protocol between
agents: a certification authority, a Template Registry that spawns agents, and a
relying party that decides whether a chain document is authorized. Everything is
written in JavaScript over Web Crypto; there is no server. These modules model the
parts in which something can go wrong that a unit test would hardly reach.

Run a check with `tlc -config MCRegistry_counts.cfg MCRegistry` and a proof with
`tlapm RegistryProofs.tla`.

## 1. The system

### Components, their state and operations

| Component | Source | State | Operations |
|---|---|---|---|
| Registry | `src/mint.js` | `seenNonces`, `policies`, `live`, `children`, `grantSpawns`, `audit`, keys | `create`, `attest`, `issue`, `adoptPolicy`, `adoptEnvelope`, `spawn`, `fromDocument` |
| Audit chain | `src/audit-chain.js` | the array of entries | `append`, `verify`, `assertEntries`, `toJSON`, `fromJSON` |
| Verification pipeline | `src/pipeline.js` | per run: `stages`, `walk`, `completed`, `verdict` | `runPipeline` |
| Grant and bounds checks | `src/bounds.js` | none | `validateGrant`, `assertNotRevoked`, `assertSpawnPermitted`, `assertSpawnInPolicy`, `assertScopeSubset` |
| Policy updates | `src/policy.js` | none | `validatePolicyUpdate` and the checks it makes |
| X.509 profile | `src/x509.js`, `src/x509-explain.js` | none | `validateAnchor`, `validateCertificate`, the template and spawn extensions |
| Error catalogue | `src/errors.js` | none | code to stage and clause |
| Input validation | `src/validate-input.js`, `src/locate.js` | none | strict JSON, field validators, finding the offending line |
| Canonical form, signatures | `src/canonical.js`, `src/crypto-sign.js`, `src/encoding.js` | none | JCS, hashes, signing |
| Page | `src/app.js`, `src/page.html` | editor text, last result, busy flag | verify, the allowed operations, the sabotages, the audit view |
| Scenarios, seed | `src/scenarios.js`, `src/defaults.js` | none | build and alter a chain document |

### How they interact

The page holds one chain document as text. A button parses it, alters it (often by
`Registry.fromDocument`, a call of `issue` or `spawn`, and writing the certificate
back), and serializes it. *Verify* parses it and calls `runPipeline`, which rebuilds
an `AuditChain` from the document, calls `validateAnchor`, `validateCertificate`,
`validateGrant` and `validatePolicyUpdate`, appends one entry, and returns the export
whose audit chain the page writes back into the editor. The Registry appends to an
`AuditChain` of its own.

### What is hard here

* Every method of the Registry awaits Web Crypto in the middle: the summaries it
  compares (`children`, `live`, `grantSpawns`, the version in force) are read before
  an await and written after it. Within the repository every caller awaits, so the
  interesting questions are what that buys, and what still holds without it.
* `fromDocument` is a restart that forgets the nonces, the counts and the live set.
* `append` reads the head before it hashes and pushes after; its chain is text that
  its holder may edit between two calls, and nobody signs it.
* The editor's textarea is never disabled: a user may type while a document is minted,
  changed or validated, and a validation writes its audit chain into whatever text is
  there when it ends. A button acts on the document the last one left.
* The text is read by a parser written for this page, and certificates carry octets that
  are decoded to a text before they are compared with its canonical form.
* `runPipeline` is some twenty blocks of checks that must agree on a verdict, two
  reports (the rows by stage, the walk by subject) that are filled in different
  orders, and a catch block that records the refusal and may fail itself.

### What makes each component correct

* Registry: a nonce is evaluated once; no parent has more children certified than
  MaxChildren, no grant more certificates than MaxSpawns; no subject a certificate
  beside a live one; every certificate issued under a policy then in force; versions
  rise; every evaluated request is logged; the three summaries stand for the ledger
  of certificates they summarize.
* Audit chain: `verify` names the first place that departs from what was appended;
  an entry that has a hash of the log answers for all that led to it; `append` does not
  hide a break.
* Pipeline: PASS exactly for a conforming document; a throw is a DENY; rows, walk and
  audit entry agree with the verdict; containment of scopes follows across
  generations; it ends.
* Page: each button of a fresh page is answered with its documented code; the verdict
  shown is that of the text shown; typing survives a validation; the Registry accepts
  nothing a button was made to have refused; a click ends, though what it started fails.
* Input and profile: the reader accepts the grammar and nothing else and its first
  refusal stands; one object has one encoding as a text; a serial keeps the bits it was given;
  a certificate is refused for its own flaw, and never answered about content its
  anchor did not sign.

`PROJECT.json` lists the hazards, each at its line, with the properties aimed at it.

## 2. The modules

| Module | What it is |
|---|---|
| `RegistryData` | templates, grants, policies, certificates, and the assumptions on the constants |
| `Registry` | the Registry object and its outstanding calls |
| `RegistryLedger` | what the Registry promises, with no counts and no awaits |
| `RegistryProofs` | theorems of `Registry` for calls in any interleaving: its types, the nonces, grants and log |
| `RegistryLedgerProofs` | theorems of `Registry` for clients that await: what issuance checked still holds when it ends, and the refinement of `RegistryLedger` |
| `MCRegistry` | small Registries |
| `AuditChain`, `MCAuditChain` | the chain, its writers and its editors |
| `AuditChainProofs` | theorems of `AuditChain` |
| `ChainDocument` | the document and the validators of its parts |
| `Stages` | the answer of each block of `runPipeline`, and `Verdict`, which puts them together |
| `Pipeline`, `MCPipeline` | one run of `runPipeline`; documents for it |
| `PipelineProofs` | theorems of `Pipeline`, and of the blocks of `Stages` they rest on |
| `Scenarios` | `src/scenarios.js`: what a step of a button does to a document, through a rebuilt Registry or around it |
| `Buttons` | every entry of ALLOWED, ADVISORY and SABOTAGE as a sequence of those steps |
| `Page`, `MCPage` | the editor, the panels, the banner and the task in flight |
| `PageProofs` | theorems of `Page`, over every button of `Buttons` |
| `StrictJson` | `parseJsonStrict`, `parseDocument` |
| `Profile` | `issueCertificate`, `serialNumber`, `canonicalize`, `validateCertificate` check by check |
| `Inputs`, `MCInputs` | texts and certificates that reach `StrictJson` and `Profile` |
| `ReaderProofs` | theorems about `parseJsonStrict`: what it accepts, and that its refusals stand |
| `DocumentProofs` | the theorem about `parseDocument`: what an accepted document names |
| `ProfileProofs` | theorems about serials, extensions and the order of the checks |

`ChainDocument` is extended by `Stages`, and `Stages` by both `Pipeline` (the run, block
by block) and `Scenarios`; `Buttons` extends `Scenarios` and `Page` extends `Buttons`.
`StrictJson` is extended by `Profile` and `Profile` by `Inputs`; `ReaderProofs` extends
`Inputs`, `DocumentProofs` extends `ReaderProofs` and `ProfileProofs` `DocumentProofs`.

### Registry

A JavaScript method runs without interruption up to its next `await`; one action is
one such segment. `pc[r]` is where call `r` is, and what a segment keeps in local
variables is in `kids`, `under`, `now` and `prev`.

| Code | Actions |
|---|---|
| `spawn` | `SpawnTurnedAway` (refused before the `try`), `SpawnPresented` (to `validateGrant`, or straight to `issue`), `GrantValidated`, `SpawnIssues` (the certificate exists), `SpawnCounts` (`children.set`, `grantSpawns.set`, the log) |
| `issue` | `IssueCalled`, `IssueSigned` |
| `adoptPolicy`, `adoptPolicyFor` | `AdoptCalled`, `PolicySigned` |
| `AuditChain.append` within them | `Log` begins it, `EntryHashed` pushes |
| `fromDocument`, `adoptEnvelope` | `fromDocument` |
| the caller's `now` | `Tick` |

`children.get(p) ?? new Set()` yields an object that two calls may share or may each
have made, so `children` maps a parent to the call that made its Set and `kidSet`
holds the contents. `certs` and `signed` are history. Signatures are unforgeable: an
attested template is sound, nonconforming or unsigned. `Serialized` chooses between a
client that awaits each call and one that does not.

`RegistryLedger` is the abstract Registry: a set of certificates and the policies in
force, a spawn one atomic step. `ImplementsLedger` maps the code's state to it by
identity on `certs`, `policies` and `signed`; the summaries, the awaits and the log
disappear.

Left out: key generation (`create`, `attest`), and the content of an entry beyond its
outcome and link. `PolicyRefusal` applies the bound of section 8.3 to every adoption:
the code does when it knows the subject's template, and every caller in `src/` gives it
(`app.js:915`, `mint.js:605`). The refusals `issue` may end in, and those of
`validateGrant`, are one code each, since no property of the Registry tells them apart.

What the ledger does not say is when a request is fresh: the boundary of a certificate's
life is part of it, that of the freshness window is a guard of the code only.

### Audit chain

A digest is the pair it was computed from (SHA-256 is taken as injective). `append`
is `AppendCalled` and `AppendHashed`. `fromJSON` takes any array of entries, so the edits
of the document rewrite any member of any entry (`Alter` its content, `Relink` its
`previous_hash`, `Rehash` its `entry_hash`) and move entries about (`Remove`, `Insert`,
`Reset`). A hash that is written is one the holder can come by (`Known`): one the chain
shows, or one he computes from an entry as it stands. `Alter` and `Reset` are buttons of
the page, the others are an editor's.

A holder who alters an entry and then relinks and rehashes all that follow has a chain
that verifies: `verify` has nothing to compare it with. So the two properties speak of the
hashes of the log. `TamperNamed` is of a chain that holds no other: `verify` names its
first departure from what was appended. `CommittedIsGenuine` is of any chain: if it
verifies, an entry with the hash of one of the log stands where that one stood, behind the
log's entries.

### Pipeline

`ChainDocument` reduces a document to what decisions turn on. What relates two parts
(a child and its parent, a grant and its template, a policy and its subject's
template) is computed; what concerns one certificate or envelope by itself (its
signature, its dates) is a member of its `faults`, and `validateCertificate` and
`validateAnchor` are the sequences of refusals in the order of the checks. `Profile`
says what each of a certificate's faults is.

`Pipeline` has one action for each block of `runPipeline`, and one step for each agent of the
block that walks the agents: `Load` (`AuditChain.fromJSON`, before the `try`),
`CheckStructure`, `CheckAnchor`, `CheckAgent`, `CheckLinks`, `CheckAuthorities`,
`CheckGrant`, `CheckUpdate` (stages 4 to 6), `CheckSpawns` (7), `CheckScopes` (8),
`CheckAudit` (9), `Unexpected` (a throw nobody foresaw) and `Catch`. `Record` and
`Step` are the two rules by which a row is kept or replaced. What a block answers is in
`Stages`, so that `Page` asks for the same verdict without the rows.

Left out: titles, details and banners, and the export object (with it `chain_valid`,
which is exported as true for a run refused before `verify` was called,
`pipeline.js:562`).

### Scenarios, buttons and the page

An operator of `Scenarios` or `Buttons` takes a document to an `Outcome`: a document and
the refusal it stopped with, if any. `fromDocument` there is the check of the policies a
document carries, and `spawn` the refusals of one call on a Registry so rebuilt. An agent
is known there by the id of its node, where `scenarios.js` and `app.js` read the subject
of its template: `issue` makes the two equal, and no button renames a node. A key that
cannot be imported is left out.

| Code | Actions of `Page` |
|---|---|
| `loadDefaults`, at boot and for Reset Certs | `ResetCerts`, `Loaded`; `LoadFailed`, which leaves the controls disabled at boot (no `finally`, `app.js:1195`); `Reload` |
| a click that reads a document, awaits `apply`, and awaits `verify` | `Press`; `Answered` (a REGISTRY button, or an `apply` that refused) or `Applied` (the document is replaced and the run begins); `Verified` |
| Validate | `Validate`, `Verified`; a text that does not parse is refused at once (`RefuseText`) |
| the textarea's input event | `Type`, at any time, also during the others |

`panels` is `busState` (the last good parse and the result beside it) and `banner` what
`renderVerdict` or `renderIdle` showed last. `verify` reads the editor when it starts and
again to write the audit chain back. The verdict of a run is computed when it starts: its
input is a value by then.

A request's age is taken when it is made and compared with a clock that stopped when
the Registry was rebuilt (`mint.js:429`, `657`), so `RegistryAnswer` has an input `late`: a
second has passed in between, and a timestamp 61 s old counts as 60. A ttl is sixty
seconds (`Minute`, what *Edit a template after it was signed* writes) or one of the two
the seed is minted with. `before` is history: the document the last button was pressed on.

Abstractions: every `apply` is taken to yield before its document is written; the names a
Reset mints are not told apart; typing leaves one of a few texts; Web Crypto fails in a
load only; the ERR_INTERNAL that `runSabotage` shows when the Registry accepts a request
is marked `accepted` (`IssuanceResult`), so that it is told from an unexpected failure; the
character *Corrupt the certificate* changes is outside the values of the template, and its
effect is any a flipped character has there but a DER structure that no longer parses.

### Input and profile

A text is a sequence of tokens: punctuation, strings (two spellings of one name are two
tokens), one integer, one other scalar. The descent of `parseJsonStrict` is two recursive
functions: `parseValue` gives, for each number of levels that may still nest, the value
read at each place of the text, from the values one level further in; `parts` is the loop
of one object or array, a turn of which is `member` or `item`. `canonicalize` and
`assertNoForbiddenKeys` go level by level in the same way.

`Arrive` adds a token to the text. Who writes it knows the grammar and nothing of the
reader: after any text any token may come, and a text that has left the grammar
(`Astray`) ends soon. `Issue` makes a certificate with the options `spawn` or a button
uses and any draw of the serial; `Change` alters one part of it, as its issuer before
signing or as a carrier after.

The octets of an extension are decoded as UTF-8. `decode` is what that is for octets
cut into tokens: the identity, but for a byte order mark (`MARK`) in the first place, which
`TextDecoder` drops (`x509.js:536`).

A template is its subject member in `Profile`, so that its content is a text `StrictJson`
reads; the rules of its other members are left out, and the spawn extension, decoded in
the same way, is in the list `ChainDocument` walks only. The anchor is sound there.

## 3. The runs

| Run | Checks |
|---|---|
| `counts` | With clients that await, and restarts: `TypeOK`, `MaxChildrenHeld`, `MaxSpawnsHeld`, `ChildrenRecorded`, `AuditLinked`, `OneLiveCertificate`, `SpawnUnderPolicyInForce`, `PolicyNeverRegresses`, and `ImplementsLedger`, the refinement of `RegistryLedger` |
| `refusals` | Overlapping calls, every refusal: `EventuallyAudited`, `NonceSpentOnce`, `AuditAccounts`, `GrantCountExact` |
| `chain` | Two overlapping writers and an editor of any member: `TypeOK`, `TamperNamed`, `CommittedIsGenuine`, `AppendKeepsBreak` |
| `verdicts` | Documents one change or two from conforming: `TypeOK`, `VerdictSound`, `NoEscalation`, `OneDenial`, `WalkBlames`, `OneEntry`, `EventuallyDecided` |
| `page` | All buttons, one after another, typing in between: `TypeOK`, `DocumentedRefusal`, `RefusedAtIssuance`, `StableVerdict`, `PanelsAgree`, `EditsSurviveValidation`, `ClickSettles` |
| `inputs` | Texts and certificates: `TypeOK`, `ReaderAgrees`, `RefusalStands`, `DocumentSafe`, `OneEncoding`, `SerialKeepsTheDraw`, `FlawsAreNamed`, `ContentIsTheAnchors` |

Six further runs state what a comment, a label or a test says and show the code does
otherwise.

| Run | What it shows |
|---|---|
| `overspawn` | `mint.js:740` says the count is compared "atomically with recording the child". Two overlapping spawns of one parent both pass it, because issuance is awaited in between. |
| `rollback` | `mint.js:573` says a version that does not supersede is refused. Of two overlapping adoptions the lower may be set last. |
| `throws` | `pipeline.js:97` says "never throws". An audit member that is no array of entries throws at line 111, before the `try`. The page catches it. |
| `staysvalid` | `app.js:1297` labels *Re-issue the child, same bounds* "stays valid". After *Spawn across organizations* it is refused with ERR_GRANT_MISSING: it hands `reissueThroughRegistry` no grant. |
| `refuses` | `app.js:816` says "Every other button here produces a refusal". *Replay an old policy, bump version* writes version 6; after *Policy: revoke write access* has raised the update to 6 that changes nothing, and the document passes. |

| `marked` | `x509.js:515` says an extension is accepted only if it is "byte-identical to its own canonical form". One with a byte order mark before it is accepted too: the comparison is of texts. |

The overlap of `overspawn` also breaks `OneLiveCertificate` and `AuditLinked` when
clients do not await; the properties are stated for those that do. `counts` says that
nothing of the kind goes wrong for such clients; what an overlap does is shown by
`overspawn` and `rollback`, and what survives it by `refusals`.

### Bounds, and why they are enough

* Registry: three calls per object (two in `refusals`, which has a wider cast of
  requests instead), two orchestrators of MaxChildren 1 and 2, a home worker and a
  partner's, one grant for one spawn, a ttl of one and a clock up to one (`MaxTime`; two
  in `refusals`, none in `overspawn` and `rollback`, which need no time to pass). A cap of one
  is exceeded by the second spawn, a Set object shared by the first two is lost by the
  third, and a certificate expires within the clock; `fromDocument` frees the calls,
  so a behaviour is not limited to three. Calls are interchangeable (symmetry), except
  under liveness.
* Audit chain: six steps (`MaxSteps`), each an append or an edit, two writers, two
  events. To alter the first of two entries and make the chain verify again takes six:
  two appends, the alteration, its hash, the link of the next, and its hash.
* Pipeline: a run is finite, so `MCPipeline` bounds only the documents: five that
  conform (a lone root, the seed, a partner's child beside a home one, three
  generations with a second root, and two agents that spawned each other), each with
  every one-place change `Variants` lists, and for the partner's child each of those again
  with a second change in another block. `ASSUME` in `Pipeline` bounds the
  claimed children at three, the walk's labels.
* Page: two presses of any button since the document was loaded (`MaxPresses`), one edit
  (`MaxEdits`) to one of five texts, any number of validations and resets. The texts are one
  that does not parse, the seed with a child of sixty seconds, with a parent's policy three
  versions on, with an identifier that is no text, and with a scope asked for that nobody
  has; three of them leave out the audit chain or spoil it. Two presses
  let every button meet what every other left; `refuses` has five of two buttons, since
  the version it needs is four updates away.
* Inputs: every text of the grammar up to ten tokens (`MaxText`), which is an object of
  two members and one more token, or an object in an array in an object past the depth
  cap of two, and what begins such a text; both size caps are nine tokens, so that a
  text may fit or not. A text that has left the grammar is kept up to four tokens
  (`MaxStray`); the first token that strays may come anywhere, and which tokens follow
  changes nothing (`RefusalStands`, proved for texts of any length). Serials: three
  random octets of 0, 1 and 128, a cap of four and a minimum of two (nineteen, twenty
  and eight in the code), so that none, one, two or all of the draw are leading zeros
  with either kind of octet after them. Two changes (`MaxChanges`) let one flaw hide
  behind another.

### Fairness

`Registry` assumes weak fairness of each call's continuation: it awaits only Web
Crypto promises, which settle, and the event loop runs what follows. Arrivals, the
clock and restarts are not fair. `Pipeline` assumes weak fairness of the code's own
blocks, and none of `Unexpected`. `Page` assumes it of the task in flight (`Settle`)
for the same reason, and not of the user. `AuditChain` and `Inputs` need none.

`CHECK_DEADLOCK FALSE` is given where the system may really stop: a run of the
pipeline ends, a chain or a text reaches its bound.

## 4. The proofs

A theorem holds for every value of the constants that meets the named assumptions of
the module (finite agents and calls, an absent value that is none of the others, typed
documents), so for any number of calls, agents, nodes, requests, documents, presses and
edits. No run's bound limits it. Each rests on an inductive invariant.

### Registry, every interleaving

* `RegistryProofs!TypeCorrect` (`TypeOK`). Not inductive by itself: a segment reads
  members only one kind of request has, so `TypeInv` adds (`CallOK`) that a running
  call's request is of the kind its segment needs.
* `RegistryProofs!NonceSpentOnceAlways`. `NonceInv` adds that a presented nonce is
  in `seenNonces` (`PresentedSeen`) and that only a settled call was turned away
  (`TurnedAwaySettled`), so that a call resumed later had spent its nonce.
* `RegistryProofs!GrantCountAlways` (`GrantCountExact`). A call obtains one
  certificate (`OneEach`), and only from the segment that ends `"issued"` on
  (`Obtainers`), so the count is the number of certificates of calls past that segment:
  `grantSpawns` is read and written with no await in between, which is why no hypothesis
  on clients is needed.
* `RegistryProofs!AuditAccountsAlways` (`AuditAccounts`). `AccountInv` follows an
  entry from the moment it is begun: a begun entry tells what its call did
  (`BegunTruthful`), a pushed one is its call's last act and only one (`EntriesLast`,
  `EntriesDistinct`), and a settled call without one did nothing (`NoneMissing`).

### Registry, clients that await each call

These have the hypothesis `Serialized`. It is needed: overlapping calls break the cap on
children, the live set and the log's links (`overspawn`) and the order of versions
(`rollback`).

* `RegistryLedgerProofs!MaxChildrenAlways`. The property speaks of certificates, the code
  of a Set object read before an await. `CountInv` bridges them: at most one call runs
  (`Alone`); a parent's object was made by a spawn of that parent (`Owned`), and an
  object of a call that has not counted is empty (`Unshared`); a spawn that awaits
  issuance still holds the object that would be read now and has room in it (`Expected`);
  every certified child is in its parent's count or about to be (`CertsCounted`).
* `RegistryLedgerProofs!ChildrenRecordedAlways`, `AuditLinkedAlways`, `MaxSpawnsAlways`,
  `OneLiveCertificateAlways`, `PolicyInForceAlways`, `PolicyNeverRegressesAlways`.
  `HeldInv` says what the call under way has found of the stores and still finds after
  its await (`Held`: the gate, the grant with the count as it would be read now, the
  version a policy rises from, the head an entry commits to), and what the stores
  themselves are (`Kept`: `live` is the latest end of a subject's certificates, a
  certificate carries the nonce its call presented, no grant's count passes its limit).
* `RegistryLedgerProofs!LedgerImplemented` (`ImplementsLedger`), step by step: the
  segment of `spawn` or `issue` after the await in which the certificate appears is the
  ledger's atomic spawn or root issue, under conditions that `HeldInv` says still hold;
  the segment that replaces a policy is its adoption; `fromDocument` is the ledger's
  restart; every other segment is a stutter.

### Audit chain, any writers, overlapping or not

`ChainInv` says that no hash nests deeper than there were steps (`Typed`) and that an
entry being hashed is what its hash says (`PendingGenuine`). What a digest is of is never
unfolded beyond a pair, and no pair is the genesis hash.

* `ChainTyped` (`TypeOK`). A relinked and rehashed chain nests hashes as deep as there are
  edits, so the type of a digest must grow: `DigestTo` is shown to (`DigestsGrow`), and
  `Typed` bounds the digests by the steps taken, which the type invariant alone does not.
* `CommittedAlways` (`CommittedIsGenuine`). Two entries whose content hashes to the same
  are the same entry (`HashInjective`). In two chains that verify, equal hashes at two
  places make the entries there equal, and the hashes before them, down to the genesis
  (`SameHash`), which also makes the places the same.
* `TamperNamedAlways`. A first departure whose content and link `verify` accepts has a
  hash of the log, and its predecessor is the log's; so it is the entry that was sealed at
  that place, and no departure (`UnbrokenUndeparted`). What precedes it is sound
  (`UndepartedSound`).
* `AppendKeepsBreakAlways`, from `PendingGenuine`.

### Pipeline, any documents

`AllSound(d)`, no block refuses, is shown to be `Conforming(d)`, the reference definition
(`SoundConforms`): one lemma for each block says what its acceptance establishes, the
ordering of the agents (`Picked`, `Sorted`) being a rearrangement of the document's own.

* `VerdictSoundAlways`, `OneEntryAlways`: `RunInv` says what the blocks already passed
  have established of the document when a block is reached, and that a refusal is the
  one `Verdict` gives.
* `OneDenialAlways`: `RowsInv` says which stages have a row when a block is reached
  (`Rowed`), one row each and none a DENY before `Catch`.
* `WalkBlamesAlways`: `WalkInv` says which subjects have no row yet (`Unwalked`), and
  that a refusal names a subject after which none has (`Blamable`).
* `TypeOKAlways`: from `RunInv`, `RowsInv`, `WalkInv` and `CountTyped`; the number of rows
  is bounded by the stages through an injection.
* `NoEscalationAlways`: the pipeline compares a child with its parent. That a lineage
  of any length is contained in its top needs induction on its length, made here by a
  least counterexample: the steps at which containment fails are a set of naturals, and
  its least member has a predecessor.

### Page, any texts and buttons

`PageInv` says what a task carries to its end (`TaskInv`: the code a run was started with
is the verdict of its document, and without typing the editor holds that document), that
the panels hold what the editor does (`EditorInv`), that a result is of the four kinds
the page shows and the panels have the banner's when nothing is on its way (`ShownInv`,
`Resting`), that an acceptance on the screen is that of the last press (`AcceptedInv`),
and whose verdict the banner shows (`VerdictInv`).

* `RefusedAtIssuanceAlways`, from `RegistryRefuses`: of whatever document, each REGISTRY
  button ends in a refusal, but for an edit that changes nothing (a template of sixty
  seconds) and a stale request that was made late.
* `StableVerdictAlways`: the result shown beside a text nobody typed in since is the
  text's. `PanelsAgreeAlways` says that the views agree with each other, and no more: after
  typing, the result of the text before stands beside the new one, as in the page.
* `EditsSurviveValidationAlways`, `TypeOKAlways`.

### The reader, any texts, names and depth

The values `parseValue` reads are shown level by level, and those of a loop turn by turn,
by induction over the number of levels and of turns (`Counting`).

* `ReaderProofs!RefusalStandsAlways`. What is `Settled`, a value or a refusal found
  before the end, is the same in a text with one token more: for a turn
  (`NextFollows`), the loop (`TurnsFollow`) and a level (`LevelsFollow`).
* `ReaderProofs!ReaderAgreesAlways`. `LevelsMatch`: at each level the reader takes what
  starts at a place to end at another just when the grammar does. From the reader to the
  grammar, the loop keeps `Divided`: the parts before the place it has come to are a
  division at the commas it met, with the list of them made. From the grammar to the
  reader, it keeps `Started`: it stands where a part of the given division starts, and
  the next turn takes that part whole. Brackets match (`BracketCloses`), so both speak
  of the same end.
* `DocumentProofs!DocumentSafeAlways`. `Known` says of a value that was read, and that
  the walk of `assertNoForbiddenKeys` passes, which names stand in its stretch of the
  text, none forbidden (`Clean`), how deep each is (`Deep`), and that those one level in
  are its own members (`Tops`). `Reached` is the same of a loop that has come to a
  place: `Nested` counts brackets in the text, the walk and the reader recurse over
  values, and this lemma is where the two meet.

### The profile, any draws, templates and certificates

* `ProfileProofs!SerialKeepsTheDrawAlways`. `Issued` says that an unchanged certificate is
  one `issueCertificate` made from one of the options and a draw. Zeros before a number
  do not change it (`ZerosBefore`); `SerialIs` follows the sign octet and the zeros taken
  off.
* `ProfileProofs!OneEncodingAlways`. Of the texts of one object one at most is accepted,
  with or without a byte order mark; of octets there are two, and the run `marked` shows
  them. A mark elsewhere is refused by the reader. Texts that differ in spellings only
  are read alike (`ReadAlike`), and those that differ in the order of two members are
  read as objects with the same members (`TwoMembers`, `SwapDecoded`); the canonical
  form does not depend on that order (`OrderOfMembers`), so only one of them is its own
  canonical form.
* `ProfileProofs!ContentIsTheAnchorsAlways`. An answer about the content is none that the
  checks before the signature, or the signature, give; `FirstOf` gives it only past them.
* `ProfileProofs!InputsTyped` (`TypeOK`). What `canonicalize` writes is a text at every
  depth (`CanonicalTyped`), and the options of `spawn` and of every button are ones whose
  certificate is the profile's (`Sensible`), with a serial that fits.
* `ProfileProofs!FlawsAreNamedAlways`. The first check that fails names the refusal
  (`FirstIs`), so what is needed is which checks an issued certificate passes. Of the
  templates: that of `spawn` is written as five tokens, read back in one turn, and is its
  own canonical form (`BriefWritten`, `BriefRead`, `TemplateSound`), and the oversized one
  is written longer than the cap (`ArrayLong`, `MemberLong`, `LongWritten`). Of the
  serials: one keeps the significant octets of its draw (`SignificantKept`), which is what
  the check of its entropy counts (`EntropyIs`). Every option then has the one flaw ordered
  (`OnlyFlaw`), or that of a short draw (`FlawIs`).

### How recursion is handled

The recursive functions of the model (`Picked`, `Lineage`, `parseValue`, `Value`,
`canonicalize`, the digests) are defined by CHOOSE; that such a function exists, and what
it computes, is proved by a least counterexample (`LeastMember`, `Counting`) since the
induction theorems of the library take an operator as a parameter. No module declares a
RECURSIVE operator, for the provers do not expand one. `Picked` stands where a first
version had `SelectSeq`, and the levels of `parseValue` where it had a recursive descent.

### The assumptions

The named assumptions that are more than the type of a constant: an absent value is none
of the others (`RegistryData`, `ChainDocument`); a spelling is neither punctuation nor a
scalar, nor the mark (`ReaderAssumption`); a string without escapes means itself and is
one of the spellings (`SpellingAssumption`); `KeyOrder` lists every name a string can
mean, once, and a serial has one octet more than are drawn, and no more octets than that
are asked for (`ProfileAssumption`); the members of a template are those the validator
knows (`TemplateAssumption`); the template of `spawn` fits an extension and the depth
cap, at least two octets of a serial are asked for, and a certificate's validity is
shorter than the time since the epoch (`InputsAssumption`); an option left out is none
of the values it could have (`OptionAssumption`). The runs evaluate every one of them.

### Only model-checked

* Liveness, which the prover does not reach: `EventuallyAudited`, `EventuallyDecided`,
  `ClickSettles`.
* `DocumentedRefusal`: it evaluates each of the buttons on one concrete seed document,
  which TLC does and a proof would only repeat.
* The six runs that expect a violation are counterexamples, not theorems.

## 5. Observations

* A request refused for its nonce or by the gate leaves no audit entry, though
  `mint.js:646` says every request becomes one: `record` is called only inside the `try`
  (`SpawnTurnedAway`). `AuditAccounts` is stated for the requests that are evaluated.
* When a child is refused early, the PASS rows its parent's later stages recorded stay,
  though `tests/pipeline.test.js:430` says the log has nothing after the failing stage.
  `OneDenial` says what holds: one DENY row, for the refusal the run ends with.
* A refused run may leave no entry: for a chain that is no array, or an agent_id that is
  no string, the append of the catch block throws and is swallowed, though
  `pipeline.js:526` says the refusal is itself an auditable event. `OneEntry` says so.
* What was typed while a button's `apply` is awaited is replaced by its document
  (`app.js:1167`); nothing promises otherwise, and a validation keeps it
  (`EditsSurviveValidation`).
* If minting fails at boot every control stays disabled: `loadDefaults` has no `finally`
  (`app.js:1195`) and nobody awaits it (`app.js:1315`). `ClickSettles` is stated for what
  a click starts; `LoadFailed` leaves such a page to `Reload`.
* *Stale spawn timestamp (61 s)* is accepted when a second passes between
  `Registry.fromDocument` and the call of `Date.now()` (`app.js:929`): the Registry's clock
  is that of its making (`mint.js:429`). *Edit a template after it was signed* sets
  `ttl_seconds` to 60 (`app.js:894`), which changes nothing of a child certified for sixty
  seconds, and is accepted. `app.js:1144` says of these buttons "The Registry is asked to
  do something it must refuse"; `RefusedAtIssuance` excepts the two.
* Nobody signs the head of the audit chain: one that was rewritten and rehashed whole
  verifies (`CommittedIsGenuine` says what does not).
* A document without an audit member is refused, and the refused run's own chain is
  written into it, so that validating the same screen again judges another document.
  `StableVerdict` excepts it.
* A document in which two agents spawned each other, and no root, passes all nine
  stages (`Circle` in `MCPipeline`): no check asks that lineages end.
* A grant names one template, so two cross-organizational children of one owner cannot
  pass together and ERR_MAX_SPAWNS is reached in the pipeline only by a grant of zero.
* A reused nonce is attributed to `CHILD AGENT`, whichever children share it.
* A refusal of the structure or at the anchor names no subject, so the walk of such a
  run has no DENY row; `WalkBlames` says what holds.

## 6. Not modelled

* DER and PEM, key import and the signature suites: a library's, or Web Crypto's. The
  strength of a key and of a signature algorithm is a flag of a certificate.
* The field validators of `validate-input.js` (regular expressions, the calendar, base64)
  and the characters inside a token: pure functions of one string, which the unit tests
  reach; in `ChainDocument` what they refuse is a fault.
* `locate.js`, `x509-explain.js`, how panels and the reference are rendered, and the
  clipboard: no state but the screen.
* The build scripts and the generated pages.

## 7. Plan

1. The dates of a grant and of a policy update against the clock, which are faults of
   an envelope now, and the calendar of RFC 3339 instants against a reference.
