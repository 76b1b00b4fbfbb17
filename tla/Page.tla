-------------------------------- MODULE Page --------------------------------
(***************************************************************************)
(* The page (src/app.js): the text in the editor, the panels that are      *)
(* views over it (busState), the verdict banner, and the one task that     *)
(* runs while the controls are disabled.  The textarea is never disabled:  *)
(* the user may type while a document is minted, changed or verified.      *)
(***************************************************************************)
EXTENDS Buttons, SequencesExt

CONSTANTS
  Unparseable,  \* a text readDocument refuses
  parentId, childId,  \* the identities a document is minted for
  Typed,        \* texts a user may leave in the editor (bound)
  Pressable,    \* the document and Registry buttons in use (bound)
  MaxPresses,   \* presses of them since a document was loaded (bound)
  MaxEdits      \* edits since then (bound)

ASSUME PageAssumption ==
  /\ {parentId, childId} \subseteq Agent /\ parentId # childId
  /\ Pressable \subseteq Button
  /\ MaxPresses \in Nat
  /\ MaxEdits \in Nat
  /\ None \notin Typed
  /\ \A text \in Typed : text \in Document \cup {Unparseable}

VARIABLES
  editor,   \* docBox.value, parsed or Unparseable
  panels,   \* busState: the last good parse, and the result shown with it
  banner,   \* what renderVerdict or renderIdle showed last
  task,     \* what runs while the controls are disabled
  pressed,  \* the buttons pressed since the document was loaded
  before,   \* history: the document the last of them was pressed on
  edits,    \* edits since the document was loaded
  dirty     \* the editor was edited since a verification last read it

vars == <<editor, panels, banner, task, pressed, before, edits, dirty>>

(***************************************************************************)
(* The document the page starts from (src/defaults.js, and mintChain of    *)
(* src/mint.js).  Each is minted anew, under names of its own; they are    *)
(* not told apart here.                                                    *)
(***************************************************************************)

templateFor(canSpawn, scopes, ttl) ==
  [org |-> "home", owner |-> "owner-authority", spawner |-> canSpawn # {}, canSpawn |-> canSpawn,
   maxChildren |-> Cardinality(canSpawn), scopes |-> scopes, ttl |-> ttl]

\* A policy the Registry adopts for an agent of template t, or one signed as it would be.
PolicyFor(a, t, targets, version) ==
  [subject |-> a, owner |-> t.owner, org |-> t.org, version |-> version, scopes |-> t.scopes,
   targets |-> targets, ends |-> "open", hash |-> "fresh", ownerSig |-> "key1", paSig |-> "key2",
   faults |-> {}]

Seed ==
  LET parent == templateFor({childId}, {"read", "write"}, PARENT_TTL_SECONDS)
      child == templateFor({}, {"read"}, CHILD_TTL_SECONDS)
      nonce == CHOOSE n \in Nonce : TRUE
  IN [chain |-> "array", wellFormed |-> TRUE, stray |-> FALSE, anchors |-> 1,
      anchorFaults |-> {}, anchorRevoked |-> FALSE,
      agents |-> <<[id |-> parentId, claims |-> None, cert |-> Certified(parent, None, {}),
                    requested |-> None],
                   [id |-> childId, claims |-> parentId,
                    cert |-> Certified(child, [parent |-> parentId, nonce |-> nonce, grant |-> None], {}),
                    requested |-> {"read"}]>>,
      authorities |-> [state |-> "sound", ownerName |-> "owner-authority",
                       ownerKey |-> "key1", paKey |-> "key2"],
      policies |-> <<PolicyFor(parentId, parent, {childId}, 1), PolicyFor(childId, child, {}, 1)>>,
      policy |-> PolicyFor(childId, child, None, 2), current |-> 1,
      crl |-> "read", revoked |-> {}, disabled |-> {}, audit |-> "intact", grant |-> None]

-----------------------------------------------------------------------------
Idle == [at |-> "idle"]
Booting == [at |-> "booting"]
Loading == [at |-> "loading"]
Disabled == [at |-> "disabled"]
Applying(entry, outcome, code) ==
  [at |-> "applying", entry |-> entry, outcome |-> outcome, code |-> code]
Verifying(doc, code) == [at |-> "verifying", doc |-> doc, code |-> code]

Result(at, code) == [at |-> at, code |-> code]

\* The editor after setDocument, and the panels with it: the result goes.
setDocument(doc) == editor' = doc /\ panels' = [doc |-> doc, result |-> None]

\* publish: the panels keep the last good parse.
publish(text, result) ==
  panels' = [doc |-> IF text = Unparseable THEN panels.doc ELSE text, result |-> result]

\* renderVerdict, and publish({ result }) over the text on the screen.
Show(result) == banner' = result /\ publish(editor, result)

Init ==
  /\ editor = Unparseable
  /\ panels = [doc |-> None, result |-> None]
  /\ banner = None
  /\ task = Booting
  /\ pressed = <<>>
  /\ before = None
  /\ edits = 0
  /\ dirty = FALSE

\* loadDefaults, once the chain is minted: not validated.
Loaded ==
  /\ task \in {Booting, Loading}
  /\ setDocument(Seed)
  /\ banner' = None
  /\ task' = Idle
  /\ pressed' = <<>>
  /\ before' = None
  /\ edits' = 0
  /\ dirty' = FALSE

LoadFailedDisabled ==
  /\ task \in {Booting, Loading}
  /\ task' = Disabled
  /\ UNCHANGED <<editor, panels, banner, pressed, before, edits, dirty>>

\* Minting failed.  The button enables the controls again, and nothing else
\* does: of the load the page starts with they stay disabled.
LoadFailed ==
  /\ task \in {Booting, Loading}
  /\ task' = IF task = Loading THEN Idle ELSE Disabled
  /\ UNCHANGED <<editor, panels, banner, pressed, before, edits, dirty>>

\* The user loads a page whose controls are disabled again.
Reload ==
  /\ task = Disabled
  /\ editor' = Unparseable
  /\ panels' = [doc |-> None, result |-> None]
  /\ edits' = 0
  /\ dirty' = FALSE
  /\ task' = Booting
  /\ UNCHANGED <<banner, pressed, before>>

ResetCerts ==
  /\ task = Idle
  /\ task' = Loading
  /\ UNCHANGED <<editor, panels, banner, pressed, before, edits, dirty>>

\* The input listener publishes: the result stays, beside the new text.
Type ==
  /\ edits < MaxEdits
  /\ \E text \in Typed :
       /\ editor # text
       /\ editor' = text
       /\ publish(text, panels.result)
  /\ edits' = edits + 1
  /\ dirty' = TRUE
  /\ UNCHANGED <<banner, task, pressed, before>>

-----------------------------------------------------------------------------
\* verify on a text that does not parse ends at once, and writes nothing back.
RefuseText ==
  /\ editor = Unparseable
  /\ Show(Result("parse", "ERR_MALFORMED_JSON"))
  /\ dirty' = FALSE
  /\ UNCHANGED <<editor, task>>

\* verify's synchronous part: the text is read, and runPipeline started on it.
\* code is the verdict the run will end with: nothing else is read until it ends.
StartVerify(doc, code) == task' = Verifying(doc, code) /\ dirty' = FALSE

Validate ==
  /\ task = Idle
  /\ \/ RefuseText
     \/ /\ editor # Unparseable
        /\ StartVerify(editor, Verdict(editor))
        /\ UNCHANGED <<editor, panels, banner>>
  /\ UNCHANGED <<pressed, before, edits>>

\* runSabotage's synchronous part: entry.apply is called on the text as read.
Press(entry) ==
  /\ task = Idle
  /\ \/ RefuseText /\ UNCHANGED <<pressed, before>>
     \/ /\ editor # Unparseable
        /\ Len(pressed) < MaxPresses
        /\ \E outcome \in Pressed(entry, editor) :
             task' = Applying(entry, outcome,
                       IF outcome.code = Sound THEN Verdict(outcome.doc) ELSE outcome.code)
        /\ pressed' = Append(pressed, entry)
        /\ before' = editor
        /\ UNCHANGED <<editor, panels, banner, dirty>>
  /\ UNCHANGED edits

\* showIssuanceRefusal, or the ERR_INTERNAL that says the Registry accepted.
IssuanceResult(code) ==
  IF code = Sound THEN Result("accepted", "ERR_INTERNAL") ELSE Result("issuance", code)

AnsweredDisabled ==
  /\ task.at = "applying"
  /\ task.entry \in AtRegistry \/ task.outcome.code # Sound
  /\ Show(IssuanceResult(task.outcome.code))
  /\ UNCHANGED <<editor, task, pressed, before, edits, dirty>>

\* Nothing is issued and the document does not change.
Answered ==
  /\ task.at = "applying"
  /\ task.entry \in AtRegistry \/ task.outcome.code # Sound
  /\ Show(IssuanceResult(task.outcome.code))
  /\ task' = Idle
  /\ UNCHANGED <<editor, pressed, before, edits, dirty>>

\* The changed document replaces whatever the editor holds by now, and is verified.
Applied ==
  /\ task.at = "applying"
  /\ task.entry \notin AtRegistry
  /\ task.outcome.code = Sound
  /\ setDocument(task.outcome.doc)
  /\ StartVerify(task.outcome.doc, task.code)
  /\ UNCHANGED <<banner, pressed, before, edits>>

AuditedUnlinked(doc) ==
  IF doc.audit = "intact" THEN "broken"
  ELSE IF doc.audit # "missing" THEN doc.audit ELSE IF Unloggable(doc) THEN None ELSE "intact"

\* The audit chain a run on doc ends with, entry included; None if it is empty.
Audited(doc) ==
  IF doc.audit # "missing" THEN doc.audit ELSE IF Unloggable(doc) THEN None ELSE "intact"

WrittenBackAsRead(text, doc) ==
  IF Audited(doc) = None \/ text = Unparseable THEN text
  ELSE [doc EXCEPT !.audit = Audited(doc)]

\* verify writes that chain into the text on the screen, if it parses.
WrittenBack(text, doc) ==
  IF Audited(doc) = None \/ text = Unparseable THEN text
  ELSE [text EXCEPT !.audit = Audited(doc)]

AnswerAsEnded(code) == Result("pipeline", code)

\* What verify shows: a run that throws is shown as a text that does not parse.
Answer(code) ==
  IF code = "THROWN" THEN Result("parse", "ERR_SCHEMA_VIOLATION") ELSE Result("pipeline", code)

VerifiedThenWritten ==
  /\ task.at = "verifying"
  /\ editor' = IF task.code = "THROWN" THEN editor ELSE WrittenBack(editor, task.doc)
  /\ banner' = Answer(task.code)
  /\ IF editor' = editor THEN publish(editor, Answer(task.code)) ELSE publish(editor', None)
  /\ task' = Idle
  /\ UNCHANGED <<pressed, before, edits, dirty>>

Verified ==
  /\ task.at = "verifying"
  /\ editor' = IF task.code = "THROWN" THEN editor ELSE WrittenBack(editor, task.doc)
  /\ banner' = Answer(task.code)
  /\ publish(editor', Answer(task.code))
  /\ task' = Idle
  /\ UNCHANGED <<pressed, before, edits, dirty>>

Settle == Loaded \/ LoadFailed \/ Answered \/ Applied \/ Verified

Next ==
  \/ Settle
  \/ Reload \/ ResetCerts \/ Type \/ Validate
  \/ \E entry \in Pressable : Press(entry)

Spec == Init /\ [][Next]_vars

\* What was started is finished: minting, signing and verifying end.
FairSpec == Spec /\ WF_vars(Settle)

-----------------------------------------------------------------------------
(***************************************************************************)
(* Correctness.                                                            *)
(***************************************************************************)

\* The types of the page's variables: no run that threw is shown as a verdict.
TypeOK ==
  /\ task.at \in {"idle", "booting", "loading", "disabled", "applying", "verifying"}
  /\ pressed \in Seq(Pressable)
  /\ edits \in 0..MaxEdits
  /\ dirty \in BOOLEAN
  /\ \A result \in {banner, panels.result} \ {None} :
       /\ result.at \in {"parse", "issuance", "accepted", "pipeline"}
       /\ result.at = "pipeline" => result.code # "THROWN"

\* The code tests/e2e/run.mjs expects of each button on a fresh document; of
\* the others, which stay valid, PASS.
Documented(entry) ==
  CASE entry = "Forge the issuer" -> "ERR_FORGED_ISSUER"
    [] entry = "Corrupt the certificate" -> "ERR_CHAIN_INVALID"
    [] entry = "Forge the parent link" -> "ERR_PARENT_MISMATCH"
    [] entry = "Expire the certificate" -> "ERR_CERT_EXPIRED"
    [] entry = "Agent cert claims keyCertSign" -> "ERR_KEY_USAGE"
    [] entry = "Outlive the template TTL" -> "ERR_VALIDITY_EXCEEDS_TTL"
    [] entry = "Drop the revocation pointer" -> "ERR_NO_REVOCATION_SOURCE"
    [] entry = "Non-minimal serial number" -> "ERR_SERIAL_ENCODING"
    [] entry = "Oversized template extension" -> "ERR_EXTENSION_TOO_LARGE"
    [] entry = "One identity, two certificates" -> "ERR_DUPLICATE_SUBJECT"
    [] entry = "Duplicate nonce in the chain" -> "ERR_NONCE_REUSED"
    [] entry \in {"Revoke the parent", "Revoke the grant"} -> "ERR_AGENT_REVOKED"
    [] entry = "Disable the template at the Registry" -> "ERR_AGENT_DISABLED"
    [] entry = "Cross-org spawn with no grant" -> "ERR_GRANT_MISSING"
    [] entry = "Expired grant" -> "ERR_GRANT_EXPIRED"
    [] entry = "Grant exceeds the template" -> "ERR_GRANT_EXCEEDS_TEMPLATE"
    [] entry \in {"Remove one grant signature", "Drop the grant's issued_at"} -> "ERR_GRANT_INVALID"
    [] entry = "Grant allows no spawns" -> "ERR_MAX_SPAWNS"
    [] entry = "Certificate omits the grant it was issued under" -> "ERR_GRANT_ID_MISMATCH"
    [] entry = "Escalate the scope" -> "ERR_SCOPE_ESCALATION"
    [] entry \in {"Exceed max_children", "Exceed MaxChildren at the Registry"} -> "ERR_MAX_CHILDREN"
    [] entry = "Spawn a non-whitelisted child" -> "ERR_CHILD_NOT_WHITELISTED"
    [] entry = "Parent may not spawn at all" -> "ERR_SPAWN_NOT_PERMITTED"
    [] entry \in {"Policy in force omits the child", "Policy withdraws the spawn target"} ->
         "ERR_SPAWN_NOT_IN_POLICY"
    [] entry = "MaxChildren above CanSpawn" -> "ERR_MAX_CHILDREN_EXCEEDS_CAN_SPAWN"
    [] entry = "Widen policy past the ceiling" -> "ERR_POLICY_EXCEEDS_TEMPLATE"
    [] entry = "Sign with one key only" -> "ERR_PA_SIG_MISSING"
    [] entry = "One key, both roles" -> "ERR_SINGLE_SIGNATURE"
    [] entry \in {"Tamper with the policy body", "Replay an old policy, bump version"} ->
         "ERR_OWNER_SIG_INVALID"
    [] entry = "Alter the stored hash only" -> "ERR_CONTENT_HASH"
    [] entry = "Edit can_spawn via policy" -> "ERR_IMMUTABLE_FIELD"
    [] entry = "Submit as the wrong owner" -> "ERR_OWNER_MISMATCH"
    [] entry = "Owner certificate does not match the template" -> "ERR_OWNER_CERT_MISMATCH"
    [] entry = "Alter an audit entry" -> "ERR_AUDIT_CHAIN_BROKEN"
    [] entry = "Drop a REQUIRED template field" -> "ERR_TEMPLATE_NONCONFORMING"
    [] entry \in {"Remove one attestation signature", "Edit a template after it was signed"} ->
         "ERR_TEMPLATE_SIGNATURE"
    [] entry = "Replay the spawn request" -> "ERR_NONCE_REUSED"
    [] entry \in {"Stale spawn timestamp (61 s)", "Future spawn timestamp (61 s)"} -> "ERR_SPAWN_STALE"
    [] OTHER -> "PASS"

\* A button pressed on a fresh document is answered with the code documented for
\* it: the Registry's at issuance, the others' by the run that follows, with or
\* without validations before and after.  A request dated 61 s ago may be
\* accepted, when it is made a second after the Registry was rebuilt.
DocumentedRefusal ==
  (task = Idle /\ Len(pressed) = 1 /\ edits = 0) =>
    LET documented == Documented(pressed[1]) IN
    IF pressed[1] \in AtRegistry
    THEN \/ banner \in {Result("issuance", documented), Result("pipeline", "PASS")}
         \/ documented = "ERR_SPAWN_STALE" /\ banner.at = "accepted"
    ELSE banner = Result("pipeline", documented)

\* The requests of the REGISTRY buttons that may be accepted when made of d.
MayAccept(entry, d) ==
  \/ entry = "Stale spawn timestamp (61 s)"
  \/ entry = "Edit a template after it was signed" /\ Child(d).cert.template.ttl = Minute

\* "The Registry is asked to do something it must refuse": whatever was done to
\* the document, the Registry rebuilt from it refuses what the REGISTRY buttons
\* ask, but for a request made too late to be stale, and an edit that changes
\* nothing.
RefusedAtIssuance ==
  (task = Idle /\ banner # None /\ banner.at = "accepted") => MayAccept(Last(pressed), before)

\* The verdict on the screen is that of the text on the screen, though the run
\* wrote its audit chain into the text: validating again says the same, but for
\* a document that carried no audit chain.
StableVerdict ==
  (task = Idle /\ ~dirty /\ banner # None) =>
    (banner.at = "pipeline" =>
       banner.code \in {Verdict(editor), Verdict([editor EXCEPT !.audit = "missing"])})

\* When nothing runs the panels' result is the banner's, and they show the text on
\* the screen, or of one that does not parse the last that did.
PanelsAgree ==
  task = Idle => panels.result = banner /\ (editor # Unparseable => panels.doc = editor)

\* A validation changes nothing of the text on the screen but its audit chain,
\* also when the user typed while it ran.
EditsSurviveValidation ==
  [][(task.at = "verifying" /\ task' = Idle /\ editor' # editor)
       => editor' = [editor EXCEPT !.audit = editor'.audit]]_vars

\* The controls that a click disables are enabled again, though what it started fails.
ClickSettles == task.at \in {"loading", "applying", "verifying"} ~> task = Idle

\* What app.js says of ALLOWED, and the labels "stays valid": pressed on a
\* document that passes, such a button leaves one that passes.
StaysValid ==
  (task = Idle /\ edits = 0 /\ pressed # <<>> /\ Verdict(before) = "PASS") =>
    (Last(pressed) \in Allowed \cup Advisory => banner.code = "PASS")

\* "Every other button here produces a refusal".
OthersRefuse ==
  (task = Idle /\ edits = 0 /\ pressed # <<>> /\ Verdict(before) = "PASS") =>
    (Last(pressed) \in Sabotage => banner.code # "PASS")

=============================================================================
