------------------------------ MODULE Pipeline ------------------------------
(***************************************************************************)
(* One run of runPipeline (src/pipeline.js) over one document: the blocks  *)
(* of its nine stages in their order, the stage rows, the walk, the catch  *)
(* block and the audit entry the run leaves.  Each action is one block,    *)
(* or one agent of the block that walks the agents.                        *)
(***************************************************************************)
EXTENDS Stages

CONSTANT Documents  \* the documents presented

ASSUME DocumentsAssumption ==
  \A d \in Documents : d \in Document /\ Len(Claimants(d)) <= Len(ChildLabel)

VARIABLES
  doc,        \* the document
  pc,         \* the block to run next
  checked,    \* agents whose checks are complete
  stages,     \* the rows of the decision log
  walk,       \* subject -> its row of the walk, or None
  completed,  \* stages the policy update's checks reported
  failure,    \* the refusal caught: its code and the subject it names
  verdict,
  log         \* outcomes appended to the audit chain by this run

report == <<stages, walk, completed, failure, verdict, log>>
vars == <<doc, pc, checked, report>>

Result == {"PASS", "ADVISORY", "DENY"}
Row == [n: 1..9, result: Result]

Subject == {"TRUST ANCHOR", "PARENT AGENT", "CROSS-ORG GRANT", "POLICY UPDATE",
            "DELEGATION", "AUDIT CHAIN"} \cup Codes(ChildLabel)

\* No row is not a result, and no subject not a subject.
ASSUME RowsAssumption == None \notin Result \cup Subject

Blocks == <<"loading", "structure", "anchor", "agents", "linking", "authorities",
            "granting", "updating", "delegating", "scoping", "auditing">>

\* DocumentsAssumption types doc, which no step changes.
TypeOK ==
  /\ pc \in Codes(Blocks) \cup {"refused", "done", "thrown"}
  /\ checked \in 0..Len(doc.agents)
  /\ stages \subseteq Row
  /\ walk \in [Subject -> Result \cup {None}]
  /\ completed \subseteq 4..6
  /\ failure # None => failure.subject \in Subject \cup {None}
  /\ verdict \in {"PASS", "DENY"}
  /\ log \in Seq({"ALLOWED", "DENIED"})

\* Pessimistic by construction: verdict starts as DENY.
Init ==
  /\ doc \in Documents
  /\ pc = "loading"
  /\ checked = 0
  /\ stages = {}
  /\ walk = [s \in Subject |-> None]
  /\ completed = {}
  /\ failure = None
  /\ verdict = "DENY"
  /\ log = <<>>

-----------------------------------------------------------------------------
(***************************************************************************)
(* Rows.                                                                   *)
(***************************************************************************)

RecordFirst(rows, n, result) ==
  IF \E r \in rows : r.n = n THEN rows ELSE rows \cup {[n |-> n, result |-> result]}

\* record: a DENY replaces any row of its stage, an ADVISORY a PASS.
Record(rows, n, result) ==
  LET old == {r \in rows : r.n = n}
      wins == \/ old = {}
              \/ result = "DENY"
              \/ result = "ADVISORY" /\ \A r \in old : r.result = "PASS"
  IN IF wins THEN (rows \ old) \cup {[n |-> n, result |-> result]} ELSE rows

\* PASS rows for a set of stages: none replaces a row there is.
RecordAll(rows, ns) ==
  rows \cup {[n |-> n, result |-> "PASS"] : n \in {m \in ns : \A r \in rows : r.n # m}}

StepFirst(subject, result) ==
  IF walk[subject] = None THEN [walk EXCEPT ![subject] = result] ELSE walk

\* step: a subject's row stands unless it is denied.
Step(subject, result) ==
  IF walk[subject] = None \/ result = "DENY"
  THEN [walk EXCEPT ![subject] = result] ELSE walk

\* A DenyError is thrown, by subject if it is attributed to one.
Refuse(code, subject) ==
  /\ pc' = "refused"
  /\ failure' = [code |-> code, subject |-> subject]
  /\ walk' = IF subject = None THEN walk ELSE Step(subject, "DENY")

\* The block ends without a refusal and subject's row is PASS.
Proceed(block, subject, result) ==
  /\ pc' = block
  /\ walk' = Step(subject, result)
  /\ UNCHANGED failure

-----------------------------------------------------------------------------
(***************************************************************************)
(* The document's structure and the anchor.                                *)
(***************************************************************************)

\* AuditChain.fromJSON runs before the try block; the rest is inside it.
Load ==
  /\ pc = "loading"
  /\ pc' = IF doc.audit = "illformed" THEN "thrown" ELSE "structure"
  /\ UNCHANGED <<doc, checked, report>>

\* In the actions below \E names the answer of a block, which is worked out once.
\* Only a doubled identity is attributed to a subject.
CheckStructure ==
  pc = "structure" /\ \E code \in {StructureRefusal(doc)} :
  /\ \/ /\ code # Sound
        /\ Refuse(code, IF code # "ERR_DUPLICATE_SUBJECT" THEN None
                        ELSE IF Doubled(doc).claims # None THEN "CHILD AGENT"
                        ELSE "PARENT AGENT")
     \/ code = Sound /\ pc' = "anchor" /\ UNCHANGED <<walk, failure>>
  /\ UNCHANGED <<doc, checked, stages, completed, verdict, log>>

CheckAnchor ==
  pc = "anchor" /\ \E code \in {AnchorBlock(doc)} :
  /\ \/ code # Sound /\ Refuse(code, None) /\ UNCHANGED stages
     \/ /\ code = Sound
        /\ stages' = Record(stages, 2, "PASS")
        /\ Proceed("agents", "TRUST ANCHOR", "PASS")
  /\ UNCHANGED <<doc, checked, completed, verdict, log>>

-----------------------------------------------------------------------------
(***************************************************************************)
(* The agents, roots first.                                                *)
(***************************************************************************)

AdvanceNot == checked
Advance == checked + 1

CheckAgent ==
  pc = "agents" /\ \E checks \in {nodeChecks(doc, Ordered(doc)[checked + 1])} :
  LET i == checked + 1 IN
  /\ stages' = RecordAll(stages, checks.passed)
  /\ \/ checks.code # Sound /\ Refuse(checks.code, Label(doc, i)) /\ UNCHANGED checked
     \/ /\ checks.code = Sound
        /\ checked' = Advance
        /\ Proceed(IF i = Len(doc.agents) THEN "linking" ELSE "agents",
                   Label(doc, i), "PASS")
  /\ UNCHANGED <<doc, completed, verdict, log>>

-----------------------------------------------------------------------------
(***************************************************************************)
(* Provenance, the signing authorities, the grant and the policy update.   *)
(***************************************************************************)

\* An orphan is refused by its own name, a nonce by the first child's.
CheckLinks ==
  pc = "linking" /\ \E code \in {LinksBlock(doc)} :
  /\ \/ \E i \in Orphans(doc) : /\ \A j \in Orphans(doc) : i <= j
                                 /\ Refuse(code, Label(doc, i))
     \/ Orphans(doc) = {} /\ code # Sound /\ Refuse(code, "CHILD AGENT")
     \/ code = Sound /\ pc' = "authorities" /\ UNCHANGED <<walk, failure>>
  /\ UNCHANGED <<doc, checked, stages, completed, verdict, log>>

\* A refusal is attributed to the envelope that needs the authorities.
CheckAuthorities ==
  pc = "authorities" /\ \E code \in {AuthoritiesBlock(doc)} :
  /\ \/ code = "ERR_SCHEMA_VIOLATION" /\ Refuse(code, None)
     \/ /\ code = "ERR_AUTHORITY_CHAIN"
        /\ Refuse(code, IF doc.grant # None THEN "CROSS-ORG GRANT" ELSE "POLICY UPDATE")
     \/ code = Sound /\ pc' = "granting" /\ UNCHANGED <<walk, failure>>
  /\ UNCHANGED <<doc, checked, stages, completed, verdict, log>>

CheckGrant ==
  pc = "granting" /\ \E code \in {GrantBlock(doc)} :
  /\ \/ code # Sound /\ Refuse(code, "CROSS-ORG GRANT")
     \/ code = Sound /\ Proceed("updating", "CROSS-ORG GRANT", "PASS")
  /\ UNCHANGED <<doc, checked, stages, completed, verdict, log>>

\* Stages 4 to 6.  A document without an update passes them.
CheckUpdate ==
  pc = "updating" /\ \E code \in {UpdateBlock(doc)} :
  /\ completed' = IF doc.policy # None THEN onStage(doc, doc.policy) ELSE {}
  /\ \/ code # Sound /\ Refuse(code, "POLICY UPDATE") /\ UNCHANGED stages
     \/ /\ code = Sound
        /\ stages' = RecordAll(stages, 4..6)
        /\ Proceed("delegating", "POLICY UPDATE", "PASS")
  /\ UNCHANGED <<doc, checked, verdict, log>>

-----------------------------------------------------------------------------
(***************************************************************************)
(* Stages 7 to 9.                                                          *)
(***************************************************************************)

CheckSpawns ==
  pc = "delegating" /\ \E code \in {SpawnsBlock(doc)} :
  /\ \/ code # Sound /\ Refuse(code, "DELEGATION") /\ UNCHANGED stages
     \/ /\ code = Sound
        /\ stages' = Record(stages, 7, "PASS")
        /\ pc' = "scoping"
        /\ UNCHANGED <<walk, failure>>
  /\ UNCHANGED <<doc, checked, completed, verdict, log>>

CheckScopes ==
  pc = "scoping" /\ \E code \in {ScopesBlock(doc)}, advised \in {Advised(doc)} :
  LET advisory == IF advised THEN Record(stages, 8, "ADVISORY") ELSE stages IN
  /\ \/ code # Sound /\ Refuse(code, "DELEGATION") /\ stages' = advisory
     \/ /\ code = Sound
        /\ stages' = Record(advisory, 8, "PASS")
        /\ Proceed("auditing", "DELEGATION", IF advised THEN "ADVISORY" ELSE "PASS")
  /\ UNCHANGED <<doc, checked, completed, verdict, log>>

CheckAuditAppendFirst ==
  pc = "auditing" /\ \E code \in {AuditRefusal(doc)} :
  /\ log' = Append(log, "ALLOWED")
  /\ \/ code # Sound /\ Refuse(code, "AUDIT CHAIN") /\ UNCHANGED <<stages, verdict>>
     \/ /\ code = Sound
        /\ stages' = Record(stages, 9, "PASS")
        /\ verdict' = "PASS"
        /\ Proceed("done", "AUDIT CHAIN", "PASS")
  /\ UNCHANGED <<doc, checked, completed>>

\* assertEntries, verify, the entry of an allowed run, and the verdict.
CheckAudit ==
  pc = "auditing" /\ \E code \in {AuditRefusal(doc)} :
  /\ \/ code # Sound /\ Refuse(code, "AUDIT CHAIN") /\ UNCHANGED <<stages, verdict, log>>
     \/ /\ code = Sound
        /\ log' = Append(log, "ALLOWED")
        /\ stages' = Record(stages, 9, "PASS")
        /\ verdict' = "PASS"
        /\ Proceed("done", "AUDIT CHAIN", "PASS")
  /\ UNCHANGED <<doc, checked, completed>>

-----------------------------------------------------------------------------
(***************************************************************************)
(* Refusals.                                                               *)
(***************************************************************************)

\* The blocks that hand part of the document to a parser or to Web Crypto; the
\* block of the authorities turns what is thrown there into its own refusal.
Fallible ==
  \/ pc \in {"anchor", "auditing"}
  \/ pc = "agents" /\ 1 \in nodeChecks(doc, Ordered(doc)[checked + 1]).passed
  \/ pc = "granting" /\ doc.grant # None
  \/ pc = "updating" /\ doc.policy # None
  \/ pc = "delegating" /\ doc.policies # <<>>

\* A throw nobody foresaw: it is no DenyError, so no subject is named.
Unexpected ==
  /\ Fallible
  /\ Refuse("ERR_INTERNAL", None)
  /\ stages' = IF pc = "agents" THEN RecordAll(stages, {1}) ELSE stages
  /\ UNCHANGED <<doc, checked, completed, verdict, log>>

RefusalRowUnplaced == StageOf(failure.code)

\* The stage the refusal is shown at: the next row, if its code names none.
RefusalRow ==
  IF StageOf(failure.code) > 0 THEN StageOf(failure.code) ELSE Cardinality(stages) + 1

\* The catch block of runPipeline.  Its own failure to append is swallowed.
Catch ==
  /\ pc = "refused"
  /\ pc' = "done"
  /\ stages' = Record(RecordAll(stages, {n \in completed : n < RefusalRow}), RefusalRow, "DENY")
  /\ \/ /\ Unloggable(doc) \/ failure.code = "ERR_INTERNAL"
        /\ UNCHANGED log
     \/ ~Unloggable(doc) /\ log' = Append(log, "DENIED")
  /\ UNCHANGED <<doc, checked, walk, completed, failure, verdict>>

\* What the code does of itself.
Run ==
  \/ Load \/ CheckStructure \/ CheckAnchor \/ CheckAgent \/ CheckLinks
  \/ CheckAuthorities \/ CheckGrant \/ CheckUpdate
  \/ CheckSpawns \/ CheckScopes \/ CheckAudit \/ Catch

Next == Run \/ Unexpected

Spec == Init /\ [][Next]_vars

\* runPipeline awaits only Web Crypto, which settles; nothing obliges it to throw.
FairSpec == Spec /\ WF_vars(Run)

-----------------------------------------------------------------------------
(***************************************************************************)
(* Properties.                                                             *)
(***************************************************************************)

Done == pc = "done"

\* An agent the certificate, the chain and the CRL agree on.
Identified(d, node) ==
  /\ node.id \in Agent \ (d.revoked \cup d.disabled)
  /\ CertificateRefusal(node.cert) = Sound
  /\ node.claims = IF node.cert.spawn = None THEN None ELSE node.cert.spawn.parent

\* A link of the delegation, read from the parent's certificate, the policy
\* in force for it and, across organizations, the grant.
Delegated(d, a) ==
  LET p == ParentOf(d, a)
      t == TemplateOf(d, p)
      s == SpawnOf(d, a)
  IN
  /\ t.spawner /\ a \in t.canSpawn
  /\ a \in TargetsInForce(d, p)
  /\ Cardinality({b \in ChildrenOf(d) : ParentOf(d, b) = p}) <= t.maxChildren
  /\ TemplateOf(d, a).scopes # {}
  /\ TemplateOf(d, a).scopes \subseteq t.scopes
  /\ IF TemplateOf(d, a).org = t.org THEN s.grant = None
     ELSE d.grant # None /\ s.grant = d.grant.id /\ GrantRefusal(d, a, p, 1) = Sound

Requested(d, node) ==
  node.requested # None =>
    /\ node.requested \notin {Malformed, {}}
    /\ node.requested \subseteq node.cert.template.scopes
    /\ node.id \in CrossOrg(d) => node.requested \subseteq d.grant.scopes

\* What the nine stages together ask of a document, with no order.
Conforming(d) ==
  /\ d.chain = "array" /\ d.wellFormed /\ ~d.stray
  /\ d.anchors = 1 /\ d.anchorFaults = {} /\ ~d.anchorRevoked
  /\ d.crl = "read" /\ d.audit = "intact" /\ d.policies # None
  /\ d.agents # <<>>
  /\ \A i, j \in DOMAIN d.agents : d.agents[i].id = d.agents[j].id => i = j
  /\ \A i \in DOMAIN d.agents : Identified(d, d.agents[i])
  /\ \A a \in ChildrenOf(d) : ParentOf(d, a) \in AgentsOf(d) /\ Delegated(d, a)
  /\ \A i \in DOMAIN d.agents : Requested(d, d.agents[i])
  /\ \A a, b \in ChildrenOf(d) : SpawnOf(d, a).nonce = SpawnOf(d, b).nonce => a = b
  /\ NeedAuthorities(d) => d.authorities.state = "sound"
  /\ d.grant # None => \E a \in AgentsOf(d) :
       \E p \in AgentsOf(d) :
         /\ p = IF a \in ChildrenOf(d) THEN ParentOf(d, a) ELSE a
         /\ GrantRefusal(d, a, p, Cardinality(CrossOrg(d))) = Sound
  /\ d.policy # None => PolicyRefusal(d, d.policy, d.current) = Sound
  /\ \A i \in DOMAIN d.policies :
       /\ PolicyRefusal(d, d.policies[i], 0) = Sound
       /\ \A j \in DOMAIN d.policies : d.policies[j].subject = d.policies[i].subject => i = j

\* Section 15.1, fail closed: a run that ends well had a conforming document,
\* and one that does not had one that does not conform, unless its own checks
\* could not be completed.  Of the refusals a document calls for, a run ends in
\* the one that comes first in Verdict.
VerdictSound ==
  Done => /\ verdict = "PASS" => Conforming(doc) /\ Verdict(doc) = "PASS"
          /\ verdict = "DENY" => \/ failure.code = "ERR_INTERNAL"
                                 \/ ~Conforming(doc) /\ Verdict(doc) = failure.code

\* The agents reached from a by naming parents, in at most n steps.
Lineage(d, a) ==
  LET reach[n \in 0..Len(d.agents)] ==
        IF n = 0 THEN {a}
        ELSE reach[n - 1] \cup {ParentOf(d, b) : b \in reach[n - 1] \cap ChildrenOf(d)}
  IN reach[Len(d.agents)]

\* Section 10.3: in a chain that passes no agent holds or requests a scope that
\* any agent above it lacks, though only neighbours are ever compared.
NoEscalation ==
  Done /\ verdict = "PASS" =>
    \A i \in DOMAIN doc.agents :
      \A b \in Lineage(doc, doc.agents[i].id) :
        /\ doc.agents[i].cert.template.scopes \subseteq TemplateOf(doc, b).scopes
        /\ doc.agents[i].requested # None =>
             doc.agents[i].requested \subseteq TemplateOf(doc, b).scopes

\* The decision log and the verdict cannot disagree: all nine rows and no DENY,
\* or one DENY, at the row of the refusal caught.
OneDenial ==
  Done => LET denied == {r \in stages : r.result = "DENY"} IN
          /\ \A r, s \in stages : r.n = s.n => r = s
          /\ verdict = "PASS" => denied = {} /\ {r.n : r \in stages} = 1..9
          /\ verdict = "DENY" => /\ Cardinality(denied) = 1
                                 /\ StageOf(failure.code) # 0 =>
                                      \A r \in denied : r.n = StageOf(failure.code)

\* The blocks of the walk, in order.
Walked == <<{"TRUST ANCHOR"}, {"PARENT AGENT"} \cup Codes(ChildLabel), {"CROSS-ORG GRANT"},
            {"POLICY UPDATE"}, {"DELEGATION"}, {"AUDIT CHAIN"}>>

\* The walk tells how far down the chain a run got: it denies the subject the
\* refusal names and no other, and has no row of a later block.
WalkBlames ==
  Done =>
    /\ {s \in Subject : walk[s] = "DENY"} =
         IF verdict = "PASS" THEN {} ELSE {failure.subject} \ {None}
    /\ \A i, j \in DOMAIN Walked : \A s \in Walked[i], t \in Walked[j] :
         i < j /\ walk[s] = "DENY" => walk[t] = None

\* Section 10.4: a run leaves one audit entry at most, and an ALLOWED one only
\* and always if it passes.
OneEntry ==
  Done => IF verdict = "PASS" THEN log = <<"ALLOWED">> ELSE log \in {<<>>, <<"DENIED">>}

\* Every run ends, in a verdict or a throw.
EventuallyDecided == <>(pc \in {"done", "thrown"})

\* "never throws", the contract of runPipeline.
NeverThrows == pc # "thrown"

=============================================================================
