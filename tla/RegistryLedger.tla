--------------------------- MODULE RegistryLedger ---------------------------
(***************************************************************************)
(* What the Registry promises, with no counts, no live set and no awaits:  *)
(* a ledger of certificates to which a spawn adds one atomically, under    *)
(* conditions stated on the ledger itself, and a policy store whose        *)
(* versions rise.  src/mint.js keeps three incremental summaries of the    *)
(* ledger (live, children, grantSpawns); that they stand for it is what    *)
(* ImplementsLedger of Registry says.                                      *)
(***************************************************************************)
EXTENDS RegistryData

VARIABLES
  certs,     \* the certificates issued since the Registry was made
  policies,  \* subject -> the policy body in force, or None
  signed     \* policy bodies the authorities have signed

ledgerVars == <<certs, policies, signed>>

Init ==
  /\ certs = {}
  /\ policies = [a \in Agent |-> None]
  /\ signed = {}

\* No certificate of c's subject is live when c starts.
NoneLive(c) == \A d \in certs : d.subject = c.subject => d.until <= c.from

\* The policy in force that the parent's policy_ref resolves to names the child.
InPolicy(c) ==
  LET ref == T[c.parent].policyRef IN
  IF ref = None THEN FALSE
  ELSE IF policies[ref] = None THEN FALSE
  ELSE c.subject \in policies[ref].targets

\* Section 10.1 Check 1 and section 10.3.
WithinTemplate(c) ==
  /\ T[c.parent].spawner
  /\ c.subject \in T[c.parent].canSpawn
  /\ T[c.subject].scopes # {}
  /\ T[c.subject].scopes \subseteq T[c.parent].scopes

\* Section 13.2: a partner's template is spawned under its owner's grant.
Granted(c) ==
  IF ~CrossOrg(c.parent, c.subject) THEN c.grant = None
  ELSE IF c.grant = None THEN FALSE
  ELSE /\ G[c.grant].template = c.subject
       /\ G[c.grant].signed
       /\ Cardinality(IssuedUnder(certs, c.grant)) < G[c.grant].maxSpawns

\* Certificate c is added, dated no earlier than any before it.
Certified(c) ==
  /\ \A d \in certs : d.from <= c.from
  /\ c.until = c.from + T[c.subject].ttl
  /\ certs' = certs \cup {c}
  /\ UNCHANGED <<policies, signed>>

Spawn(c) ==
  /\ c.parent # None
  /\ \A d \in certs : d.nonce # c.nonce
  /\ WithinTemplate(c)
  /\ Granted(c)
  /\ InPolicy(c)
  /\ Cardinality(SpawnedBy(certs, c.parent)) < T[c.parent].maxChildren
  /\ NoneLive(c)
  /\ Certified(c)

Issue(c) ==
  /\ c.parent = None /\ c.grant = None /\ c.nonce = None
  /\ Certified(c)

Adopt(a) ==
  /\ policies'[a] \in Policy
  /\ policies'[a].subject = a
  /\ policies'[a].targets \subseteq T[a].canSpawn
  /\ policies[a] # None => policies[a].version < policies'[a].version
  /\ policies' = [policies EXCEPT ![a] = policies'[a]]
  /\ signed' = signed \cup {policies'[a]}
  /\ UNCHANGED certs

\* A Registry rebuilt from a document starts a new ledger.
Restart ==
  /\ certs' = {}
  /\ policies' \in [Agent -> signed \cup {None}]
  /\ \A a \in Agent : policies'[a] # None => policies'[a].subject = a
  /\ UNCHANGED signed

Next ==
  \/ \E c \in certs' \ certs : Spawn(c) \/ Issue(c)
  \/ \E a \in Agent : Adopt(a)
  \/ Restart

Spec == Init /\ [][Next]_ledgerVars
=============================================================================
