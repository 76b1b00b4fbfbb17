---------------------------- MODULE RegistryData ----------------------------
(***************************************************************************)
(* What the Registry of src/mint.js reads and writes: templates, grants,   *)
(* policies and certificates, reduced to the members its decisions turn    *)
(* on.  A template is the one its subject's certificate carries, so T and  *)
(* G are constants.                                                        *)
(***************************************************************************)
EXTENDS Integers, FiniteSets

CONSTANTS
  Call,   \* calls one Registry object receives (bounds the model)
  Agent,  \* template subjects
  Nonce,  \* spawn nonces
  Grant,  \* grant identifiers
  T,      \* subject -> the members of its template
  G,      \* grant identifier -> the grant's terms
  None    \* null, an absent Map entry, GENESIS_PREVIOUS_HASH

Org == {"home", "partner"}
Scope == {"read", "write"}

\* spawner: permitted_operations includes "spawn".
Template == [org: Org, spawner: BOOLEAN, canSpawn: SUBSET Agent, maxChildren: Nat,
             scopes: SUBSET Scope, ttl: Nat \ {0}, policyRef: Agent \cup {None}]

\* signed: both signatures are present, by distinct keys, and verify.
Terms == [template: Agent, grantor: Org, grantee: Org, issued: Nat, ttl: Nat \ {0},
          scopes: SUBSET Scope, signed: BOOLEAN, maxSpawns: Nat]

Policy == [subject: Agent, version: Nat \ {0}, targets: SUBSET Agent]

\* A certificate, and the call that obtained it.  parent, grant and nonce are
\* members of the Agent Spawn extension: None for one issued outside spawn.
Certificate == [call: Call, subject: Agent, parent: Agent \cup {None},
                grant: Grant \cup {None}, nonce: Nonce \cup {None},
                from: Nat, until: Nat]

ASSUME TemplateAssumption == T \in [Agent -> Template]
ASSUME GrantAssumption == G \in [Grant -> Terms]
ASSUME NoneAssumption == None \notin Call \cup Agent \cup Grant \cup Nonce \cup Policy
ASSUME FiniteAssumption == IsFiniteSet(Agent) /\ IsFiniteSet(Call)
\* The gate of section 9.1: max_children never exceeds the CanSpawn list.
ASSUME GateAssumption == \A a \in Agent : T[a].maxChildren <= Cardinality(T[a].canSpawn)

\* Step 2 of spawn: the child's organization is not its parent's.
CrossOrg(parent, child) == T[child].org # T[parent].org

\* The subjects of the certificates in cs that name p as their parent.
SpawnedBy(cs, p) == {c.subject : c \in {d \in cs : d.parent = p}}

\* The certificates in cs that name grant g.
IssuedUnder(cs, g) == {c \in cs : c.grant = g}

=============================================================================
