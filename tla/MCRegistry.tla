----------------------------- MODULE MCRegistry -----------------------------
(***************************************************************************)
(* Small Registries for TLC.  Two home orchestrators p and q may spawn a   *)
(* home worker a and a partner worker b, which needs the partner's grant.  *)
(***************************************************************************)
EXTENDS Registry, TLC

MCAgent == {"p", "q", "a", "b"}
MCNonce == {"n1", "n2", "n3"}
MCGrant == {"g"}

Worker(org) == [org |-> org, spawner |-> FALSE, canSpawn |-> {}, maxChildren |-> 0,
                scopes |-> {"read"}, ttl |-> 1, policyRef |-> None]

Orchestrator(self, cap) ==
  [Worker("home") EXCEPT !.spawner = TRUE, !.canSpawn = {"a", "b"},
                         !.maxChildren = cap, !.policyRef = self]

MCT == [x \in MCAgent |-> CASE x = "p" -> Orchestrator("p", 1)
                            [] x = "q" -> Orchestrator("q", 2)
                            [] x = "a" -> Worker("home")
                            [] x = "b" -> Worker("partner")]

MCTerms == [template |-> "b", grantor |-> "partner", grantee |-> "home", issued |-> 0,
            ttl |-> 1, scopes |-> {"read"}, signed |-> TRUE, maxSpawns |-> 1]

MCG == [g \in MCGrant |-> MCTerms]

\* A wider cast for the refusals: e has no scopes, w more than its parent holds,
\* p no resolvable policy_ref, and each grant but g has one flaw.
RefusalAgent == MCAgent \cup {"e", "w"}
RefusalGrant == {"g", "other", "foreign", "early", "late", "wide", "forged", "spent"}

RefusalT == [x \in RefusalAgent |->
  CASE x = "p" -> [Orchestrator("p", 1) EXCEPT !.policyRef = None]
    [] x = "q" -> [Orchestrator("q", 2) EXCEPT !.canSpawn = {"a", "b", "e", "w"}]
    [] x = "a" -> Worker("home")
    [] x = "b" -> Worker("partner")
    [] x = "e" -> [Worker("home") EXCEPT !.scopes = {}]
    [] x = "w" -> [Worker("home") EXCEPT !.scopes = {"read", "write"}]]

RefusalG == [g \in RefusalGrant |->
  CASE g = "g" -> MCTerms
    [] g = "other" -> [MCTerms EXCEPT !.template = "a"]
    [] g = "foreign" -> [MCTerms EXCEPT !.grantee = "partner"]
    [] g = "early" -> [MCTerms EXCEPT !.issued = 3]
    [] g = "late" -> [MCTerms EXCEPT !.issued = 0, !.ttl = 1]
    [] g = "wide" -> [MCTerms EXCEPT !.scopes = {"read", "write"}]
    [] g = "forged" -> [MCTerms EXCEPT !.signed = FALSE]
    [] g = "spent" -> [MCTerms EXCEPT !.maxSpawns = 0]]

Spawn(parent, child, nonce) ==
  [op |-> "spawn", parent |-> parent, child |-> child, nonce |-> nonce, skew |-> 0,
   attested |-> "sound", grant |-> IF child = "b" THEN "g" ELSE None]

Issue(child) == [op |-> "issue", child |-> child, attested |-> "sound"]

Adopt(subject, version, targets) ==
  [op |-> "adopt", conforming |-> TRUE,
   policy |-> [subject |-> subject, version |-> version, targets |-> targets]]

\* Counts, grants, live certificates, and policies that supersede one another
\* while children are spawned under them: p holds one child, q two.
CountRequests == {Spawn("p", "a", "n1"), Spawn("p", "b", "n2"), Spawn("q", "b", "n3"),
                  Spawn("q", "a", "n2"), Issue("a"),
                  Adopt("p", 1, {"a", "b"}), Adopt("q", 1, {"a", "b"}),
                  Adopt("p", 2, {"a"})}

\* Every refusal of spawn, issue and adoptPolicy, a replayed nonce, and two
\* spawns that race for a grant.
Under(g) == [Spawn("q", "b", "n2") EXCEPT !.grant = g]

RefusalRequests == {
  Spawn("q", "a", "n1"), Spawn("q", "b", "n1"), Spawn("p", "a", "n1"), Spawn("a", "b", "n1"), Spawn("q", "p", "n1"),
  Spawn("q", "e", "n1"), Spawn("q", "w", "n1"),
  [Spawn("q", "a", "n1") EXCEPT !.skew = 2],
  [Spawn("q", "a", "n1") EXCEPT !.skew = -2],
  [Spawn("q", "a", "n2") EXCEPT !.attested = "unsigned"],
  [Spawn("q", "a", "n2") EXCEPT !.attested = "nonconforming"],
  Under(None)}
  \cup {Under(g) : g \in RefusalGrant}
  \cup {[Issue("a") EXCEPT !.attested = x] : x \in Attested}
  \cup {Adopt("q", 1, {"a", "b", "e", "w"}), Adopt("q", 1, {"q"})}

Symmetry == Permutations(Call)
=============================================================================
