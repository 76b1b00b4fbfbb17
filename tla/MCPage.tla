------------------------------- MODULE MCPage -------------------------------
(***************************************************************************)
(* The page for TLC: the texts a user may leave in place of the seed, and  *)
(* the buttons of the runs that press only a few.                          *)
(***************************************************************************)
EXTENDS Page

MCAgent == {"r", "a", "f1", "f2"}
MCNonce == {"n1", "n2", "n3"}

\* The child is certified for sixty seconds, and no audit chain comes with it.
MCBrief == [Seed EXCEPT !.audit = "missing", !.agents[2].cert.template.ttl = Minute]

\* A second policy of the parent is in force, three versions on; the audit
\* member is no chain.
MCSuperseded ==
  [Seed EXCEPT !.audit = "illformed",
               !.policies = Append(@, [Seed.policies[1] EXCEPT !.version = 4])]

MCTyped == {Unparseable, MCBrief, MCSuperseded,
            [Seed EXCEPT !.audit = "missing", !.agents[2].id = "notText"],
            [Seed EXCEPT !.agents[2].requested = {"admin"}]}

MCNothing == {}

MCRecertify == {"Spawn across organizations", "Re-issue the child, same bounds"}

MCVersions == {"Policy: revoke write access", "Replay an old policy, bump version"}

=============================================================================
