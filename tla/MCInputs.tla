------------------------------ MODULE MCInputs ------------------------------
EXTENDS Inputs

\* The name of a member and a name no document has, one spelt with an escape.
MCMeaning == [s \in {"id", "i\\u0064", "agent", "__proto__"} |-> IF s = "i\\u0064" THEN "id" ELSE s]
MCSpelling == DOMAIN MCMeaning
MCForbidden == {"__proto__"}
MCKnown == {"id"}
MCKeyOrder == <<"__proto__", "agent", "id">>

=============================================================================
