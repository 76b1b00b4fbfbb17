---------------------------- MODULE MCAuditChain ----------------------------
(***************************************************************************)
(* Small instances of AuditChain.  Writers and recorded members are        *)
(* interchangeable, and no property tells one of them from another.        *)
(***************************************************************************)
EXTENDS AuditChain, TLC

Symmetry == Permutations(Writer) \cup Permutations(Event)

=============================================================================
