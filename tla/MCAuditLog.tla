----------------------------- MODULE MCAuditLog -----------------------------
(* Symmetry for checking AuditLog on small instances. *)
EXTENDS AuditLog, TLC

Symmetry == Permutations(Runners) \cup Permutations(Callers)
=============================================================================
