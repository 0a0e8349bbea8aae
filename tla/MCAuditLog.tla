------------------------------- MODULE MCAuditLog -------------------------------
(* AuditLog tells writers, keys and operations apart by equality alone. *)
EXTENDS AuditLog, TLC

Symmetry == Permutations(Writers) \cup Permutations(Ops)
===============================================================================
