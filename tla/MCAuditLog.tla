------------------------------ MODULE MCAuditLog ------------------------------
(***************************************************************************)
(* AuditLog for TLC.  Entries are only compared for equality.              *)
(***************************************************************************)
EXTENDS AuditLog, TLC

Symmetry == Permutations(Entries)
=============================================================================
