---------------------------- MODULE MCAuditJournal ----------------------------
(* Instances of AuditJournal for TLC. *)
EXTENDS AuditJournal, TLC

\* Requests are interchangeable: no action compares or orders them.
RequestSymmetry == Permutations(Requests)
=============================================================================
