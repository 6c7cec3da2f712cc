---------------------------- MODULE MCAuditWorker ----------------------------
(* Instances of AuditWorker for TLC: two processes on one database.        *)
EXTENDS AuditWorker, TLC

\* Processes and entries are interchangeable in every safety property.
Symmetry == Permutations(Workers) \cup Permutations(Items)
==============================================================================
