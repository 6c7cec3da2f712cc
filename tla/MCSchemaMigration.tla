-------------------------- MODULE MCSchemaMigration --------------------------
(* Instances of SchemaMigration for TLC.                                   *)
EXTENDS SchemaMigration

AllBases == {Empty, Present, Legacy(FALSE), Legacy(TRUE)}
Forked == {Legacy(TRUE)}
==============================================================================
