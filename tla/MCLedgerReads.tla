---------------------------- MODULE MCLedgerReads ----------------------------
(* Instances of LedgerReads for TLC: rows of two applications, a dossier of *)
(* one of them or of both.                                                  *)
EXTENDS LedgerReads

CONSTANTS a, b

MCEntries == {a, b}
MCFilters == {{a}, {a, b}}
==============================================================================
