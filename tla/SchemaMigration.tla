--------------------------- MODULE SchemaMigration ---------------------------
(***************************************************************************)
(* init_db of proxy/database.py: each process that starts creates the      *)
(* missing tables and brings an old audit_ledger to the present schema.    *)
(* Processes start together, are killed half way and start again, and the  *)
(* processes of the old release go on writing meanwhile.                   *)
(*                                                                         *)
(* On SQLite each DDL statement is its own transaction.  On PostgreSQL the *)
(* statements of init_db are one transaction, which keeps its locks to its *)
(* end, and which a failed statement rolls back: COMMIT then does nothing. *)
(*                                                                         *)
(* A definition X_Something, before X, is X with a plausible bug in it; no *)
(* specification uses it.                                                  *)
(***************************************************************************)
EXTENDS Naturals

CONSTANTS
    Processes,      \* processes of the new release on one database
    Dialects,       \* the databases to consider
    Bases,          \* the databases found: what they have, and whether forked
    MaxFailures     \* bound on kills and on statements that fail

Parts == {"table",      \* audit_ledger
          "request",    \* the unique index of request_id
          "column",     \* audit_ledger.upstream_error
          "chain"}      \* the unique constraint or index of previous_hash

\* What the databases found may have: nothing, the tables of the old release,
\* or all of it.
Empty == [parts |-> {}, forked |-> FALSE]
Legacy(forked) == [parts |-> {"table", "request"}, forked |-> forked]
Present == [parts |-> Parts, forked |-> FALSE]

\* What the constants are; an instance of the module assumes it.
SchemaAssumption ==
    /\ Dialects \subseteq {"sqlite", "postgresql"}
    /\ Bases \subseteq {Empty, Present} \cup {Legacy(f) : f \in BOOLEAN}
    /\ MaxFailures \in Nat

VARIABLES
    dialect,    \* the database behind DATABASE_URL
    base,       \* history: the database that was found
    schema,     \* what is committed
    forked,     \* two rows share their previous_hash
    pc,         \* where each process is in init_db
    pending,    \* what its transaction did and has not committed
    warned,     \* it logged that the index could not be created
    failures    \* kills and failed statements so far

vars == <<dialect, base, schema, forked, pc, pending, warned, failures>>

Init ==
    /\ dialect \in Dialects
    /\ base \in Bases
    /\ schema = base.parts
    /\ forked = base.forked
    /\ pc = [p \in Processes |-> "down"]
    /\ pending = [p \in Processes |-> {}]
    /\ warned = [p \in Processes |-> FALSE]
    /\ failures = 0

------------------------------------------------------------------------------
(* The database.                                                           *)

\* What a statement of p finds: the committed schema and its own changes.
Visible(p) == schema \cup pending[p]

\* No other transaction holds the locks that a change of the table needs.
Unlocked(p) == \A q \in Processes \ {p} : pending[q] = {}

\* A DDL statement of p.
Apply(p, parts) ==
    IF dialect = "sqlite"
    THEN schema' = schema \cup parts /\ UNCHANGED pending
    ELSE pending' = [pending EXCEPT ![p] = @ \cup parts] /\ UNCHANGED schema

GoTo(p, place) == pc' = [pc EXCEPT ![p] = place]

\* The process ends before init_db does; its transaction is rolled back.
Dies(p) ==
    /\ GoTo(p, "down")
    /\ pending' = [pending EXCEPT ![p] = {}]
    /\ warned' = [warned EXCEPT ![p] = FALSE]
    /\ UNCHANGED <<dialect, base, schema, forked>>

------------------------------------------------------------------------------
(* init_db.                                                                *)

\* create_all looks for the tables first.
Inspect_NotFirst(p) ==
    /\ pc[p] = "down"
    /\ GoTo(p, "create")
    /\ UNCHANGED <<dialect, base, schema, forked, pending, warned, failures>>

Inspect(p) ==
    /\ pc[p] = "down"
    /\ GoTo(p, IF "table" \in schema THEN "columns" ELSE "create")
    /\ UNCHANGED <<dialect, base, schema, forked, pending, warned, failures>>

CreateTable_NoConstraint(p) ==
    /\ pc[p] = "create"
    /\ Unlocked(p)
    /\ IF "table" \in Visible(p)
       THEN Dies(p)
       ELSE /\ Apply(p, {"table", "column"})
            /\ GoTo(p, "indexes")
            /\ UNCHANGED <<dialect, base, forked, warned>>
    /\ UNCHANGED failures

\* CREATE TABLE, with its columns and the constraint on previous_hash; it
\* raises when another process has created the table since.
CreateTable(p) ==
    /\ pc[p] = "create"
    /\ Unlocked(p)
    /\ IF "table" \in Visible(p)
       THEN Dies(p)
       ELSE /\ Apply(p, {"table", "column", "chain"})
            /\ GoTo(p, "indexes")
            /\ UNCHANGED <<dialect, base, forked, warned>>
    /\ UNCHANGED failures

\* CREATE INDEX for each indexed column of the table just created.
CreateIndexes(p) ==
    /\ pc[p] = "indexes"
    /\ Apply(p, {"request"})
    /\ GoTo(p, "columns")
    /\ UNCHANGED <<dialect, base, forked, warned, failures>>

ReadColumns_IndexWithColumn(p) ==
    /\ pc[p] = "columns"
    /\ GoTo(p, IF "column" \in Visible(p) THEN "commit" ELSE "alter")
    /\ UNCHANGED <<dialect, base, schema, forked, pending, warned, failures>>

\* _audit_ledger_columns.
ReadColumns(p) ==
    /\ pc[p] = "columns"
    /\ GoTo(p, IF "column" \in Visible(p) THEN "guard" ELSE "alter")
    /\ UNCHANGED <<dialect, base, schema, forked, pending, warned, failures>>

\* ALTER TABLE; it raises when another process has added the column since.
AddColumn(p) ==
    /\ pc[p] = "alter"
    /\ Unlocked(p)
    /\ IF "column" \in Visible(p)
       THEN Dies(p)
       ELSE /\ Apply(p, {"column"})
            /\ GoTo(p, "guard")
            /\ UNCHANGED <<dialect, base, forked, warned>>
    /\ UNCHANGED failures

\* CREATE UNIQUE INDEX IF NOT EXISTS.
GuardChain(p) ==
    /\ pc[p] = "guard"
    /\ Unlocked(p)
    /\ "chain" \in Visible(p) \/ ~ forked
    /\ IF "chain" \in Visible(p) THEN UNCHANGED <<schema, pending>> ELSE Apply(p, {"chain"})
    /\ GoTo(p, "commit")
    /\ UNCHANGED <<dialect, base, forked, warned, failures>>

\* The table holds a fork, or the statement fails for a reason of its own (a
\* locked file, a race for the name of the index).  Any of them is only logged,
\* and it undoes what a transaction had done before.
GuardFails(p) ==
    /\ pc[p] = "guard"
    /\ \/ forked /\ "chain" \notin Visible(p) /\ Unlocked(p) /\ UNCHANGED failures
       \/ failures < MaxFailures /\ failures' = failures + 1
    /\ warned' = [warned EXCEPT ![p] = TRUE]
    /\ pending' = [pending EXCEPT ![p] = {}]
    /\ GoTo(p, "commit")
    /\ UNCHANGED <<dialect, base, schema, forked>>

\* The end of engine.begin(), and of the start.
Commit(p) ==
    /\ pc[p] = "commit"
    /\ schema' = schema \cup pending[p]
    /\ pending' = [pending EXCEPT ![p] = {}]
    /\ GoTo(p, "up")
    /\ UNCHANGED <<dialect, base, forked, warned, failures>>

------------------------------------------------------------------------------
(* The environment.                                                        *)

\* A kill, or another statement of init_db that fails: the process ends.
Fails(p) ==
    /\ pc[p] # "down"
    /\ failures < MaxFailures
    /\ failures' = failures + 1
    /\ Dies(p)

\* Two writers of one tail: processes of the old release, which is there when
\* its table was found, or processes that are up.  Writing waits for the locks.
Fork ==
    /\ ~ forked
    /\ "table" \in schema /\ "chain" \notin schema
    /\ base.parts # {} \/ \E p \in Processes : pc[p] = "up"
    /\ \A q \in Processes : pending[q] = {}
    /\ forked' = TRUE
    /\ UNCHANGED <<dialect, base, schema, pc, pending, warned, failures>>

Step(p) ==
    \/ Inspect(p)
    \/ CreateTable(p)
    \/ CreateIndexes(p)
    \/ ReadColumns(p)
    \/ AddColumn(p)
    \/ GuardChain(p)
    \/ GuardFails(p)
    \/ Commit(p)

Next == Fork \/ \E p \in Processes : Step(p) \/ Fails(p)

Spec == Init /\ [][Next]_vars

\* Statements end, locks are granted in the end, and the service is started
\* again whenever it stops (restart: unless-stopped).
FairSpec == Spec /\ \A p \in Processes : WF_vars(Step(p))

------------------------------------------------------------------------------
(* Correctness.                                                            *)

TypeOK ==
    /\ dialect \in Dialects /\ base \in Bases
    /\ schema \subseteq Parts /\ forked \in BOOLEAN
    /\ pc \in [Processes -> {"down", "create", "indexes", "columns", "alter", "guard",
                             "commit", "up"}]
    /\ pending \in [Processes -> SUBSET Parts]
    /\ warned \in [Processes -> BOOLEAN]
    /\ failures \in 0 .. MaxFailures

\* What a process that is up works on, however its start raced with others and
\* wherever earlier starts were cut.  On SQLite it has the table and the column,
\* and the chain is guarded or the process said that it is not; the index of
\* request_id may be missing for good, for nothing looks for it once the table is
\* there.  On PostgreSQL the whole schema is there unless the process logged that
\* its index failed: that message then stands for all that was rolled back with
\* it, be it the column or the table (database.py:31-61).
UpIsMigrated ==
    \A p \in Processes : pc[p] = "up" =>
        IF dialect = "sqlite"
        THEN {"table", "column"} \subseteq schema /\ ("chain" \in schema \/ warned[p])
        ELSE Parts \subseteq schema \/ warned[p]

\* A table this release created never holds a fork, not even when the process
\* that created it was killed, or its index was refused (models.py:13-18).
BornUnforked == base.parts = {} => ~ forked

\* Every process gets through init_db in the end: those that lose a race for the
\* table or the column fail once and find it at their next start.
EventuallyUp == \A p \in Processes : <>(pc[p] = "up")

\* _migrate_audit_ledger brings a base to the present schema, and the start goes
\* on when the chain is forked: a process that is up has the column its
\* INSERTs name.
UpHasColumn == \A p \in Processes : pc[p] = "up" => "column" \in schema
==============================================================================
