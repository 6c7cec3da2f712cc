---------------------------- MODULE DailyArchive -----------------------------
(***************************************************************************)
(* The daily sealing of the ledger: s3_worm_archiver.py, the scheduler and *)
(* the backfill of daily_scheduler.py, and the start and end of the        *)
(* process that runs them (main.py).  A batch goes through its steps one   *)
(* await at a time, so batches of the cron job, of the backfill and of the *)
(* script tests/manual_trigger_batch.py interleave with each other, with   *)
(* new rows, with altered rows, with midnight and with a killed process.   *)
(*                                                                         *)
(* Time goes by hours from the first midnight UTC; a date is the number of *)
(* its day.  The verification of the chain is one step here: LedgerReads   *)
(* shows what its pages can see.                                           *)
(*                                                                         *)
(* A definition X_Something, before X, is X with a plausible bug in it; no *)
(* specification uses it.                                                  *)
(***************************************************************************)
EXTENDS Integers, Sequences, FiniteSets

CONSTANTS
    HoursPerDay,  \* hours the model gives a day
    LastHour,     \* bound on the clock
    MaxRows,      \* bound on the rows
    MaxDelay,     \* hours a row can lag behind its timestamp_utc
    MaxCrashes,   \* bound on the times the process is killed
    Window,       \* max(1, ARCHIVE_BACKFILL_DAYS)
    UtcOffset,    \* hours the local time zone of the process is ahead of UTC
    S3Enabled,    \* S3_ENABLED
    Failures,     \* which steps may fail: "tsa", "rekor", "keys", "s3", "db"
    Manual,       \* whether somebody runs manual_trigger_batch.py
    Tamper        \* whether somebody alters stored rows

ASSUME ArchiveAssumption ==
    /\ HoursPerDay \in Nat \ {0} /\ Window \in Nat \ {0}
    /\ {LastHour, MaxRows, MaxDelay, MaxCrashes} \subseteq Nat
    /\ UtcOffset \in Int
    /\ S3Enabled \in BOOLEAN /\ Manual \in BOOLEAN /\ Tamper \in BOOLEAN
    /\ Failures \subseteq {"tsa", "rekor", "keys", "s3", "db"}

Tasks == {"cron", "backfill", "manual"}

VARIABLES
    clock,      \* hours since the first midnight
    up,         \* the proxy process runs, its scheduler with it
    cronDue,    \* the 00:05 run of today has not fired yet
    crashes,    \* times the process was killed
    rows,       \* audit_ledger: hour of timestamp_utc, altered, archived_to_s3
    manifests,  \* daily_batch_manifests
    objects,    \* dumps and time stamp tokens that were stored
    attested,   \* what the TSA and Rekor have put their seal on
    task        \* the archiving tasks

vars == <<clock, up, cronDue, crashes, rows, manifests, objects, attested, task>>

DayOf(hour) == hour \div HoursPerDay
Today == DayOf(clock)
Ids == DOMAIN rows
Altered == {k \in Ids : rows[k].altered}
Lowest(S) == CHOOSE x \in S : \A y \in S : x <= y

\* todo: dates still to archive; processed: dates the backfill reports; date,
\* ids, broken, notaries: what archive_day_batch holds between its awaits.
\* suspects and pending are history: rows altered when the batch began, rows not
\* archived when the backfill began.
Idle == [pc |-> "idle", todo |-> {}, processed |-> {}, date |-> 0, ids |-> {},
         broken |-> 0, notaries |-> {}, suspects |-> {}, pending |-> {}]

Init ==
    /\ clock = 0
    /\ up = FALSE
    /\ cronDue = FALSE
    /\ crashes = 0
    /\ rows = << >>
    /\ manifests = {}
    /\ objects = {}
    /\ attested = {}
    /\ task = [t \in Tasks |-> Idle]

------------------------------------------------------------------------------
(* Time, rows, the process.                                                *)

\* The scheduler fires within the hour, and a batch takes less than a day.
Tick ==
    /\ clock < LastHour
    /\ ~cronDue
    /\ DayOf(clock + 1) # Today => task["cron"].pc = "idle"
    /\ clock' = clock + 1
    /\ cronDue' = (up /\ DayOf(clock + 1) # Today)
    /\ UNCHANGED <<up, crashes, rows, manifests, objects, attested, task>>

\* The worker chains a row; its timestamp is the one of the request, taken
\* before the answer was streamed and the entry waited in the queue.
AppendRow(hour) ==
    /\ up
    /\ Len(rows) < MaxRows
    /\ rows' = Append(rows, [hour |-> hour, altered |-> FALSE, archived |-> FALSE])
    /\ UNCHANGED <<clock, up, cronDue, crashes, manifests, objects, attested, task>>

AlterRow(k) ==
    /\ Tamper
    /\ ~rows[k].altered
    /\ rows' = [rows EXCEPT ![k].altered = TRUE]
    /\ UNCHANGED <<clock, up, cronDue, crashes, manifests, objects, attested, task>>

Boot_NoBackfill ==
    /\ ~up
    /\ up' = TRUE
    /\ cronDue' \in IF clock % HoursPerDay = 0 THEN BOOLEAN ELSE {FALSE}
    /\ UNCHANGED <<clock, crashes, rows, manifests, objects, attested, task>>

\* lifespan: the scheduler and the backfill start.  At hour 0 it may be before
\* or after 00:05.
Boot ==
    /\ ~up
    /\ up' = TRUE
    /\ cronDue' \in IF clock % HoursPerDay = 0 THEN BOOLEAN ELSE {FALSE}
    /\ task' = [task EXCEPT !["backfill"] = [Idle EXCEPT !.pc = "list"]]
    /\ UNCHANGED <<clock, crashes, rows, manifests, objects, attested>>

Down_KeepsCronDue ==
    /\ up
    /\ crashes < MaxCrashes
    /\ crashes' = crashes + 1
    /\ up' = FALSE
    /\ task' = [task EXCEPT !["cron"] = Idle, !["backfill"] = Idle]
    /\ UNCHANGED <<clock, cronDue, rows, manifests, objects, attested>>

\* The process ends, by a kill or by the shutdown that cancels both tasks.
Down ==
    /\ up
    /\ crashes < MaxCrashes
    /\ crashes' = crashes + 1
    /\ up' = FALSE
    /\ cronDue' = FALSE
    /\ task' = [task EXCEPT !["cron"] = Idle, !["backfill"] = Idle]
    /\ UNCHANGED <<clock, rows, manifests, objects, attested>>

------------------------------------------------------------------------------
(* Who archives.                                                           *)

\* run_daily_archival_job.
CronFires ==
    /\ up /\ cronDue
    /\ task["cron"].pc = "idle"
    /\ cronDue' = FALSE
    /\ task' = [task EXCEPT !["cron"] = [Idle EXCEPT !.pc = "lookup", !.todo = {Today - 1}]]
    /\ UNCHANGED <<clock, up, crashes, rows, manifests, objects, attested>>

\* manual_trigger_batch.py archives today.
ManualRun ==
    /\ Manual
    /\ task["manual"].pc = "idle"
    /\ task' = [task EXCEPT !["manual"] = [Idle EXCEPT !.pc = "lookup", !.todo = {Today}]]
    /\ UNCHANGED <<clock, up, cronDue, crashes, rows, manifests, objects, attested>>

InWindow_WithToday(k) ==
    /\ ~rows[k].archived
    /\ DayOf(rows[k].hour) >= Today - Window
    /\ DayOf(rows[k].hour) <= Today

InWindow(k) ==
    /\ ~rows[k].archived
    /\ DayOf(rows[k].hour) >= Today - Window
    /\ DayOf(rows[k].hour) < Today

\* stamp.astimezone(utc): a stamp read back from SQLite has no zone and is taken
\* for local time.
StampDate(hour) == DayOf(hour - UtcOffset)

\* pending_batch_dates.
ListPending ==
    /\ task["backfill"].pc = "list"
    /\ LET found == {k \in Ids : InWindow(k)}
       IN  task' = [task EXCEPT !["backfill"] =
                        [Idle EXCEPT !.pc = "lookup", !.pending = found,
                                     !.todo = {StampDate(rows[k].hour) : k \in found}]]
    /\ UNCHANGED <<clock, up, cronDue, crashes, rows, manifests, objects, attested>>

------------------------------------------------------------------------------
(* archive_day_batch.                                                      *)

Becomes(t, state) ==
    /\ task' = [task EXCEPT ![t] = state]
    /\ UNCHANGED <<clock, up, cronDue, crashes>>

\* archive_day_batch returned None, or raised: the backfill goes on with its
\* next date.
NotSealed(t) == [Idle EXCEPT !.pc = "lookup", !.todo = task[t].todo, !.pending = task[t].pending,
                             !.processed = task[t].processed]

\* It returned a manifest, the old one or a new one.
Sealed(t, d) == [NotSealed(t) EXCEPT !.processed = @ \cup {d}]

\* The manifest of the next date is looked for; a sealed day is left as it is.
Lookup(t) ==
    /\ task[t].pc = "lookup"
    /\ task[t].todo # {}
    /\ LET d == Lowest(task[t].todo)
           rest == task[t].todo \ {d}
       IN  IF \E m \in manifests : m.date = d
           THEN Becomes(t, [Sealed(t, d) EXCEPT !.todo = rest])
           ELSE Becomes(t, [task[t] EXCEPT !.pc = "verify", !.todo = rest, !.date = d,
                                           !.suspects = Altered])
    /\ UNCHANGED <<rows, manifests, objects, attested>>

Verify_OnlyTheDay(t) ==
    /\ task[t].pc = "verify"
    /\ LET here == {k \in Altered : DayOf(rows[k].hour) = task[t].date}
       IN  Becomes(t, [task[t] EXCEPT !.pc = "read",
                                      !.broken = IF here = {} THEN 0 ELSE Lowest(here)])
    /\ UNCHANGED <<rows, manifests, objects, attested>>

\* verify_ledger_integrity: the first id whose hash does not follow, or 0.
Verify(t) ==
    /\ task[t].pc = "verify"
    /\ Becomes(t, [task[t] EXCEPT !.pc = "read",
                                  !.broken = IF Altered = {} THEN 0 ELSE Lowest(Altered)])
    /\ UNCHANGED <<rows, manifests, objects, attested>>

ReadRows_SkipsMidnight(t) ==
    /\ task[t].pc = "read"
    /\ LET ids == {k \in Ids : /\ DayOf(rows[k].hour) = task[t].date
                               /\ rows[k].hour > task[t].date * HoursPerDay}
       IN  Becomes(t, IF ids = {} THEN NotSealed(t)
                      ELSE [task[t] EXCEPT !.pc = "notary", !.ids = ids])
    /\ UNCHANGED <<rows, manifests, objects, attested>>

\* The rows of the day are read; dump, Merkle root and signature follow.
ReadRows(t) ==
    /\ task[t].pc = "read"
    /\ LET ids == {k \in Ids : DayOf(rows[k].hour) = task[t].date}
       IN  Becomes(t, IF ids = {} THEN NotSealed(t)
                      ELSE [task[t] EXCEPT !.pc = "notary", !.ids = ids])
    /\ UNCHANGED <<rows, manifests, objects, attested>>

\* TSA and Rekor get the Merkle root of the record hashes, which commit to the
\* rows as they were chained.
Attest(t, notaries) == attested' = attested \cup {<<n, task[t].ids>> : n \in notaries}

\* A notary that fails is logged and the batch goes on.  The two requests are
\* one step, like the two stores: no other task reads what they leave.
Notarise(t) ==
    /\ task[t].pc = "notary"
    /\ \E took \in {N \in SUBSET {"tsa", "rekor"} : {"tsa", "rekor"} \ N \subseteq Failures} :
        /\ Attest(t, took)
        /\ Becomes(t, [task[t] EXCEPT !.pc = "store", !.notaries = took])
    /\ UNCHANGED <<rows, manifests, objects>>

\* The key is needed again between the two, for Rekor; when it cannot be read
\* the batch ends there.
SigningFails(t) ==
    /\ "keys" \in Failures
    /\ \/ task[t].pc = "read" /\ UNCHANGED attested
       \/ task[t].pc = "notary" /\ (Attest(t, {"tsa"}) \/ UNCHANGED attested)
    /\ Becomes(t, NotSealed(t))
    /\ UNCHANGED <<rows, manifests, objects>>

\* What a batch stores, under keys that hold the date and the root: its token if
\* it has one (_persist_tsr: in the bucket, or in a local directory) and, with
\* S3, its dump.
Stored(t, kind) == [kind |-> kind, date |-> task[t].date, root |-> task[t].ids]
Token(t) == IF "tsa" \in task[t].notaries THEN {Stored(t, "token")} ELSE {}
Dump(t) == IF S3Enabled THEN {Stored(t, "dump")} ELSE {}

Store_DumpOnly(t) ==
    /\ task[t].pc = "store"
    /\ objects' = objects \cup Dump(t)
    /\ Becomes(t, [task[t] EXCEPT !.pc = "commit"])
    /\ UNCHANGED <<rows, manifests, attested>>

Store(t) ==
    /\ task[t].pc = "store"
    /\ objects' = objects \cup Token(t) \cup Dump(t)
    /\ Becomes(t, [task[t] EXCEPT !.pc = "commit"])
    /\ UNCHANGED <<rows, manifests, attested>>

\* Of the token, or of the dump after it.
StoreFails(t) ==
    /\ "s3" \in Failures
    /\ task[t].pc = "store"
    /\ objects' \in {objects, objects \cup Token(t)}
    /\ Becomes(t, NotSealed(t))
    /\ UNCHANGED <<rows, manifests, attested>>

\* s3_object_key is the key of the dump, stored or not.
Manifest(t) == [date |-> task[t].date, ids |-> task[t].ids, broken |-> task[t].broken,
                notaries |-> task[t].notaries, suspects |-> task[t].suspects,
                s3_object_key |-> Stored(t, "dump")]

Commit_NotUnique(t) ==
    /\ task[t].pc = "commit"
    /\ manifests' = manifests \cup {Manifest(t)}
    /\ rows' = [k \in Ids |-> [rows[k] EXCEPT !.archived = @ \/ k \in task[t].ids]]
    /\ Becomes(t, Sealed(t, task[t].date))
    /\ UNCHANGED <<objects, attested>>

Commit_FlagsTheDay(t) ==
    /\ task[t].pc = "commit"
    /\ \A m \in manifests : m.date # task[t].date
    /\ manifests' = manifests \cup {Manifest(t)}
    /\ rows' = [k \in Ids |-> [rows[k] EXCEPT !.archived = @ \/ DayOf(rows[k].hour) = task[t].date]]
    /\ Becomes(t, Sealed(t, task[t].date))
    /\ UNCHANGED <<objects, attested>>

\* The manifest and the flags of its rows are committed together.
Commit(t) ==
    /\ task[t].pc = "commit"
    /\ \A m \in manifests : m.date # task[t].date
    /\ manifests' = manifests \cup {Manifest(t)}
    /\ rows' = [k \in Ids |-> [rows[k] EXCEPT !.archived = @ \/ k \in task[t].ids]]
    /\ Becomes(t, Sealed(t, task[t].date))
    /\ UNCHANGED <<objects, attested>>

\* batch_date is unique: a batch that lost the race, like a failed commit, raises.
CommitFails(t) ==
    /\ task[t].pc = "commit"
    /\ "db" \in Failures \/ \E m \in manifests : m.date = task[t].date
    /\ Becomes(t, NotSealed(t))
    /\ UNCHANGED <<rows, manifests, objects, attested>>

Finished(t) == task[t].pc = "lookup" /\ task[t].todo = {}

Finish(t) ==
    /\ Finished(t)
    /\ Becomes(t, Idle)
    /\ UNCHANGED <<rows, manifests, objects, attested>>

Archive(t) ==
    \/ Lookup(t)
    \/ Verify(t)
    \/ ReadRows(t)
    \/ SigningFails(t)
    \/ Notarise(t)
    \/ Store(t)
    \/ StoreFails(t)
    \/ Commit(t)
    \/ CommitFails(t)
    \/ Finish(t)

------------------------------------------------------------------------------

Next ==
    \/ Tick
    \/ \E hour \in clock - MaxDelay .. clock : hour >= 0 /\ AppendRow(hour)
    \/ \E k \in Ids : AlterRow(k)
    \/ Boot
    \/ Down
    \/ CronFires
    \/ ManualRun
    \/ ListPending
    \/ \E t \in Tasks : Archive(t)

Spec == Init /\ [][Next]_vars

\* Time passes, somebody restarts the service, and awaits end.
FairSpec ==
    /\ Spec
    /\ WF_vars(Tick) /\ WF_vars(Boot) /\ WF_vars(CronFires) /\ WF_vars(ListPending)
    /\ \A t \in Tasks : WF_vars(Archive(t))

------------------------------------------------------------------------------
(* Correctness.                                                            *)

Dates == -1 .. DayOf(LastHour)

TypeOK ==
    /\ clock \in 0 .. LastHour
    /\ up \in BOOLEAN /\ cronDue \in BOOLEAN
    /\ crashes \in 0 .. MaxCrashes
    /\ rows \in Seq([hour : 0 .. LastHour, altered : BOOLEAN, archived : BOOLEAN])
    /\ \A m \in manifests : m.date \in Dates /\ m.ids \subseteq Ids /\ m.ids # {}
    /\ \A t \in Tasks :
        /\ task[t].pc \in {"idle", "list", "lookup", "verify", "read", "notary", "store", "commit"}
        /\ task[t].ids \subseteq Ids /\ task[t].broken \in Ids \cup {0}
    /\ cronDue => up /\ clock % HoursPerDay = 0

\* A row is flagged as archived when and only when the manifest of its day
\* counts it: a row that arrived while its batch was being sealed is in neither.
ArchivedIffSealed ==
    \A k \in Ids :
        rows[k].archived <=> \E m \in manifests : k \in m.ids /\ m.date = DayOf(rows[k].hour)

\* With S3 on, every manifest names a dump that is in the bucket; with S3 off, as
\* it is by default, none does: the manifest still names one and its rows are
\* still flagged archived_to_s3 (s3_worm_archiver.py:151-187).  In both, a
\* manifest that claims a time stamp has its token stored, and the notaries it
\* claims did attest its root, whatever failed, raced or was killed before the
\* commit.
SealHasObject ==
    \A m \in manifests :
        /\ m.s3_object_key \in objects <=> S3Enabled
        /\ "tsa" \in m.notaries => [kind |-> "token", date |-> m.date, root |-> m.ids] \in objects
        /\ \A n \in m.notaries : <<n, m.ids>> \in attested

\* A batch leaves no row of its day out but those chained after it was read,
\* the rows of the first instant of the day included.
SealHasNoHole ==
    \A m \in manifests, k \in Ids :
        (DayOf(rows[k].hour) = m.date /\ k \notin m.ids) => \A j \in m.ids : j < k

\* A chain that was altered when the batch began, in whatever day, is sealed as
\* TAMPER_DETECTED with an id no later than the first altered row, and a status
\* of TAMPER_DETECTED names an altered row.  Of a row altered after the
\* verification (s3_worm_archiver.py:75) and before the read (:83) it says
\* nothing: such a row is sealed as VERIFIED_CLEAN.
StatusTruthful ==
    \A m \in manifests :
        /\ m.suspects # {} => m.broken # 0 /\ m.broken <= Lowest(m.suspects)
        /\ m.broken # 0 => rows[m.broken].altered

\* A sealed day is final: two tasks that archive it at once leave one manifest,
\* which nothing replaces.
SealsAreFinal ==
    [][ /\ manifests \subseteq manifests'
        /\ \A m, n \in manifests' : m.date = n.date => m = n ]_vars

\* Ledger, flags and manifests together keep the promise of DaySeals: each day
\* is sealed once, as one step, with the rows it had at some moment.
Seals == INSTANCE DaySeals WITH
            Days <- Dates, days <- [k \in Ids |-> DayOf(rows[k].hour)],
            seals <- manifests, flagged <- {k \in Ids : rows[k].archived}

ImplementsSeals == Seals!Spec

\* pending_batch_dates: the backfill seals closed days only ("dias cerrados").  It
\* rests on the local zone of the process not being west of UTC, or on a database
\* that keeps the zone of its stamps.
BackfillOnlyClosedDays ==
    task["backfill"].pc \notin {"idle", "list", "lookup"} => task["backfill"].date < Today

\* A row chained on its own day is archived some time after that day ends, if
\* the days of the model go on: by the cron job, or by the backfill of the
\* process that comes after one killed around midnight.  It supposes an outage no
\* longer than the Window: an older day is never listed again.
EventuallySealed ==
    \A k \in 1 .. MaxRows :
        (k \in Ids /\ DayOf(rows[k].hour) < Today) ~> (k \in Ids /\ rows[k].archived)

\* archive_pending_batches: the dates it returns as sealed keep no row that was
\* pending when it began.
BackfillClears ==
    Finished("backfill") =>
        \A k \in task["backfill"].pending :
            DayOf(rows[k].hour) \in task["backfill"].processed => rows[k].archived
==============================================================================
