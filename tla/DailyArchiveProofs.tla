-------------------------- MODULE DailyArchiveProofs --------------------------
(* What the manifests of DailyArchive say of the ledger and of the bucket is  *)
(* true whatever tasks race, fail and are killed, for any hours, rows, window, *)
(* zone and failures.  Each fact about a manifest is carried to it by the      *)
(* batch that made it, step by step, while rows are chained and altered.       *)
EXTENDS DailyArchive, TLAPS, WellFoundedInduction

\* A set of ids has a least one.
LEMMA NatHasLeast ==
    ASSUME NEW S, S \subseteq Nat, S # {}
    PROVE  Lowest(S) \in S /\ \A y \in S : Lowest(S) <= y
<1> DEFINE less == OpToRel(<, Nat)
<1>1. PICK x \in S : \A y \in S : ~ (<<y, x>> \in less)
  BY NatLessThanWellFounded, WFMin
<1>2. ASSUME NEW y \in S, ~ (x <= y)
      PROVE  FALSE
  <2>1. <<y, x>> \in less
    BY <1>2 DEF OpToRel
  <2> QED  BY <1>1, <2>1
<1>3. \E z \in S : \A y \in S : z <= y
  BY <1>1, <1>2
<1> QED  BY <1>3 DEF Lowest

------------------------------------------------------------------------------
(* The invariant.                                                          *)

Row == [hour : Int, altered : BOOLEAN, archived : BOOLEAN]

\* ids are rows of the date, and all of them but some chained since.
Covers(ids, date) ==
    /\ ids \subseteq Ids
    /\ \A k \in ids : DayOf(rows[k].hour) = date
    /\ \A k \in Ids \ ids : DayOf(rows[k].hour) = date => \A j \in ids : j < k

\* A verification that said broken, of a chain in which suspects were altered.
Truthful(broken, suspects) ==
    /\ suspects \subseteq Ids
    /\ broken # 0 => broken \in Altered
    /\ suspects # {} => broken # 0 /\ \A k \in suspects : broken <= k

Attested(ids, notaries) == \A n \in notaries : <<n, ids>> \in attested

Kept(ids, date, notaries) ==
    /\ S3Enabled => [kind |-> "dump", date |-> date, root |-> ids] \in objects
    /\ "tsa" \in notaries => [kind |-> "token", date |-> date, root |-> ids] \in objects

\* A task is the record that its actions change field by field.
Shape(b) ==
    b \in [pc : {b.pc}, todo : {b.todo}, processed : {b.processed}, date : {b.date},
           ids : {b.ids}, broken : {b.broken}, notaries : {b.notaries},
           suspects : {b.suspects}, pending : {b.pending}]

\* What a batch has made sure of at each step.
BatchHolds(b) ==
    /\ b.pc = "verify" => b.suspects \subseteq Altered
    /\ b.pc \in {"read", "notary", "store", "commit"} => Truthful(b.broken, b.suspects)
    /\ b.pc \in {"notary", "store", "commit"} => Covers(b.ids, b.date)
    /\ b.pc \in {"store", "commit"} => Attested(b.ids, b.notaries)
    /\ b.pc = "commit" => Kept(b.ids, b.date, b.notaries)

SealHolds(m) ==
    /\ Truthful(m.broken, m.suspects)
    /\ Covers(m.ids, m.date)
    /\ Attested(m.ids, m.notaries)
    /\ Kept(m.ids, m.date, m.notaries)
    /\ m.s3_object_key = [kind |-> "dump", date |-> m.date, root |-> m.ids]

\* With S3 off nothing but tokens is stored.
DumpsNeedS3 == ~ S3Enabled => \A o \in objects : o.kind = "token"

OneSealADay == \A m, n \in manifests : m.date = n.date => m = n

LedgerTyped == clock \in Nat /\ rows \in Seq(Row)
TasksTyped == task = [t \in Tasks |-> task[t]] /\ \A t \in Tasks : Shape(task[t])

ArchiveInv ==
    /\ LedgerTyped
    /\ TasksTyped
    /\ \A t \in Tasks : BatchHolds(task[t])
    /\ \A m \in manifests : SealHolds(m)
    /\ OneSealADay
    /\ ArchivedIffSealed

\* The invariant says what the properties ask.
LEMMA ArchiveInvMeaning ==
    ArchiveInv => (DumpsNeedS3 => SealHasObject) /\ SealHasNoHole /\ StatusTruthful
<1> SUFFICES ASSUME ArchiveInv
             PROVE  (DumpsNeedS3 => SealHasObject) /\ SealHasNoHole /\ StatusTruthful
  OBVIOUS
<1>1. ASSUME DumpsNeedS3, NEW m \in manifests
      PROVE  /\ m.s3_object_key \in objects <=> S3Enabled
             /\ "tsa" \in m.notaries => [kind |-> "token", date |-> m.date, root |-> m.ids] \in objects
             /\ \A n \in m.notaries : <<n, m.ids>> \in attested
  <2>1. SealHolds(m)
    BY DEF ArchiveInv
  <2>2. m.s3_object_key.kind = "dump" /\ S3Enabled \in BOOLEAN
    BY <2>1, ArchiveAssumption DEF SealHolds
  <2>3. ~ S3Enabled => m.s3_object_key \notin objects
    BY <1>1, <2>2 DEF DumpsNeedS3
  <2>4. S3Enabled => m.s3_object_key \in objects
    BY <2>1 DEF SealHolds, Kept
  <2> QED  BY <2>1, <2>2, <2>3, <2>4 DEF SealHolds, Attested, Kept
<1>2. SealHasNoHole
  BY DEF ArchiveInv, SealHolds, Covers, SealHasNoHole
<1>3. StatusTruthful
  <2> SUFFICES ASSUME NEW m \in manifests
               PROVE  /\ m.suspects # {} => m.broken # 0 /\ m.broken <= Lowest(m.suspects)
                      /\ m.broken # 0 => rows[m.broken].altered
    BY DEF StatusTruthful
  <2>1. Truthful(m.broken, m.suspects)
    BY DEF ArchiveInv, SealHolds
  <2>2. Ids \subseteq Nat
    BY DEF ArchiveInv, LedgerTyped, Ids
  <2>3. m.suspects # {} => Lowest(m.suspects) \in m.suspects
    BY <2>1, <2>2, NatHasLeast DEF Truthful
  <2> QED  BY <2>1, <2>3 DEF Truthful, Altered
<1> QED  BY <1>1, <1>2, <1>3 DEF SealHasObject

\* It holds of an empty ledger.
LEMMA ArchiveInvInit == Init => ArchiveInv
<1> SUFFICES ASSUME Init PROVE ArchiveInv
  OBVIOUS
<1>1. rows = << >> /\ Ids = {}
  BY DEF Init, Ids
<1>2. LedgerTyped
  BY DEF Init, LedgerTyped
<1>3. TasksTyped /\ \A t \in Tasks : BatchHolds(task[t])
  BY DEF Init, TasksTyped, Shape, Idle, BatchHolds
<1>4. OneSealADay /\ ArchivedIffSealed /\ manifests = {}
  BY <1>1 DEF Init, OneSealADay, ArchivedIffSealed
<1> QED  BY <1>2, <1>3, <1>4 DEF ArchiveInv

------------------------------------------------------------------------------
(* What every step leaves: rows stay, keep their hour and stay altered, new *)
(* ones come after them, and nothing stored or attested is undone.         *)

RowsGrow ==
    /\ Ids \subseteq Ids'
    /\ \A k \in Ids : rows'[k].hour = rows[k].hour /\ (rows[k].altered => rows'[k].altered)
    /\ \A k \in Ids' \ Ids : \A j \in Ids : j < k

Grows == RowsGrow /\ objects \subseteq objects' /\ attested \subseteq attested'

\* What was said of rows, bucket and notaries goes on being true.
LEMMA CoversKept ==
    ASSUME RowsGrow, NEW ids, NEW date, Covers(ids, date)
    PROVE  Covers(ids, date)'
BY DEF RowsGrow, Covers, DayOf

\* A verdict on the chain goes on being true of the altered rows.
LEMMA TruthfulKept ==
    ASSUME RowsGrow, NEW broken, NEW suspects, Truthful(broken, suspects)
    PROVE  Truthful(broken, suspects)'
BY DEF RowsGrow, Truthful, Altered

\* What a batch has made sure of goes on being so while it awaits.
LEMMA BatchKept ==
    ASSUME Grows, NEW b, BatchHolds(b)
    PROVE  BatchHolds(b)'
<1>1. Altered \subseteq Altered'
  BY DEF Grows, RowsGrow, Altered
<1>2. b.pc \in {"read", "notary", "store", "commit"} => Truthful(b.broken, b.suspects)'
  BY TruthfulKept DEF Grows, BatchHolds
<1>3. b.pc \in {"notary", "store", "commit"} => Covers(b.ids, b.date)'
  BY CoversKept DEF Grows, BatchHolds
<1>4. b.pc \in {"store", "commit"} => Attested(b.ids, b.notaries)'
  BY DEF Grows, BatchHolds, Attested
<1>5. b.pc = "commit" => Kept(b.ids, b.date, b.notaries)'
  BY DEF Grows, BatchHolds, Kept
<1> QED  BY <1>1, <1>2, <1>3, <1>4, <1>5 DEF BatchHolds

\* What a manifest says goes on being so.
LEMMA SealKept ==
    ASSUME Grows, NEW m, SealHolds(m)
    PROVE  SealHolds(m)'
<1>1. Truthful(m.broken, m.suspects)' /\ Covers(m.ids, m.date)'
  BY TruthfulKept, CoversKept DEF Grows, SealHolds
<1>2. Attested(m.ids, m.notaries)' /\ Kept(m.ids, m.date, m.notaries)'
  BY DEF Grows, SealHolds, Attested, Kept
<1> QED  BY <1>1, <1>2 DEF SealHolds

\* When the rows stay, so they grow.
LEMMA RowsStay == rows' = rows => RowsGrow
BY DEF RowsGrow, Ids

\* One task goes on and the others stay where they were.
LEMMA OneBatchMoves ==
    ASSUME ArchiveInv, Grows, NEW t \in Tasks, NEW state, Shape(state), BatchHolds(state)',
           task' = [task EXCEPT ![t] = state]
    PROVE  TasksTyped' /\ \A s \in Tasks : BatchHolds(task[s])'
<1>1. task' = [s \in Tasks |-> IF s = t THEN state ELSE task[s]]
  BY DEF ArchiveInv, TasksTyped
<1>2. \A s \in Tasks : Shape(task'[s])
  BY <1>1 DEF ArchiveInv, TasksTyped
<1>3. TasksTyped'
  BY <1>1, <1>2 DEF TasksTyped, Shape
<1>4. ASSUME NEW s \in Tasks
      PROVE  BatchHolds(task[s])'
  <2>1. CASE s = t
    <3>1. task'[s] = state
      BY <2>1, <1>1
    <3> QED  BY <3>1 DEF BatchHolds, Truthful, Covers, Attested, Kept
  <2>2. CASE s # t
    <3>1. task'[s] = task[s] /\ BatchHolds(task[s])
      BY <2>2, <1>1 DEF ArchiveInv
    <3>2. \A b : BatchHolds(b) => BatchHolds(b)'
      BY BatchKept
    <3> QED  BY <3>1, <3>2 DEF BatchHolds, Truthful, Covers, Attested, Kept
  <2> QED  BY <2>1, <2>2
<1> QED  BY <1>3, <1>4

\* A step that touches neither rows nor manifests.
LEMMA QuietStep ==
    ASSUME ArchiveInv, UNCHANGED <<rows, manifests>>, clock' \in Nat,
           objects \subseteq objects', attested \subseteq attested',
           TasksTyped', \A s \in Tasks : BatchHolds(task[s])'
    PROVE  ArchiveInv'
<1>1. Grows
  BY RowsStay DEF Grows
<1>2. LedgerTyped' /\ OneSealADay' /\ ArchivedIffSealed'
  BY DEF ArchiveInv, LedgerTyped, OneSealADay, ArchivedIffSealed, Ids, DayOf
<1>3. \A m \in manifests' : SealHolds(m)'
  BY <1>1, SealKept DEF ArchiveInv
<1> QED  BY <1>2, <1>3 DEF ArchiveInv

\* A batch that goes on without rows or manifests.
LEMMA BatchStep ==
    ASSUME ArchiveInv, NEW t \in Tasks, NEW state, Becomes(t, state), Shape(state),
           UNCHANGED <<rows, manifests>>, BatchHolds(state)',
           objects \subseteq objects', attested \subseteq attested'
    PROVE  ArchiveInv'
<1>1. Grows
  BY RowsStay DEF Grows
<1>2. clock' \in Nat /\ task' = [task EXCEPT ![t] = state]
  BY DEF Becomes, ArchiveInv, LedgerTyped
<1> QED  BY <1>1, <1>2, OneBatchMoves, QuietStep

\* Where a task is before the verification, nothing is asked of it.
LEMMA RestingHolds ==
    ASSUME NEW b, b.pc \in {"idle", "list", "lookup"}
    PROVE  BatchHolds(b) /\ BatchHolds(b)'
BY DEF BatchHolds

------------------------------------------------------------------------------
(* The steps of a batch.                                                   *)

\* The task before the step, as every step finds it.
LEMMA TaskNow ==
    ASSUME ArchiveInv, NEW t \in Tasks
    PROVE  Shape(task[t]) /\ BatchHolds(task[t]) /\ Shape(NotSealed(t))
           /\ NotSealed(t).pc = "lookup"
BY DEF ArchiveInv, TasksTyped, NotSealed, Shape, Idle

\* A sealed day is skipped; else the batch takes note of the altered rows.
LEMMA LookupStep ==
    ASSUME ArchiveInv, NEW t \in Tasks, Lookup(t)
    PROVE  ArchiveInv'
<1> DEFINE d == Lowest(task[t].todo)
           rest == task[t].todo \ {d}
<1>1. UNCHANGED <<rows, manifests, objects, attested>>
  BY DEF Lookup
<1>2. PICK found : found = [Sealed(t, d) EXCEPT !.todo = rest]
  OBVIOUS
<1>3. PICK begun : begun = [task[t] EXCEPT !.pc = "verify", !.todo = rest, !.date = d,
                                           !.suspects = Altered]
  OBVIOUS
<1>4. CASE Becomes(t, found)
  <2>1. Shape(found) /\ found.pc = "lookup"
    BY <1>2, TaskNow DEF Shape, Sealed, NotSealed, Idle
  <2> QED  BY <1>1, <1>4, <2>1, RestingHolds, BatchStep
<1>5. CASE Becomes(t, begun)
  <2>1. Shape(begun) /\ begun.pc = "verify" /\ begun.suspects = Altered
    BY <1>3, TaskNow DEF Shape
  <2>2. BatchHolds(begun)'
    BY <1>1, <2>1 DEF BatchHolds, Altered, Ids
  <2> QED  BY <1>1, <1>5, <2>1, <2>2, BatchStep
<1> QED  BY <1>2, <1>3, <1>4, <1>5 DEF Lookup

\* The verification finds the first altered row, the ones of the beginning included.
LEMMA VerifyStep ==
    ASSUME ArchiveInv, NEW t \in Tasks, Verify(t)
    PROVE  ArchiveInv'
<1>1. UNCHANGED <<rows, manifests, objects, attested>>
  BY DEF Verify
<1>2. PICK broken : broken = IF Altered = {} THEN 0 ELSE Lowest(Altered)
  OBVIOUS
<1>3. PICK read : read = [task[t] EXCEPT !.pc = "read", !.broken = broken]
  OBVIOUS
<1>4. Becomes(t, read) /\ task[t].pc = "verify"
  BY <1>2, <1>3 DEF Verify
<1>5. Shape(read) /\ read.pc = "read" /\ read.broken = broken /\ read.suspects = task[t].suspects
  BY <1>3, TaskNow DEF Shape
<1>6. task[t].suspects \subseteq Altered
  BY <1>4, TaskNow DEF BatchHolds
<1>7. Altered \subseteq Nat \ {0}
  BY DEF ArchiveInv, LedgerTyped, Ids, Altered
<1>8. Altered # {} => broken \in Altered /\ \A k \in Altered : broken <= k
  BY <1>2, <1>7, NatHasLeast
<1>9. Truthful(read.broken, read.suspects)
  BY <1>2, <1>5, <1>6, <1>7, <1>8 DEF Truthful, Altered
<1>10. BatchHolds(read)'
  BY <1>1, <1>5, <1>9, RowsStay, TruthfulKept DEF BatchHolds
<1> QED  BY <1>1, <1>4, <1>5, <1>10, BatchStep

\* The rows read are all those of the day.
LEMMA ReadRowsStep ==
    ASSUME ArchiveInv, NEW t \in Tasks, ReadRows(t)
    PROVE  ArchiveInv'
<1>1. UNCHANGED <<rows, manifests, objects, attested>>
  BY DEF ReadRows
<1>2. PICK ids : ids = {k \in Ids : DayOf(rows[k].hour) = task[t].date}
  OBVIOUS
<1>3. PICK over : over = NotSealed(t)
  OBVIOUS
<1>4. PICK read : read = [task[t] EXCEPT !.pc = "notary", !.ids = ids]
  OBVIOUS
<1>5. CASE Becomes(t, over)
  BY <1>1, <1>3, <1>5, TaskNow, RestingHolds, BatchStep
<1>6. CASE Becomes(t, read)
  <2>1. /\ Shape(read) /\ read.pc = "notary" /\ read.ids = ids /\ read.date = task[t].date
        /\ read.broken = task[t].broken /\ read.suspects = task[t].suspects
    BY <1>4, TaskNow DEF Shape
  <2>2. Covers(ids, read.date)
    BY <1>2, <2>1 DEF Covers
  <2>3. Truthful(read.broken, read.suspects)
    BY <2>1, TaskNow DEF BatchHolds, ReadRows
  <2>4. BatchHolds(read)'
    BY <1>1, <2>1, <2>2, <2>3, RowsStay, CoversKept, TruthfulKept DEF BatchHolds
  <2> QED  BY <1>1, <1>6, <2>1, <2>4, BatchStep
<1> QED  BY <1>2, <1>3, <1>4, <1>5, <1>6 DEF ReadRows

\* A batch that gave up, or came to its end: it asks nothing any more.
LEMMA GivesUpStep ==
    ASSUME ArchiveInv, NEW t \in Tasks, Becomes(t, NotSealed(t)), UNCHANGED <<rows, manifests>>,
           objects \subseteq objects', attested \subseteq attested'
    PROVE  ArchiveInv'
<1>1. PICK over : over = NotSealed(t)
  OBVIOUS
<1> QED  BY <1>1, TaskNow, RestingHolds, BatchStep

\* The notaries that answered are the ones the batch names.
LEMMA NotariseStep ==
    ASSUME ArchiveInv, NEW t \in Tasks, Notarise(t)
    PROVE  ArchiveInv'
<1>1. task[t].pc = "notary" /\ UNCHANGED <<rows, manifests, objects>>
  BY DEF Notarise
<1>2. PICK took :
         /\ Attest(t, took)
         /\ Becomes(t, [task[t] EXCEPT !.pc = "store", !.notaries = took])
  BY DEF Notarise
<1>3. PICK sealed : sealed = [task[t] EXCEPT !.pc = "store", !.notaries = took]
  OBVIOUS
<1>4. /\ Shape(sealed) /\ sealed.pc = "store" /\ sealed.ids = task[t].ids
      /\ sealed.date = task[t].date /\ sealed.notaries = took
      /\ sealed.broken = task[t].broken /\ sealed.suspects = task[t].suspects
  BY <1>3, TaskNow DEF Shape
<1>5. Covers(sealed.ids, sealed.date) /\ Truthful(sealed.broken, sealed.suspects)
  BY <1>1, <1>4, TaskNow DEF BatchHolds
<1>6. Attested(sealed.ids, sealed.notaries)' /\ attested \subseteq attested'
  BY <1>2, <1>4 DEF Attested, Attest
<1>7. BatchHolds(sealed)'
  BY <1>1, <1>4, <1>5, <1>6, RowsStay, CoversKept, TruthfulKept DEF BatchHolds
<1> QED  BY <1>1, <1>2, <1>3, <1>4, <1>6, <1>7, BatchStep

\* Without the key the batch ends; what was attested stays so.
LEMMA SigningFailsStep ==
    ASSUME ArchiveInv, NEW t \in Tasks, SigningFails(t)
    PROVE  ArchiveInv'
<1>1. attested \subseteq attested'
  BY DEF SigningFails, Attest
<1> QED  BY <1>1, GivesUpStep DEF SigningFails

\* The token and the dump are stored before the commit.
LEMMA StoreStep ==
    ASSUME ArchiveInv, NEW t \in Tasks, Store(t)
    PROVE  ArchiveInv'
<1>1. /\ task[t].pc = "store" /\ UNCHANGED <<rows, manifests, attested>>
      /\ objects' = objects \cup Token(t) \cup Dump(t)
  BY DEF Store
<1>2. PICK stored : stored = [task[t] EXCEPT !.pc = "commit"]
  OBVIOUS
<1>3. /\ Shape(stored) /\ stored.pc = "commit" /\ stored.ids = task[t].ids
      /\ stored.date = task[t].date /\ stored.notaries = task[t].notaries
      /\ stored.broken = task[t].broken /\ stored.suspects = task[t].suspects
  BY <1>2, TaskNow DEF Shape
<1>4. /\ Covers(stored.ids, stored.date) /\ Truthful(stored.broken, stored.suspects)
      /\ Attested(stored.ids, stored.notaries)
  BY <1>1, <1>3, TaskNow DEF BatchHolds
<1>5. Kept(stored.ids, stored.date, stored.notaries)'
  BY <1>1, <1>3 DEF Kept, Token, Dump, Stored
<1>6. BatchHolds(stored)'
  BY <1>1, <1>3, <1>4, <1>5, RowsStay, CoversKept, TruthfulKept DEF BatchHolds, Attested
<1>7. Becomes(t, stored)
  BY <1>2 DEF Store
<1> QED  BY <1>1, <1>3, <1>6, <1>7, BatchStep

\* A store or a commit that fails ends the batch.
LEMMA FailureSteps ==
    ASSUME ArchiveInv, NEW t \in Tasks, StoreFails(t) \/ CommitFails(t)
    PROVE  ArchiveInv'
<1>1. Becomes(t, NotSealed(t)) /\ UNCHANGED <<rows, manifests, attested>>
  BY DEF StoreFails, CommitFails
<1>2. objects \subseteq objects'
  BY DEF StoreFails, CommitFails
<1> QED  BY <1>1, <1>2, GivesUpStep

\* A task without dates left is idle.
LEMMA FinishStep ==
    ASSUME ArchiveInv, NEW t \in Tasks, Finish(t)
    PROVE  ArchiveInv'
<1>1. Shape(Idle) /\ Idle.pc = "idle"
  BY DEF Shape, Idle
<1>2. Becomes(t, Idle) /\ UNCHANGED <<rows, manifests, objects, attested>>
  BY DEF Finish
<1>3. BatchHolds(Idle)'
  BY <1>1, RestingHolds
<1> QED  BY <1>1, <1>2, <1>3, BatchStep

------------------------------------------------------------------------------
(* The commit: the one step that touches rows and manifests together.      *)

\* The new manifest says what its batch made sure of, and its rows are flagged.
LEMMA CommitStep ==
    ASSUME ArchiveInv, NEW t \in Tasks, Commit(t)
    PROVE  ArchiveInv'
<1>1. /\ task[t].pc = "commit" /\ UNCHANGED <<objects, attested>>
      /\ \A m \in manifests : m.date # task[t].date
      /\ manifests' = manifests \cup {Manifest(t)}
      /\ rows' = [k \in Ids |-> [rows[k] EXCEPT !.archived = @ \/ k \in task[t].ids]]
      /\ clock' = clock
  BY DEF Commit, Becomes
<1>2. PICK done : done = Sealed(t, task[t].date)
  OBVIOUS
<1>3. Shape(done) /\ done.pc = "lookup"
  BY <1>2, TaskNow DEF Shape, Sealed, NotSealed, Idle
<1>4. rows \in Seq(Row) /\ Len(rows) \in Nat /\ Ids = 1 .. Len(rows)
  BY DEF ArchiveInv, LedgerTyped, Ids
<1>5. \A k \in Ids : rows[k] \in Row
  BY <1>4
<1>6. \A k \in Ids :
        /\ rows'[k] \in Row
        /\ rows'[k].hour = rows[k].hour /\ rows'[k].altered = rows[k].altered
        /\ rows'[k].archived = (rows[k].archived \/ k \in task[t].ids)
  BY <1>1, <1>5 DEF Row
<1>7. rows' \in Seq(Row) /\ Ids' = Ids
  <2>1. rows' \in [1 .. Len(rows) -> Row]
    BY <1>1, <1>4, <1>6
  <2> QED  BY <2>1, <1>4 DEF Ids
<1>8. Grows
  BY <1>1, <1>6, <1>7 DEF Grows, RowsGrow
<1>9. PICK seal : seal = Manifest(t)
  OBVIOUS
<1>10. /\ seal.date = task[t].date /\ seal.ids = task[t].ids /\ seal.broken = task[t].broken
       /\ seal.notaries = task[t].notaries /\ seal.suspects = task[t].suspects
       /\ seal.s3_object_key = [kind |-> "dump", date |-> seal.date, root |-> seal.ids]
  BY <1>9 DEF Manifest, Stored
<1>11. SealHolds(seal)
  BY <1>1, <1>10, TaskNow DEF BatchHolds, SealHolds
<1>12. \A m \in manifests' : SealHolds(m)'
  <2>1. \A m : SealHolds(m) => SealHolds(m)'
    BY <1>8, SealKept
  <2> QED  BY <1>1, <1>9, <1>11, <2>1 DEF ArchiveInv
<1>13. OneSealADay'
  BY <1>1, <1>9, <1>10 DEF ArchiveInv, OneSealADay
<1>14. ArchivedIffSealed'
  <2> SUFFICES ASSUME NEW k \in Ids
               PROVE  rows'[k].archived <=> \E m \in manifests' : k \in m.ids /\ m.date = DayOf(rows[k].hour)
    BY <1>6, <1>7 DEF ArchivedIffSealed, DayOf
  <2>1. rows[k].archived <=> \E m \in manifests : k \in m.ids /\ m.date = DayOf(rows[k].hour)
    BY DEF ArchiveInv, ArchivedIffSealed
  <2>2. k \in task[t].ids => task[t].date = DayOf(rows[k].hour)
    BY <1>10, <1>11 DEF SealHolds, Covers
  <2>3. rows'[k].archived <=> rows[k].archived \/ k \in task[t].ids
    BY <1>6
  <2>4. manifests' = manifests \cup {seal}
    BY <1>1, <1>9
  <2> QED  BY <1>10, <2>1, <2>2, <2>3, <2>4
<1>15. TasksTyped' /\ \A s \in Tasks : BatchHolds(task[s])'
  <2>1. task' = [task EXCEPT ![t] = done]
    BY <1>2 DEF Commit, Becomes
  <2>2. BatchHolds(done)'
    BY <1>3, RestingHolds
  <2> QED  BY <1>3, <1>8, <2>1, <2>2, OneBatchMoves
<1>16. LedgerTyped'
  BY <1>1, <1>7 DEF ArchiveInv, LedgerTyped
<1> QED  BY <1>12, <1>13, <1>14, <1>15, <1>16 DEF ArchiveInv

\* Every step of archive_day_batch.
LEMMA ArchiveStep ==
    ASSUME ArchiveInv, NEW t \in Tasks, Archive(t)
    PROVE  ArchiveInv'
BY LookupStep, VerifyStep, ReadRowsStep, SigningFailsStep, NotariseStep, StoreStep,
   FailureSteps, CommitStep, FinishStep DEF Archive

------------------------------------------------------------------------------
(* The ledger under the batches, and their beginnings.                     *)

\* A step of the ledger: tasks and manifests stay, and so do the flags of the
\* rows there were.
LEMMA LedgerStep ==
    ASSUME ArchiveInv, RowsGrow, rows' \in Seq(Row),
           UNCHANGED <<clock, manifests, objects, attested, task>>,
           \A k \in Ids : rows'[k].archived = rows[k].archived,
           \A k \in Ids' \ Ids : rows'[k].archived = FALSE
    PROVE  ArchiveInv'
<1>1. Grows
  BY DEF Grows
<1>2. LedgerTyped' /\ OneSealADay' /\ TasksTyped'
  BY DEF ArchiveInv, LedgerTyped, OneSealADay, TasksTyped, Shape
<1>3. \A m \in manifests' : SealHolds(m)'
  <2>1. \A m : SealHolds(m) => SealHolds(m)'
    BY <1>1, SealKept
  <2> QED  BY <2>1 DEF ArchiveInv
<1>4. \A t \in Tasks : BatchHolds(task[t])'
  <2>1. \A b : BatchHolds(b) => BatchHolds(b)'
    BY <1>1, BatchKept
  <2> QED  BY <2>1 DEF ArchiveInv, BatchHolds, Truthful, Covers, Attested, Kept
<1>5. ArchivedIffSealed'
  <2> SUFFICES ASSUME NEW k \in Ids'
               PROVE  rows'[k].archived <=> \E m \in manifests : k \in m.ids /\ m.date = DayOf(rows'[k].hour)
    BY DEF ArchivedIffSealed, DayOf
  <2>1. CASE k \in Ids
    <3>1. rows'[k].hour = rows[k].hour /\ rows'[k].archived = rows[k].archived
      BY <2>1 DEF RowsGrow
    <3>2. rows[k].archived <=> \E m \in manifests : k \in m.ids /\ m.date = DayOf(rows[k].hour)
      BY <2>1 DEF ArchiveInv, ArchivedIffSealed
    <3> QED  BY <3>1, <3>2
  <2>2. CASE k \notin Ids
    <3>1. \A m \in manifests : k \notin m.ids
      BY <2>2 DEF ArchiveInv, SealHolds, Covers
    <3> QED  BY <2>2, <3>1
  <2> QED  BY <2>1, <2>2
<1> QED  BY <1>2, <1>3, <1>4, <1>5 DEF ArchiveInv

\* A new row comes after all others and is not flagged.
LEMMA AppendRowStep ==
    ASSUME ArchiveInv, NEW hour \in clock - MaxDelay .. clock, AppendRow(hour)
    PROVE  ArchiveInv'
<1>1. rows \in Seq(Row) /\ hour \in Int
  BY ArchiveAssumption DEF ArchiveInv, LedgerTyped
<1>2. PICK row : row = [hour |-> hour, altered |-> FALSE, archived |-> FALSE]
  OBVIOUS
<1>3. row \in Row /\ row.archived = FALSE
  BY <1>1, <1>2 DEF Row
<1>4. rows' = Append(rows, row) /\ UNCHANGED <<clock, manifests, objects, attested, task>>
  BY <1>2 DEF AppendRow
<1>5. /\ rows' \in Seq(Row)
      /\ Ids = 1 .. Len(rows) /\ Ids' = 1 .. (Len(rows) + 1) /\ Len(rows) \in Nat
      /\ \A k \in Ids : rows'[k] = rows[k]
      /\ rows'[Len(rows) + 1] = row
  BY <1>1, <1>3, <1>4 DEF Ids
<1>6. Ids' \ Ids = {Len(rows) + 1}
  BY <1>5
<1>7. RowsGrow
  BY <1>5, <1>6 DEF RowsGrow
<1>8. /\ \A k \in Ids : rows'[k].archived = rows[k].archived
      /\ \A k \in Ids' \ Ids : rows'[k].archived = FALSE
  BY <1>3, <1>5, <1>6
<1> QED  BY <1>4, <1>5, <1>7, <1>8, LedgerStep

\* An altered row keeps its hour and its flag.
LEMMA AlterRowStep ==
    ASSUME ArchiveInv, NEW j \in Ids, AlterRow(j)
    PROVE  ArchiveInv'
<1>1. /\ rows \in Seq(Row) /\ rows \in [1 .. Len(rows) -> Row]
      /\ Ids = 1 .. Len(rows) /\ Len(rows) \in Nat
  BY DEF ArchiveInv, LedgerTyped, Ids
<1>2. PICK row : row = [rows[j] EXCEPT !.altered = TRUE]
  OBVIOUS
<1>3. rows' = [rows EXCEPT ![j] = row] /\ UNCHANGED <<clock, manifests, objects, attested, task>>
  BY <1>2 DEF AlterRow
<1>4. /\ row \in Row /\ row.hour = rows[j].hour /\ row.archived = rows[j].archived
      /\ row.altered
  <2>1. rows[j] \in Row
    BY <1>1
  <2> QED  BY <1>2, <2>1 DEF Row
<1>5. rows' \in [1 .. Len(rows) -> Row]
  BY <1>1, <1>3, <1>4
<1>6. rows' \in Seq(Row) /\ Ids' = Ids
  BY <1>1, <1>5 DEF Ids
<1>7. \A k \in Ids : rows'[k] = IF k = j THEN row ELSE rows[k]
  BY <1>1, <1>3
<1>8. /\ RowsGrow
      /\ \A k \in Ids : rows'[k].archived = rows[k].archived
      /\ Ids' \ Ids = {}
  BY <1>4, <1>6, <1>7 DEF RowsGrow
<1> QED  BY <1>3, <1>6, <1>8, LedgerStep

\* The starts and ends of tasks give them a fresh state.
LEMMA FreshTasks ==
    ASSUME ArchiveInv, UNCHANGED <<rows, manifests, objects, attested>>, clock' \in Nat,
           NEW T \in SUBSET Tasks, NEW fresh,
           Shape(fresh), fresh.pc \in {"idle", "list", "lookup"},
           task' = [t \in Tasks |-> IF t \in T THEN fresh ELSE task[t]]
    PROVE  ArchiveInv'
<1>1. Grows
  BY RowsStay DEF Grows
<1>2. \A b : BatchHolds(b) => BatchHolds(b)'
  BY <1>1, BatchKept
<1>3. BatchHolds(fresh)'
  BY RestingHolds
<1>4. \A t \in Tasks : task'[t] = fresh \/ (task'[t] = task[t] /\ BatchHolds(task[t]))
  BY DEF ArchiveInv
<1>5. \A t \in Tasks : BatchHolds(task[t])'
  BY <1>2, <1>3, <1>4 DEF BatchHolds, Truthful, Covers, Attested, Kept
<1>6. TasksTyped'
  <2>1. \A t \in Tasks : Shape(task'[t])
    BY <1>4 DEF ArchiveInv, TasksTyped
  <2> QED  BY <2>1 DEF TasksTyped, Shape
<1> QED  BY <1>5, <1>6, QuietStep

\* The state of a task that does nothing.
LEMMA IdleShape == Shape(Idle) /\ Idle.pc = "idle"
BY DEF Shape, Idle

\* Two tasks at most start or end in a step, and in the same state.
LEMMA BootStep ==
    ASSUME ArchiveInv, Boot
    PROVE  ArchiveInv'
<1>1. PICK fresh : fresh = [Idle EXCEPT !.pc = "list"]
  OBVIOUS
<1>2. Shape(fresh) /\ fresh.pc = "list"
  BY <1>1 DEF Shape, Idle
<1>3. /\ UNCHANGED <<rows, manifests, objects, attested>> /\ clock' \in Nat
      /\ task' = [task EXCEPT !["backfill"] = fresh]
  BY <1>1 DEF Boot, ArchiveInv, LedgerTyped
<1>4. task' = [t \in Tasks |-> IF t \in {"backfill"} THEN fresh ELSE task[t]]
  BY <1>3 DEF ArchiveInv, TasksTyped
<1> QED  BY <1>2, <1>3, <1>4, FreshTasks DEF Tasks

\* A killed process takes its two tasks with it.
LEMMA DownStep ==
    ASSUME ArchiveInv, Down
    PROVE  ArchiveInv'
<1>1. PICK fresh : fresh = Idle
  OBVIOUS
<1>2. Shape(fresh) /\ fresh.pc = "idle"
  BY <1>1, IdleShape
<1>3. /\ UNCHANGED <<rows, manifests, objects, attested>> /\ clock' \in Nat
      /\ task' = [task EXCEPT !["cron"] = fresh, !["backfill"] = fresh]
  BY <1>1 DEF Down, ArchiveInv, LedgerTyped
<1>4. task' = [t \in Tasks |-> IF t \in {"cron", "backfill"} THEN fresh ELSE task[t]]
  BY <1>3 DEF ArchiveInv, TasksTyped
<1> QED  BY <1>2, <1>3, <1>4, FreshTasks DEF Tasks

\* The cron job, the script and the backfill start with the dates they have.
LEMMA StartStep ==
    ASSUME ArchiveInv, CronFires \/ ManualRun \/ ListPending
    PROVE  ArchiveInv'
<1>1. PICK t \in Tasks : \E fresh :
         task' = [task EXCEPT ![t] = fresh] /\ Shape(fresh) /\ fresh.pc = "lookup"
  <2>1. CASE CronFires
    <3>1. PICK fresh : fresh = [Idle EXCEPT !.pc = "lookup", !.todo = {Today - 1}]
      OBVIOUS
    <3>2. Shape(fresh) /\ fresh.pc = "lookup"
      BY <3>1 DEF Shape, Idle
    <3> QED  BY <2>1, <3>1, <3>2 DEF CronFires, Tasks
  <2>2. CASE ManualRun
    <3>1. PICK fresh : fresh = [Idle EXCEPT !.pc = "lookup", !.todo = {Today}]
      OBVIOUS
    <3>2. Shape(fresh) /\ fresh.pc = "lookup"
      BY <3>1 DEF Shape, Idle
    <3> QED  BY <2>2, <3>1, <3>2 DEF ManualRun, Tasks
  <2>3. CASE ListPending
    <3>1. PICK fresh, todo, pending :
             /\ fresh = [Idle EXCEPT !.pc = "lookup", !.pending = pending, !.todo = todo]
             /\ task' = [task EXCEPT !["backfill"] = fresh]
      BY <2>3 DEF ListPending
    <3>2. Shape(fresh) /\ fresh.pc = "lookup"
      BY <3>1 DEF Shape, Idle
    <3> QED  BY <3>1, <3>2 DEF Tasks
  <2> QED  BY <2>1, <2>2, <2>3
<1>2. PICK fresh :
         task' = [task EXCEPT ![t] = fresh] /\ Shape(fresh) /\ fresh.pc = "lookup"
  BY <1>1
<1>3. UNCHANGED <<rows, manifests, objects, attested>> /\ clock' \in Nat
  BY DEF CronFires, ManualRun, ListPending, ArchiveInv, LedgerTyped
<1>4. task' = [s \in Tasks |-> IF s \in {t} THEN fresh ELSE task[s]]
  BY <1>2 DEF ArchiveInv, TasksTyped
<1> QED  BY <1>2, <1>3, <1>4, FreshTasks

\* The hour goes by under the batches.
LEMMA TickStep ==
    ASSUME ArchiveInv, Tick \/ UNCHANGED vars
    PROVE  ArchiveInv'
<1>1. UNCHANGED <<rows, manifests, objects, attested, task>> /\ clock' \in Nat
  BY DEF Tick, vars, ArchiveInv, LedgerTyped
<1>2. TasksTyped'
  BY <1>1 DEF ArchiveInv, TasksTyped, Shape
<1>3. Grows
  BY <1>1, RowsStay DEF Grows
<1>4. \A b : BatchHolds(b) => BatchHolds(b)'
  BY <1>3, BatchKept
<1>5. \A t \in Tasks : BatchHolds(task[t])'
  BY <1>1, <1>4 DEF ArchiveInv, BatchHolds, Truthful, Covers, Attested, Kept
<1> QED  BY <1>1, <1>2, <1>5, QuietStep

------------------------------------------------------------------------------
(* The theorems.                                                           *)

\* Every step keeps the invariant.
LEMMA ArchiveInvStep == ArchiveInv /\ [Next]_vars => ArchiveInv'
<1> SUFFICES ASSUME ArchiveInv, [Next]_vars
             PROVE  ArchiveInv'
  OBVIOUS
<1>1. CASE Tick \/ UNCHANGED vars
  BY <1>1, TickStep
<1>2. CASE \E hour \in clock - MaxDelay .. clock : hour >= 0 /\ AppendRow(hour)
  BY <1>2, AppendRowStep
<1>3. CASE \E k \in Ids : AlterRow(k)
  BY <1>3, AlterRowStep
<1>4. CASE Boot \/ Down
  BY <1>4, BootStep, DownStep
<1>5. CASE CronFires \/ ManualRun \/ ListPending
  BY <1>5, StartStep
<1>6. CASE \E t \in Tasks : Archive(t)
  BY <1>6, ArchiveStep
<1> QED  BY <1>1, <1>2, <1>3, <1>4, <1>5, <1>6 DEF Next

\* It holds for ever.
LEMMA ArchiveInvAlways == Spec => []ArchiveInv
BY ArchiveInvInit, ArchiveInvStep, PTL DEF Spec

\* A row is flagged when and only when a manifest of its day counts it, however
\* the batches of a day race: s3_worm_archiver.py commits both at once.
THEOREM FlagsMatchSeals == Spec => []ArchivedIffSealed
<1>1. ArchiveInv => ArchivedIffSealed
  BY DEF ArchiveInv
<1> QED  BY <1>1, ArchiveInvAlways, PTL

\* A batch stores a dump with S3 on only.
LEMMA DumpsNeedS3Step == DumpsNeedS3 /\ [Next]_vars => DumpsNeedS3'
<1> SUFFICES ASSUME DumpsNeedS3, [Next]_vars, ~ S3Enabled
             PROVE  \A o \in objects' : o.kind = "token"
  BY DEF DumpsNeedS3
<1>1. CASE objects' = objects
  BY <1>1 DEF DumpsNeedS3
<1>2. ASSUME NEW t \in Tasks, Store(t) \/ StoreFails(t)
      PROVE  \A o \in objects' : o.kind = "token"
  <2>1. objects' \subseteq objects \cup Token(t) /\ \A o \in Token(t) : o.kind = "token"
    BY <1>2 DEF Store, StoreFails, Token, Dump, Stored
  <2> QED  BY <2>1 DEF DumpsNeedS3
<1>3. CASE \E t \in Tasks : Archive(t)
  BY <1>1, <1>2, <1>3 DEF Archive, Lookup, Verify, ReadRows, SigningFails, Notarise, Commit,
                          CommitFails, Finish
<1> QED
  BY <1>1, <1>3 DEF Next, vars, Tick, AppendRow, AlterRow, Boot, Down, CronFires, ManualRun, ListPending

\* With S3 on a manifest never names a dump that is not in the bucket; with S3 off
\* the dump it names is in none.  The token and the attestations it claims are
\* there in both, whatever failed or was killed on the way to its commit.
THEOREM SealsAreBacked == Spec => []SealHasObject
<1>1. Init => DumpsNeedS3
  BY DEF Init, DumpsNeedS3
<1>2. ArchiveInv /\ DumpsNeedS3 => SealHasObject
  BY ArchiveInvMeaning
<1> QED  BY <1>1, <1>2, DumpsNeedS3Step, ArchiveInvAlways, PTL DEF Spec

\* A sealed day misses only rows chained after its batch read them.
THEOREM SealsAreWhole == Spec => []SealHasNoHole
BY ArchiveInvMeaning, ArchiveInvAlways, PTL

\* The integrity status of a manifest is true of the chain its batch found.
THEOREM StatusIsTrue == Spec => []StatusTruthful
BY ArchiveInvMeaning, ArchiveInvAlways, PTL

\* A day is sealed once, and no step replaces or removes its manifest.
THEOREM SealedDaysAreFinal == Spec => SealsAreFinal
<1>1. [Next]_vars => manifests \subseteq manifests'
  BY DEF Next, vars, Tick, AppendRow, AlterRow, Boot, Down, CronFires, ManualRun, ListPending,
         Archive, Lookup, Verify, ReadRows, SigningFails, Notarise, Store, StoreFails, Commit,
         CommitFails, Finish
<1>2. ArchiveInv' => \A m, n \in manifests' : m.date = n.date => m = n
  BY DEF ArchiveInv, OneSealADay
<1>3. ArchiveInv /\ [Next]_vars =>
        [ /\ manifests \subseteq manifests'
          /\ \A m, n \in manifests' : m.date = n.date => m = n ]_vars
  BY <1>1, <1>2, ArchiveInvStep
<1> QED  BY <1>3, ArchiveInvAlways, PTL DEF Spec, SealsAreFinal

------------------------------------------------------------------------------
(* Types, and the dates of the backfill.                                   *)

\* Only three actions touch the rows, and only Commit the manifests.
LEMMA OnlyCommitWrites ==
    ASSUME NEW t \in Tasks, Archive(t), ~ Commit(t)
    PROVE  UNCHANGED <<clock, up, cronDue, crashes, rows, manifests>>
<1>1. CASE Lookup(t) \/ Verify(t) \/ ReadRows(t)
  BY <1>1 DEF Lookup, Verify, ReadRows, Becomes
<1>2. CASE SigningFails(t) \/ Notarise(t) \/ Store(t) \/ StoreFails(t)
  BY <1>2 DEF SigningFails, Notarise, Store, StoreFails, Becomes
<1>3. CASE CommitFails(t) \/ Finish(t)
  BY <1>3 DEF CommitFails, Finish, Becomes
<1> QED  BY <1>1, <1>2, <1>3 DEF Archive

\* The rows of a step: as they were, or one more, or one altered, or flagged.
LEMMA WhoWrites ==
    ASSUME [Next]_vars
    PROVE  \/ UNCHANGED <<rows, manifests>>
           \/ \E hour \in clock - MaxDelay .. clock : hour >= 0 /\ AppendRow(hour)
           \/ \E k \in Ids : AlterRow(k)
           \/ \E t \in Tasks : Commit(t)
<1>1. CASE \E t \in Tasks : Archive(t)
  BY <1>1, OnlyCommitWrites
<1>2. CASE Tick \/ Boot \/ Down \/ CronFires \/ ManualRun \/ ListPending \/ UNCHANGED vars
  BY <1>2 DEF vars, Tick, Boot, Down, CronFires, ManualRun, ListPending
<1> QED  BY <1>1, <1>2 DEF Next

\* The rows there were keep their ids, in every step.
LEMMA IdsGrow == ASSUME ArchiveInv, [Next]_vars PROVE Ids \subseteq Ids'
<1>1. rows \in Seq(Row) /\ Len(rows) \in Nat /\ Ids = 1 .. Len(rows)
  BY DEF ArchiveInv, LedgerTyped, Ids
<1>2. CASE UNCHANGED rows
  BY <1>2 DEF Ids
<1>3. CASE \E row : rows' = Append(rows, row)
  <2>1. PICK row : rows' = Append(rows, row)
    BY <1>3
  <2> QED  BY <1>1, <2>1 DEF Ids
<1>4. CASE (\E k \in Ids : AlterRow(k)) \/ \E t \in Tasks : Commit(t)
  BY <1>4 DEF AlterRow, Commit, Ids
<1>5. (\E hour \in clock - MaxDelay .. clock : AppendRow(hour)) => \E row : rows' = Append(rows, row)
  BY DEF AppendRow
<1> QED  BY <1>2, <1>3, <1>4, <1>5, WhoWrites

TypedRow == [hour : 0 .. LastHour, altered : BOOLEAN, archived : BOOLEAN]

\* A batch that has read its rows has some.
TaskTyped(b) ==
    /\ b.pc \in {"idle", "list", "lookup", "verify", "read", "notary", "store", "commit"}
    /\ b.ids \subseteq Ids /\ b.broken \in Ids \cup {0}
    /\ b.pc \in {"notary", "store", "commit"} => b.ids # {}

TypeInv ==
    /\ clock \in 0 .. LastHour
    /\ up \in BOOLEAN /\ cronDue \in BOOLEAN
    /\ crashes \in 0 .. MaxCrashes
    /\ rows \in Seq(TypedRow)
    /\ \A m \in manifests : m.ids # {}
    /\ \A t \in Tasks : TaskTyped(task[t])
    /\ cronDue => up /\ clock % HoursPerDay = 0

\* With the seals of ArchiveInv it types the dates of the manifests.
LEMMA TypeInvMeaning == ArchiveInv /\ TypeInv => TypeOK
<1> SUFFICES ASSUME ArchiveInv, TypeInv PROVE TypeOK
  OBVIOUS
<1>1. rows \in Seq(TypedRow) /\ \A k \in Ids : rows[k].hour \in 0 .. LastHour
  <2>1. rows \in Seq(TypedRow) /\ \A k \in Ids : rows[k] \in TypedRow
    BY DEF TypeInv, Ids
  <2> QED  BY <2>1 DEF TypedRow
<1>2. ASSUME NEW m \in manifests
      PROVE  m.date \in Dates /\ m.ids \subseteq Ids /\ m.ids # {}
  <2>1. m.ids # {} /\ m.ids \subseteq Ids /\ \A k \in m.ids : DayOf(rows[k].hour) = m.date
    BY DEF TypeInv, ArchiveInv, SealHolds, Covers
  <2>2. PICK k \in m.ids : rows[k].hour \in 0 .. LastHour /\ DayOf(rows[k].hour) = m.date
    BY <1>1, <2>1
  <2>3. PICK hour \in 0 .. LastHour : m.date = DayOf(hour)
    BY <2>2
  <2>4. DayOf(hour) \in -1 .. DayOf(LastHour)
    BY ArchiveAssumption DEF DayOf
  <2> QED  BY <2>1, <2>3, <2>4 DEF Dates
<1> QED  BY <1>1, <1>2 DEF TypeInv, TaskTyped, TypedRow, TypeOK

\* It holds of an empty ledger.
LEMMA TypeInvInit == Init => TypeInv
<1> SUFFICES ASSUME Init PROVE TypeInv
  OBVIOUS
<1>1. \A t \in Tasks : task[t] = Idle
  BY DEF Init
<1>2. TaskTyped(Idle)
  BY DEF TaskTyped, Idle
<1>3. 0 \in 0 .. LastHour /\ 0 \in 0 .. MaxCrashes
  BY ArchiveAssumption
<1>4. \A t \in Tasks : TaskTyped(task[t])
  BY <1>1, <1>2
<1>5. rows \in Seq(TypedRow) /\ manifests = {} /\ cronDue = FALSE
  BY DEF Init
<1> QED  BY <1>3, <1>4, <1>5 DEF Init, TypeInv

\* What is typed stays so under more rows.
LEMMA TypedKept ==
    ASSUME Ids \subseteq Ids', NEW b, TaskTyped(b)
    PROVE  TaskTyped(b)'
BY DEF TaskTyped

\* A step of the tasks: each stays as it was or becomes a typed one.
LEMMA TasksStayTyped ==
    ASSUME TypeInv, Ids \subseteq Ids',
           \A t \in Tasks : task'[t] = task[t] \/ TaskTyped(task'[t])
    PROVE  \A t \in Tasks : TaskTyped(task[t])'
<1> SUFFICES ASSUME NEW t \in Tasks PROVE TaskTyped(task[t])'
  OBVIOUS
<1>1. PICK b : b = task'[t]
  OBVIOUS
<1>2. TaskTyped(b)
  BY <1>1 DEF TypeInv
<1> QED  BY <1>1, <1>2, TypedKept DEF TaskTyped

\* Where a task is idle or between two dates, it holds no row.
LEMMA RestingTyped ==
    /\ TaskTyped(Idle)
    /\ \A t, d : TaskTyped(NotSealed(t)) /\ TaskTyped(Sealed(t, d))
    /\ \A t, d, rest : TaskTyped([Sealed(t, d) EXCEPT !.todo = rest])
    /\ TaskTyped([Idle EXCEPT !.pc = "list"])
    /\ \A todo : TaskTyped([Idle EXCEPT !.pc = "lookup", !.todo = todo])
    /\ \A todo, pending :
           TaskTyped([Idle EXCEPT !.pc = "lookup", !.pending = pending, !.todo = todo])
BY DEF TaskTyped, Idle, NotSealed, Sealed

\* archive_day_batch keeps its tasks typed.
LEMMA ArchiveTyped ==
    ASSUME ArchiveInv, TypeInv, NEW t \in Tasks, Archive(t)
    PROVE  \A s \in Tasks : task'[s] = task[s] \/ TaskTyped(task'[s])
<1>1. \A state : TaskTyped(state) /\ Becomes(t, state)
                    => \A s \in Tasks : task'[s] = task[s] \/ TaskTyped(task'[s])
  <2> SUFFICES ASSUME NEW state, TaskTyped(state), Becomes(t, state), NEW s \in Tasks
               PROVE  task'[s] = task[s] \/ TaskTyped(task'[s])
    OBVIOUS
  <2>1. task'[s] = IF s = t THEN state ELSE task[s]
    BY DEF ArchiveInv, TasksTyped, Becomes
  <2> QED  BY <2>1
<1>2. Shape(task[t]) /\ TaskTyped(task[t])
  BY DEF ArchiveInv, TasksTyped, TypeInv
<1>3. CASE Lookup(t)
  <2>1. PICK d, rest : d = Lowest(task[t].todo) /\ rest = task[t].todo \ {d}
    OBVIOUS
  <2>2. PICK begun : begun = [task[t] EXCEPT !.pc = "verify", !.todo = rest, !.date = d,
                                             !.suspects = Altered]
    OBVIOUS
  <2>3. PICK found : found = [Sealed(t, d) EXCEPT !.todo = rest]
    OBVIOUS
  <2>4. TaskTyped(begun) /\ TaskTyped(found)
    BY <1>2, <2>2, <2>3, RestingTyped DEF Shape, TaskTyped
  <2>5. Becomes(t, begun) \/ Becomes(t, found)
    BY <1>3, <2>1, <2>2, <2>3 DEF Lookup
  <2> QED  BY <1>1, <2>4, <2>5
<1>4. CASE Verify(t)
  <2>1. PICK broken : broken = IF Altered = {} THEN 0 ELSE Lowest(Altered)
    OBVIOUS
  <2>2. PICK read : read = [task[t] EXCEPT !.pc = "read", !.broken = broken]
    OBVIOUS
  <2>3. broken \in Ids \cup {0}
    <3>1. Altered \subseteq Ids /\ Ids \subseteq Nat
      BY DEF ArchiveInv, LedgerTyped, Ids, Altered
    <3> QED  BY <2>1, <3>1, NatHasLeast
  <2>4. TaskTyped(read)
    BY <1>2, <2>2, <2>3 DEF Shape, TaskTyped
  <2> QED  BY <1>1, <1>4, <2>1, <2>2, <2>4 DEF Verify
<1>5. CASE ReadRows(t)
  <2>1. PICK ids : ids = {k \in Ids : DayOf(rows[k].hour) = task[t].date}
    OBVIOUS
  <2>2. PICK read : read = [task[t] EXCEPT !.pc = "notary", !.ids = ids]
    OBVIOUS
  <2>3. ids # {} => TaskTyped(read)
    BY <1>2, <2>1, <2>2 DEF Shape, TaskTyped
  <2>4. PICK over : over = NotSealed(t)
    OBVIOUS
  <2>5. TaskTyped(over)
    BY <2>4, RestingTyped
  <2>6. Becomes(t, over) \/ (ids # {} /\ Becomes(t, read))
    BY <1>5, <2>1, <2>2, <2>4 DEF ReadRows
  <2> QED  BY <1>1, <2>3, <2>5, <2>6
<1>6. CASE Notarise(t)
  <2>1. PICK took : /\ task[t].pc = "notary"
                    /\ Becomes(t, [task[t] EXCEPT !.pc = "store", !.notaries = took])
    BY <1>6 DEF Notarise
  <2>2. PICK state : state = [task[t] EXCEPT !.pc = "store", !.notaries = took]
    OBVIOUS
  <2>3. TaskTyped(state)
    BY <1>2, <2>1, <2>2 DEF Shape, TaskTyped
  <2> QED  BY <1>1, <2>1, <2>2, <2>3
<1>7. CASE Store(t)
  <2>1. PICK state : state = [task[t] EXCEPT !.pc = "commit"]
    OBVIOUS
  <2>2. TaskTyped(state)
    BY <1>2, <1>7, <2>1 DEF Store, Shape, TaskTyped
  <2> QED  BY <1>1, <1>7, <2>1, <2>2 DEF Store
<1>8. CASE SigningFails(t) \/ StoreFails(t) \/ CommitFails(t) \/ Commit(t) \/ Finish(t)
  <2>1. \E state \in {NotSealed(t), Sealed(t, task[t].date), Idle} : Becomes(t, state)
    BY <1>8 DEF SigningFails, StoreFails, CommitFails, Commit, Finish
  <2>2. \A state \in {NotSealed(t), Sealed(t, task[t].date), Idle} : TaskTyped(state)
    BY RestingTyped
  <2> QED  BY <1>1, <2>1, <2>2
<1> QED  BY <1>3, <1>4, <1>5, <1>6, <1>7, <1>8 DEF Archive

\* Every step keeps the tasks typed.
LEMMA TasksTypedStep ==
    ASSUME ArchiveInv, TypeInv, [Next]_vars
    PROVE  \A t \in Tasks : TaskTyped(task[t])'
<1>1. task = [t \in Tasks |-> task[t]]
  BY DEF ArchiveInv, TasksTyped
<1>2. CASE UNCHANGED task
  BY <1>2, IdsGrow, TasksStayTyped
<1>3. CASE Boot \/ Down \/ CronFires \/ ManualRun \/ ListPending
  <2>1. \A t \in Tasks : task'[t] = task[t] \/ TaskTyped(task'[t])
    <3>1. PICK fresh, T : /\ TaskTyped(fresh)
                          /\ task' = [t \in Tasks |-> IF t \in T THEN fresh ELSE task[t]]
      <4>1. CASE Boot
        <5>1. PICK fresh : fresh = [Idle EXCEPT !.pc = "list"]
          OBVIOUS
        <5>2. TaskTyped(fresh)
          BY <5>1, RestingTyped
        <5>3. task' = [t \in Tasks |-> IF t \in {"backfill"} THEN fresh ELSE task[t]]
          BY <1>1, <4>1, <5>1 DEF Boot
        <5> QED  BY <5>2, <5>3
      <4>2. CASE Down
        <5>1. PICK fresh : fresh = Idle
          OBVIOUS
        <5>2. TaskTyped(fresh)
          BY <5>1, RestingTyped
        <5>3. task' = [t \in Tasks |-> IF t \in {"cron", "backfill"} THEN fresh ELSE task[t]]
          BY <1>1, <4>2, <5>1 DEF Down
        <5> QED  BY <5>2, <5>3
      <4>3. CASE CronFires
        <5>1. PICK fresh : fresh = [Idle EXCEPT !.pc = "lookup", !.todo = {Today - 1}]
          OBVIOUS
        <5>2. TaskTyped(fresh)
          BY <5>1, RestingTyped
        <5>3. task' = [t \in Tasks |-> IF t \in {"cron"} THEN fresh ELSE task[t]]
          BY <1>1, <4>3, <5>1 DEF CronFires
        <5> QED  BY <5>2, <5>3
      <4>4. CASE ManualRun
        <5>1. PICK fresh : fresh = [Idle EXCEPT !.pc = "lookup", !.todo = {Today}]
          OBVIOUS
        <5>2. TaskTyped(fresh)
          BY <5>1, RestingTyped
        <5>3. task' = [t \in Tasks |-> IF t \in {"manual"} THEN fresh ELSE task[t]]
          BY <1>1, <4>4, <5>1 DEF ManualRun
        <5> QED  BY <5>2, <5>3
      <4>5. CASE ListPending
        <5>1. PICK fresh, todo, pending :
                 /\ fresh = [Idle EXCEPT !.pc = "lookup", !.pending = pending, !.todo = todo]
                 /\ task' = [task EXCEPT !["backfill"] = fresh]
          BY <4>5 DEF ListPending
        <5>2. TaskTyped(fresh)
          BY <5>1, RestingTyped
        <5>3. task' = [t \in Tasks |-> IF t \in {"backfill"} THEN fresh ELSE task[t]]
          BY <1>1, <5>1
        <5> QED  BY <5>2, <5>3
      <4> QED  BY <1>3, <4>1, <4>2, <4>3, <4>4, <4>5
    <3> QED  BY <3>1
  <2> QED  BY <2>1, IdsGrow, TasksStayTyped
<1>4. CASE \E t \in Tasks : Archive(t)
  BY <1>4, ArchiveTyped, IdsGrow, TasksStayTyped
<1> QED  BY <1>2, <1>3, <1>4 DEF Next, vars, Tick, AppendRow, AlterRow

\* Every step keeps the rows typed.
LEMMA RowsTypedStep ==
    ASSUME ArchiveInv, TypeInv, [Next]_vars
    PROVE  rows' \in Seq(TypedRow)
<1>1. /\ rows \in Seq(TypedRow) /\ Len(rows) \in Nat /\ Ids = 1 .. Len(rows)
      /\ rows \in [1 .. Len(rows) -> TypedRow] /\ \A k \in Ids : rows[k] \in TypedRow
  BY DEF TypeInv, Ids
<1>2. CASE UNCHANGED rows
  BY <1>1, <1>2
<1>3. CASE \E hour \in clock - MaxDelay .. clock : hour >= 0 /\ AppendRow(hour)
  <2>1. PICK hour \in clock - MaxDelay .. clock : hour >= 0 /\ AppendRow(hour)
    BY <1>3
  <2>2. PICK row : row = [hour |-> hour, altered |-> FALSE, archived |-> FALSE]
    OBVIOUS
  <2>3. row \in TypedRow
    BY <2>1, <2>2, ArchiveAssumption DEF TypeInv, TypedRow
  <2> QED  BY <1>1, <2>1, <2>2, <2>3 DEF AppendRow
<1>4. CASE \E k \in Ids : AlterRow(k)
  <2>1. PICK k \in Ids : AlterRow(k)
    BY <1>4
  <2>2. PICK row : row = [rows[k] EXCEPT !.altered = TRUE]
    OBVIOUS
  <2>3. row \in TypedRow
    BY <1>1, <2>1, <2>2 DEF TypedRow
  <2>4. rows' \in [1 .. Len(rows) -> TypedRow]
    BY <1>1, <2>1, <2>2, <2>3 DEF AlterRow
  <2> QED  BY <1>1, <2>4
<1>5. CASE \E t \in Tasks : Commit(t)
  <2>1. PICK t \in Tasks : Commit(t)
    BY <1>5
  <2>2. rows' = [k \in Ids |-> [rows[k] EXCEPT !.archived = @ \/ k \in task[t].ids]]
    BY <2>1 DEF Commit
  <2>3. \A k \in Ids : rows[k].archived \in BOOLEAN
    BY <1>1 DEF TypedRow
  <2>4. \A k \in Ids : rows'[k] \in TypedRow
    BY <1>1, <2>2, <2>3 DEF TypedRow
  <2>5. rows' \in [1 .. Len(rows) -> TypedRow]
    BY <1>1, <2>2, <2>4
  <2> QED  BY <1>1, <2>5
<1> QED  BY <1>2, <1>3, <1>4, <1>5, WhoWrites

\* Every manifest is that of a batch that has rows.
LEMMA ManifestsTypedStep ==
    ASSUME ArchiveInv, TypeInv, [Next]_vars
    PROVE  \A m \in manifests' : m.ids # {}
<1>1. CASE \E t \in Tasks : Commit(t)
  <2>1. PICK t \in Tasks : Commit(t)
    BY <1>1
  <2>2. manifests' = manifests \cup {Manifest(t)} /\ Manifest(t).ids = task[t].ids
    BY <2>1 DEF Commit, Manifest
  <2>3. task[t].ids # {}
    BY <2>1 DEF Commit, TypeInv, TaskTyped
  <2> QED  BY <2>2, <2>3 DEF TypeInv
<1>2. CASE UNCHANGED manifests
  BY <1>2 DEF TypeInv
<1> QED  BY <1>1, <1>2, WhoWrites DEF AppendRow, AlterRow

\* The hour after which a day begins.
LEMMA DayBegins ==
    ASSUME NEW hour \in Int, DayOf(hour + 1) # DayOf(hour)
    PROVE  (hour + 1) % HoursPerDay = 0
<1>1. PICK d \in Nat \ {0} : d = HoursPerDay
  BY ArchiveAssumption
<1>2. ASSUME NEW n \in Int
      PROVE  n = ((n \div d) * d) + (n % d) /\ 0 <= n % d /\ n % d < d
  OBVIOUS
<1>3. (hour + 1) \div d # hour \div d
  BY <1>1 DEF DayOf
<1>4. (hour + 1) % d = 0
  BY <1>2, <1>3
<1> QED  BY <1>1, <1>4

\* Every step keeps the clock and the process typed, and the cron job is due in
\* the first hour of a day.
LEMMA ProcessTypedStep ==
    ASSUME ArchiveInv, TypeInv, [Next]_vars
    PROVE  /\ clock' \in 0 .. LastHour
           /\ up' \in BOOLEAN /\ cronDue' \in BOOLEAN
           /\ crashes' \in 0 .. MaxCrashes
           /\ cronDue' => up' /\ (clock' % HoursPerDay) = 0
<1>1. CASE Tick
  <2>1. clock \in Int /\ clock' = clock + 1 /\ cronDue' = (up /\ DayOf(clock + 1) # DayOf(clock))
        /\ clock < LastHour /\ UNCHANGED <<up, crashes>>
    BY <1>1 DEF Tick, Today, TypeInv
  <2>2. cronDue' => (clock + 1) % HoursPerDay = 0
    BY <2>1, DayBegins
  <2> QED  BY <2>1, <2>2, ArchiveAssumption DEF TypeInv
<1>2. CASE Boot
  BY <1>2 DEF Boot, TypeInv
<1>3. CASE Down
  <2>1. MaxCrashes \in Nat
    BY ArchiveAssumption
  <2>2. crashes < MaxCrashes /\ crashes' = crashes + 1 /\ up' = FALSE /\ cronDue' = FALSE
        /\ clock' = clock
    BY <1>3 DEF Down
  <2>3. crashes \in 0 .. MaxCrashes /\ clock \in 0 .. LastHour
    BY DEF TypeInv
  <2>4. crashes' \in 0 .. MaxCrashes
    BY <2>1, <2>2, <2>3
  <2> QED  BY <2>2, <2>3, <2>4
<1>4. CASE CronFires
  BY <1>4 DEF CronFires, TypeInv
<1>5. CASE UNCHANGED <<clock, up, cronDue, crashes>>
  BY <1>5 DEF TypeInv
<1>6. (\E t \in Tasks : Archive(t)) => UNCHANGED <<clock, up, cronDue, crashes>>
  BY OnlyCommitWrites DEF Commit, Becomes
<1> QED
  BY <1>1, <1>2, <1>3, <1>4, <1>5, <1>6
     DEF Next, vars, AppendRow, AlterRow, ManualRun, ListPending

\* Every step keeps the types.
LEMMA TypeInvStep == ArchiveInv /\ TypeInv /\ [Next]_vars => TypeInv'
BY TasksTypedStep, RowsTypedStep, ManifestsTypedStep, ProcessTypedStep DEF TypeInv

\* Every variable has its type, a manifest its rows and a date of the model, and
\* the cron job is due in the first hour of a day and only while the proxy runs.
THEOREM ArchiveTypes == Spec => []TypeOK
<1>1. Spec => []TypeInv
  BY TypeInvInit, TypeInvStep, ArchiveInvAlways, PTL DEF Spec
<1> QED  BY <1>1, TypeInvMeaning, ArchiveInvAlways, PTL

------------------------------------------------------------------------------
(* The dates of the backfill.                                              *)

\* A set of dates with a lower bound has a least one: dates before the first
\* midnight are negative.
LEMMA IntHasLeast ==
    ASSUME NEW S, S \subseteq Int, S # {}, NEW floor \in Int, \A y \in S : floor <= y
    PROVE  Lowest(S) \in S
<1> DEFINE T == {y - floor : y \in S}
<1>1. T \subseteq Nat /\ T # {}
  <2>1. ASSUME NEW y \in S
        PROVE  y - floor \in Nat
    OBVIOUS
  <2> QED  BY <2>1
<1>2. PICK t \in T : \A u \in T : t <= u
  BY <1>1, NatHasLeast
<1>3. PICK x \in S : t = x - floor
  BY <1>2
<1>4. ASSUME NEW y \in S
      PROVE  x <= y
  <2>1. t <= y - floor
    BY <1>2
  <2> QED  BY <1>3, <2>1
<1> QED  BY <1>4 DEF Lowest

\* The dates the backfill has listed, and the one it archives, are closed days.
Closed(S) == S \subseteq {d \in Int : DayOf(- UtcOffset) <= d /\ d < Today}

BackfillClosed ==
    /\ Closed(task["backfill"].todo)
    /\ task["backfill"].pc \notin {"idle", "list", "lookup"} => Closed({task["backfill"].date})

\* A later hour is of the same day or of a later one.
LEMMA DaysGoOn ==
    ASSUME NEW a \in Int, NEW b \in Int, a <= b
    PROVE  DayOf(a) \in Int /\ DayOf(b) \in Int /\ DayOf(a) <= DayOf(b)
<1>1. PICK d \in Nat \ {0} : d = HoursPerDay
  BY ArchiveAssumption
<1>2. a \div d \in Int /\ b \div d \in Int /\ a \div d <= b \div d
  OBVIOUS
<1> QED  BY <1>1, <1>2 DEF DayOf

\* What is closed stays closed.
LEMMA ClosedKept ==
    ASSUME TypeInv, [Next]_vars, NEW S, Closed(S)
    PROVE  Closed(S)'
<1>1. clock \in Int /\ (clock' = clock \/ clock' = clock + 1)
  <2>1. (\E t \in Tasks : Archive(t)) => clock' = clock
    BY OnlyCommitWrites DEF Commit, Becomes
  <2>2. clock' = clock \/ clock' = clock + 1
    BY <2>1 DEF Next, vars, Tick, AppendRow, AlterRow, Boot, Down, CronFires, ManualRun, ListPending
  <2> QED  BY <2>2 DEF TypeInv
<1>2. Today \in Int /\ Today' \in Int /\ Today <= Today'
  BY <1>1, DaysGoOn DEF Today, DayOf
<1> QED  BY <1>2, ArchiveAssumption, DaysGoOn DEF Closed, DayOf

\* A step of archive_day_batch takes a date that was listed, or none.
LEMMA ArchiveTakesListed ==
    ASSUME ArchiveInv, TypeInv, BackfillClosed, Archive("backfill")
    PROVE  /\ task'["backfill"].todo \subseteq task["backfill"].todo
           /\ task'["backfill"].pc \notin {"idle", "list", "lookup"}
                => Closed({task'["backfill"].date})
<1> DEFINE t == "backfill"
           Good(b) == /\ b.todo \subseteq task[t].todo
                      /\ b.pc \notin {"idle", "list", "lookup"} => Closed({b.date})
<1>1. ASSUME NEW b, Good(b), Becomes(t, b)
      PROVE  Good(task'[t])
  <2>1. task'[t] = b
    BY <1>1 DEF Becomes, ArchiveInv, TasksTyped, Tasks
  <2> QED  BY <1>1, <2>1
<1>2. Shape(task[t]) /\ \A d : Good(NotSealed(t)) /\ Good(Sealed(t, d)) /\ Good(Idle)
  BY DEF ArchiveInv, TasksTyped, Tasks, NotSealed, Sealed, Idle
<1>3. CASE Lookup(t)
  <2>1. PICK d, rest : d = Lowest(task[t].todo) /\ rest = task[t].todo \ {d}
    OBVIOUS
  <2>2. PICK begun : begun = [task[t] EXCEPT !.pc = "verify", !.todo = rest, !.date = d,
                                             !.suspects = Altered]
    OBVIOUS
  <2>3. PICK found : found = [Sealed(t, d) EXCEPT !.todo = rest]
    OBVIOUS
  <2>4. Closed({d})
    <3>1. PICK floor \in Int : floor = DayOf(- UtcOffset)
      BY DaysGoOn, ArchiveAssumption
    <3>2. task[t].todo # {} /\ task[t].todo \subseteq Int /\ \A y \in task[t].todo : floor <= y
      BY <1>3, <3>1 DEF Lookup, BackfillClosed, Closed
    <3>3. d \in task[t].todo
      BY <2>1, <3>2, IntHasLeast
    <3> QED  BY <3>3 DEF BackfillClosed, Closed
  <2>5. Good(begun) /\ Good(found)
    BY <1>2, <2>1, <2>2, <2>3, <2>4 DEF Shape, Sealed, NotSealed, Idle
  <2>6. Becomes(t, begun) \/ Becomes(t, found)
    BY <1>3, <2>1, <2>2, <2>3 DEF Lookup
  <2> QED  BY <1>1, <2>5, <2>6
<1>4. CASE Verify(t) \/ Notarise(t) \/ Store(t)
  <2>1. PICK b :
           /\ task[t].pc \notin {"idle", "list", "lookup"}
           /\ Becomes(t, b)
           /\ \/ \E broken : b = [task[t] EXCEPT !.pc = "read", !.broken = broken]
              \/ \E notaries : b = [task[t] EXCEPT !.pc = "store", !.notaries = notaries]
              \/ b = [task[t] EXCEPT !.pc = "commit"]
    <3>1. CASE Verify(t)
      BY <3>1 DEF Verify
    <3>2. CASE Notarise(t)
      BY <3>2 DEF Notarise
    <3>3. CASE Store(t)
      BY <3>3 DEF Store
    <3> QED  BY <1>4, <3>1, <3>2, <3>3
  <2>2. b.todo = task[t].todo /\ b.date = task[t].date
    BY <1>2, <2>1 DEF Shape
  <2> QED  BY <1>1, <2>1, <2>2 DEF BackfillClosed
<1>5. CASE ReadRows(t)
  <2>1. PICK ids : ids = {k \in Ids : DayOf(rows[k].hour) = task[t].date}
    OBVIOUS
  <2>2. PICK read : read = [task[t] EXCEPT !.pc = "notary", !.ids = ids]
    OBVIOUS
  <2>3. read.todo = task[t].todo /\ read.date = task[t].date
    BY <1>2, <2>2 DEF Shape
  <2>4. Good(read)
    BY <1>5, <2>3 DEF BackfillClosed, ReadRows
  <2>5. Becomes(t, NotSealed(t)) \/ Becomes(t, read)
    BY <1>5, <2>1, <2>2 DEF ReadRows
  <2> QED  BY <1>1, <1>2, <2>4, <2>5
<1>6. CASE SigningFails(t) \/ StoreFails(t) \/ CommitFails(t) \/ Commit(t) \/ Finish(t)
  <2>1. \E state \in {NotSealed(t), Sealed(t, task[t].date), Idle} : Becomes(t, state)
    BY <1>6 DEF SigningFails, StoreFails, CommitFails, Commit, Finish
  <2> QED  BY <1>1, <1>2, <2>1
<1> QED  BY <1>3, <1>4, <1>5, <1>6 DEF Archive

\* The zone of the process can only put a listed row on an earlier day, when it
\* is ahead of UTC.
LEMMA ListedAreClosed ==
    ASSUME UtcOffset \in Nat, ArchiveInv, TypeInv, ListPending
    PROVE  Closed(task'["backfill"].todo) /\ task'["backfill"].pc = "lookup"
<1> SUFFICES ASSUME NEW k \in Ids, InWindow(k)
             PROVE  StampDate(rows[k].hour) \in
                        {d \in Int : DayOf(- UtcOffset) <= d /\ d < Today}
  <2>1. task'["backfill"].todo = {StampDate(rows[k].hour) : k \in {j \in Ids : InWindow(j)}}
    BY DEF ListPending, ArchiveInv, TasksTyped, Tasks, Idle
  <2>2. Today' = Today
    BY DEF ListPending, Today
  <2>3. task'["backfill"].pc = "lookup"
    BY DEF ListPending, ArchiveInv, TasksTyped, Tasks, Idle
  <2> QED  BY <2>1, <2>2, <2>3 DEF Closed
<1>1. PICK hour \in 0 .. LastHour : hour = rows[k].hour /\ DayOf(hour) < Today
  <2>1. rows[k] \in TypedRow
    BY DEF TypeInv, Ids
  <2> QED  BY <2>1 DEF TypedRow, InWindow
<1>2. /\ DayOf(- UtcOffset) <= DayOf(hour - UtcOffset)
      /\ DayOf(hour - UtcOffset) <= DayOf(hour)
      /\ DayOf(hour - UtcOffset) \in Int /\ DayOf(hour) \in Int
  BY DaysGoOn
<1>3. Today \in Int
  BY DaysGoOn DEF Today, TypeInv
<1> QED  BY <1>1, <1>2, <1>3 DEF StampDate

\* Every step keeps the dates of the backfill closed.
LEMMA BackfillClosedStep ==
    ASSUME UtcOffset \in Nat, ArchiveInv, TypeInv, BackfillClosed, [Next]_vars
    PROVE  BackfillClosed'
<1>1. ASSUME NEW S, Closed(S)
      PROVE  Closed(S)'
  BY <1>1, ClosedKept
<1>2. task = [t \in Tasks |-> task[t]] /\ Tasks = {"cron", "backfill", "manual"}
  BY DEF ArchiveInv, TasksTyped, Tasks
<1>3. PICK before, after : before = task["backfill"] /\ after = task'["backfill"]
  OBVIOUS
<1>4. Closed({}) /\ {} \subseteq before.todo
  BY DEF Closed
<1>5. /\ Closed(after.todo)
      /\ after.pc \notin {"idle", "list", "lookup"} => Closed({after.date})
  <2>1. CASE after = before
    BY <1>3, <2>1 DEF BackfillClosed
  <2>2. CASE Boot \/ Down
    <3>1. after.todo = {} /\ after.pc \in {"idle", "list"}
      <4>1. PICK fresh, T : /\ fresh.todo = {} /\ fresh.pc \in {"idle", "list"} /\ "backfill" \in T
                            /\ task' = [t \in Tasks |-> IF t \in T THEN fresh ELSE task[t]]
        <5>1. CASE Boot
          <6>1. PICK fresh : fresh = [Idle EXCEPT !.pc = "list"]
            OBVIOUS
          <6>2. task' = [t \in Tasks |-> IF t \in {"backfill"} THEN fresh ELSE task[t]]
            BY <1>2, <5>1, <6>1 DEF Boot
          <6> QED  BY <6>1, <6>2 DEF Idle
        <5>2. CASE Down
          <6>1. PICK fresh : fresh = Idle
            OBVIOUS
          <6>2. task' = [t \in Tasks |-> IF t \in {"cron", "backfill"} THEN fresh ELSE task[t]]
            BY <1>2, <5>2, <6>1 DEF Down
          <6> QED  BY <6>1, <6>2 DEF Idle
        <5> QED  BY <2>2, <5>1, <5>2
      <4> QED  BY <1>2, <1>3, <4>1
    <3> QED  BY <1>4, <3>1
  <2>3. CASE ListPending
    BY <1>3, <2>3, ListedAreClosed
  <2>4. CASE Archive("backfill")
    <3>1. /\ after.todo \subseteq before.todo
          /\ after.pc \notin {"idle", "list", "lookup"} => Closed({after.date})
      BY <1>3, <2>4, ArchiveTakesListed
    <3> QED  BY <1>3, <3>1 DEF BackfillClosed, Closed
  <2>5. CASE CronFires \/ ManualRun \/ Archive("cron") \/ Archive("manual")
    <3>1. ASSUME NEW t \in {"cron", "manual"}, NEW state, task' = [task EXCEPT ![t] = state]
          PROVE  after = before
      BY <1>2, <1>3, <3>1
    <3>2. \E t \in {"cron", "manual"} : \E state : task' = [task EXCEPT ![t] = state]
      <4>1. CASE CronFires \/ ManualRun
        BY <4>1 DEF CronFires, ManualRun
      <4>2. ASSUME NEW t \in {"cron", "manual"}, Archive(t)
            PROVE  \E state : task' = [task EXCEPT ![t] = state]
        BY <4>2 DEF Archive, Lookup, Verify, ReadRows, SigningFails, Notarise, Store, StoreFails,
                    Commit, CommitFails, Finish, Becomes
      <4> QED  BY <2>5, <4>1, <4>2
    <3> QED  BY <2>1, <3>1, <3>2
  <2> QED
    BY <1>2, <1>3, <2>1, <2>2, <2>3, <2>4, <2>5 DEF Next, vars, Tick, AppendRow, AlterRow
<1>6. Closed(after.todo)' /\ (Closed({after.date}) => Closed({after.date})')
  BY <1>1, <1>5
<1> QED  BY <1>3, <1>5, <1>6 DEF BackfillClosed, Closed

\* The backfill seals closed days only, in a zone that is not west of Greenwich
\* (or on a database that keeps the zone of its stamps, where the offset counts
\* for nothing): the window ends before today, and the clock of the zone can only
\* move a row to an earlier date.
THEOREM BackfillKeepsToThePast == ASSUME UtcOffset \in Nat PROVE Spec => []BackfillOnlyClosedDays
<1>1. Init => BackfillClosed
  BY DEF Init, BackfillClosed, Closed, Tasks, Idle
<1>2. ArchiveInv /\ TypeInv /\ BackfillClosed /\ [Next]_vars => BackfillClosed'
  BY BackfillClosedStep
<1>3. ArchiveInv /\ TypeInv /\ [Next]_vars => TypeInv'
  BY TypeInvStep
<1>4. BackfillClosed => BackfillOnlyClosedDays
  BY DEF BackfillClosed, Closed, BackfillOnlyClosedDays
<1> QED  BY <1>1, <1>2, <1>3, <1>4, TypeInvInit, ArchiveInvAlways, PTL DEF Spec
------------------------------------------------------------------------------
(* The refinement of DaySeals.                                             *)

RowDays == [k \in Ids |-> DayOf(rows[k].hour)]
Flagged == {k \in Ids : rows[k].archived}

\* What the abstract archive is made of.
LEMMA SealsAre ==
    /\ Seals!archive = <<RowDays, manifests, Flagged>>
    /\ Seals!Init <=> RowDays = << >> /\ manifests = {} /\ Flagged = {}
BY DEF Seals!archive, Seals!Init, RowDays, Flagged

\* A function on 1 .. n + 1 is its restriction to 1 .. n with one more value.
LEMMA OneMoreValue ==
    ASSUME NEW S, NEW n \in Nat, NEW f \in [1 .. n -> S], NEW g \in [1 .. n + 1 -> S],
           \A k \in 1 .. n : g[k] = f[k]
    PROVE  g = Append(f, g[n + 1])
<1>1. f \in Seq(S) /\ Len(f) = n
  BY SMT
<1>2. PICK e \in S : e = g[n + 1]
  OBVIOUS
<1>3. PICK h \in Seq(S) : h = Append(f, e)
  <2>1. Append(f, e) \in Seq(S)
    BY <1>1
  <2> QED  BY <2>1, Zenon
<1>4. DOMAIN h = 1 .. n + 1 /\ h[n + 1] = e /\ \A k \in 1 .. n : h[k] = f[k]
  BY <1>1, <1>3
<1>5. g = [k \in 1 .. n + 1 |-> g[k]] /\ h = [k \in 1 .. n + 1 |-> h[k]]
  BY <1>4
<1>6. \A k \in 1 .. n + 1 : k \in 1 .. n \/ k = n + 1
  OBVIOUS
<1>7. \A k \in 1 .. n + 1 : g[k] = h[k]
  BY <1>2, <1>4, <1>6
<1> QED  BY <1>2, <1>3, <1>5, <1>7

\* Ids have a highest one.
LEMMA IdsHaveHighest ==
    ASSUME NEW n \in Nat, NEW S \in SUBSET (1 .. n), S # {}
    PROVE  \E top \in S : \A k \in S : k <= top
<1> DEFINE T == {n - k : k \in S}
<1>1. T \subseteq Nat /\ T # {}
  <2>1. ASSUME NEW k \in S PROVE n - k \in Nat
    OBVIOUS
  <2> QED  BY <2>1
<1>2. PICK t \in T : \A u \in T : t <= u
  BY <1>1, NatHasLeast
<1>3. PICK top \in S : t = n - top
  BY <1>2
<1>4. ASSUME NEW k \in S PROVE k <= top
  <2>1. t <= n - k
    BY <1>2
  <2> QED  BY <1>3, <2>1
<1> QED  BY <1>4

\* The hour of a row is an hour of the clock.
LEMMA HoursHaveDays ==
    ASSUME NEW hour \in 0 .. LastHour
    PROVE  DayOf(hour) \in Dates
<1>1. PICK d \in Nat \ {0} : d = HoursPerDay
  BY ArchiveAssumption
<1>2. PICK last \in Nat : last = LastHour
  BY ArchiveAssumption
<1>3. hour \in Int /\ last \in Int /\ 0 <= hour /\ hour <= last
  BY <1>2
<1>4. DayOf(hour) \in Int /\ DayOf(hour) <= DayOf(last) /\ DayOf(last) \in Int
  BY <1>3, DaysGoOn
<1>5. DayOf(0) <= DayOf(hour)
  BY <1>3, DaysGoOn
<1>6. DayOf(0) = 0
  BY <1>1 DEF DayOf
<1> QED  BY <1>2, <1>4, <1>5, <1>6 DEF Dates

\* The rows of a step that only changes their flags or payloads have their days.
LEMMA DaysStay ==
    ASSUME Ids' = Ids, \A k \in Ids : rows'[k].hour = rows[k].hour
    PROVE  RowDays' = RowDays
BY DEF RowDays, DayOf

\* A chained row is a day more.
LEMMA AppendChains ==
    ASSUME ArchiveInv, TypeInv, NEW hour \in clock - MaxDelay .. clock, hour >= 0, AppendRow(hour)
    PROVE  Seals!Next
<1>1. PICK n \in Nat : n = Len(rows)
  BY DEF ArchiveInv, LedgerTyped
<1>2. PICK row : row = [hour |-> hour, altered |-> FALSE, archived |-> FALSE]
  OBVIOUS
<1>3. /\ rows \in Seq(TypedRow) /\ row \in TypedRow /\ row.hour = hour /\ row.archived = FALSE
      /\ hour \in 0 .. LastHour /\ rows' = Append(rows, row) /\ manifests' = manifests
  <2>1. rows \in Seq(TypedRow) /\ clock \in 0 .. LastHour /\ MaxDelay \in Nat /\ LastHour \in Nat
    BY ArchiveAssumption DEF TypeInv
  <2>2. hour \in 0 .. LastHour
    BY <2>1
  <2> QED  BY <1>2, <2>1, <2>2 DEF AppendRow, TypedRow
<1>4. /\ Ids = 1 .. n /\ Ids' = 1 .. n + 1
      /\ \A k \in 1 .. n : rows'[k] = rows[k]
      /\ rows'[n + 1] = row
  BY <1>1, <1>3 DEF Ids
<1>5. \A k \in 1 .. n : rows[k] \in TypedRow
  BY <1>1, <1>3
<1>6. RowDays \in [1 .. n -> Dates]
  BY <1>4, <1>5, HoursHaveDays DEF RowDays, TypedRow
<1>7. RowDays' = [k \in 1 .. n + 1 |-> DayOf(rows'[k].hour)]
  BY <1>4 DEF RowDays, DayOf
<1>8. \A k \in 1 .. n + 1 : k \in 1 .. n \/ k = n + 1
  OBVIOUS
<1>9. RowDays' \in [1 .. n + 1 -> Dates]
  <2>1. \A k \in 1 .. n + 1 : DayOf(rows'[k].hour) \in Dates
    BY <1>3, <1>4, <1>5, <1>8, HoursHaveDays DEF TypedRow
  <2> QED  BY <1>7, <2>1
<1>10. \A k \in 1 .. n : RowDays'[k] = RowDays[k]
  BY <1>4, <1>7 DEF RowDays
<1>11. RowDays' = Append(RowDays, DayOf(hour))
  <2>1. RowDays'[n + 1] = DayOf(hour)
    <3>1. rows'[n + 1].hour = hour /\ n + 1 \in 1 .. n + 1
      BY <1>2, <1>4
    <3> QED  BY <1>7, <3>1, Zenon
  <2>2. PICK f, g : f = RowDays /\ g = RowDays'
    OBVIOUS
  <2>3. g = Append(f, g[n + 1])
    BY <1>6, <1>9, <1>10, <2>2, OneMoreValue
  <2> QED  BY <2>1, <2>2, <2>3
<1>12. Flagged' = Flagged
  <2>1. ~ rows'[n + 1].archived
    BY <1>2, <1>3, <1>4
  <2>2. Flagged' = {k \in 1 .. n + 1 : rows'[k].archived}
    BY <1>4 DEF Flagged
  <2>3. Flagged' = {k \in 1 .. n : rows'[k].archived}
    BY <1>8, <2>1, <2>2
  <2> QED  BY <1>4, <2>3 DEF Flagged
<1>13. Seals!Chain(DayOf(hour))
  BY <1>3, <1>11, <1>12 DEF Seals!Chain, RowDays, Flagged
<1> QED  BY <1>3, <1>13, HoursHaveDays DEF Seals!Next

\* A commit seals its day with the rows it had when the batch read them.
LEMMA CommitSeals ==
    ASSUME ArchiveInv, TypeInv, NEW t \in Tasks, Commit(t)
    PROVE  Seals!Next
<1>1. /\ task[t].pc = "commit"
      /\ \A m \in manifests : m.date # task[t].date
      /\ manifests' = manifests \cup {Manifest(t)}
      /\ rows' = [k \in Ids |-> [rows[k] EXCEPT !.archived = @ \/ k \in task[t].ids]]
  BY DEF Commit
<1>2. PICK n \in Nat : n = Len(rows) /\ Ids = 1 .. n
  BY DEF ArchiveInv, LedgerTyped, Ids
<1>3. \A k \in Ids : rows[k] \in Row
  BY DEF ArchiveInv, LedgerTyped, Ids
<1>4. /\ Ids' = Ids
      /\ \A k \in Ids : rows'[k].hour = rows[k].hour
      /\ \A k \in Ids : rows'[k].archived <=> rows[k].archived \/ k \in task[t].ids
  BY <1>1, <1>3 DEF Row, Ids
<1>5. PICK seal : seal = Manifest(t)
  OBVIOUS
<1>6. seal.date = task[t].date /\ seal.ids = task[t].ids
  BY <1>5 DEF Manifest
<1>7. Covers(seal.ids, seal.date) /\ seal.ids # {}
  <2>1. BatchHolds(task[t]) /\ TaskTyped(task[t])
    BY DEF ArchiveInv, TypeInv
  <2> QED  BY <1>1, <1>6, <2>1 DEF BatchHolds, TaskTyped
<1>8. PICK moment \in seal.ids : \A k \in seal.ids : k <= moment
  <2>1. seal.ids \in SUBSET (1 .. n)
    BY <1>2, <1>7 DEF Covers
  <2> QED  BY <1>2, <1>7, <2>1, IdsHaveHighest
<1>9. moment \in 1 .. n /\ seal.ids \subseteq 1 .. n
  BY <1>2, <1>7 DEF Covers
<1>10. seal.ids = {k \in 1 .. moment : RowDays[k] = seal.date}
  <2>1. ASSUME NEW k \in seal.ids PROVE k \in 1 .. moment /\ RowDays[k] = seal.date
    <3>1. k \in 1 .. n /\ k <= moment
      BY <1>8, <1>9
    <3> QED  BY <1>2, <1>7, <3>1 DEF Covers, RowDays
  <2>2. ASSUME NEW k \in 1 .. moment, RowDays[k] = seal.date PROVE k \in seal.ids
    <3>1. k \in Ids /\ ~ (moment < k)
      BY <1>2, <1>9
    <3> QED  BY <1>7, <2>2, <3>1 DEF Covers, RowDays
  <2> QED  BY <2>1, <2>2
<1>11. RowDays' = RowDays /\ DOMAIN RowDays = Ids
  BY <1>4, DaysStay DEF RowDays
<1>12. Flagged' = Flagged \cup seal.ids
  BY <1>4, <1>6, <1>7 DEF Flagged, Covers
<1>13. Seals!Seal(seal, moment)
  BY <1>1, <1>5, <1>6, <1>7, <1>10, <1>11, <1>12 DEF Seals!Seal, RowDays, Flagged
<1>14. seal \in manifests' /\ moment \in DOMAIN RowDays
  BY <1>1, <1>2, <1>5, <1>9, <1>11
<1> QED  BY <1>13, <1>14 DEF Seals!Next, RowDays

\* An altered payload is nothing to the days and the flags.
LEMMA AlteringIsQuiet ==
    ASSUME ArchiveInv, NEW k \in Ids, AlterRow(k)
    PROVE  UNCHANGED Seals!archive
<1>1. rows \in Seq(Row) /\ rows' = [rows EXCEPT ![k].altered = TRUE] /\ manifests' = manifests
  BY DEF AlterRow, ArchiveInv, LedgerTyped
<1>2. \A j \in Ids : rows[j] \in Row
  BY <1>1 DEF Ids
<1>3. /\ Ids' = Ids
      /\ \A j \in Ids : rows'[j].hour = rows[j].hour /\ rows'[j].archived = rows[j].archived
  BY <1>1, <1>2 DEF Ids, Row
<1>4. RowDays' = RowDays
  BY <1>3, DaysStay
<1>5. Flagged' = Flagged
  BY <1>3 DEF Flagged
<1> QED  BY <1>1, <1>4, <1>5, SealsAre DEF Seals!archive, RowDays, Flagged

\* Every step of the archive is a step of the abstract one, or leaves it alone.
LEMMA SealsStep == ArchiveInv /\ TypeInv /\ [Next]_vars => [Seals!Next]_Seals!archive
<1> SUFFICES ASSUME ArchiveInv, TypeInv, [Next]_vars
             PROVE  Seals!Next \/ UNCHANGED Seals!archive
  OBVIOUS
<1>1. CASE UNCHANGED <<rows, manifests>>
  BY <1>1 DEF Seals!archive, Ids, DayOf
<1>2. CASE \E hour \in clock - MaxDelay .. clock : hour >= 0 /\ AppendRow(hour)
  BY <1>2, AppendChains
<1>3. CASE \E k \in Ids : AlterRow(k)
  BY <1>3, AlteringIsQuiet
<1>4. CASE \E t \in Tasks : Commit(t)
  BY <1>4, CommitSeals
<1> QED  BY <1>1, <1>2, <1>3, <1>4, WhoWrites

\* Nothing is chained or sealed at first.
LEMMA SealsInit == Init => Seals!Init
<1> SUFFICES ASSUME Init PROVE Seals!Init
  OBVIOUS
<1>1. rows = << >> /\ manifests = {} /\ Ids = {}
  BY DEF Init, Ids
<1>2. RowDays = << >>
  BY <1>1 DEF RowDays
<1>3. Flagged = {}
  BY <1>1 DEF Flagged
<1> QED  BY <1>1, <1>2, <1>3, SealsAre

\* The archiver implements the day seals, for any hours, races of its three
\* tasks, failures and kills: each day is sealed once, in one step, with the rows
\* it had at some moment.
THEOREM ArchiveImplementsSeals == Spec => ImplementsSeals
<1>1. TypeInv /\ ArchiveInv /\ [Next]_vars => TypeInv'
  BY TypeInvStep
<1> QED  BY <1>1, SealsInit, SealsStep, TypeInvInit, ArchiveInvAlways, PTL
            DEF Spec, ImplementsSeals, Seals!Spec
==============================================================================
