----------------------------- MODULE AuditWorker -----------------------------
(***************************************************************************)
(* proxy/services/audit_worker.py: every proxy process holds an in-memory  *)
(* queue of audit entries and one consumer task that chains them into the  *)
(* ledger table the processes share, retries, and leaves what it could not *)
(* write in data/failed_audit.  Each action is the code between two awaits.*)
(*                                                                         *)
(* A definition X_Something, before X, is X with a plausible bug in it; no *)
(* specification uses it.                                                  *)
(***************************************************************************)
EXTENDS HashChain, Functions

CONSTANTS
    Workers,        \* proxy processes; each owns one AuditLedgerWorker
    Items,          \* audit entries, one per request_id (a fresh uuid4)
    NoItem,         \* the consumer holds no entry
    MaxAttempts,    \* max(1, AUDIT_WRITE_MAX_ATTEMPTS)
    Faults          \* which of the environment's faults may happen

FaultKinds == {"db",     \* a statement or the commit fails, nothing is written
               "ack",    \* the commit is done and its acknowledgement is lost
               "disk",   \* a file of data/failed_audit cannot be written
               "crash",  \* the process is killed
               "late"}   \* a callback enqueues after stop() was called

ASSUME WorkerAssumption ==
    /\ NoItem \notin Items
    /\ MaxAttempts \in Nat \ {0}
    /\ Faults \subseteq FaultKinds

VARIABLES
    life,         \* where the process is between start() and the end of stop()
    queue,        \* asyncio.Queue of each process
    unfinished,   \* its count of items without a task_done()
    task,         \* the consumer: phase, entry, attempt, last_hash it read
    failedCount,  \* failed_count, as /healthz reports it
    ledger,       \* the rows of audit_ledger, in id order
    dumped,       \* entries with a file in data/failed_audit
    accepted,     \* history: entries handed to enqueue_log, per process
    tardy,        \* history: those handed over after stop() was called
    lost          \* history: entries whose only copy went with a process or disk

vars == <<life, queue, unfinished, task, failedCount, ledger, dumped, accepted, tardy, lost>>

Idle == [pc |-> "idle", item |-> NoItem, attempt |-> 0, last |-> Genesis]
FirstAttempt(i) == [pc |-> "select", item |-> i, attempt |-> 1, last |-> Genesis]

Arrived == UNION {Range(accepted[w]) : w \in Workers}
InFlight(w) == IF task[w].item = NoItem THEN {} ELSE {task[w].item}
Chained == {ledger[k].entry : k \in DOMAIN ledger}

Init ==
    /\ life = [w \in Workers |-> "down"]
    /\ queue = [w \in Workers |-> << >>]
    /\ unfinished = [w \in Workers |-> 0]
    /\ task = [w \in Workers |-> Idle]
    /\ failedCount = [w \in Workers |-> 0]
    /\ ledger = << >>
    /\ dumped = {}
    /\ accepted = [w \in Workers |-> << >>]
    /\ tardy = {}
    /\ lost = {}

------------------------------------------------------------------------------
(* The life of a process: start(), enqueue_log() and a kill.               *)

Start(w) ==
    /\ life[w] = "down"
    /\ life' = [life EXCEPT ![w] = "up"]
    /\ UNCHANGED <<queue, unfinished, task, failedCount, ledger, dumped, accepted, tardy, lost>>

\* The server has answered every request before it shuts the application
\* down, so only a callback of a stream left behind can enqueue later.
CanEnqueue(w) ==
    \/ life[w] = "up"
    \/ "late" \in Faults /\ life[w] # "down"

EnqueueLog(w, i) ==
    /\ CanEnqueue(w)
    /\ i \notin Arrived
    /\ queue' = [queue EXCEPT ![w] = Append(@, i)]
    /\ unfinished' = [unfinished EXCEPT ![w] = @ + 1]
    /\ accepted' = [accepted EXCEPT ![w] = Append(@, i)]
    /\ tardy' = IF life[w] = "up" THEN tardy ELSE tardy \cup {i}
    /\ UNCHANGED <<life, task, failedCount, ledger, dumped, lost>>

\* The memory of the process goes, with the entries only it held.
LoseMemory(w) ==
    /\ life' = [life EXCEPT ![w] = "down"]
    /\ lost' = lost \cup Range(queue[w]) \cup InFlight(w)
    /\ queue' = [queue EXCEPT ![w] = << >>]
    /\ unfinished' = [unfinished EXCEPT ![w] = 0]
    /\ task' = [task EXCEPT ![w] = Idle]
    /\ failedCount' = [failedCount EXCEPT ![w] = 0]
    /\ UNCHANGED <<ledger, dumped, accepted, tardy>>

Crash(w) == "crash" \in Faults /\ life[w] # "down" /\ LoseMemory(w)

------------------------------------------------------------------------------
(* The consumer: _process_queue, _persist_with_retry, _persist.            *)

\* stop() has not cancelled the consumer yet.
Running(w) == life[w] \in {"up", "joining", "joined"}

\* _dump_failed for each entry of a sequence.  It counts the entry first and
\* swallows any error of the disk.
DumpFailed(w, entries) ==
    \E written \in IF "disk" \in Faults THEN SUBSET Range(entries) ELSE {Range(entries)} :
        /\ dumped' = dumped \cup written
        /\ lost' = lost \cup (Range(entries) \ written)
        /\ failedCount' = [failedCount EXCEPT ![w] = @ + Len(entries)]

\* The end of the loop body: task_done(), and back to queue.get().
TaskDone(w) ==
    /\ task' = [task EXCEPT ![w] = Idle]
    /\ unfinished' = [unfinished EXCEPT ![w] = @ - 1]

GetItem_Lifo(w) ==
    /\ Running(w)
    /\ task[w].pc = "idle"
    /\ queue[w] # << >>
    /\ task' = [task EXCEPT ![w] = FirstAttempt(queue[w][Len(queue[w])])]
    /\ queue' = [queue EXCEPT ![w] = SubSeq(@, 1, Len(@) - 1)]
    /\ UNCHANGED <<life, unfinished, failedCount, ledger, dumped, accepted, tardy, lost>>

GetItem(w) ==
    /\ Running(w)
    /\ task[w].pc = "idle"
    /\ queue[w] # << >>
    /\ task' = [task EXCEPT ![w] = FirstAttempt(Head(queue[w]))]
    /\ queue' = [queue EXCEPT ![w] = Tail(@)]
    /\ UNCHANGED <<life, unfinished, failedCount, ledger, dumped, accepted, tardy, lost>>

SelectLastHash(w) ==
    /\ Running(w)
    /\ task[w].pc = "select"
    /\ task' = [task EXCEPT ![w].pc = "commit", ![w].last = TailHash(ledger)]
    /\ UNCHANGED <<life, queue, unfinished, failedCount, ledger, dumped, accepted, tardy, lost>>

Admits_ForkAllowed(row) ==
    \A k \in DOMAIN ledger : ledger[k].entry # row.entry /\ ledger[k].hash # row.hash

Admits_RepeatAllowed(row) == \A k \in DOMAIN ledger : ledger[k].prev # row.prev

\* The three unique constraints of audit_ledger.
Admits(row) ==
    \A k \in DOMAIN ledger :
        /\ ledger[k].entry # row.entry
        /\ ledger[k].prev # row.prev
        /\ ledger[k].hash # row.hash

NextRow(w) == NewRow(task[w].last, task[w].item)

InsertRow(w) ==
    /\ task[w].pc = "commit"
    /\ Admits(NextRow(w))
    /\ ledger' = Append(ledger, NextRow(w))

Persist(w) ==
    /\ Running(w)
    /\ InsertRow(w)
    /\ TaskDone(w)
    /\ UNCHANGED <<life, queue, failedCount, dumped, accepted, tardy, lost>>

AttemptFails_OneMore(w) ==
    \/ /\ task[w].attempt <= MaxAttempts
       /\ task' = [task EXCEPT ![w].pc = "select", ![w].attempt = @ + 1]
       /\ UNCHANGED <<unfinished, failedCount, dumped, lost>>
    \/ /\ task[w].attempt > MaxAttempts
       /\ DumpFailed(w, <<task[w].item>>)
       /\ TaskDone(w)

AttemptFails_NeverGivesUp(w) ==
    /\ task' = [task EXCEPT ![w].pc = "select"]
    /\ UNCHANGED <<unfinished, failedCount, dumped, lost>>

\* An attempt raised: sleep and start over, or give the entry up.  The sleep
\* changes no state, so it is the wait for the next SELECT.
AttemptFails(w) ==
    \/ /\ task[w].attempt < MaxAttempts
       /\ task' = [task EXCEPT ![w].pc = "select", ![w].attempt = @ + 1]
       /\ UNCHANGED <<unfinished, failedCount, dumped, lost>>
    \/ /\ task[w].attempt = MaxAttempts
       /\ DumpFailed(w, <<task[w].item>>)
       /\ TaskDone(w)

Collision(w) ==
    /\ Running(w)
    /\ task[w].pc = "commit"
    /\ ~Admits(NextRow(w))
    /\ AttemptFails(w)
    /\ UNCHANGED <<life, queue, ledger, accepted, tardy>>

DatabaseError(w) ==
    /\ "db" \in Faults
    /\ Running(w)
    /\ task[w].pc # "idle"
    /\ AttemptFails(w)
    /\ UNCHANGED <<life, queue, ledger, accepted, tardy>>

AckLost(w) ==
    /\ "ack" \in Faults
    /\ Running(w)
    /\ InsertRow(w)
    /\ AttemptFails(w)
    /\ UNCHANGED <<life, queue, accepted, tardy>>

------------------------------------------------------------------------------
(* stop(): join with a timeout, drain, cancel, and the end of the process. *)

BeginStop(w) ==
    /\ life[w] = "up"
    /\ life' = [life EXCEPT ![w] = "joining"]
    /\ UNCHANGED <<queue, unfinished, task, failedCount, ledger, dumped, accepted, tardy, lost>>

\* join() is woken; stop() itself resumes in a later turn of the loop.
JoinReturns(w) ==
    /\ life[w] = "joining"
    /\ unfinished[w] = 0
    /\ life' = [life EXCEPT ![w] = "joined"]
    /\ UNCHANGED <<queue, unfinished, task, failedCount, ledger, dumped, accepted, tardy, lost>>

JoinTimesOut_NoTaskDone(w) ==
    /\ life[w] = "joining"
    /\ DumpFailed(w, queue[w])
    /\ queue' = [queue EXCEPT ![w] = << >>]
    /\ life' = [life EXCEPT ![w] = "cancelling"]
    /\ UNCHANGED <<task, unfinished, ledger, accepted, tardy>>

JoinTimesOut_NoDrain(w) ==
    /\ life[w] = "joining"
    /\ life' = [life EXCEPT ![w] = "cancelling"]
    /\ UNCHANGED <<queue, unfinished, failedCount, task, ledger, dumped, accepted, tardy, lost>>

\* _drain_to_disk() and cancel() run in the same turn of the loop.
JoinTimesOut(w) ==
    /\ life[w] = "joining"
    /\ DumpFailed(w, queue[w])
    /\ queue' = [queue EXCEPT ![w] = << >>]
    /\ unfinished' = [unfinished EXCEPT ![w] = @ - Len(queue[w])]
    /\ life' = [life EXCEPT ![w] = "cancelling"]
    /\ UNCHANGED <<task, ledger, accepted, tardy>>

CancelConsumer_NoDump(w) ==
    /\ life[w] \in {"joined", "cancelling"}
    /\ life' = [life EXCEPT ![w] = "stopped"]
    /\ IF task[w].pc = "idle" THEN UNCHANGED <<task, unfinished>> ELSE TaskDone(w)
    /\ UNCHANGED <<queue, failedCount, ledger, dumped, accepted, tardy, lost>>

CancelConsumer_Shielded(w) ==
    /\ life[w] \in {"joined", "cancelling"}
    /\ task[w].pc = "idle"
    /\ life' = [life EXCEPT ![w] = "stopped"]
    /\ UNCHANGED <<task, unfinished, failedCount, ledger, dumped, lost, queue, accepted, tardy>>

\* CancelledError reaches the consumer.  A commit already sent may be done.
CancelConsumer(w) ==
    /\ life[w] \in {"joined", "cancelling"}
    /\ life' = [life EXCEPT ![w] = "stopped"]
    /\ \/ /\ task[w].pc = "idle"
          /\ UNCHANGED <<task, unfinished, failedCount, ledger, dumped, lost>>
       \/ /\ task[w].pc # "idle"
          /\ InsertRow(w) \/ UNCHANGED ledger
          /\ DumpFailed(w, <<task[w].item>>)
          /\ TaskDone(w)
    /\ UNCHANGED <<queue, accepted, tardy>>

Exit(w) == life[w] = "stopped" /\ LoseMemory(w)

------------------------------------------------------------------------------

ConsumerStep(w) ==
    \/ GetItem(w)
    \/ SelectLastHash(w)
    \/ Persist(w)
    \/ Collision(w)
    \/ DatabaseError(w)
    \/ AckLost(w)

StopStep(w) ==
    \/ JoinReturns(w)
    \/ JoinTimesOut(w)
    \/ CancelConsumer(w)
    \/ Exit(w)

Next ==
    \E w \in Workers :
        \/ Start(w)
        \/ \E i \in Items : EnqueueLog(w, i)
        \/ Crash(w)
        \/ ConsumerStep(w)
        \/ BeginStop(w)
        \/ StopStep(w)

Spec == Init /\ [][Next]_vars

------------------------------------------------------------------------------
(* Correctness.                                                            *)

TypeOK ==
    /\ life \in [Workers -> {"down", "up", "joining", "joined", "cancelling", "stopped"}]
    /\ queue \in [Workers -> Seq(Items)]
    /\ unfinished \in [Workers -> Nat]
    /\ task \in [Workers ->
            {Idle} \cup [pc : {"select", "commit"}, item : Items,
                         attempt : 1 .. MaxAttempts, last : Seq(Items)]]
    /\ failedCount \in [Workers -> Nat]
    /\ ledger \in Seq([entry : Items, prev : Seq(Items), hash : Seq(Items)])
    /\ dumped \subseteq Items
    /\ accepted \in [Workers -> Seq(Items)]
    /\ tardy \subseteq Items
    /\ lost \subseteq Items

\* Two processes that read the same tail, retries and cancelled commits never
\* fork the chain nor leave a row whose hash does not follow from its
\* predecessor (models.py: "el segundo choca contra esta restriccion").
ChainIntact == Intact(ledger)

Held(w) == Range(queue[w]) \cup InFlight(w)
Settled == Chained \cup dumped \cup lost

\* Every entry handed to enqueue_log is in the ledger, in data/failed_audit, or
\* still held by the process that took it, unless that process was killed or
\* the disk refused the file: no retry, timeout or cancellation drops one.
NoSilentLoss ==
    \A w \in Workers : Range(accepted[w]) \subseteq Settled \cup Held(w)

BusyCount(w) == IF task[w].pc = "idle" THEN 0 ELSE 1

\* join() counts exactly what is queued or in the consumer's hands, so it can
\* neither return early nor wait for an entry that is gone.
DrainAccounting == \A w \in Workers : unfinished[w] = Len(queue[w]) + BusyCount(w)

\* Once stop() returned, nothing the process had accepted before is left in its
\* memory: stop() empties the queue before it cancels the consumer (its
\* docstring).  Callbacks that enqueue during or after stop() are outside this
\* promise, and cannot spoil it.
StopLeavesNothing ==
    \A w \in Workers :
        life[w] = "stopped" => /\ Held(w) \subseteq tardy
                               /\ Range(accepted[w]) \subseteq Settled \cup tardy

\* Entries of one process reach the ledger in the order it accepted them:
\* a retry never lets a younger entry overtake.
FifoPerProcess ==
    \A w \in Workers : \A a, b \in DOMAIN accepted[w] :
        \A j, k \in DOMAIN ledger :
            (a < b /\ ledger[j].entry = accepted[w][a] /\ ledger[k].entry = accepted[w][b])
                => j < k

\* The rows of the table, the files and the queues together keep the promise
\* of AuditTrail; the recorded sequence is what the tail hash commits to.
Trail == INSTANCE AuditTrail WITH
            arrived <- Arrived, chain <- TailHash(ledger), mailbox <- dumped, lost <- lost

ImplementsTrail == Trail!Spec

\* Every accepted entry is in the end chained, left on disk, or dropped by a
\* fault: neither collisions nor database errors hold the queue up for ever.
EventuallySettled == \A i \in Items : (i \in Arrived) ~> (i \in Settled)
==============================================================================
