-------------------------- MODULE AuditWorkerProofs --------------------------
(***************************************************************************)
(* Proofs about AuditWorker, for any processes, entries, number of         *)
(* attempts and set of faults.                                             *)
(***************************************************************************)
EXTENDS AuditWorker, TLAPS

------------------------------------------------------------------------------
(* Sequences.                                                              *)

Rows == [entry : Items, prev : Seq(Items), hash : Seq(Items)]

\* What Append gives, position by position and as a set of elements.
LEMMA AppendFacts ==
    ASSUME NEW S, NEW s \in Seq(S), NEW e \in S
    PROVE  /\ Append(s, e) \in Seq(S)
           /\ DOMAIN s = 1 .. Len(s)
           /\ DOMAIN Append(s, e) = 1 .. Len(s) + 1
           /\ Len(Append(s, e)) = Len(s) + 1
           /\ \A k \in DOMAIN s : Append(s, e)[k] = s[k]
           /\ Append(s, e)[Len(s) + 1] = e
           /\ Range(Append(s, e)) = Range(s) \cup {e}
<1>1. /\ Append(s, e) \in Seq(S)
      /\ DOMAIN s = 1 .. Len(s)
      /\ DOMAIN Append(s, e) = 1 .. Len(s) + 1
      /\ Len(Append(s, e)) = Len(s) + 1
      /\ \A k \in DOMAIN s : Append(s, e)[k] = s[k]
      /\ Append(s, e)[Len(s) + 1] = e
  OBVIOUS
<1>2. Range(Append(s, e)) = Range(s) \cup {e}
  BY <1>1 DEF Range
<1> QED  BY <1>1, <1>2

\* Taking the head splits a sequence into that entry and the rest.
LEMMA HeadTailFacts ==
    ASSUME NEW S, NEW s \in Seq(S), s # << >>
    PROVE  /\ Head(s) \in S
           /\ Tail(s) \in Seq(S)
           /\ Len(Tail(s)) = Len(s) - 1
           /\ Len(s) \in Nat \ {0}
           /\ Range(s) = {Head(s)} \cup Range(Tail(s))
<1>1. /\ Head(s) \in S
      /\ Tail(s) \in Seq(S)
      /\ Len(Tail(s)) = Len(s) - 1
      /\ Len(s) \in Nat \ {0}
      /\ DOMAIN s = 1 .. Len(s)
      /\ DOMAIN Tail(s) = 1 .. Len(s) - 1
      /\ Head(s) = s[1]
      /\ \A k \in 1 .. Len(s) - 1 : Tail(s)[k] = s[k + 1]
  OBVIOUS
<1>2. \A k \in DOMAIN s : k = 1 \/ (k - 1 \in DOMAIN Tail(s) /\ s[k] = Tail(s)[k - 1])
  BY <1>1
<1>3. \A k \in DOMAIN Tail(s) : k + 1 \in DOMAIN s /\ Tail(s)[k] = s[k + 1]
  BY <1>1
<1>4. Range(s) \subseteq {Head(s)} \cup Range(Tail(s))
  BY <1>1, <1>2 DEF Range
<1>5. Head(s) \in Range(s) /\ Range(Tail(s)) \subseteq Range(s)
  BY <1>1, <1>3 DEF Range
<1> QED  BY <1>1, <1>4, <1>5

------------------------------------------------------------------------------
(* Types.                                                                  *)

TaskStates ==
    {Idle} \cup [pc : {"select", "commit"}, item : Items,
                 attempt : 1 .. MaxAttempts, last : Seq(Items)]

\* The consumer of one process, typed on its own.
LEMMA TaskType ==
    ASSUME TypeOK, NEW w \in Workers
    PROVE  task[w] \in TaskStates
  BY DEF TypeOK, TaskStates

\* A consumer that is not idle holds an entry.
LEMMA BusyTask ==
    ASSUME TypeOK, NEW w \in Workers, task[w].pc # "idle"
    PROVE  /\ task[w] \in [pc : {"select", "commit"}, item : Items,
                           attempt : 1 .. MaxAttempts, last : Seq(Items)]
           /\ task[w].item # NoItem
  BY TaskType, WorkerAssumption DEF TaskStates, Idle

\* An idle consumer holds nothing.
LEMMA IdleTask ==
    ASSUME TypeOK, NEW w \in Workers, task[w].pc = "idle"
    PROVE  task[w] = Idle /\ InFlight(w) = {}
<1>1. task[w] = Idle
  BY TaskType DEF TaskStates
<1>2. task[w].item = NoItem
  BY <1>1 DEF Idle
<1> QED  BY <1>1, <1>2 DEF InFlight

\* The tail hash is a sequence of entries, and a new row is a row.
LEMMA RowTypes ==
    ASSUME TypeOK
    PROVE  /\ TailHash(ledger) \in Seq(Items)
           /\ \A w \in Workers : task[w].pc # "idle" => NextRow(w) \in Rows
<1>1. TailHash(ledger) \in Seq(Items)
  <2>1. CASE ledger = << >>
    BY <2>1 DEF TailHash, Genesis
  <2>2. CASE ledger # << >>
    <3>1. Len(ledger) \in DOMAIN ledger
      BY <2>2 DEF TypeOK
    <3>2. ledger[Len(ledger)] \in Rows
      <4>1. ledger \in Seq(Rows)
        BY DEF TypeOK, Rows
      <4> QED  BY <3>1, <4>1
    <3> QED  BY <2>2, <3>2 DEF TailHash, Rows
  <2> QED  BY <2>1, <2>2
<1>2. ASSUME NEW w \in Workers, task[w].pc # "idle"
      PROVE  NextRow(w) \in Rows
  <2>1. task[w].item \in Items /\ task[w].last \in Seq(Items)
    BY <1>2, BusyTask
  <2>2. Append(task[w].last, task[w].item) \in Seq(Items)
    BY <2>1
  <2> QED  BY <2>1, <2>2 DEF NextRow, NewRow, RecordHash, Rows
<1> QED  BY <1>1, <1>2

\* What _dump_failed leaves of the variables it writes, in types.
LEMMA DumpTypes ==
    ASSUME TypeOK, NEW w \in Workers, NEW entries \in Seq(Items), DumpFailed(w, entries)
    PROVE  /\ dumped' \subseteq Items
           /\ lost' \subseteq Items
           /\ failedCount' \in [Workers -> Nat]
<1>1. Range(entries) \subseteq Items
  BY DEF Range
<1>2. Len(entries) \in Nat
  OBVIOUS
<1>3. PICK written \in IF "disk" \in Faults THEN SUBSET Range(entries) ELSE {Range(entries)} :
        /\ dumped' = dumped \cup written
        /\ lost' = lost \cup (Range(entries) \ written)
        /\ failedCount' = [failedCount EXCEPT ![w] = @ + Len(entries)]
  BY DEF DumpFailed
<1>4. written \subseteq Range(entries)
  BY <1>3
<1> QED  BY <1>1, <1>2, <1>3, <1>4 DEF TypeOK

\* The consumer gives an entry back to the count it was taken from.
LEMMA TaskDoneTypes ==
    ASSUME TypeOK, DrainAccounting, NEW w \in Workers, task[w].pc # "idle", TaskDone(w)
    PROVE  /\ task' \in [Workers -> TaskStates]
           /\ unfinished' \in [Workers -> Nat]
           /\ task'[w] = Idle
           /\ unfinished'[w] = Len(queue[w])
           /\ \A v \in Workers \ {w} : task'[v] = task[v] /\ unfinished'[v] = unfinished[v]
<1>1. unfinished[w] = Len(queue[w]) + 1 /\ Len(queue[w]) \in Nat
  BY DEF DrainAccounting, BusyCount, TypeOK
<1>2. task \in [Workers -> TaskStates] /\ unfinished \in [Workers -> Nat]
  BY DEF TypeOK, TaskStates
<1>3. /\ task' = [task EXCEPT ![w] = Idle]
      /\ unfinished' = [unfinished EXCEPT ![w] = @ - 1]
  BY DEF TaskDone
<1>4. Idle \in TaskStates
  BY DEF TaskStates
<1> QED  BY <1>1, <1>2, <1>3, <1>4

\* An inserted row is a row of the table.
LEMMA InsertTypes ==
    ASSUME TypeOK, NEW w \in Workers, InsertRow(w)
    PROVE  ledger' \in Seq(Rows)
<1>1. NextRow(w) \in Rows
  BY RowTypes DEF InsertRow
<1>2. ledger \in Seq(Rows)
  BY DEF TypeOK, Rows
<1> QED  BY <1>1, <1>2, AppendFacts DEF InsertRow

\* A failed attempt leaves every variable it writes in its type, and the count
\* of join() right.
LEMMA AttemptFailsTypes ==
    ASSUME TypeOK, DrainAccounting, NEW w \in Workers, task[w].pc # "idle",
           AttemptFails(w), UNCHANGED queue
    PROVE  /\ task' \in [Workers -> TaskStates]
           /\ unfinished' \in [Workers -> Nat]
           /\ failedCount' \in [Workers -> Nat]
           /\ dumped' \subseteq Items
           /\ lost' \subseteq Items
           /\ DrainAccounting'
<1>0. task \in [Workers -> TaskStates] /\ queue \in [Workers -> Seq(Items)]
  BY DEF TypeOK, TaskStates
<1>1. CASE /\ task[w].attempt < MaxAttempts
           /\ task' = [task EXCEPT ![w].pc = "select", ![w].attempt = @ + 1]
           /\ UNCHANGED <<unfinished, failedCount, dumped, lost>>
  <2>1. [task[w] EXCEPT !.pc = "select", !.attempt = @ + 1] \in TaskStates
    <3>1. task[w] \in [pc : {"select", "commit"}, item : Items,
                        attempt : 1 .. MaxAttempts, last : Seq(Items)]
      BY BusyTask
    <3>2. task[w].attempt + 1 \in 1 .. MaxAttempts
      BY <1>1, <3>1, WorkerAssumption
    <3> QED  BY <3>1, <3>2 DEF TaskStates
  <2>2. task' = [task EXCEPT ![w] = [task[w] EXCEPT !.pc = "select", !.attempt = @ + 1]]
    BY <1>1, <1>0
  <2>3. task'[w].pc = "select" /\ \A v \in Workers \ {w} : task'[v] = task[v]
    BY <2>2, <1>0, BusyTask
  <2>4. DrainAccounting'
    BY <1>1, <2>3 DEF DrainAccounting, BusyCount
  <2> QED  BY <1>0, <1>1, <2>1, <2>2, <2>4 DEF TypeOK
<1>2. CASE /\ DumpFailed(w, <<task[w].item>>)
           /\ TaskDone(w)
  <2>1. <<task[w].item>> \in Seq(Items)
    BY BusyTask
  <2>2. /\ dumped' \subseteq Items /\ lost' \subseteq Items
        /\ failedCount' \in [Workers -> Nat]
    BY <1>2, <2>1, DumpTypes
  <2>3. DrainAccounting'
    <3> SUFFICES ASSUME NEW v \in Workers
                 PROVE  unfinished'[v] = Len(queue'[v]) + BusyCount(v)'
      BY DEF DrainAccounting
    <3>1. CASE v = w
      <4>1. task'[v].pc = "idle"
        BY <1>2, <3>1, TaskDoneTypes DEF Idle
      <4>2. unfinished'[v] = Len(queue[v]) /\ Len(queue[v]) \in Nat
        BY <1>2, <3>1, <1>0, TaskDoneTypes
      <4> QED  BY <4>1, <4>2 DEF BusyCount
    <3>2. CASE v # w
      BY <1>2, <3>2, TaskDoneTypes DEF DrainAccounting, BusyCount
    <3> QED  BY <3>1, <3>2
  <2> QED  BY <1>2, <2>2, <2>3, TaskDoneTypes
<1> QED  BY <1>1, <1>2 DEF AttemptFails

Types == TypeOK /\ DrainAccounting

\* The first state is well typed and join() counts nothing.
LEMMA TypesInit == Init => Types
<1> SUFFICES ASSUME Init PROVE Types
  OBVIOUS
<1>1. << >> \in Seq(Items) /\ << >> \in Seq(Rows) /\ Len(<< >>) = 0
  OBVIOUS
<1>2. \A w \in Workers : task[w].pc = "idle"
  BY DEF Init, Idle
<1>3. TypeOK
  BY <1>1 DEF Init, TypeOK, Rows
<1>4. DrainAccounting
  BY <1>1, <1>2 DEF Init, DrainAccounting, BusyCount
<1> QED  BY <1>3, <1>4 DEF Types

\* Every step keeps the types and the count of join().
LEMMA TypesStep == Types /\ [Next]_vars => Types'
<1> SUFFICES ASSUME Types, [Next]_vars PROVE Types'
  OBVIOUS
<1> USE DEF Types
<1>0. /\ TypeOK /\ DrainAccounting
      /\ task \in [Workers -> TaskStates] /\ ledger \in Seq(Rows)
      /\ queue \in [Workers -> Seq(Items)] /\ unfinished \in [Workers -> Nat]
  BY DEF TypeOK, TaskStates, Rows
<1>1. CASE UNCHANGED vars
  BY <1>0, <1>1 DEF vars, TypeOK, DrainAccounting, BusyCount
<1>2. ASSUME NEW w \in Workers, Start(w) \/ BeginStop(w) \/ JoinReturns(w)
      PROVE  Types'
  BY <1>0, <1>2 DEF Start, BeginStop, JoinReturns, TypeOK, DrainAccounting, BusyCount
<1>3. ASSUME NEW w \in Workers, NEW i \in Items, EnqueueLog(w, i)
      PROVE  Types'
  <2>1. /\ Append(queue[w], i) \in Seq(Items) /\ Len(Append(queue[w], i)) = Len(queue[w]) + 1
        /\ Append(accepted[w], i) \in Seq(Items)
    BY <1>0 DEF TypeOK
  <2>2. TypeOK'
    BY <1>3, <2>1 DEF EnqueueLog, TypeOK
  <2>3. DrainAccounting'
    <3> SUFFICES ASSUME NEW v \in Workers
                 PROVE  unfinished'[v] = Len(queue'[v]) + BusyCount(v)'
      BY DEF DrainAccounting
    <3>1. BusyCount(v)' = BusyCount(v) /\ BusyCount(v) \in Nat
      BY <1>3 DEF EnqueueLog, BusyCount
    <3>2. unfinished[v] = Len(queue[v]) + BusyCount(v) /\ Len(queue[v]) \in Nat
      BY <1>0 DEF DrainAccounting
    <3> QED  BY <1>0, <1>3, <2>1, <3>1, <3>2 DEF EnqueueLog
  <2> QED  BY <2>2, <2>3
<1>4. ASSUME NEW w \in Workers, LoseMemory(w)
      PROVE  Types'
  <2>1. << >> \in Seq(Items) /\ Len(<< >>) = 0 /\ Idle.pc = "idle"
    BY DEF Idle
  <2>2. Range(queue[w]) \subseteq Items /\ InFlight(w) \subseteq Items
    <3>1. task[w].item = NoItem \/ task[w].item \in Items
      BY TaskType DEF TaskStates, Idle
    <3> QED  BY <1>0, <3>1 DEF Range, InFlight
  <2>3. TypeOK'
    BY <1>0, <1>4, <2>1, <2>2 DEF LoseMemory, TypeOK
  <2>4. DrainAccounting'
    <3> SUFFICES ASSUME NEW v \in Workers
                 PROVE  unfinished'[v] = Len(queue'[v]) + BusyCount(v)'
      BY DEF DrainAccounting
    <3>1. CASE v = w
      <4>1. task'[v] = Idle /\ queue'[v] = << >> /\ unfinished'[v] = 0
        BY <1>0, <1>4, <3>1 DEF LoseMemory
      <4> QED  BY <2>1, <4>1 DEF BusyCount
    <3>2. CASE v # w
      <4>1. task'[v] = task[v] /\ queue'[v] = queue[v] /\ unfinished'[v] = unfinished[v]
        BY <1>0, <1>4, <3>2 DEF LoseMemory
      <4> QED  BY <1>0, <4>1 DEF DrainAccounting, BusyCount
    <3> QED  BY <3>1, <3>2
  <2> QED  BY <2>3, <2>4
<1>5. ASSUME NEW w \in Workers, GetItem(w)
      PROVE  Types'
  <2> DEFINE new == FirstAttempt(Head(queue[w]))
  <2>1. queue[w] \in Seq(Items) /\ queue[w] # << >>
    BY <1>0, <1>5 DEF GetItem
  <2>2. /\ Head(queue[w]) \in Items /\ Tail(queue[w]) \in Seq(Items)
        /\ Len(Tail(queue[w])) = Len(queue[w]) - 1 /\ Len(queue[w]) \in Nat
    BY <2>1, HeadTailFacts
  <2>3. new \in [pc : {"select", "commit"}, item : Items,
                 attempt : 1 .. MaxAttempts, last : Seq(Items)]
    <3>1. << >> \in Seq(Items) /\ 1 \in 1 .. MaxAttempts
      BY WorkerAssumption
    <3> QED  BY <2>2, <3>1 DEF FirstAttempt, Genesis
  <2>4. /\ task' = [task EXCEPT ![w] = new] /\ queue' = [queue EXCEPT ![w] = Tail(@)]
        /\ task[w].pc = "idle" /\ new.pc = "select"
    BY <1>5 DEF GetItem, FirstAttempt
  <2>5. TypeOK'
    BY <1>0, <1>5, <2>2, <2>3, <2>4 DEF GetItem, TypeOK
  <2>6. DrainAccounting'
    <3> SUFFICES ASSUME NEW v \in Workers
                 PROVE  unfinished'[v] = Len(queue'[v]) + BusyCount(v)'
      BY DEF DrainAccounting
    <3>1. unfinished'[v] = unfinished[v] /\ unfinished[v] = Len(queue[v]) + BusyCount(v)
      BY <1>5, <1>0 DEF GetItem, DrainAccounting
    <3>2. CASE v = w
      <4>1. task'[v] = new /\ queue'[v] = Tail(queue[w])
        BY <2>4, <3>2, <1>0
      <4>2. BusyCount(v) = 0
        BY <2>4, <3>2 DEF BusyCount
      <4>3. BusyCount(v)' = 1
        BY <2>4, <4>1 DEF BusyCount
      <4> QED  BY <2>2, <3>1, <3>2, <4>1, <4>2, <4>3
    <3>3. CASE v # w
      <4>1. task'[v] = task[v] /\ queue'[v] = queue[v]
        BY <2>4, <3>3, <1>0
      <4> QED  BY <3>1, <4>1 DEF BusyCount
    <3> QED  BY <3>2, <3>3
  <2> QED  BY <2>5, <2>6
<1>6. ASSUME NEW w \in Workers, SelectLastHash(w)
      PROVE  Types'
  <2> DEFINE new == [task[w] EXCEPT !.pc = "commit", !.last = TailHash(ledger)]
  <2>1. task[w].pc = "select"
    BY <1>6 DEF SelectLastHash
  <2>2. new \in TaskStates /\ new.pc = "commit"
    BY <1>0, <2>1, BusyTask, RowTypes DEF TaskStates
  <2>3. task' = [task EXCEPT ![w] = new]
    BY <1>0, <1>6 DEF SelectLastHash
  <2>4. TypeOK'
    <3>1. task' \in [Workers -> TaskStates]
      BY <1>0, <2>2, <2>3
    <3> HIDE DEF new
    <3> QED  BY <1>6, <3>1 DEF SelectLastHash, TypeOK, TaskStates
  <2>5. DrainAccounting'
    BY <1>0, <1>6, <2>1, <2>2, <2>3 DEF SelectLastHash, DrainAccounting, BusyCount
  <2> QED  BY <2>4, <2>5
<1>7. ASSUME NEW w \in Workers, Persist(w)
      PROVE  Types'
  <2>1. task[w].pc # "idle" /\ TaskDone(w) /\ InsertRow(w)
    BY <1>7 DEF Persist, InsertRow
  <2>2. TypeOK'
    BY <1>0, <1>7, <2>1, TaskDoneTypes, InsertTypes DEF Persist, TypeOK, TaskStates, Rows
  <2>3. DrainAccounting'
    <3> SUFFICES ASSUME NEW v \in Workers
                 PROVE  unfinished'[v] = Len(queue[v]) + BusyCount(v)'
      BY <1>7 DEF DrainAccounting, Persist
    <3>1. CASE v = w
      BY <1>0, <2>1, <3>1, TaskDoneTypes DEF BusyCount, Idle
    <3>2. CASE v # w
      BY <1>0, <2>1, <3>2, TaskDoneTypes DEF DrainAccounting, BusyCount
    <3> QED  BY <3>1, <3>2
  <2> QED  BY <2>2, <2>3
<1>8. ASSUME NEW w \in Workers, Collision(w) \/ DatabaseError(w) \/ AckLost(w)
      PROVE  Types'
  <2>1. /\ task[w].pc # "idle" /\ AttemptFails(w)
        /\ UNCHANGED <<life, queue, accepted, tardy>>
        /\ UNCHANGED ledger \/ InsertRow(w)
    BY <1>8 DEF Collision, DatabaseError, AckLost, InsertRow
  <2>2. ledger' \in Seq(Rows)
    BY <1>0, <2>1, InsertTypes
  <2>3. TypeOK'
    BY <1>0, <2>1, <2>2, AttemptFailsTypes DEF TypeOK, TaskStates, Rows
  <2> QED  BY <1>0, <2>1, <2>3, AttemptFailsTypes
<1>9. ASSUME NEW w \in Workers, JoinTimesOut(w)
      PROVE  Types'
  <2>1. /\ DumpFailed(w, queue[w]) /\ queue[w] \in Seq(Items) /\ Len(queue[w]) \in Nat
        /\ << >> \in Seq(Items) /\ Len(<< >>) = 0
    BY <1>0, <1>9 DEF JoinTimesOut
  <2>2. unfinished[w] - Len(queue[w]) = BusyCount(w) /\ BusyCount(w) \in Nat
    BY <1>0, <2>1 DEF DrainAccounting, BusyCount
  <2>3. TypeOK'
    BY <1>0, <1>9, <2>1, <2>2, DumpTypes DEF JoinTimesOut, TypeOK
  <2>4. DrainAccounting'
    <3> SUFFICES ASSUME NEW v \in Workers
                 PROVE  unfinished'[v] = Len(queue'[v]) + BusyCount(v)'
      BY DEF DrainAccounting
    <3>1. BusyCount(v)' = BusyCount(v)
      BY <1>9 DEF JoinTimesOut, BusyCount
    <3> QED  BY <1>0, <1>9, <2>1, <2>2, <3>1 DEF JoinTimesOut, DrainAccounting
  <2> QED  BY <2>3, <2>4
<1>10. ASSUME NEW w \in Workers, CancelConsumer(w)
       PROVE  Types'
  <2>1. CASE task[w].pc = "idle" /\ UNCHANGED <<task, unfinished, failedCount, ledger, dumped, lost>>
    BY <1>0, <1>10, <2>1 DEF CancelConsumer, TypeOK, DrainAccounting, BusyCount
  <2>2. CASE /\ task[w].pc # "idle" /\ (InsertRow(w) \/ UNCHANGED ledger)
             /\ DumpFailed(w, <<task[w].item>>) /\ TaskDone(w)
    <3>1. /\ UNCHANGED <<queue, accepted, tardy>> /\ life' = [life EXCEPT ![w] = "stopped"]
      BY <1>10 DEF CancelConsumer
    <3>2. <<task[w].item>> \in Seq(Items)
      BY <1>0, <2>2, BusyTask
    <3>3. ledger' \in Seq(Rows)
      BY <1>0, <2>2, InsertTypes
    <3>4. TypeOK'
      BY <1>0, <2>2, <3>1, <3>2, <3>3, DumpTypes, TaskDoneTypes DEF TypeOK, TaskStates, Rows
    <3>5. DrainAccounting'
      <4> SUFFICES ASSUME NEW v \in Workers
                   PROVE  unfinished'[v] = Len(queue[v]) + BusyCount(v)'
        BY <3>1 DEF DrainAccounting
      <4>1. CASE v = w
        BY <1>0, <2>2, <4>1, TaskDoneTypes DEF BusyCount, Idle
      <4>2. CASE v # w
        BY <1>0, <2>2, <4>2, TaskDoneTypes DEF DrainAccounting, BusyCount
      <4> QED  BY <4>1, <4>2
    <3> QED  BY <3>4, <3>5
  <2> QED  BY <1>10, <2>1, <2>2 DEF CancelConsumer
<1> QED
  BY <1>1, <1>2, <1>3, <1>4, <1>5, <1>6, <1>7, <1>8, <1>9, <1>10
     DEF Next, ConsumerStep, StopStep, Crash, Exit

\* Each variable keeps its type, and the count of join() stays exact: join()
\* returns when and only when nothing is queued or in the consumer's hands.
THEOREM TypesAlways == Spec => [](TypeOK /\ DrainAccounting)
<1>1. Init => Types
  BY TypesInit
<1>2. Types /\ [Next]_vars => Types'
  BY TypesStep
<1> QED  BY <1>1, <1>2, PTL DEF Spec, Types

\* Each variable keeps its type; in particular the entry in hand is always in
\* one of its max(1, AUDIT_WRITE_MAX_ATTEMPTS) attempts, and join()'s count
\* never goes below zero.
THEOREM WorkerTypes == Spec => []TypeOK
<1>1. TypeOK /\ DrainAccounting => TypeOK
  OBVIOUS
<1> QED  BY TypesAlways, <1>1, PTL

------------------------------------------------------------------------------
(* The chain.                                                              *)

\* What a consumer read as the tail was the genesis or the hash of some row.
LastWasTail ==
    \A w \in Workers : task[w].pc = "commit" =>
        task[w].last = Genesis \/ \E k \in DOMAIN ledger : task[w].last = ledger[k].hash

\* The tail hash commits to the entries of the table, no more and no less.
TailCommits == Range(TailHash(ledger)) = Chained

ChainInv == ChainIntact /\ LastWasTail /\ TailCommits

\* The key step: a row the unique constraints admit follows the current tail,
\* however long ago its writer read last_hash.
LEMMA AdmittedFollowsTail ==
    ASSUME TypeOK, ChainInv, NEW w \in Workers, InsertRow(w)
    PROVE  task[w].last = TailHash(ledger)
<1>1. ledger \in Seq(Rows) /\ DOMAIN ledger = 1 .. Len(ledger) /\ Len(ledger) \in Nat
  BY DEF TypeOK, Rows
<1>2. \A k \in DOMAIN ledger : ledger[k].prev # task[w].last
  BY DEF InsertRow, Admits, NextRow, NewRow
<1>3. \A k \in DOMAIN ledger : ledger[k].prev = IF k = 1 THEN Genesis ELSE ledger[k - 1].hash
  BY DEF ChainInv, ChainIntact, Intact, RowHolds, ExpectedPrev
<1>4. CASE ledger = << >>
  <2>1. \A k \in DOMAIN ledger : FALSE
    BY <1>4
  <2> QED  BY <2>1, <1>4 DEF ChainInv, LastWasTail, InsertRow, TailHash
<1>5. CASE ledger # << >>
  <2>1. Len(ledger) >= 1 /\ 1 \in DOMAIN ledger
    BY <1>1, <1>5
  <2>2. task[w].last # Genesis
    BY <1>2, <1>3, <2>1
  <2>3. PICK k \in DOMAIN ledger : task[w].last = ledger[k].hash
    BY <2>2 DEF ChainInv, LastWasTail, InsertRow
  <2>4. k = Len(ledger)
    <3>1. CASE k < Len(ledger)
      <4>1. k + 1 \in DOMAIN ledger /\ k + 1 # 1 /\ (k + 1) - 1 = k
        BY <1>1, <3>1
      <4> QED  BY <1>2, <1>3, <2>3, <4>1
    <3> QED  BY <1>1, <3>1
  <2> QED  BY <1>5, <2>3, <2>4 DEF TailHash
<1> QED  BY <1>4, <1>5

\* An insertion extends the chain by one row and its tail hash by one entry.
LEMMA InsertExtends ==
    ASSUME TypeOK, ChainInv, NEW w \in Workers, InsertRow(w)
    PROVE  /\ ChainIntact' /\ TailCommits'
           /\ TailHash(ledger)' = Append(TailHash(ledger), task[w].item)
           /\ \A k \in DOMAIN ledger : k \in DOMAIN ledger' /\ ledger'[k] = ledger[k]
           /\ Chained' = Chained \cup {task[w].item}
           /\ task[w].item \in Items \ Chained
<1> DEFINE row == NextRow(w)
<1>1. /\ ledger \in Seq(Rows) /\ DOMAIN ledger = 1 .. Len(ledger) /\ Len(ledger) \in Nat
      /\ row \in Rows /\ ledger' = Append(ledger, row)
      /\ task[w].item \in Items /\ TailHash(ledger) \in Seq(Items)
  BY RowTypes, BusyTask DEF TypeOK, Rows, InsertRow
<1>2. /\ row.prev = TailHash(ledger) /\ row.entry = task[w].item
      /\ row.hash = Append(TailHash(ledger), task[w].item)
  BY AdmittedFollowsTail DEF NextRow, NewRow, RecordHash
<1> HIDE DEF row
<1>3. /\ DOMAIN ledger' = 1 .. Len(ledger) + 1 /\ Len(ledger') = Len(ledger) + 1
      /\ \A k \in DOMAIN ledger : ledger'[k] = ledger[k]
      /\ ledger'[Len(ledger) + 1] = row
  BY <1>1, AppendFacts
<1>4. TailHash(ledger)' = row.hash
  <2>1. ledger' # << >>
    BY <1>1, <1>3
  <2> QED  BY <1>3, <2>1 DEF TailHash
<1>5. Chained' = Chained \cup {task[w].item}
  <2>1. \A k \in DOMAIN ledger' : k \in DOMAIN ledger \/ k = Len(ledger) + 1
    BY <1>1, <1>3
  <2>2. Len(ledger) + 1 \in DOMAIN ledger' /\ \A k \in DOMAIN ledger : k \in DOMAIN ledger'
    BY <1>1, <1>3
  <2>3. ASSUME NEW e \in Chained' PROVE e \in Chained \cup {task[w].item}
    BY <1>2, <1>3, <2>1 DEF Chained
  <2>4. ASSUME NEW e \in Chained PROVE e \in Chained'
    BY <1>3, <2>2 DEF Chained
  <2>5. task[w].item \in Chained'
    BY <1>2, <1>3, <2>2 DEF Chained
  <2> QED  BY <2>3, <2>4, <2>5
<1>6. ChainIntact'
  <2> SUFFICES ASSUME NEW k \in DOMAIN ledger' PROVE RowHolds(ledger', k)
    BY DEF ChainIntact, Intact
  <2>1. CASE k \in DOMAIN ledger
    <3>1. k = 1 \/ (k - 1 \in DOMAIN ledger /\ ledger'[k - 1] = ledger[k - 1])
      BY <1>1, <1>3, <2>1
    <3>2. RowHolds(ledger, k) /\ ledger'[k] = ledger[k]
      BY <1>3, <2>1 DEF ChainInv, ChainIntact, Intact
    <3> QED  BY <3>1, <3>2 DEF RowHolds, ExpectedPrev
  <2>2. CASE k = Len(ledger) + 1
    <3>1. ExpectedPrev(ledger', k) = TailHash(ledger)
      <4>1. CASE ledger = << >>
        BY <2>2, <4>1 DEF ExpectedPrev, TailHash
      <4>2. CASE ledger # << >>
        <5>0. Len(ledger) # 0
          BY <1>1, <4>2
        <5>1. k # 1 /\ k - 1 = Len(ledger) /\ ledger'[k - 1] = ledger[Len(ledger)]
          <6>1. k # 1 /\ k - 1 = Len(ledger) /\ Len(ledger) \in DOMAIN ledger
            BY <1>1, <2>2, <5>0
          <6> QED  BY <1>3, <6>1
        <5> QED  BY <4>2, <5>1 DEF ExpectedPrev, TailHash
      <4> QED  BY <4>1, <4>2
    <3>2. ledger'[k] = row
      BY <1>3, <2>2
    <3> QED  BY <1>2, <3>1, <3>2 DEF RowHolds, RecordHash
  <2> QED  BY <1>1, <1>3, <2>1, <2>2
<1>7. TailCommits'
  <2>1. Range(Append(TailHash(ledger), task[w].item)) = Range(TailHash(ledger)) \cup {task[w].item}
    BY <1>1, AppendFacts
  <2> QED  BY <1>2, <1>4, <1>5, <2>1 DEF TailCommits, ChainInv
<1>8. task[w].item \notin Chained
  BY DEF Chained, InsertRow, Admits, NextRow, NewRow
<1>9. \A k \in DOMAIN ledger : k \in DOMAIN ledger'
  BY <1>1, <1>3
<1> QED  BY <1>1, <1>2, <1>3, <1>4, <1>5, <1>6, <1>7, <1>8, <1>9

\* A tail someone read stays the hash of a row: rows are never removed.
LEMMA TailStays ==
    ASSUME TypeOK, ChainInv, NEW v \in Workers, task[v].pc = "commit",
           \A k \in DOMAIN ledger : k \in DOMAIN ledger' /\ ledger'[k] = ledger[k]
    PROVE  task[v].last = Genesis \/ \E k \in DOMAIN ledger' : task[v].last = ledger'[k].hash
  BY DEF ChainInv, LastWasTail

\* The hash SelectLastHash returns is the genesis or the hash of a row.
LEMMA TailIsRow ==
    ASSUME TypeOK
    PROVE  TailHash(ledger) = Genesis \/ \E k \in DOMAIN ledger : TailHash(ledger) = ledger[k].hash
<1>1. CASE ledger = << >>
  BY <1>1 DEF TailHash
<1>2. CASE ledger # << >>
  <2>1. Len(ledger) \in DOMAIN ledger
    BY <1>2 DEF TypeOK
  <2> QED  BY <1>2, <2>1 DEF TailHash
<1> QED  BY <1>1, <1>2

\* Which steps write the ledger or a task, and how: an insertion by one
\* consumer, or no new row; and a consumer enters "commit" only by a SELECT.
LEMMA ChainFrame ==
    ASSUME TypeOK, ChainInv, Next
    PROVE  /\ UNCHANGED ledger \/ \E w \in Workers : InsertRow(w)
           /\ \A v \in Workers : task'[v].pc = "commit" =>
                 \/ task'[v] = task[v]
                 \/ task'[v].last = TailHash(ledger) /\ UNCHANGED ledger
<1>0. task \in [Workers -> TaskStates]
  BY DEF TypeOK, TaskStates
<1>1. ASSUME NEW w \in Workers, TaskDone(w), NEW v \in Workers, task'[v].pc = "commit"
      PROVE  task'[v] = task[v]
  BY <1>0, <1>1 DEF TaskDone, Idle
<1>2. ASSUME NEW w \in Workers, task[w].pc # "idle", AttemptFails(w),
             NEW v \in Workers, task'[v].pc = "commit"
      PROVE  task'[v] = task[v]
  <2>1. CASE task' = [task EXCEPT ![w].pc = "select", ![w].attempt = @ + 1]
    <3>1. CASE v = w
      <4>1. task[w] \in [pc : {"select", "commit"}, item : Items,
                         attempt : 1 .. MaxAttempts, last : Seq(Items)]
        BY <1>2, BusyTask
      <4>2. task'[w].pc = "select"
        BY <1>0, <2>1, <4>1
      <4> QED  BY <1>2, <3>1, <4>2
    <3>2. CASE v # w
      BY <1>0, <2>1, <3>2
    <3> QED  BY <3>1, <3>2
  <2> QED  BY <1>1, <1>2, <2>1 DEF AttemptFails
<1>3. ASSUME NEW w \in Workers, ConsumerStep(w)
      PROVE  /\ UNCHANGED ledger \/ InsertRow(w)
             /\ \A v \in Workers : task'[v].pc = "commit" =>
                   \/ task'[v] = task[v]
                   \/ task'[v].last = TailHash(ledger) /\ UNCHANGED ledger
  <2>1. CASE GetItem(w)
    BY <1>0, <2>1 DEF GetItem, FirstAttempt
  <2>2. CASE SelectLastHash(w)
    <3>1. task'[w].last = TailHash(ledger)
      <4>1. task[w] \in [pc : {"select", "commit"}, item : Items,
                         attempt : 1 .. MaxAttempts, last : Seq(Items)]
        BY <2>2, BusyTask DEF SelectLastHash
      <4> QED  BY <1>0, <2>2, <4>1 DEF SelectLastHash
    <3>2. UNCHANGED ledger /\ \A v \in Workers \ {w} : task'[v] = task[v]
      BY <1>0, <2>2 DEF SelectLastHash
    <3> QED  BY <3>1, <3>2
  <2>3. CASE Persist(w)
    BY <1>1, <2>3 DEF Persist
  <2>4. CASE Collision(w) \/ DatabaseError(w) \/ AckLost(w)
    <3>1. task[w].pc # "idle" /\ AttemptFails(w) /\ (UNCHANGED ledger \/ InsertRow(w))
      BY <2>4 DEF Collision, DatabaseError, AckLost, InsertRow
    <3> QED  BY <1>2, <3>1
  <2> QED  BY <1>3, <2>1, <2>2, <2>3, <2>4 DEF ConsumerStep
<1>4. ASSUME NEW w \in Workers, LoseMemory(w)
      PROVE  /\ UNCHANGED ledger
             /\ \A v \in Workers : task'[v].pc = "commit" => task'[v] = task[v]
  BY <1>0, <1>4 DEF LoseMemory, Idle
<1>5. ASSUME NEW w \in Workers, CancelConsumer(w)
      PROVE  /\ UNCHANGED ledger \/ InsertRow(w)
             /\ \A v \in Workers : task'[v].pc = "commit" => task'[v] = task[v]
  BY <1>1, <1>5 DEF CancelConsumer
<1>6. ASSUME NEW w \in Workers, \/ Start(w) \/ BeginStop(w) \/ JoinReturns(w) \/ JoinTimesOut(w)
                                \/ \E i \in Items : EnqueueLog(w, i)
      PROVE  UNCHANGED <<ledger, task>>
  BY <1>6 DEF Start, BeginStop, JoinReturns, JoinTimesOut, EnqueueLog
<1> QED
  BY <1>3, <1>4, <1>5, <1>6 DEF Next, StopStep, Crash, Exit

\* The empty table is a whole chain.
LEMMA ChainInit == Init => ChainInv
<1> SUFFICES ASSUME Init PROVE ChainInv
  OBVIOUS
<1>1. ledger = << >> /\ \A w \in Workers : task[w].pc = "idle"
  BY DEF Init, Idle
<1>2. \A k \in DOMAIN ledger : FALSE
  BY <1>1
<1>3. Range(TailHash(ledger)) = {} /\ Chained = {}
  BY <1>1, <1>2 DEF TailHash, Genesis, Range, Chained
<1> QED  BY <1>1, <1>2, <1>3 DEF ChainInv, ChainIntact, Intact, LastWasTail, TailCommits

\* Every step keeps the chain whole.
LEMMA ChainStep == Types /\ ChainInv /\ [Next]_vars => ChainInv'
<1> SUFFICES ASSUME Types, ChainInv, [Next]_vars PROVE ChainInv'
  OBVIOUS
<1>0. TypeOK
  BY DEF Types
<1>1. CASE UNCHANGED vars
  BY <1>1 DEF vars, ChainInv, ChainIntact, LastWasTail, TailCommits, Chained
<1>2. CASE Next
  <2>1. /\ UNCHANGED ledger \/ \E w \in Workers : InsertRow(w)
        /\ \A v \in Workers : task'[v].pc = "commit" =>
              \/ task'[v] = task[v]
              \/ task'[v].last = TailHash(ledger) /\ UNCHANGED ledger
    BY <1>0, <1>2, ChainFrame
  <2>2. ChainIntact' /\ TailCommits'
    <3>1. CASE UNCHANGED ledger
      BY <3>1 DEF ChainInv, ChainIntact, TailCommits, Chained
    <3> QED  BY <1>0, <2>1, <3>1, InsertExtends
  <2>3. \A k \in DOMAIN ledger : k \in DOMAIN ledger' /\ ledger'[k] = ledger[k]
    BY <1>0, <2>1, InsertExtends
  <2>4. LastWasTail'
    <3> SUFFICES ASSUME NEW v \in Workers, task'[v].pc = "commit"
                 PROVE  \/ task'[v].last = Genesis
                        \/ \E k \in DOMAIN ledger' : task'[v].last = ledger'[k].hash
      BY DEF LastWasTail
    <3>1. CASE task'[v] = task[v]
      BY <1>0, <2>3, <3>1, TailStays
    <3>2. CASE task'[v].last = TailHash(ledger) /\ UNCHANGED ledger
      BY <1>0, <3>2, TailIsRow
    <3> QED  BY <2>1, <3>1, <3>2
  <2> QED  BY <2>2, <2>4 DEF ChainInv
<1> QED  BY <1>1, <1>2

\* The ledger of any number of processes is one unbroken chain, whatever
\* collides, fails, is cancelled or killed.
THEOREM ChainAlwaysIntact == Spec => []ChainIntact
<1>1. Init => Types /\ ChainInv
  BY TypesInit, ChainInit
<1>2. (Types /\ ChainInv) /\ [Next]_vars => (Types /\ ChainInv)'
  BY TypesStep, ChainStep
<1>3. ChainInv => ChainIntact
  BY DEF ChainInv
<1> QED  BY <1>1, <1>2, <1>3, PTL DEF Spec

------------------------------------------------------------------------------
(* Where the entries go.                                                   *)

\* What every step but EnqueueLog does with the entries: process w may let go
\* of some it holds, each of which is then chained, on disk or lost.
LetsGo(w) ==
    /\ UNCHANGED accepted
    /\ \A v \in Workers \ {w} : Held(v)' = Held(v)
    /\ Held(w)' \subseteq Held(w)
    /\ Held(w) \subseteq Held(w)' \cup Settled'
    /\ UNCHANGED ledger \/ InsertRow(w)
    /\ dumped \subseteq dumped' /\ dumped' \subseteq dumped \cup Held(w)
    /\ lost \subseteq lost' /\ lost' \subseteq lost \cup Held(w)

\* Given up entries are on disk or lost, and they are all that is.
LEMMA DumpFlow ==
    ASSUME NEW w \in Workers, NEW entries \in Seq(Items), DumpFailed(w, entries)
    PROVE  /\ dumped \subseteq dumped' /\ lost \subseteq lost'
           /\ Range(entries) \subseteq dumped' \cup lost'
           /\ dumped' \subseteq dumped \cup Range(entries)
           /\ lost' \subseteq lost \cup Range(entries)
<1>1. PICK written \in IF "disk" \in Faults THEN SUBSET Range(entries) ELSE {Range(entries)} :
        /\ dumped' = dumped \cup written
        /\ lost' = lost \cup (Range(entries) \ written)
  BY DEF DumpFailed
<1>2. written \subseteq Range(entries)
  BY <1>1
<1> QED  BY <1>1, <1>2

\* What _dump_failed is given for the entry in hand: just that entry.
LEMMA Singleton == \A e : Range(<<e>>) = {e}
  BY DEF Range

\* The consumer lets its entry go, and only that entry.
LEMMA TaskDoneFlow ==
    ASSUME TypeOK, NEW w \in Workers, task[w].pc # "idle", TaskDone(w), UNCHANGED queue
    PROVE  /\ \A v \in Workers \ {w} : Held(v)' = Held(v)
           /\ Held(w) = Held(w)' \cup {task[w].item}
<1>1. task \in [Workers -> TaskStates] /\ task' = [task EXCEPT ![w] = Idle]
  BY DEF TypeOK, TaskStates, TaskDone
<1>2. InFlight(w) = {task[w].item}
  BY BusyTask DEF InFlight
<1>3. InFlight(w)' = {}
  BY <1>1 DEF InFlight, Idle
<1>4. \A v \in Workers \ {w} : InFlight(v)' = InFlight(v)
  BY <1>1 DEF InFlight
<1> QED  BY <1>2, <1>3, <1>4 DEF Held

\* A failed attempt keeps its entry, or gives it up to the disk (_dump_failed),
\* or has chained it when only the acknowledgement was lost.
LEMMA AttemptFailsFlow ==
    ASSUME TypeOK, NEW w \in Workers, task[w].pc # "idle", AttemptFails(w),
           UNCHANGED <<queue, accepted>>, UNCHANGED ledger \/ InsertRow(w)
    PROVE  LetsGo(w)
<1>0. task \in [Workers -> TaskStates]
  BY DEF TypeOK, TaskStates
<1>1. CASE /\ task' = [task EXCEPT ![w].pc = "select", ![w].attempt = @ + 1]
           /\ UNCHANGED <<unfinished, failedCount, dumped, lost>>
  <2>1. task'[w].item = task[w].item
    <3>1. task[w] \in [pc : {"select", "commit"}, item : Items,
                       attempt : 1 .. MaxAttempts, last : Seq(Items)]
      BY BusyTask
    <3> QED  BY <1>0, <1>1, <3>1
  <2>2. \A v \in Workers : Held(v)' = Held(v)
    <3>1. \A v \in Workers : task'[v].item = task[v].item
      BY <1>0, <1>1, <2>1
    <3> QED  BY <3>1 DEF Held, InFlight
  <2> QED  BY <1>1, <2>2 DEF LetsGo
<1>2. CASE DumpFailed(w, <<task[w].item>>) /\ TaskDone(w)
  <2>1. <<task[w].item>> \in Seq(Items)
    BY BusyTask
  <2>2. /\ dumped \subseteq dumped' /\ lost \subseteq lost'
        /\ task[w].item \in dumped' \cup lost'
        /\ dumped' \subseteq dumped \cup {task[w].item}
        /\ lost' \subseteq lost \cup {task[w].item}
    BY <1>2, <2>1, DumpFlow, Singleton
  <2>3. /\ \A v \in Workers \ {w} : Held(v)' = Held(v)
        /\ Held(w) = Held(w)' \cup {task[w].item}
    BY <1>2, TaskDoneFlow
  <2> QED  BY <2>2, <2>3 DEF LetsGo, Settled
<1> QED  BY <1>1, <1>2 DEF AttemptFails

\* A step of the consumer lets go of nothing but the entry it settles.
LEMMA ConsumerFlow ==
    ASSUME TypeOK, ChainInv, NEW w \in Workers, ConsumerStep(w)
    PROVE  LetsGo(w)
<1>0. task \in [Workers -> TaskStates] /\ queue \in [Workers -> Seq(Items)]
  BY DEF TypeOK, TaskStates
<1>1. CASE GetItem(w)
  <2>1. /\ queue[w] \in Seq(Items) /\ queue[w] # << >> /\ task[w].pc = "idle"
        /\ task' = [task EXCEPT ![w] = FirstAttempt(Head(queue[w]))]
        /\ queue' = [queue EXCEPT ![w] = Tail(@)]
        /\ UNCHANGED <<ledger, dumped, accepted, lost>>
    BY <1>0, <1>1 DEF GetItem
  <2>2. Range(queue[w]) = {Head(queue[w])} \cup Range(Tail(queue[w])) /\ Head(queue[w]) \in Items
    BY <2>1, HeadTailFacts
  <2>3. InFlight(w) = {} /\ InFlight(w)' = {Head(queue[w])}
    <3>1. task'[w].item = Head(queue[w]) /\ Head(queue[w]) # NoItem
      BY <1>0, <2>1, <2>2, WorkerAssumption DEF FirstAttempt
    <3> QED  BY <2>1, <3>1, IdleTask DEF InFlight
  <2>4. Held(w)' = Held(w)
    BY <1>0, <2>1, <2>2, <2>3 DEF Held
  <2>5. \A v \in Workers \ {w} : Held(v)' = Held(v)
    BY <1>0, <2>1 DEF Held, InFlight
  <2> QED  BY <2>1, <2>4, <2>5 DEF LetsGo
<1>2. CASE SelectLastHash(w)
  <2>1. task[w] \in [pc : {"select", "commit"}, item : Items,
                     attempt : 1 .. MaxAttempts, last : Seq(Items)]
    BY <1>2, BusyTask DEF SelectLastHash
  <2>2. \A v \in Workers : task'[v].item = task[v].item
    BY <1>0, <1>2, <2>1 DEF SelectLastHash
  <2>3. UNCHANGED <<queue, ledger, dumped, accepted, lost>>
    BY <1>2 DEF SelectLastHash
  <2> QED  BY <2>2, <2>3 DEF LetsGo, Held, InFlight
<1>3. CASE Persist(w)
  <2>1. /\ task[w].pc # "idle" /\ TaskDone(w) /\ InsertRow(w)
        /\ UNCHANGED <<queue, dumped, accepted, lost>>
    BY <1>3 DEF Persist, InsertRow
  <2>2. Chained' = Chained \cup {task[w].item}
    BY <2>1, InsertExtends
  <2> QED  BY <2>1, <2>2, TaskDoneFlow DEF LetsGo, Settled
<1>4. CASE Collision(w) \/ DatabaseError(w) \/ AckLost(w)
  <2>1. /\ task[w].pc # "idle" /\ AttemptFails(w) /\ (UNCHANGED ledger \/ InsertRow(w))
        /\ UNCHANGED <<queue, accepted>>
    BY <1>4 DEF Collision, DatabaseError, AckLost, InsertRow
  <2> QED  BY <2>1, AttemptFailsFlow
<1> QED  BY <1>1, <1>2, <1>3, <1>4 DEF ConsumerStep

\* A step of stop(), or the end of the process, lets go of entries only to the
\* ledger, the disk or the lost ones.
LEMMA StopFlow ==
    ASSUME TypeOK, ChainInv, NEW w \in Workers, StopStep(w) \/ LoseMemory(w)
    PROVE  LetsGo(w)
<1>0. task \in [Workers -> TaskStates] /\ queue \in [Workers -> Seq(Items)]
  BY DEF TypeOK, TaskStates
<1>1. Range(<< >>) = {}
  BY DEF Range
<1>2. CASE JoinReturns(w)
  BY <1>2 DEF JoinReturns, LetsGo, Held, InFlight
<1>3. CASE JoinTimesOut(w)
  <2>1. /\ DumpFailed(w, queue[w]) /\ queue[w] \in Seq(Items)
        /\ queue' = [queue EXCEPT ![w] = << >>]
        /\ UNCHANGED <<task, ledger, accepted>>
    BY <1>0, <1>3 DEF JoinTimesOut
  <2>2. Held(w) = Held(w)' \cup Range(queue[w])
    BY <1>0, <1>1, <2>1 DEF Held, InFlight
  <2>3. \A v \in Workers \ {w} : Held(v)' = Held(v)
    BY <1>0, <2>1 DEF Held, InFlight
  <2> QED  BY <2>1, <2>2, <2>3, DumpFlow DEF LetsGo, Settled
<1>4. CASE CancelConsumer(w)
  <2>1. CASE task[w].pc = "idle" /\ UNCHANGED <<task, unfinished, failedCount, ledger, dumped, lost>>
    BY <1>4, <2>1 DEF CancelConsumer, LetsGo, Held, InFlight
  <2>2. CASE /\ task[w].pc # "idle" /\ (InsertRow(w) \/ UNCHANGED ledger)
             /\ DumpFailed(w, <<task[w].item>>) /\ TaskDone(w)
    <3>1. <<task[w].item>> \in Seq(Items) /\ UNCHANGED <<queue, accepted>>
      BY <1>4, <2>2, BusyTask DEF CancelConsumer
    <3>2. /\ dumped \subseteq dumped' /\ lost \subseteq lost'
          /\ task[w].item \in dumped' \cup lost'
          /\ dumped' \subseteq dumped \cup {task[w].item}
          /\ lost' \subseteq lost \cup {task[w].item}
      BY <2>2, <3>1, DumpFlow, Singleton
    <3>3. /\ \A v \in Workers \ {w} : Held(v)' = Held(v)
          /\ Held(w) = Held(w)' \cup {task[w].item}
      BY <2>2, <3>1, TaskDoneFlow
    <3> QED  BY <2>2, <3>1, <3>2, <3>3 DEF LetsGo, Settled
  <2> QED  BY <1>4, <2>1, <2>2 DEF CancelConsumer
<1>5. CASE LoseMemory(w)
  <2>1. Held(w)' = {}
    BY <1>0, <1>1, <1>5 DEF LoseMemory, Held, InFlight, Idle
  <2>2. \A v \in Workers \ {w} : Held(v)' = Held(v)
    BY <1>0, <1>5 DEF LoseMemory, Held, InFlight
  <2>3. lost' = lost \cup Held(w) /\ UNCHANGED <<ledger, dumped, accepted>>
    BY <1>5 DEF LoseMemory, Held
  <2> QED  BY <2>1, <2>2, <2>3 DEF LetsGo, Settled
<1> QED  BY <1>2, <1>3, <1>4, <1>5 DEF StopStep, Exit

\* An accepted entry is new, and its process holds it.
LEMMA EnqueueFlow ==
    ASSUME TypeOK, NEW w \in Workers, NEW i \in Items, EnqueueLog(w, i)
    PROVE  /\ UNCHANGED <<ledger, dumped, lost>>
           /\ \A v \in Workers \ {w} : Held(v)' = Held(v) /\ accepted'[v] = accepted[v]
           /\ Held(w)' = Held(w) \cup {i}
           /\ Range(accepted'[w]) = Range(accepted[w]) \cup {i}
           /\ i \notin Arrived /\ Arrived' = Arrived \cup {i}
<1>1. /\ queue \in [Workers -> Seq(Items)] /\ accepted \in [Workers -> Seq(Items)]
      /\ queue' = [queue EXCEPT ![w] = Append(@, i)]
      /\ accepted' = [accepted EXCEPT ![w] = Append(@, i)]
      /\ UNCHANGED <<task, ledger, dumped, lost>> /\ i \notin Arrived
  BY DEF EnqueueLog, TypeOK
<1>2. Range(Append(queue[w], i)) = Range(queue[w]) \cup {i}
  BY <1>1, AppendFacts
<1>3. Range(accepted'[w]) = Range(accepted[w]) \cup {i}
  BY <1>1, AppendFacts
<1>4. \A v \in Workers \ {w} : Held(v)' = Held(v) /\ accepted'[v] = accepted[v]
  BY <1>1 DEF Held, InFlight
<1>5. Held(w)' = Held(w) \cup {i}
  BY <1>1, <1>2 DEF Held, InFlight
<1>6. Arrived' = Arrived \cup {i}
  BY <1>3, <1>4 DEF Arrived
<1> QED  BY <1>1, <1>3, <1>4, <1>5, <1>6

\* Every step of the system is one of four kinds.
LEMMA StepKinds ==
    ASSUME TypeOK, ChainInv, Next
    PROVE  \E w \in Workers :
              \/ LetsGo(w)
              \/ \E i \in Items : EnqueueLog(w, i)
              \/ UNCHANGED <<queue, task, ledger, dumped, accepted, lost>>
<1>1. ASSUME NEW w \in Workers, Start(w) \/ BeginStop(w)
      PROVE  UNCHANGED <<queue, task, ledger, dumped, accepted, lost>>
  BY <1>1 DEF Start, BeginStop
<1>2. ASSUME NEW w \in Workers, Crash(w)
      PROVE  LetsGo(w)
  BY <1>2, StopFlow DEF Crash
<1> QED  BY <1>1, <1>2, ConsumerFlow, StopFlow DEF Next

------------------------------------------------------------------------------
(* No silent loss.                                                         *)

\* What is held, chained, left on disk or lost had been accepted.
OnlyArrived ==
    /\ \A w \in Workers : Held(w) \subseteq Range(accepted[w])
    /\ Chained \cup dumped \cup lost \subseteq Arrived

DeliveryInv == NoSilentLoss /\ OnlyArrived

\* At first nothing was accepted and nothing is held.
LEMMA DeliveryInit == Init => DeliveryInv
<1> SUFFICES ASSUME Init PROVE DeliveryInv
  OBVIOUS
<1>1. Range(<< >>) = {} /\ \A w \in Workers : queue[w] = << >> /\ accepted[w] = << >>
  BY DEF Init, Range
<1>2. \A w \in Workers : Held(w) = {}
  BY <1>1 DEF Init, Held, InFlight, Idle
<1>3. Chained = {} /\ dumped = {} /\ lost = {}
  BY DEF Init, Chained
<1> QED  BY <1>1, <1>2, <1>3 DEF DeliveryInv, NoSilentLoss, OnlyArrived

\* An insertion adds one entry to the chained ones and takes none away.
LEMMA ChainedGrows ==
    ASSUME TypeOK, ChainInv, NEW w \in Workers, UNCHANGED ledger \/ InsertRow(w)
    PROVE  Chained \subseteq Chained' /\ Chained' \subseteq Chained \cup {task[w].item}
<1>1. CASE UNCHANGED ledger
  BY <1>1 DEF Chained
<1>2. CASE InsertRow(w)
  BY <1>2, InsertExtends
<1> QED  BY <1>1, <1>2

\* Every step keeps each accepted entry held or settled, and settles only
\* accepted ones.
LEMMA DeliveryStep == Types /\ ChainInv /\ DeliveryInv /\ [Next]_vars => DeliveryInv'
<1> SUFFICES ASSUME Types, ChainInv, DeliveryInv, [Next]_vars PROVE DeliveryInv'
  OBVIOUS
<1>0. TypeOK /\ NoSilentLoss /\ OnlyArrived
  BY DEF Types, DeliveryInv
<1>1. CASE UNCHANGED <<queue, task, ledger, dumped, accepted, lost>>
  BY <1>0, <1>1 DEF DeliveryInv, NoSilentLoss, OnlyArrived, Held, InFlight, Settled,
                    Chained, Arrived
<1>2. ASSUME NEW w \in Workers, LetsGo(w)
      PROVE  DeliveryInv'
  <2>1. Chained \subseteq Chained' /\ Settled \subseteq Settled'
    BY <1>0, <1>2, ChainedGrows DEF LetsGo, Settled
  <2>2. NoSilentLoss'
    BY <1>0, <1>2, <2>1 DEF LetsGo, NoSilentLoss
  <2>3. UNCHANGED Arrived /\ Held(w) \subseteq Arrived
    BY <1>0, <1>2 DEF LetsGo, Arrived, OnlyArrived
  <2>4. Chained' \subseteq Chained \cup Held(w)
    <3>1. CASE UNCHANGED ledger
      BY <3>1 DEF Chained
    <3>2. CASE InsertRow(w)
      <4>1. task[w].item \in Held(w)
        BY <1>0, <3>2, BusyTask DEF InsertRow, Held, InFlight
      <4> QED  BY <1>0, <3>2, <4>1, InsertExtends
    <3> QED  BY <1>2, <3>1, <3>2 DEF LetsGo
  <2>5. OnlyArrived'
    BY <1>0, <1>2, <2>3, <2>4 DEF LetsGo, OnlyArrived
  <2> QED  BY <2>2, <2>5 DEF DeliveryInv
<1>3. ASSUME NEW w \in Workers, NEW i \in Items, EnqueueLog(w, i)
      PROVE  DeliveryInv'
  <2>1. UNCHANGED Settled /\ UNCHANGED Chained
    BY <1>0, <1>3, EnqueueFlow DEF Settled, Chained
  <2>2. NoSilentLoss'
    BY <1>0, <1>3, <2>1, EnqueueFlow DEF NoSilentLoss
  <2>3. OnlyArrived'
    BY <1>0, <1>3, <2>1, EnqueueFlow DEF OnlyArrived
  <2> QED  BY <2>2, <2>3 DEF DeliveryInv
<1>4. CASE Next
  BY <1>0, <1>1, <1>2, <1>3, <1>4, StepKinds
<1> QED  BY <1>1, <1>4 DEF vars

\* No entry a process accepted is ever dropped by a retry, a timeout or a
\* cancellation: only a kill or a failed disk puts one in lost.
THEOREM NothingLostSilently == Spec => []NoSilentLoss
<1> DEFINE Inv == Types /\ ChainInv /\ DeliveryInv
<1>1. Init => Inv
  BY TypesInit, ChainInit, DeliveryInit
<1>2. Inv /\ [Next]_vars => Inv'
  BY TypesStep, ChainStep, DeliveryStep
<1>3. Inv => NoSilentLoss
  BY DEF DeliveryInv
<1> QED  BY <1>1, <1>2, <1>3, PTL DEF Spec

------------------------------------------------------------------------------
(* The order.                                                              *)

\* How many entries of its process the consumer has taken, or a timeout or a
\* kill has removed from the queue.
Taken(w) == Len(accepted[w]) - Len(queue[w])

\* The queue holds the youngest entries, in the order of acceptance.
QueueIsYoungest(w) ==
    /\ Len(queue[w]) <= Len(accepted[w])
    /\ \A j \in 1 .. Len(queue[w]) : queue[w][j] = accepted[w][Taken(w) + j]

\* No entry of w that is chained is younger than the h-th.
ChainedUpTo(w, h) == \A a \in DOMAIN accepted[w] : accepted[w][a] \in Chained => a <= h

OwnInHand(w) ==
    task[w].pc # "idle" =>
        \E h \in 1 .. Taken(w) : task[w].item = accepted[w][h] /\ ChainedUpTo(w, h)

AcceptedOnce ==
    /\ \A w \in Workers : \A a, b \in DOMAIN accepted[w] : accepted[w][a] = accepted[w][b] => a = b
    /\ \A v, w \in Workers : v # w => Range(accepted[v]) \cap Range(accepted[w]) = {}

FifoInv ==
    /\ AcceptedOnce
    /\ \A w \in Workers : QueueIsYoungest(w) /\ ChainedUpTo(w, Taken(w)) /\ OwnInHand(w)
    /\ FifoPerProcess

\* Nothing is accepted, queued or chained at first.
LEMMA FifoInit == Init => FifoInv
<1> SUFFICES ASSUME Init PROVE FifoInv
  OBVIOUS
<1>1. /\ \A w \in Workers : accepted[w] = << >> /\ queue[w] = << >> /\ task[w].pc = "idle"
      /\ ledger = << >>
  BY DEF Init, Idle
<1>2. DOMAIN << >> = {} /\ Len(<< >>) = 0 /\ Range(<< >>) = {}
  BY DEF Range
<1>3. \A w \in Workers : DOMAIN accepted[w] = {} /\ Range(accepted[w]) = {}
                         /\ Len(accepted[w]) = 0 /\ Len(queue[w]) = 0
  BY <1>1, <1>2
<1>4. AcceptedOnce
  BY <1>3 DEF AcceptedOnce
<1>5. \A w \in Workers : QueueIsYoungest(w) /\ ChainedUpTo(w, Taken(w)) /\ OwnInHand(w)
  BY <1>1, <1>3 DEF QueueIsYoungest, ChainedUpTo, OwnInHand
<1>6. FifoPerProcess
  BY <1>3 DEF FifoPerProcess
<1> QED  BY <1>4, <1>5, <1>6 DEF FifoInv

\* Lengths of what a process accepted and queues.
LEMMA LengthsOf ==
    ASSUME TypeOK, NEW w \in Workers
    PROVE  /\ Len(accepted[w]) \in Nat /\ DOMAIN accepted[w] = 1 .. Len(accepted[w])
           /\ Len(queue[w]) \in Nat /\ DOMAIN queue[w] = 1 .. Len(queue[w])
           /\ accepted[w] \in Seq(Items) /\ queue[w] \in Seq(Items)
           /\ (QueueIsYoungest(w) => Taken(w) \in 0 .. Len(accepted[w]))
<1>1. accepted[w] \in Seq(Items) /\ queue[w] \in Seq(Items)
  BY DEF TypeOK
<1>2. /\ Len(accepted[w]) \in Nat /\ DOMAIN accepted[w] = 1 .. Len(accepted[w])
      /\ Len(queue[w]) \in Nat /\ DOMAIN queue[w] = 1 .. Len(queue[w])
  BY <1>1
<1>3. ASSUME NEW n \in Nat, NEW q \in Nat, q <= n PROVE n - q \in 0 .. n
  BY <1>3
<1>4. QueueIsYoungest(w) => Taken(w) \in 0 .. Len(accepted[w])
  BY <1>2, <1>3 DEF QueueIsYoungest, Taken
<1> QED  BY <1>1, <1>2, <1>4

\* An accepted entry is younger than all that its process has accepted.
LEMMA FifoEnqueue ==
    ASSUME TypeOK, OnlyArrived, FifoInv, NEW w \in Workers, NEW i \in Items, EnqueueLog(w, i)
    PROVE  FifoInv'
<1>1. /\ accepted' = [accepted EXCEPT ![w] = Append(accepted[w], i)]
      /\ queue' = [queue EXCEPT ![w] = Append(queue[w], i)]
      /\ accepted \in [Workers -> Seq(Items)] /\ queue \in [Workers -> Seq(Items)]
      /\ UNCHANGED <<task, ledger>> /\ i \notin Arrived
  BY DEF EnqueueLog, TypeOK
<1>2. /\ \A v \in Workers : i \notin Range(accepted[v])
      /\ i \notin Chained
  BY <1>1 DEF Arrived, OnlyArrived
<1>3. Chained' = Chained
  BY <1>1 DEF Chained
<1>4. PICK n \in Nat, q \in Nat : n = Len(accepted[w]) /\ q = Len(queue[w])
  BY LengthsOf
<1>5. PICK old \in Seq(Items), held \in Seq(Items) : old = accepted[w] /\ held = queue[w]
  BY <1>1
<1>6. PICK new, next : new = Append(old, i) /\ next = Append(held, i)
  OBVIOUS
<1>7. /\ accepted'[w] = new /\ queue'[w] = next
      /\ \A v \in Workers \ {w} : accepted'[v] = accepted[v] /\ queue'[v] = queue[v]
  BY <1>1, <1>5, <1>6
<1>8. /\ Len(new) = n + 1 /\ DOMAIN new = 1 .. n + 1 /\ DOMAIN old = 1 .. n
      /\ \A a \in 1 .. n : new[a] = old[a]
      /\ new[n + 1] = i /\ Range(new) = Range(old) \cup {i}
      /\ Len(next) = q + 1 /\ next[q + 1] = i /\ \A a \in 1 .. q : next[a] = held[a]
  BY <1>4, <1>5, <1>6, AppendFacts
<1>9. \A a \in 1 .. n : old[a] # i /\ old[a] \in Range(old)
  BY <1>2, <1>5, <1>8 DEF Range
<1>10. AcceptedOnce'
  <2>1. ASSUME NEW v \in Workers, NEW a \in DOMAIN accepted'[v], NEW b \in DOMAIN accepted'[v],
               accepted'[v][a] = accepted'[v][b]
        PROVE  a = b
    <3>1. CASE v # w
      BY <1>7, <2>1, <3>1 DEF FifoInv, AcceptedOnce
    <3>2. CASE v = w
      <4>1. \A c, d \in 1 .. n : old[c] = old[d] => c = d
        BY <1>5, <1>8 DEF FifoInv, AcceptedOnce
      <4>2. a \in 1 .. n + 1 /\ b \in 1 .. n + 1 /\ new[a] = new[b]
        BY <1>7, <1>8, <2>1, <3>2
      <4>3. (a \in 1 .. n \/ a = n + 1) /\ (b \in 1 .. n \/ b = n + 1)
        BY <4>2
      <4> QED  BY <1>8, <1>9, <4>1, <4>2, <4>3
    <3> QED  BY <3>1, <3>2
  <2>2. ASSUME NEW u \in Workers, NEW v \in Workers, u # v
        PROVE  Range(accepted'[u]) \cap Range(accepted'[v]) = {}
    <3>1. Range(accepted[u]) \cap Range(accepted[v]) = {}
      BY <2>2 DEF FifoInv, AcceptedOnce
    <3>2. \A x \in Workers : Range(accepted'[x]) = IF x = w THEN Range(accepted[x]) \cup {i}
                                                   ELSE Range(accepted[x])
      BY <1>5, <1>7, <1>8
    <3> QED  BY <1>2, <2>2, <3>1, <3>2
  <2> QED  BY <2>1, <2>2 DEF AcceptedOnce
<1>11. ASSUME NEW v \in Workers, v # w
       PROVE  (QueueIsYoungest(v) /\ ChainedUpTo(v, Taken(v)) /\ OwnInHand(v))'
  BY <1>1, <1>3, <1>7, <1>11 DEF FifoInv, QueueIsYoungest, ChainedUpTo, OwnInHand, Taken
<1>12. (QueueIsYoungest(w) /\ ChainedUpTo(w, Taken(w)) /\ OwnInHand(w))'
  <2>1. q <= n /\ Taken(w) = n - q /\ Taken(w)' = n - q /\ n - q \in 0 .. n
    <3>1. q <= n
      BY <1>4 DEF FifoInv, QueueIsYoungest
    <3>2. (n + 1) - (q + 1) = n - q /\ n - q \in 0 .. n
      BY <3>1
    <3> QED  BY <1>4, <1>7, <1>8, <3>1, <3>2 DEF Taken
  <2>2. QueueIsYoungest(w)'
    <3>1. \A j \in 1 .. q : held[j] = old[(n - q) + j]
      BY <1>4, <1>5, <2>1 DEF FifoInv, QueueIsYoungest
    <3>2. ASSUME NEW j \in 1 .. q + 1 PROVE next[j] = new[(n - q) + j]
      <4>1. CASE j \in 1 .. q
        <5>1. (n - q) + j \in 1 .. n
          BY <2>1, <4>1
        <5> QED  BY <1>8, <3>1, <4>1, <5>1
      <4>2. CASE j = q + 1
        <5>1. (n - q) + j = n + 1
          BY <4>2
        <5> QED  BY <1>8, <4>2, <5>1
      <4> QED  BY <4>1, <4>2
    <3> QED  BY <1>7, <1>8, <2>1, <3>2 DEF QueueIsYoungest
  <2>3. ASSUME NEW h \in 0 .. n, ChainedUpTo(w, h)
        PROVE  ChainedUpTo(w, h)'
    <3> SUFFICES ASSUME NEW a \in 1 .. n + 1, new[a] \in Chained PROVE a <= h
      BY <1>3, <1>7, <1>8 DEF ChainedUpTo
    <3>1. a \in 1 .. n
      BY <1>2, <1>8
    <3>2. old[a] \in Chained
      BY <1>8, <3>1
    <3> QED  BY <1>5, <1>8, <2>3, <3>1, <3>2 DEF ChainedUpTo
  <2>4. ChainedUpTo(w, Taken(w))'
    <3>1. ChainedUpTo(w, n - q)
      BY <2>1 DEF FifoInv
    <3>2. ChainedUpTo(w, n - q)'
      BY <2>1, <2>3, <3>1
    <3> QED  BY <2>1, <3>2 DEF ChainedUpTo
  <2>5. OwnInHand(w)'
    <3> SUFFICES ASSUME task'[w].pc # "idle"
                 PROVE  \E h \in 1 .. Taken(w)' : task'[w].item = accepted'[w][h] /\ ChainedUpTo(w, h)'
      BY DEF OwnInHand
    <3>1. PICK h \in 1 .. n - q : task[w].item = old[h] /\ ChainedUpTo(w, h)
      BY <1>1, <1>5, <2>1 DEF FifoInv, OwnInHand
    <3>2. h \in 0 .. n /\ h \in 1 .. n
      BY <2>1
    <3> QED  BY <1>1, <1>7, <1>8, <2>1, <2>3, <3>1, <3>2
  <2> QED  BY <2>2, <2>4, <2>5
<1>13. FifoPerProcess'
  <2> SUFFICES ASSUME NEW v \in Workers, NEW a \in DOMAIN accepted'[v], NEW b \in DOMAIN accepted'[v],
                      NEW j \in DOMAIN ledger, NEW k \in DOMAIN ledger, a < b,
                      ledger[j].entry = accepted'[v][a], ledger[k].entry = accepted'[v][b]
               PROVE  j < k
    BY <1>1 DEF FifoPerProcess
  <2>1. ledger[j].entry \in Chained /\ ledger[k].entry \in Chained
    BY DEF Chained
  <2>2. CASE v # w
    BY <1>7, <2>2 DEF FifoInv, FifoPerProcess
  <2>3. CASE v = w
    <3>1. a \in 1 .. n + 1 /\ b \in 1 .. n + 1 /\ new[a] # i /\ new[b] # i
      BY <1>2, <1>7, <1>8, <2>1, <2>3
    <3>2. a \in 1 .. n /\ b \in 1 .. n
      BY <1>8, <3>1
    <3>3. new[a] = old[a] /\ new[b] = old[b]
      BY <1>8, <3>2
    <3> QED  BY <1>5, <1>7, <1>8, <2>3, <3>2, <3>3 DEF FifoInv, FifoPerProcess
  <2> QED  BY <2>2, <2>3
<1> QED  BY <1>10, <1>11, <1>12, <1>13 DEF FifoInv

\* The consumer takes the oldest entry nobody has taken, so nothing younger of
\* its process is chained.
LEMMA FifoGetItem ==
    ASSUME TypeOK, FifoInv, NEW w \in Workers, GetItem(w)
    PROVE  FifoInv'
<1>1. /\ queue[w] # << >> /\ task[w].pc = "idle"
      /\ task' = [task EXCEPT ![w] = FirstAttempt(Head(queue[w]))]
      /\ queue' = [queue EXCEPT ![w] = Tail(queue[w])]
      /\ UNCHANGED <<accepted, ledger>>
      /\ task \in [Workers -> TaskStates] /\ queue \in [Workers -> Seq(Items)]
  BY DEF GetItem, TypeOK, TaskStates
<1>2. Chained' = Chained
  BY <1>1 DEF Chained
<1>3. PICK n \in Nat, q \in Nat : n = Len(accepted[w]) /\ q = Len(queue[w])
  BY LengthsOf
<1>4. PICK held \in Seq(Items), next \in {Tail(queue[w])} : held = queue[w] /\ next = Tail(held)
  BY <1>1
<1>5. /\ q \in Nat \ {0} /\ Len(next) = q - 1
      /\ held[1] = Head(queue[w]) /\ \A j \in 1 .. q - 1 : next[j] = held[j + 1]
  <2>1. held # << >> /\ q = Len(held)
    BY <1>1, <1>3, <1>4
  <2>2. Len(held) \in Nat \ {0} /\ Head(held) = held[1]
    BY <2>1
  <2>3. Len(Tail(held)) = Len(held) - 1
    BY <2>1
  <2>4. \A j \in 1 .. Len(held) - 1 : Tail(held)[j] = held[j + 1]
    BY <2>1
  <2> QED  BY <1>4, <2>1, <2>2, <2>3, <2>4
<1>6. /\ queue'[w] = next /\ task'[w].item = held[1]
      /\ \A v \in Workers \ {w} : queue'[v] = queue[v] /\ task'[v] = task[v]
  <2>1. task'[w] = FirstAttempt(Head(queue[w]))
    BY <1>1
  <2> QED  BY <1>1, <1>4, <1>5, <2>1 DEF FirstAttempt
<1>7. AcceptedOnce'
  BY <1>1 DEF FifoInv, AcceptedOnce
<1>8. FifoPerProcess'
  BY <1>1 DEF FifoInv, FifoPerProcess
<1>9. ASSUME NEW v \in Workers, v # w
      PROVE  (QueueIsYoungest(v) /\ ChainedUpTo(v, Taken(v)) /\ OwnInHand(v))'
  BY <1>1, <1>2, <1>6, <1>9 DEF FifoInv, QueueIsYoungest, ChainedUpTo, OwnInHand, Taken
<1>10. (QueueIsYoungest(w) /\ ChainedUpTo(w, Taken(w)) /\ OwnInHand(w))'
  <2>1. q <= n /\ Taken(w) = n - q /\ ChainedUpTo(w, n - q)
        /\ \A j \in 1 .. q : held[j] = accepted[w][(n - q) + j]
    BY <1>3, <1>4 DEF FifoInv, QueueIsYoungest, Taken
  <2>2. PICK t \in Nat : t = (n - q) + 1 /\ t = n - (q - 1) /\ t <= n
    <3>1. (n - q) + 1 \in Nat /\ (n - q) + 1 = n - (q - 1) /\ (n - q) + 1 <= n
      BY <1>5, <2>1
    <3> QED  BY <3>1
  <2>3. Taken(w)' = t
    BY <1>1, <1>3, <1>5, <1>6, <2>2 DEF Taken
  <2>4. QueueIsYoungest(w)'
    <3>1. ASSUME NEW j \in 1 .. q - 1 PROVE next[j] = accepted[w][t + j]
      <4>1. j + 1 \in 1 .. q /\ (n - q) + (j + 1) = t + j
        BY <1>5, <2>1, <2>2
      <4> QED  BY <1>5, <2>1, <4>1
    <3>2. q - 1 <= n
      BY <2>1
    <3> QED  BY <1>1, <1>3, <1>5, <1>6, <2>3, <3>1, <3>2 DEF QueueIsYoungest
  <2>5. ChainedUpTo(w, t)'
    <3>1. \A a \in DOMAIN accepted[w] : a \in 1 .. n
      BY <1>3, LengthsOf
    <3>2. \A a \in 1 .. n : a <= n - q => a <= t
      BY <2>1, <2>2
    <3> QED  BY <1>1, <1>2, <2>1, <3>1, <3>2 DEF ChainedUpTo
  <2>6. OwnInHand(w)'
    <3>1. t \in 1 .. t
      BY <2>1, <2>2
    <3>2. held[1] = accepted[w][t]
      BY <1>5, <2>1, <2>2
    <3> QED  BY <1>1, <1>6, <2>3, <2>5, <3>1, <3>2 DEF OwnInHand
  <2> QED  BY <2>3, <2>4, <2>5, <2>6 DEF ChainedUpTo
<1> QED  BY <1>7, <1>8, <1>9, <1>10 DEF FifoInv

\* What every step but an acceptance and queue.get() leaves of the order: a
\* queue whole or empty, a consumer with the entry it had or with none, and at
\* most the entry in hand of one process as a new row.
KeepsOrder(w) ==
    /\ UNCHANGED accepted
    /\ \A v \in Workers : queue'[v] = queue[v] \/ queue'[v] = << >>
    /\ \A v \in Workers :
          task'[v].pc # "idle" => task[v].pc # "idle" /\ task'[v].item = task[v].item
    /\ UNCHANGED ledger \/ InsertRow(w)

\* A consumer that starts over, or gives its entry up, has that entry or none.
LEMMA HandsKept ==
    ASSUME TypeOK, NEW w \in Workers, task[w].pc # "idle", AttemptFails(w) \/ TaskDone(w)
    PROVE  \A v \in Workers :
              task'[v].pc # "idle" => task[v].pc # "idle" /\ task'[v].item = task[v].item
<1>1. /\ task \in [Workers -> TaskStates]
      /\ task[w] \in [pc : {"select", "commit"}, item : Items,
                      attempt : 1 .. MaxAttempts, last : Seq(Items)]
  BY BusyTask DEF TypeOK, TaskStates
<1>2. CASE task' = [task EXCEPT ![w].pc = "select", ![w].attempt = @ + 1]
  BY <1>1, <1>2
<1>3. CASE TaskDone(w)
  BY <1>1, <1>3 DEF TaskDone, Idle
<1> QED  BY <1>2, <1>3 DEF AttemptFails

\* Every step that accepts nothing and takes nothing from a queue is of the
\* kind KeepsOrder names.
LEMMA OrderKept ==
    ASSUME TypeOK, NEW w \in Workers,
           Start(w) \/ Crash(w) \/ BeginStop(w) \/ StopStep(w) \/ (ConsumerStep(w) /\ ~GetItem(w))
    PROVE  KeepsOrder(w)
<1>0. task \in [Workers -> TaskStates] /\ queue \in [Workers -> Seq(Items)]
  BY DEF TypeOK, TaskStates
<1>1. CASE Start(w) \/ BeginStop(w) \/ JoinReturns(w)
  BY <1>1 DEF Start, BeginStop, JoinReturns, KeepsOrder
<1>2. CASE LoseMemory(w)
  BY <1>0, <1>2 DEF LoseMemory, KeepsOrder, Idle
<1>3. CASE JoinTimesOut(w)
  BY <1>0, <1>3 DEF JoinTimesOut, KeepsOrder
<1>4. CASE CancelConsumer(w)
  <2>1. CASE task[w].pc = "idle" /\ UNCHANGED <<task, ledger>>
    BY <1>4, <2>1 DEF CancelConsumer, KeepsOrder
  <2>2. CASE task[w].pc # "idle" /\ (InsertRow(w) \/ UNCHANGED ledger) /\ TaskDone(w)
    BY <1>4, <2>2, HandsKept DEF CancelConsumer, KeepsOrder
  <2> QED  BY <1>4, <2>1, <2>2 DEF CancelConsumer
<1>5. CASE SelectLastHash(w)
  <2>1. task[w] \in [pc : {"select", "commit"}, item : Items,
                     attempt : 1 .. MaxAttempts, last : Seq(Items)]
    BY <1>5, BusyTask DEF SelectLastHash
  <2>2. \A v \in Workers : task'[v].item = task[v].item
    BY <1>0, <1>5, <2>1 DEF SelectLastHash
  <2>3. \A v \in Workers : task'[v].pc # "idle" => task[v].pc # "idle"
    BY <1>0, <1>5, <2>1 DEF SelectLastHash
  <2> QED  BY <1>5, <2>2, <2>3 DEF SelectLastHash, KeepsOrder
<1>6. CASE Persist(w)
  <2>1. /\ task[w].pc # "idle" /\ TaskDone(w) /\ InsertRow(w)
        /\ UNCHANGED <<queue, accepted>>
    BY <1>6 DEF Persist, InsertRow
  <2> QED  BY <2>1, HandsKept DEF KeepsOrder
<1>7. CASE Collision(w) \/ DatabaseError(w) \/ AckLost(w)
  <2>1. /\ task[w].pc # "idle" /\ AttemptFails(w) /\ (UNCHANGED ledger \/ InsertRow(w))
        /\ UNCHANGED <<queue, accepted>>
    BY <1>7 DEF Collision, DatabaseError, AckLost, InsertRow
  <2> QED  BY <2>1, HandsKept DEF KeepsOrder
<1> QED
  BY <1>1, <1>2, <1>3, <1>4, <1>5, <1>6, <1>7 DEF Crash, Exit, StopStep, ConsumerStep

\* The entry of a new row has one place among the accepted ones, and all that
\* its process has chained are older.
LEMMA InsertedPlace ==
    ASSUME TypeOK, FifoInv, NEW w \in Workers, InsertRow(w)
    PROVE  \E h \in 1 .. Taken(w) :
              /\ ChainedUpTo(w, h)
              /\ \A v \in Workers : \A a \in DOMAIN accepted[v] :
                    accepted[v][a] = task[w].item => v = w /\ a = h
<1>1. PICK h \in 1 .. Taken(w) : task[w].item = accepted[w][h] /\ ChainedUpTo(w, h)
  BY DEF FifoInv, OwnInHand, InsertRow
<1>2. h \in DOMAIN accepted[w]
  <2>1. QueueIsYoungest(w)
    BY DEF FifoInv
  <2>2. /\ Taken(w) \in 0 .. Len(accepted[w]) /\ DOMAIN accepted[w] = 1 .. Len(accepted[w])
        /\ Len(accepted[w]) \in Nat
    BY <2>1, LengthsOf
  <2> QED  BY <2>2
<1>3. ASSUME NEW v \in Workers, NEW a \in DOMAIN accepted[v], accepted[v][a] = task[w].item
      PROVE  v = w /\ a = h
  <2>1. accepted[v][a] \in Range(accepted[v]) /\ accepted[w][h] \in Range(accepted[w])
    BY <1>2 DEF Range
  <2>2. v = w
    BY <1>1, <1>3, <2>1 DEF FifoInv, AcceptedOnce
  <2> QED  BY <1>1, <1>2, <1>3, <2>2 DEF FifoInv, AcceptedOnce
<1> QED  BY <1>1, <1>3

\* Such a step keeps the order.
LEMMA FifoKept ==
    ASSUME TypeOK, ChainInv, FifoInv, NEW w \in Workers, KeepsOrder(w)
    PROVE  FifoInv'
<1>1. /\ accepted' = accepted
      /\ \A v \in Workers : queue'[v] = queue[v] \/ queue'[v] = << >>
      /\ \A v \in Workers :
            task'[v].pc # "idle" => task[v].pc # "idle" /\ task'[v].item = task[v].item
      /\ UNCHANGED ledger \/ InsertRow(w)
  BY DEF KeepsOrder
<1>2. AcceptedOnce'
  BY <1>1 DEF FifoInv, AcceptedOnce
<1>3. ASSUME NEW v \in Workers, NEW h \in 0 .. Taken(v), ChainedUpTo(v, h),
             task[v].pc # "idle" => \E g \in 1 .. h : task[v].item = accepted[v][g]
      PROVE  ChainedUpTo(v, h)'
  <2> SUFFICES ASSUME NEW a \in DOMAIN accepted[v], accepted[v][a] \in Chained' PROVE a <= h
    BY <1>1 DEF ChainedUpTo
  <2>1. CASE UNCHANGED ledger
    BY <1>3, <2>1 DEF ChainedUpTo, Chained
  <2>2. CASE InsertRow(w)
    <3>1. Chained' = Chained \cup {task[w].item} /\ task[w].pc # "idle"
      BY <2>2, InsertExtends DEF InsertRow
    <3>2. CASE accepted[v][a] \in Chained
      BY <1>3, <3>2 DEF ChainedUpTo
    <3>3. CASE accepted[v][a] = task[w].item
      <4>1. PICK p \in 1 .. Taken(w) :
               \A u \in Workers : \A b \in DOMAIN accepted[u] :
                    accepted[u][b] = task[w].item => u = w /\ b = p
        BY <2>2, InsertedPlace
      <4>2. v = w /\ a = p
        BY <3>3, <4>1
      <4>3. PICK g \in 1 .. h : task[w].item = accepted[w][g]
        BY <1>3, <3>1, <4>2
      <4>4. g \in DOMAIN accepted[w]
        <5>1. QueueIsYoungest(w)
          BY DEF FifoInv
        <5>2. /\ Taken(w) \in 0 .. Len(accepted[w]) /\ DOMAIN accepted[w] = 1 .. Len(accepted[w])
              /\ Len(accepted[w]) \in Nat
          BY <5>1, LengthsOf
        <5> QED  BY <1>3, <4>2, <5>2
      <4>5. g = p
        BY <4>1, <4>3, <4>4
      <4> QED  BY <4>2, <4>5
    <3> QED  BY <3>1, <3>2, <3>3
  <2> QED  BY <1>1, <2>1, <2>2
<1>4. ASSUME NEW v \in Workers
      PROVE  (QueueIsYoungest(v) /\ ChainedUpTo(v, Taken(v)) /\ OwnInHand(v))'
  <2>1. PICK n \in Nat, t \in Nat : n = Len(accepted[v]) /\ t = Taken(v) /\ t <= n
    <3>1. QueueIsYoungest(v)
      BY DEF FifoInv
    <3>2. Taken(v) \in 0 .. Len(accepted[v]) /\ Len(accepted[v]) \in Nat
      BY <3>1, LengthsOf
    <3> QED  BY <3>2
  <2>2. ChainedUpTo(v, t) /\ QueueIsYoungest(v) /\ OwnInHand(v)
    BY <2>1 DEF FifoInv
  <2>3. QueueIsYoungest(v)' /\ Taken(v)' \in t .. n
    <3>1. CASE queue'[v] = queue[v]
      <4>1. Taken(v)' = t
        BY <1>1, <2>1, <3>1 DEF Taken
      <4> QED  BY <1>1, <2>1, <2>2, <3>1, <4>1 DEF QueueIsYoungest
    <3>2. CASE queue'[v] = << >>
      <4>1. Len(queue'[v]) = 0
        BY <3>2
      <4>2. Taken(v)' = n - 0 /\ n - 0 = n
        BY <1>1, <2>1, <4>1 DEF Taken
      <4> QED  BY <1>1, <2>1, <4>1, <4>2 DEF QueueIsYoungest
    <3> QED  BY <1>1, <3>1, <3>2
  <2>4. PICK s \in t .. n : s = Taken(v)'
    BY <2>3
  <2>5. ChainedUpTo(v, t)'
    <3>1. task[v].pc # "idle" => \E g \in 1 .. t : task[v].item = accepted[v][g]
      BY <2>1, <2>2 DEF OwnInHand
    <3> QED  BY <1>3, <2>1, <2>2, <3>1
  <2>6. ChainedUpTo(v, s)'
    <3>1. \A a \in DOMAIN accepted[v] : a \in Nat
      BY LengthsOf
    <3>2. \A a \in Nat : a <= t => a <= s
      BY <2>1, <2>4
    <3> QED  BY <1>1, <2>5, <3>1, <3>2 DEF ChainedUpTo
  <2>7. OwnInHand(v)'
    <3> SUFFICES ASSUME task'[v].pc # "idle"
                 PROVE  \E h \in 1 .. Taken(v)' : task'[v].item = accepted'[v][h] /\ ChainedUpTo(v, h)'
      BY DEF OwnInHand
    <3>1. task[v].pc # "idle" /\ task'[v].item = task[v].item
      BY <1>1
    <3>2. PICK h \in 1 .. t : task[v].item = accepted[v][h] /\ ChainedUpTo(v, h)
      BY <2>1, <2>2, <3>1 DEF OwnInHand
    <3>3. ChainedUpTo(v, h)'
      <4>1. h \in 1 .. h /\ h \in 0 .. Taken(v)
        BY <2>1, <3>2
      <4> QED  BY <1>3, <3>2, <4>1
    <3>4. h \in 1 .. s
      BY <2>1, <2>4
    <3> QED  BY <1>1, <2>4, <3>1, <3>2, <3>3, <3>4
  <2> QED  BY <2>3, <2>4, <2>6, <2>7 DEF ChainedUpTo
<1>5. FifoPerProcess'
  <2>1. CASE UNCHANGED ledger
    BY <1>1, <2>1 DEF FifoInv, FifoPerProcess
  <2>2. CASE InsertRow(w)
    <3> SUFFICES ASSUME NEW v \in Workers, NEW a \in DOMAIN accepted[v], NEW b \in DOMAIN accepted[v],
                        NEW j \in DOMAIN ledger', NEW k \in DOMAIN ledger', a < b,
                        ledger'[j].entry = accepted[v][a], ledger'[k].entry = accepted[v][b]
                 PROVE  j < k
      BY <1>1 DEF FifoPerProcess
    <3>1. /\ ledger \in Seq(Rows) /\ DOMAIN ledger = 1 .. Len(ledger) /\ Len(ledger) \in Nat
          /\ NextRow(w) \in Rows /\ ledger' = Append(ledger, NextRow(w))
          /\ NextRow(w).entry = task[w].item
      <4>1. ledger \in Seq(Rows)
        BY DEF TypeOK, Rows
      <4>2. NextRow(w) \in Rows /\ ledger' = Append(ledger, NextRow(w))
        BY <2>2, RowTypes DEF InsertRow
      <4>3. NextRow(w).entry = task[w].item
        BY DEF NextRow, NewRow
      <4> QED  BY <4>1, <4>2, <4>3
    <3>2. /\ DOMAIN ledger' = 1 .. Len(ledger) + 1
          /\ \A x \in DOMAIN ledger : ledger'[x] = ledger[x]
          /\ ledger'[Len(ledger) + 1].entry = task[w].item
      BY <3>1, AppendFacts
    <3>3. PICK p \in 1 .. Taken(w) :
             /\ ChainedUpTo(w, p)
             /\ \A u \in Workers : \A x \in DOMAIN accepted[u] :
                   accepted[u][x] = task[w].item => u = w /\ x = p
      BY <2>2, InsertedPlace
    <3>4. /\ j \in DOMAIN ledger \/ j = Len(ledger) + 1
          /\ k \in DOMAIN ledger \/ k = Len(ledger) + 1
      BY <3>1, <3>2
    <3>5. CASE j \in DOMAIN ledger /\ k \in DOMAIN ledger
      BY <3>2, <3>5 DEF FifoInv, FifoPerProcess
    <3>6. CASE j \in DOMAIN ledger /\ k = Len(ledger) + 1
      BY <3>1, <3>6
    <3>7. CASE j = Len(ledger) + 1
      <4>1. v = w /\ a = p
        BY <3>2, <3>3, <3>7
      <4>2. CASE k \in DOMAIN ledger
        <5>1. accepted[v][b] \in Chained
          BY <3>2, <4>2 DEF Chained
        <5>2. b <= p
          BY <3>3, <4>1, <5>1 DEF ChainedUpTo
        <5>3. a \in Nat /\ b \in Nat
          BY LengthsOf
        <5> QED  BY <4>1, <5>2, <5>3
      <4>3. CASE k = Len(ledger) + 1
        <5>1. b = p
          BY <3>2, <3>3, <4>3
        <5>2. a \in Nat
          BY LengthsOf
        <5> QED  BY <4>1, <5>1, <5>2
      <4> QED  BY <3>4, <4>2, <4>3
    <3> QED  BY <3>4, <3>5, <3>6, <3>7
  <2> QED  BY <1>1, <2>1, <2>2
<1> QED  BY <1>2, <1>4, <1>5 DEF FifoInv

\* Every step keeps the order.
LEMMA FifoStep ==
    TypeOK /\ ChainInv /\ OnlyArrived /\ FifoInv /\ [Next]_vars => FifoInv'
<1> SUFFICES ASSUME TypeOK, ChainInv, OnlyArrived, FifoInv, [Next]_vars PROVE FifoInv'
  OBVIOUS
<1>1. CASE UNCHANGED vars
  <2>1. UNCHANGED <<accepted, queue, task, ledger>> /\ Chained' = Chained
    BY <1>1 DEF vars, Chained
  <2>2. AcceptedOnce' /\ FifoPerProcess'
    BY <2>1 DEF FifoInv, AcceptedOnce, FifoPerProcess
  <2>3. ASSUME NEW w \in Workers
        PROVE  (QueueIsYoungest(w) /\ ChainedUpTo(w, Taken(w)) /\ OwnInHand(w))'
    BY <2>1 DEF FifoInv, QueueIsYoungest, ChainedUpTo, OwnInHand, Taken
  <2> QED  BY <2>2, <2>3 DEF FifoInv
<1>2. ASSUME NEW w \in Workers, NEW i \in Items, EnqueueLog(w, i) PROVE FifoInv'
  BY <1>2, FifoEnqueue
<1>3. ASSUME NEW w \in Workers, GetItem(w) PROVE FifoInv'
  BY <1>3, FifoGetItem
<1>4. ASSUME NEW w \in Workers,
             Start(w) \/ Crash(w) \/ BeginStop(w) \/ StopStep(w) \/ (ConsumerStep(w) /\ ~GetItem(w))
      PROVE  FifoInv'
  BY <1>4, OrderKept, FifoKept
<1> QED  BY <1>1, <1>2, <1>3, <1>4 DEF Next

\* Entries of one process are chained in the order it accepted them, whatever
\* retries, lost acknowledgements, cancellations and kills come between.
THEOREM OrderIsKept == Spec => []FifoPerProcess
<1> DEFINE Inv == Types /\ ChainInv /\ DeliveryInv /\ FifoInv
<1>1. Init => Inv
  BY TypesInit, ChainInit, DeliveryInit, FifoInit
<1>2. Inv /\ [Next]_vars => Inv'
  BY TypesStep, ChainStep, DeliveryStep, FifoStep DEF Types, DeliveryInv
<1>3. Inv => FifoPerProcess
  BY DEF FifoInv
<1> QED  BY <1>1, <1>2, <1>3, PTL DEF Spec

------------------------------------------------------------------------------
(* stop().                                                                 *)

\* Where stop() is, what its process may still hold besides late entries.
StopPhases ==
    \A w \in Workers :
        /\ life[w] = "joined" => Held(w) \subseteq tardy
        /\ life[w] = "cancelling" => Range(queue[w]) \subseteq tardy
        /\ life[w] = "stopped" => Held(w) \subseteq tardy

\* Every step keeps what each phase of stop() promises of the queue and the
\* consumer.
LEMMA StopPhasesStep ==
    Types /\ ChainInv /\ StopPhases /\ [Next]_vars => StopPhases'
<1> SUFFICES ASSUME Types, ChainInv, StopPhases, [Next]_vars, NEW v \in Workers
             PROVE  /\ life'[v] = "joined" => Held(v)' \subseteq tardy'
                    /\ life'[v] = "cancelling" => Range(queue'[v]) \subseteq tardy'
                    /\ life'[v] = "stopped" => Held(v)' \subseteq tardy'
  BY DEF StopPhases
<1> DEFINE Goal == /\ life'[v] = "joined" => Held(v)' \subseteq tardy'
                   /\ life'[v] = "cancelling" => Range(queue'[v]) \subseteq tardy'
                   /\ life'[v] = "stopped" => Held(v)' \subseteq tardy'
<1>0. /\ TypeOK /\ DrainAccounting /\ life \in [Workers -> {"down", "up", "joining",
                                          "joined", "cancelling", "stopped"}]
      /\ task \in [Workers -> TaskStates] /\ queue \in [Workers -> Seq(Items)]
      /\ life[v] = "joined" => Held(v) \subseteq tardy
      /\ life[v] = "cancelling" => Range(queue[v]) \subseteq tardy
      /\ life[v] = "stopped" => Held(v) \subseteq tardy
  BY DEF Types, StopPhases, TypeOK, TaskStates
<1>1. CASE /\ life'[v] = life[v] /\ queue'[v] = queue[v] /\ tardy' = tardy
           /\ Held(v)' \subseteq Held(v)
  BY <1>0, <1>1
<1>2. CASE life'[v] \in {"down", "up", "joining"}
  BY <1>2
<1>3. ASSUME NEW w \in Workers, ConsumerStep(w) PROVE Goal
  <2>1. life' = life /\ tardy' = tardy /\ life[w] \in {"up", "joining", "joined"}
    BY <1>3 DEF ConsumerStep, GetItem, SelectLastHash, Persist, Collision,
                DatabaseError, AckLost, Running
  <2>2. Held(v)' \subseteq Held(v)
    BY <1>0, <1>3, ConsumerFlow DEF LetsGo
  <2>3. CASE v # w
    <3>1. queue'[v] = queue[v]
      BY <1>0, <1>3, <2>3 DEF ConsumerStep, GetItem, SelectLastHash, Persist, Collision,
                              DatabaseError, AckLost
    <3> QED  BY <1>1, <2>1, <2>2, <3>1
  <2>4. CASE v = w
    BY <1>0, <2>1, <2>2, <2>4
  <2> QED  BY <2>3, <2>4
<1>4. ASSUME NEW w \in Workers, LoseMemory(w) PROVE Goal
  <2>1. Held(v)' \subseteq Held(v)
    BY <1>0, <1>4, StopFlow DEF LetsGo
  <2> QED  BY <1>0, <1>1, <1>2, <1>4, <2>1 DEF LoseMemory
<1>5. ASSUME NEW w \in Workers, Start(w) \/ BeginStop(w) PROVE Goal
  <2>1. Held(v)' = Held(v) /\ UNCHANGED <<queue, tardy>>
    BY <1>5 DEF Start, BeginStop, Held, InFlight
  <2> QED  BY <1>0, <1>1, <1>2, <1>5, <2>1 DEF Start, BeginStop
<1>6. ASSUME NEW w \in Workers, NEW i \in Items, EnqueueLog(w, i) PROVE Goal
  <2>1. /\ UNCHANGED <<life, task>> /\ queue' = [queue EXCEPT ![w] = Append(@, i)]
        /\ tardy' = IF life[w] = "up" THEN tardy ELSE tardy \cup {i}
    BY <1>6 DEF EnqueueLog
  <2>2. CASE v # w
    <3>1. Held(v)' = Held(v) /\ queue'[v] = queue[v] /\ tardy \subseteq tardy'
      BY <1>0, <2>1, <2>2 DEF Held, InFlight
    <3> QED  BY <1>0, <2>1, <3>1
  <2>3. CASE v = w
    <3>1. Range(queue'[v]) = Range(queue[v]) \cup {i} /\ Held(v)' = Held(v) \cup {i}
      BY <1>0, <1>6, <2>1, <2>3, AppendFacts, EnqueueFlow
    <3>2. CASE life[v] = "up"
      BY <1>2, <2>1, <3>2
    <3>3. CASE life[v] # "up"
      BY <1>0, <2>1, <2>3, <3>1, <3>3
    <3> QED  BY <3>2, <3>3
  <2> QED  BY <2>2, <2>3
<1>7. ASSUME NEW w \in Workers, JoinReturns(w) PROVE Goal
  <2>1. UNCHANGED <<queue, task, tardy>> /\ life' = [life EXCEPT ![w] = "joined"]
        /\ unfinished[w] = 0
    BY <1>7 DEF JoinReturns
  <2>2. Held(v)' = Held(v)
    BY <2>1 DEF Held, InFlight
  <2>3. CASE v = w
    <3>1. life'[v] = "joined"
      BY <1>0, <2>1, <2>3
    <3>2. Len(queue[v]) + BusyCount(v) = 0 /\ Len(queue[v]) \in Nat /\ BusyCount(v) \in {0, 1}
      BY <1>0, <2>1, <2>3 DEF DrainAccounting, BusyCount
    <3>3. Len(queue[v]) = 0 /\ BusyCount(v) = 0
      BY <3>2
    <3>4. queue[v] = << >> /\ task[v].pc = "idle"
      BY <1>0, <3>3 DEF BusyCount
    <3>5. Range(queue[v]) = {}
      BY <3>4 DEF Range
    <3>6. InFlight(v) = {}
      BY <1>0, <3>4, IdleTask DEF InFlight
    <3>7. Held(v) = {}
      BY <3>5, <3>6 DEF Held
    <3> QED  BY <2>2, <3>1, <3>7
  <2>4. CASE v # w
    BY <1>0, <1>1, <2>1, <2>2, <2>4
  <2> QED  BY <2>3, <2>4
<1>8. ASSUME NEW w \in Workers, JoinTimesOut(w) PROVE Goal
  <2>1. /\ life' = [life EXCEPT ![w] = "cancelling"] /\ UNCHANGED <<task, tardy>>
        /\ queue' = [queue EXCEPT ![w] = << >>]
    BY <1>8 DEF JoinTimesOut
  <2>2. CASE v = w
    <3>1. Range(queue'[v]) = {} /\ life'[v] = "cancelling"
      BY <1>0, <2>1, <2>2 DEF Range
    <3> QED  BY <3>1
  <2>3. CASE v # w
    <3>1. Held(v)' = Held(v) /\ queue'[v] = queue[v] /\ life'[v] = life[v]
      BY <1>0, <2>1, <2>3 DEF Held, InFlight
    <3> QED  BY <1>1, <2>1, <3>1
  <2> QED  BY <2>2, <2>3
<1>9. ASSUME NEW w \in Workers, CancelConsumer(w) PROVE Goal
  <2>1. /\ life[w] \in {"joined", "cancelling"} /\ life' = [life EXCEPT ![w] = "stopped"]
        /\ UNCHANGED <<queue, tardy>>
        /\ \/ task[w].pc = "idle" /\ UNCHANGED task
           \/ task' = [task EXCEPT ![w] = Idle]
    BY <1>9 DEF CancelConsumer, TaskDone
  <2>2. CASE v = w
    <3>1. task'[v].pc = "idle" /\ task'[v].item = NoItem
      BY <1>0, <2>1, <2>2, IdleTask DEF Idle
    <3>2. Held(v)' = Range(queue[v]) /\ life'[v] = "stopped"
      BY <1>0, <2>1, <2>2, <3>1 DEF Held, InFlight
    <3>3. Range(queue[v]) \subseteq tardy
      BY <1>0, <2>1, <2>2 DEF Held
    <3> QED  BY <2>1, <3>2, <3>3
  <2>3. CASE v # w
    <3>1. Held(v)' = Held(v) /\ life'[v] = life[v]
      BY <1>0, <2>1, <2>3 DEF Held, InFlight
    <3> QED  BY <1>1, <2>1, <3>1
  <2> QED  BY <2>2, <2>3
<1>10. CASE UNCHANGED vars
  BY <1>1, <1>10 DEF vars, Held, InFlight
<1> QED
  BY <1>3, <1>4, <1>5, <1>6, <1>7, <1>8, <1>9, <1>10 DEF Next, StopStep, Crash, Exit

\* A process whose stop() has returned holds late entries only, so all it had
\* accepted before is settled.
LEMMA StoppedHoldsNothing ==
    ASSUME StopPhases, NoSilentLoss
    PROVE  StopLeavesNothing
BY DEF StopLeavesNothing, StopPhases, NoSilentLoss

\* After stop(), every entry the process had accepted before it is in the
\* ledger, on disk or reported lost by the disk, and none is left in its memory,
\* whatever callbacks enqueue meanwhile.
THEOREM StopDrains == Spec => []StopLeavesNothing
<1> DEFINE Inv == Types /\ ChainInv /\ DeliveryInv /\ StopPhases
<1>1. Init => Inv
  <2>1. Init => StopPhases
    BY DEF Init, StopPhases
  <2> QED  BY <2>1, TypesInit, ChainInit, DeliveryInit
<1>2. Inv /\ [Next]_vars => Inv'
  BY TypesStep, ChainStep, DeliveryStep, StopPhasesStep
<1>3. Inv => StopLeavesNothing
  BY StoppedHoldsNothing DEF DeliveryInv
<1> QED  BY <1>1, <1>2, <1>3, PTL DEF Spec

------------------------------------------------------------------------------
(* The worker implements AuditTrail.                                       *)

\* The first state of the worker is one of the abstract trail.
LEMMA TrailInit == Init => Trail!Init
<1> SUFFICES ASSUME Init PROVE Trail!Init
  OBVIOUS
<1>1. Arrived = {}
  BY DEF Init, Arrived, Range
<1>2. TailHash(ledger) = << >>
  BY DEF Init, TailHash, Genesis
<1> QED  BY <1>1, <1>2 DEF Init, Trail!Init

\* Every step of the worker is a step of the trail, or leaves the trail as it is.
LEMMA TrailStep == Types /\ ChainInv /\ DeliveryInv /\ [Next]_vars => [Trail!Next]_Trail!trail
<1> SUFFICES ASSUME Types, ChainInv, DeliveryInv, [Next]_vars
             PROVE  Trail!Next \/ UNCHANGED Trail!trail
  OBVIOUS
<1>0. TypeOK /\ OnlyArrived
  BY DEF Types, DeliveryInv
<1>1. CASE UNCHANGED <<queue, task, ledger, dumped, accepted, lost>>
  BY <1>1 DEF Trail!trail, Arrived
<1>2. ASSUME NEW w \in Workers, LetsGo(w)
      PROVE  Trail!Next
  <2>1. UNCHANGED Arrived /\ Held(w) \subseteq Arrived
    BY <1>0, <1>2 DEF LetsGo, Arrived, OnlyArrived
  <2>2. Trail!GiveUp(dumped' \cap Arrived, lost' \cap Arrived)
    BY <1>0, <1>2, <2>1 DEF LetsGo, OnlyArrived, Trail!GiveUp
  <2>3. dumped' \cap Arrived \in SUBSET Arrived /\ lost' \cap Arrived \in SUBSET Arrived
    OBVIOUS
  <2>4. UNCHANGED TailHash(ledger) \/ \E i \in Items : Trail!Record(i)
    <3>1. CASE UNCHANGED ledger
      BY <3>1
    <3>2. CASE InsertRow(w)
      <4>1. task[w].item \in Held(w)
        BY <1>0, <3>2, BusyTask DEF InsertRow, Held, InFlight
      <4>2. task[w].item \in Items \ Chained
            /\ TailHash(ledger)' = Append(TailHash(ledger), task[w].item)
        BY <1>0, <3>2, InsertExtends
      <4>3. Trail!Recorded = Chained
        BY DEF ChainInv, TailCommits, Range, Trail!Recorded
      <4>4. Trail!Record(task[w].item)
        BY <2>1, <4>1, <4>2, <4>3 DEF Trail!Record
      <4> QED  BY <4>2, <4>4
    <3> QED  BY <1>2, <3>1, <3>2 DEF LetsGo
  <2>5. Trail!Resolve
    BY <2>1, <2>2, <2>3, <2>4 DEF Trail!Resolve
  <2> QED  BY <2>5 DEF Trail!Next
<1>3. ASSUME NEW w \in Workers, NEW i \in Items, EnqueueLog(w, i)
      PROVE  Trail!Next
  <2>1. UNCHANGED TailHash(ledger)
    BY <1>0, <1>3, EnqueueFlow
  <2>2. Trail!Arrive(i)
    BY <1>0, <1>3, <2>1, EnqueueFlow DEF Trail!Arrive
  <2> QED  BY <2>2 DEF Trail!Next
<1>4. CASE Next
  BY <1>0, <1>1, <1>2, <1>3, <1>4, StepKinds
<1> QED  BY <1>1, <1>4 DEF vars

\* The processes, their retries and shutdowns, and the constraints of the
\* table together implement the append-only trail.
THEOREM WorkerImplementsTrail == Spec => ImplementsTrail
<1> DEFINE Inv == Types /\ ChainInv /\ DeliveryInv
<1>1. Init => Inv /\ Trail!Init
  BY TypesInit, ChainInit, DeliveryInit, TrailInit
<1>2. Inv /\ [Next]_vars => Inv' /\ [Trail!Next]_Trail!trail
  BY TypesStep, ChainStep, DeliveryStep, TrailStep
<1> HIDE DEF Inv
<1>3. Init /\ [][Next]_vars => Trail!Init /\ [][Trail!Next]_Trail!trail
  BY <1>1, <1>2, PTL
<1> QED  BY <1>3 DEF Spec, ImplementsTrail, Trail!Spec
==============================================================================
