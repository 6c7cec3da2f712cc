---------------------------- MODULE GatewayProofs ----------------------------
(***************************************************************************)
(* Proofs about Gateway, for any processes, exchanges, attempts and faults.*)
(* A proxy process drives its worker only as AuditWorker allows, so what   *)
(* AuditWorkerProofs proves holds of it; and what the shutdown of the      *)
(* process adds is that the exchanges it answered are settled.             *)
(***************************************************************************)
EXTENDS Gateway, AuditWorkerProofs

------------------------------------------------------------------------------
(* The gateway is the environment AuditWorker assumes.                     *)

\* Every step of a process is one of its worker, or none.
LEMMA GatewayRefines == [GatewayNext]_gatewayVars => [Next]_vars
<1> SUFFICES ASSUME [GatewayNext]_gatewayVars PROVE Next \/ UNCHANGED vars
  OBVIOUS
<1>1. CASE UNCHANGED gatewayVars
  BY <1>1 DEF gatewayVars
<1>2. ASSUME NEW w \in Workers, Serve(w) PROVE Next
  BY <1>2 DEF Serve, Next
<1>3. ASSUME NEW w \in Workers, NEW i \in Items, ReceiveStandard(w, i) \/ ReceiveStream(w, i)
      PROVE  Next \/ UNCHANGED vars
  BY <1>3 DEF ReceiveStandard, ReceiveStream, Next
<1>4. ASSUME NEW w \in Workers, ExchangeStep(w) PROVE Next \/ UNCHANGED vars
  <2>1. PICK i \in Items : \/ Answer(w, i) \/ BeginStream(w, i) \/ SkipStream(w, i)
                           \/ EndStream(w, i) \/ LeaveStream(w, i) \/ CloseLeft(w, i)
    BY <1>4 DEF ExchangeStep
  <2>2. EnqueueLog(w, i) \/ UNCHANGED vars
    BY <2>1 DEF Answer, BeginStream, SkipStream, EndStream, LeaveStream, CloseLeft
  <2> QED  BY <2>2 DEF Next
<1>5. ASSUME NEW w \in Workers, ConsumerStep(w) PROVE Next
  BY <1>5 DEF Next
<1>6. ASSUME NEW w \in Workers, BackfillEnds(w) \/ Drain(w) PROVE UNCHANGED vars
  BY <1>6 DEF BackfillEnds, Drain
<1>7. ASSUME NEW w \in Workers, ShutdownStep(w) PROVE Next \/ UNCHANGED vars
  <2>1. \/ BeginShutdown(w) \/ BackfillCancelled(w) \/ StopWorker(w)
        \/ JoinReturns(w) \/ JoinTimesOut(w) \/ CancelConsumer(w) \/ Quit(w)
    BY <1>7 DEF ShutdownStep, StopProceeds
  <2>2. UNCHANGED vars \/ BeginStop(w) \/ StopStep(w)
    BY <2>1 DEF BeginShutdown, BackfillCancelled, StopWorker, Quit, StopStep
  <2> QED  BY <2>2 DEF Next
<1>8. ASSUME NEW w \in Workers, Kill(w) PROVE Next
  BY <1>8 DEF Kill, Next
<1> QED  BY <1>1, <1>2, <1>3, <1>4, <1>5, <1>6, <1>7, <1>8 DEF GatewayNext

\* A gateway, its exchanges and its shutdown included, is a behaviour of the
\* worker: what holds of AuditWorker holds here.
THEOREM GatewayImplementsWorker == GatewaySpec => Spec
<1>1. GatewayInit => Init
  BY DEF GatewayInit
<1>2. [GatewayNext]_gatewayVars => [Next]_vars
  BY GatewayRefines
<1>3. GatewayInit /\ [][GatewayNext]_gatewayVars => Init /\ [][Next]_vars
  BY <1>1, <1>2, PTL
<1> QED  BY <1>3 DEF GatewaySpec, Spec

------------------------------------------------------------------------------
(* The shutdown.                                                           *)

\* Once the server is past the yield, nothing is left to answer.
NothingToAnswer ==
    \A w \in Workers, i \in Items :
        server[w] = "closing" /\ host[i] = w => phase[i] \notin Answering

\* An exchange that was answered is in the worker of its process.
AnsweredWasAccepted ==
    \A i \in Items : phase[i] = "answered" =>
        host[i] \in Workers /\ i \in Range(accepted[host[i]])

GatewayInv == GatewayTypeOK /\ NothingToAnswer /\ TardyWasLeft /\ AnsweredWasAccepted

\* The invariant holds before any process has started.
LEMMA GatewayInvInit == GatewayInit => GatewayInv
  BY GatewayAssumption
     DEF GatewayInit, Init, GatewayInv, GatewayTypeOK, NothingToAnswer, TardyWasLeft,
         AnsweredWasAccepted, Unfinished, Answering

\* What an entry handed over changes of the worker.
LEMMA EnqueueEffect ==
    ASSUME TypeOK, NEW w \in Workers, NEW i \in Items, EnqueueLog(w, i)
    PROVE  /\ life' = life /\ life[w] # "down"
           /\ tardy' = IF life[w] = "up" THEN tardy ELSE tardy \cup {i}
           /\ i \in Range(accepted'[w])
           /\ \A v \in Workers : Range(accepted[v]) \subseteq Range(accepted'[v])
<1>1. /\ accepted' = [accepted EXCEPT ![w] = Append(@, i)] /\ accepted \in [Workers -> Seq(Items)]
  BY DEF EnqueueLog, TypeOK
<1>2. Range(Append(accepted[w], i)) = Range(accepted[w]) \cup {i}
  BY <1>1, AppendFacts
<1> QED  BY <1>1, <1>2 DEF EnqueueLog, CanEnqueue

\* The consumer leaves the life of its process and what it accepted alone.
LEMMA ConsumerEffect ==
    ASSUME NEW w \in Workers, ConsumerStep(w)
    PROVE  UNCHANGED <<life, tardy, accepted>>
  BY DEF ConsumerStep, GetItem, SelectLastHash, Persist, Collision, DatabaseError, AckLost

\* One exchange moves on, with or without its entry, and its process stays.
LEMMA ExchangeMoves ==
    ASSUME TypeOK, GatewayInv, NEW w \in Workers, NEW i \in Items,
           NEW p \in {"answered", "raised", "closed", "skipped", "relaying", "left"},
           At(w, i, "asking") \/ At(w, i, "unstarted") \/ At(w, i, "relaying") \/ At(w, i, "left"),
           p \in {"relaying", "left"} \/ p = "answered" => phase[i] \in Answering,
           Becomes(i, p), UNCHANGED <<host, server, backfill>>,
           asked' \subseteq Items,
           \/ UNCHANGED vars /\ p \notin {"answered", "closed"}
           \/ EnqueueLog(w, i) /\ p \in {"answered", "closed"}
    PROVE  GatewayInv'
<1>1. /\ phase' = [phase EXCEPT ![i] = p] /\ host' = host /\ server' = server /\ backfill' = backfill
      /\ host[i] = w
      /\ phase \in [Items -> {"none", "answered", "raised", "closed", "skipped", "cut"} \cup Unfinished]
  BY DEF Becomes, At, GatewayInv, GatewayTypeOK
<1>2. /\ life' = life
      /\ \A v \in Workers : Range(accepted[v]) \subseteq Range(accepted'[v])
      /\ p = "answered" => i \in Range(accepted'[w])
      /\ tardy' \in {tardy, tardy \cup {i}}
      /\ tardy' # tardy => life[w] \notin {"up", "down"} /\ p \in {"answered", "closed"}
  BY EnqueueEffect DEF vars
<1>3. GatewayTypeOK'
  BY <1>1, <1>2 DEF GatewayInv, GatewayTypeOK, Unfinished, Answering
<1>4. NothingToAnswer'
  BY <1>1 DEF GatewayInv, NothingToAnswer, Answering, At
<1>5. TardyWasLeft'
  <2>1. ASSUME tardy' # tardy PROVE p = "closed"
    <3>1. server[w] = "closing"
      BY <1>2, <2>1 DEF GatewayInv, GatewayTypeOK
    <3> QED  BY <1>1, <1>2, <2>1, <3>1 DEF GatewayInv, NothingToAnswer
  <2>2. i \notin tardy
    BY <1>1 DEF GatewayInv, TardyWasLeft, At
  <2>3. tardy \subseteq Items
    BY DEF TypeOK
  <2> QED  BY <1>1, <1>2, <2>1, <2>2, <2>3 DEF GatewayInv, TardyWasLeft
<1>6. AnsweredWasAccepted'
  BY <1>1, <1>2 DEF GatewayInv, AnsweredWasAccepted
<1> QED  BY <1>3, <1>4, <1>5, <1>6 DEF GatewayInv

\* It is inductive: no exchange, no step of the worker and no shutdown breaks it.
LEMMA GatewayInvStep == TypeOK /\ GatewayInv /\ [GatewayNext]_gatewayVars => GatewayInv'
<1> SUFFICES ASSUME TypeOK, GatewayInv, [GatewayNext]_gatewayVars PROVE GatewayInv'
  OBVIOUS
<1>1. CASE UNCHANGED gatewayVars
  <2>1. UNCHANGED <<life, tardy, accepted, phase, host, asked, server, backfill>>
    BY <1>1 DEF gatewayVars, vars
  <2> QED  BY <2>1 DEF GatewayInv, GatewayTypeOK, NothingToAnswer, TardyWasLeft, AnsweredWasAccepted
<1>2. ASSUME NEW w \in Workers, Serve(w) PROVE GatewayInv'
  <2>1. /\ life[w] = "down" /\ life' = [life EXCEPT ![w] = "up"]
        /\ server' = [server EXCEPT ![w] = "serving"]
        /\ backfill' = [backfill EXCEPT ![w] = TRUE]
        /\ UNCHANGED <<tardy, accepted, phase, host, asked>>
    BY <1>2 DEF Serve, Start, exchanges
  <2>2. GatewayTypeOK'
    BY <2>1 DEF TypeOK, GatewayInv, GatewayTypeOK
  <2>3. NothingToAnswer' /\ TardyWasLeft' /\ AnsweredWasAccepted'
    BY <2>1 DEF GatewayInv, GatewayTypeOK, NothingToAnswer, TardyWasLeft, AnsweredWasAccepted
  <2> QED  BY <2>2, <2>3 DEF GatewayInv
<1>3. ASSUME NEW w \in Workers, NEW i \in Items, ReceiveStandard(w, i) \/ ReceiveStream(w, i)
      PROVE  GatewayInv'
  <2>1. /\ server[w] = "serving" /\ life[w] = "up" /\ phase[i] = "none"
        /\ host' = [host EXCEPT ![i] = w]
        /\ asked' \subseteq Items
        /\ UNCHANGED <<server, backfill>>
    BY <1>3 DEF ReceiveStandard, ReceiveStream, process, GatewayInv, GatewayTypeOK
  <2>2. \/ /\ phase' = [phase EXCEPT ![i] = "answered"] /\ EnqueueLog(w, i)
        \/ /\ \E p \in {"asking", "unstarted"} : phase' = [phase EXCEPT ![i] = p]
           /\ UNCHANGED vars
    BY <1>3 DEF ReceiveStandard, ReceiveStream, Becomes
  <2>3. /\ life' = life /\ tardy' = tardy
        /\ \A v \in Workers : Range(accepted[v]) \subseteq Range(accepted'[v])
        /\ phase'[i] = "answered" => i \in Range(accepted'[w])
    BY <2>1, <2>2, EnqueueEffect DEF vars, GatewayInv, GatewayTypeOK
  <2>4. /\ phase'[i] \in {"answered", "asking", "unstarted"} /\ host'[i] = w
        /\ \A j \in Items \ {i} : phase'[j] = phase[j] /\ host'[j] = host[j]
        /\ phase' \in [Items -> {"none", "answered", "raised", "closed", "skipped", "cut"}
                                    \cup Unfinished]
    BY <2>1, <2>2 DEF GatewayInv, GatewayTypeOK, Unfinished, Answering
  <2>5. GatewayTypeOK'
    BY <2>1, <2>3, <2>4 DEF GatewayInv, GatewayTypeOK
  <2>6. NothingToAnswer'
    BY <2>1, <2>4 DEF GatewayInv, NothingToAnswer
  <2>7. TardyWasLeft'
    BY <2>1, <2>3, <2>4 DEF TypeOK, GatewayInv, TardyWasLeft
  <2>8. AnsweredWasAccepted'
    BY <2>1, <2>3, <2>4 DEF GatewayInv, AnsweredWasAccepted
  <2> QED  BY <2>5, <2>6, <2>7, <2>8 DEF GatewayInv
<1>4. ASSUME NEW w \in Workers, NEW i \in Items,
             \/ Answer(w, i) \/ BeginStream(w, i) \/ SkipStream(w, i)
             \/ EndStream(w, i) \/ LeaveStream(w, i) \/ CloseLeft(w, i)
      PROVE  GatewayInv'
  <2>1. asked \subseteq Items
    BY DEF GatewayInv, GatewayTypeOK
  <2>2. CASE Answer(w, i)
    BY <2>1, <2>2, ExchangeMoves DEF Answer, process, At, Answering
  <2>3. CASE BeginStream(w, i)
    BY <2>1, <2>3, ExchangeMoves DEF BeginStream, process, At, Answering
  <2>4. CASE SkipStream(w, i)
    BY <2>1, <2>4, ExchangeMoves DEF SkipStream, process, At, Answering
  <2>5. CASE EndStream(w, i)
    BY <2>1, <2>5, ExchangeMoves DEF EndStream, process, At, Answering
  <2>6. CASE LeaveStream(w, i)
    BY <2>1, <2>6, ExchangeMoves DEF LeaveStream, process, At, Answering
  <2>7. CASE CloseLeft(w, i)
    BY <2>1, <2>7, ExchangeMoves DEF CloseLeft, process, At, Answering
  <2> QED  BY <1>4, <2>2, <2>3, <2>4, <2>5, <2>6, <2>7
<1>5. ASSUME NEW w \in Workers, ConsumerStep(w), UNCHANGED <<exchanges, process>>
      PROVE  GatewayInv'
  <2>1. UNCHANGED <<life, tardy, accepted, phase, host, asked, server, backfill>>
    BY <1>5, ConsumerEffect DEF exchanges, process
  <2> QED  BY <2>1 DEF GatewayInv, GatewayTypeOK, NothingToAnswer, TardyWasLeft, AnsweredWasAccepted
<1>6. ASSUME NEW w \in Workers,
             BackfillEnds(w) \/ Drain(w) \/ BeginShutdown(w) \/ BackfillCancelled(w)
      PROVE  GatewayInv'
  <2>1. /\ UNCHANGED <<life, tardy, accepted, phase, host, asked>>
        /\ backfill' \in [Workers -> BOOLEAN]
        /\ \/ server' = server
           \/ server[w] = "serving" /\ server' = [server EXCEPT ![w] = "draining"]
           \/ /\ server[w] = "draining" /\ server' = [server EXCEPT ![w] = "closing"]
              /\ \A i \in Items : host[i] = w => phase[i] \notin Answering
    BY <1>6 DEF BackfillEnds, Drain, BeginShutdown, BackfillCancelled, exchanges, vars,
                GatewayInv, GatewayTypeOK
  <2>2. GatewayTypeOK'
    BY <2>1 DEF GatewayInv, GatewayTypeOK
  <2>3. NothingToAnswer'
    BY <2>1 DEF GatewayInv, GatewayTypeOK, NothingToAnswer
  <2>4. TardyWasLeft' /\ AnsweredWasAccepted'
    BY <2>1 DEF GatewayInv, TardyWasLeft, AnsweredWasAccepted
  <2> QED  BY <2>2, <2>3, <2>4 DEF GatewayInv
<1>7. ASSUME NEW w \in Workers,
             StopWorker(w) \/ StopProceeds(w)
      PROVE  GatewayInv'
  <2>1. /\ UNCHANGED <<tardy, accepted, phase, host, asked, server, backfill>>
        /\ \E l \in {"joining", "joined", "cancelling", "stopped"} :
               life' = [life EXCEPT ![w] = l]
        /\ server[w] = "closing" \/ life[w] \in {"joining", "joined", "cancelling"}
    BY <1>7 DEF StopWorker, StopProceeds, BeginStop, JoinReturns, JoinTimesOut, CancelConsumer, exchanges, process
  <2>2. server[w] = "closing"
    BY <2>1 DEF GatewayInv, GatewayTypeOK
  <2>3. GatewayTypeOK'
    BY <2>1, <2>2 DEF TypeOK, GatewayInv, GatewayTypeOK
  <2> QED  BY <2>1, <2>3 DEF GatewayInv, NothingToAnswer, TardyWasLeft, AnsweredWasAccepted
<1>8. ASSUME NEW w \in Workers, Quit(w) \/ Kill(w) PROVE GatewayInv'
  <2>1. /\ life' = [life EXCEPT ![w] = "down"] /\ UNCHANGED <<tardy, accepted, host, asked>>
        /\ ProcessEnds(w)
    BY <1>8 DEF Quit, Kill, Exit, Crash, LoseMemory, ProcessEnds
  <2>2. \A i \in Items : phase'[i] = phase[i] \/ (phase[i] \in Unfinished /\ phase'[i] = "cut")
    BY <2>1 DEF ProcessEnds
  <2>3. GatewayTypeOK'
    BY <2>1, <2>2 DEF TypeOK, GatewayInv, GatewayTypeOK, ProcessEnds
  <2>4. NothingToAnswer'
    BY <2>1, <2>2 DEF GatewayInv, GatewayTypeOK, NothingToAnswer, ProcessEnds, Answering
  <2>5. TardyWasLeft'
    BY <2>1, <2>2 DEF TypeOK, GatewayInv, TardyWasLeft, Unfinished, Answering
  <2>6. AnsweredWasAccepted'
    BY <2>1, <2>2 DEF GatewayInv, AnsweredWasAccepted
  <2> QED  BY <2>3, <2>4, <2>5, <2>6 DEF GatewayInv
<1>9. ASSUME NEW w \in Workers, ExchangeStep(w) PROVE GatewayInv'
  BY <1>4, <1>9 DEF ExchangeStep
<1>10. ASSUME NEW w \in Workers, ShutdownStep(w) PROVE GatewayInv'
  <2>1. CASE BeginShutdown(w) \/ BackfillCancelled(w)
    BY <1>6, <2>1
  <2>2. CASE StopWorker(w) \/ StopProceeds(w)
    BY <1>7, <2>2
  <2>3. CASE Quit(w)
    BY <1>8, <2>3
  <2> QED  BY <1>10, <2>1, <2>2, <2>3 DEF ShutdownStep
<1> QED  BY <1>1, <1>2, <1>3, <1>5, <1>6, <1>8, <1>9, <1>10 DEF GatewayNext

\* So it holds for ever.
LEMMA GatewayInvAlways == GatewaySpec => []GatewayInv
<1>1. GatewaySpec => []TypeOK
  BY GatewayImplementsWorker, TypesAlways, PTL
<1> QED  BY <1>1, GatewayInvInit, GatewayInvStep, PTL DEF GatewaySpec

\* Types, and the server and the worker of a process agree: it accepts and
\* drains only with its worker up, and both are gone together.
THEOREM GatewayTypesAlways == GatewaySpec => []GatewayTypeOK
<1>1. GatewayInv => GatewayTypeOK
  BY DEF GatewayInv
<1> QED  BY <1>1, GatewayInvAlways, PTL

\* What enqueues after stop() was called is a generator its client had left:
\* uvicorn's wait for the requests covers every other exchange.
THEOREM OnlyLeftStreamsAreTardy == GatewaySpec => []TardyWasLeft
<1>1. GatewayInv => TardyWasLeft
  BY DEF GatewayInv
<1> QED  BY <1>1, GatewayInvAlways, PTL

\* A clean shutdown settles every exchange the process answered: the wait of
\* the server, the order of lifespan and the drain of the worker together.
THEOREM CleanStopSettles == GatewaySpec => []CleanStopKeepsAnswered
<1>1. GatewaySpec => []StopLeavesNothing
  BY GatewayImplementsWorker, StopDrains, PTL
<1>2. GatewayInv /\ StopLeavesNothing => CleanStopKeepsAnswered
  <2> SUFFICES ASSUME GatewayInv, StopLeavesNothing,
                      NEW w \in Workers, NEW i \in Items, life[w] = "stopped", host[i] = w
               PROVE  phase[i] \notin Answering /\ (phase[i] = "answered" => i \in Settled)
    BY DEF CleanStopKeepsAnswered
  <2>1. server[w] = "closing"
    BY DEF GatewayInv, GatewayTypeOK
  <2>2. phase[i] \notin Answering
    BY <2>1 DEF GatewayInv, NothingToAnswer
  <2>3. phase[i] = "answered" => i \in Settled \cup tardy
    BY DEF GatewayInv, AnsweredWasAccepted, StopLeavesNothing
  <2>4. phase[i] = "answered" => i \notin tardy
    BY DEF GatewayInv, TardyWasLeft
  <2> QED  BY <2>2, <2>3, <2>4
<1> QED  BY <1>1, <1>2, GatewayInvAlways, PTL
===============================================================================
