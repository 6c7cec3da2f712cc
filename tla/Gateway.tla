------------------------------- MODULE Gateway -------------------------------
(***************************************************************************)
(* A proxy process as a whole: the exchanges of proxy_routes.py and        *)
(* forwarder.py, each handing one entry to the worker of AuditWorker, and  *)
(* the lifespan of main.py that ends them.  An exchange is named by its    *)
(* request_id, which is also the entry it leaves.                          *)
(*                                                                         *)
(* The server (uvicorn) stops accepting on a signal, waits for the         *)
(* requests it is answering and then resumes lifespan; it does not wait    *)
(* for a generator nobody iterates any more.  What a stream carries is     *)
(* the matter of StreamGuard; here it begins, and ends in its finally.     *)
(*                                                                         *)
(* A definition X_Something, before X, is X with a plausible bug in it; no *)
(* specification uses it.                                                  *)
(***************************************************************************)
EXTENDS AuditWorker

CONSTANT NoWorker   \* no process has the exchange

ASSUME GatewayAssumption ==
    /\ NoWorker \notin Workers
    /\ "late" \in Faults

VARIABLES
    phase,      \* where each exchange is
    host,       \* the process that has it
    asked,      \* history: exchanges whose request went to the provider
    server,     \* of each process: accepting, draining, or past the yield of lifespan
    backfill    \* whether its _backfill_task runs

exchanges == <<phase, host, asked>>
process == <<server, backfill>>
gatewayVars == <<vars, phase, host, asked, server, backfill>>

GatewayInit ==
    /\ Init
    /\ phase = [i \in Items |-> "none"]
    /\ host = [i \in Items |-> NoWorker]
    /\ asked = {}
    /\ server = [w \in Workers |-> "off"]
    /\ backfill = [w \in Workers |-> FALSE]

\* Phases the server waits for, and those that still need the process.
Answering == {"asking", "unstarted", "relaying"}
Unfinished == Answering \cup {"left"}

At(w, i, p) == host[i] = w /\ phase[i] = p
Becomes(i, p) == phase' = [phase EXCEPT ![i] = p]

------------------------------------------------------------------------------
(* chat_completions.  A request without the key or with a body that is not *)
(* a JSON object is refused before it has a request_id.                    *)

ReceiveStandard(w, i) ==
    /\ server[w] = "serving"
    /\ phase[i] = "none"
    /\ host' = [host EXCEPT ![i] = w]
    /\ \/ Becomes(i, "asking") /\ asked' = asked \cup {i} /\ UNCHANGED vars
       \/ Becomes(i, "answered") /\ UNCHANGED asked /\ EnqueueLog(w, i)
    /\ UNCHANGED process

ReceiveStream_AsksAtOnce(w, i) ==
    /\ server[w] = "serving"
    /\ phase[i] = "none"
    /\ host' = [host EXCEPT ![i] = w]
    /\ Becomes(i, "unstarted")
    /\ asked' = asked \cup {i}
    /\ UNCHANGED <<vars, process>>

\* The StreamingResponse is returned; nothing runs until it is iterated.
ReceiveStream(w, i) ==
    /\ server[w] = "serving"
    /\ phase[i] = "none"
    /\ host' = [host EXCEPT ![i] = w]
    /\ Becomes(i, "unstarted")
    /\ UNCHANGED <<asked, vars, process>>

\* Whatever the provider answered, or that it did not, is recorded before the
\* client gets it, also when the client is gone.  A body that is JSON but not
\* an object raises in _extract_tool_calls and is not.
Answer(w, i) ==
    /\ At(w, i, "asking")
    /\ \/ Becomes(i, "answered") /\ EnqueueLog(w, i)
       \/ Becomes(i, "raised") /\ UNCHANGED vars
    /\ UNCHANGED <<host, asked, process>>

\* The generator begins, and asks the provider unless the credential is missing.
BeginStream(w, i) ==
    /\ At(w, i, "unstarted")
    /\ Becomes(i, "relaying")
    /\ asked' \in {asked, asked \cup {i}}
    /\ UNCHANGED <<host, vars, process>>

\* The client was gone before: a generator that never began has no finally.
SkipStream(w, i) ==
    /\ At(w, i, "unstarted")
    /\ Becomes(i, "skipped")
    /\ UNCHANGED <<host, asked, vars, process>>

\* The finally of the generator, which _materialize stops when the provider's
\* indexes cannot be sorted.
EndStream(w, i) ==
    /\ At(w, i, "relaying")
    /\ \/ Becomes(i, "answered") /\ EnqueueLog(w, i)
       \/ Becomes(i, "raised") /\ UNCHANGED vars
    /\ UNCHANGED <<host, asked, process>>

\* The client goes while the generator waits at a yield: the response ends, and
\* the generator is closed by a task of its own in some later turn.
LeaveStream(w, i) ==
    /\ At(w, i, "relaying")
    /\ Becomes(i, "left")
    /\ UNCHANGED <<host, asked, vars, process>>

CloseLeft(w, i) ==
    /\ At(w, i, "left")
    /\ \/ Becomes(i, "closed") /\ EnqueueLog(w, i)
       \/ Becomes(i, "raised") /\ UNCHANGED vars
    /\ UNCHANGED <<host, asked, process>>

------------------------------------------------------------------------------
(* lifespan.                                                               *)

\* init_db has come back (SchemaMigration); the worker and the backfill start.
Serve(w) ==
    /\ Start(w)
    /\ server' = [server EXCEPT ![w] = "serving"]
    /\ backfill' = [backfill EXCEPT ![w] = TRUE]
    /\ UNCHANGED exchanges

\* It ends by itself, whether it archived or raised.
BackfillEnds(w) ==
    /\ server[w] \in {"serving", "draining"}
    /\ backfill[w]
    /\ backfill' = [backfill EXCEPT ![w] = FALSE]
    /\ UNCHANGED <<server, exchanges, vars>>

Drain(w) ==
    /\ server[w] = "serving"
    /\ server' = [server EXCEPT ![w] = "draining"]
    /\ UNCHANGED <<backfill, exchanges, vars>>

BeginShutdown_NoWait(w) ==
    /\ server[w] = "draining"
    /\ server' = [server EXCEPT ![w] = "closing"]
    /\ UNCHANGED <<backfill, exchanges, vars>>

\* Past the yield: the scheduler is shut down and the backfill cancelled.
BeginShutdown(w) ==
    /\ server[w] = "draining"
    /\ \A i \in Items : host[i] = w => phase[i] \notin Answering
    /\ server' = [server EXCEPT ![w] = "closing"]
    /\ UNCHANGED <<backfill, exchanges, vars>>

\* The memory of the process goes, with its exchanges.
ProcessEnds(w) ==
    /\ phase' = [i \in Items |->
                    IF host[i] = w /\ phase[i] \in Unfinished THEN "cut" ELSE phase[i]]
    /\ server' = [server EXCEPT ![w] = "off"]
    /\ backfill' = [backfill EXCEPT ![w] = FALSE]
    /\ UNCHANGED <<host, asked>>

\* await _backfill_task: the CancelledError is expected.
BackfillCancelled(w) ==
    /\ server[w] = "closing"
    /\ backfill[w]
    /\ backfill' = [backfill EXCEPT ![w] = FALSE]
    /\ UNCHANGED <<server, exchanges, vars>>

StopWorker_BeforeDrain(w) ==
    /\ server[w] = "draining"
    /\ BeginStop(w)
    /\ UNCHANGED <<exchanges, process>>

StopWorker(w) ==
    /\ server[w] = "closing"
    /\ ~backfill[w]
    /\ BeginStop(w)
    /\ UNCHANGED <<exchanges, process>>

StopProceeds(w) ==
    /\ JoinReturns(w) \/ JoinTimesOut(w) \/ CancelConsumer(w)
    /\ UNCHANGED <<exchanges, process>>

Quit(w) == Exit(w) /\ ProcessEnds(w)

\* The process is killed; or the cancelled backfill raises something else than
\* CancelledError, which leaves lifespan before it reaches stop().
Kill(w) == Crash(w) /\ ProcessEnds(w)

------------------------------------------------------------------------------

ExchangeStep(w) ==
    \E i \in Items :
        \/ Answer(w, i)
        \/ BeginStream(w, i)
        \/ SkipStream(w, i)
        \/ EndStream(w, i)
        \/ LeaveStream(w, i)
        \/ CloseLeft(w, i)

\* What the signal sets off, up to the end of the process.
ShutdownStep(w) ==
    \/ BeginShutdown(w)
    \/ BackfillCancelled(w)
    \/ StopWorker(w)
    \/ StopProceeds(w)
    \/ Quit(w)

GatewayNext ==
    \E w \in Workers :
        \/ Serve(w)
        \/ \E i \in Items : ReceiveStandard(w, i) \/ ReceiveStream(w, i)
        \/ ExchangeStep(w)
        \/ ConsumerStep(w) /\ UNCHANGED <<exchanges, process>>
        \/ BackfillEnds(w)
        \/ Drain(w)
        \/ ShutdownStep(w)
        \/ Kill(w)

GatewaySpec == GatewayInit /\ [][GatewayNext]_gatewayVars

\* The event loop resumes what awaits.  A provider answers, fails or times out
\* (UPSTREAM_TIMEOUT), a stream ends or its client goes, a database call ends
\* with one of its outcomes, and wait_for bounds the join.
FairGatewaySpec ==
    /\ GatewaySpec
    /\ \A w \in Workers :
        /\ WF_gatewayVars(ExchangeStep(w))
        /\ WF_gatewayVars(ConsumerStep(w) /\ UNCHANGED <<exchanges, process>>)
        /\ WF_gatewayVars(ShutdownStep(w))

------------------------------------------------------------------------------
(* Correctness.                                                            *)

GatewayTypeOK ==
    /\ phase \in [Items -> {"none", "answered", "raised", "closed", "skipped", "cut"} \cup Unfinished]
    /\ host \in [Items -> Workers \cup {NoWorker}]
    /\ asked \subseteq Items
    /\ server \in [Workers -> {"off", "serving", "draining", "closing"}]
    /\ backfill \in [Workers -> BOOLEAN]
    /\ \A w \in Workers :
        /\ server[w] = "off" <=> life[w] = "down"
        /\ server[w] \in {"serving", "draining"} => life[w] = "up"

\* Whatever enqueues after stop() was called is the finally of a generator its
\* client left: the exchanges the server answered, errors included, all reach
\* the queue before the worker is stopped.
TardyWasLeft == \A i \in tardy : phase[i] = "closed"

\* When stop() has returned, every exchange the process answered is in the
\* ledger or in data/failed_audit, or on a disk that refused it ("Apagado
\* limpio", main.py).
CleanStopKeepsAnswered ==
    \A w \in Workers, i \in Items :
        (life[w] = "stopped" /\ host[i] = w)
            => phase[i] \notin Answering /\ (phase[i] = "answered" => i \in Settled)

\* Every request that reached the provider is in the end recorded, whatever the
\* provider and the client did, unless the process ended under it or what came
\* back raised in the proxy ("tambien es una interaccion que el Art. 12 obliga
\* a conservar", proxy_routes.py).
AskedIsRecorded ==
    \A i \in Items : (i \in asked) ~> (i \in Settled \/ phase[i] \in {"cut", "raised"})

\* A process told to stop comes to its end, whatever is under way in it.
ShutdownCompletes == \A w \in Workers : (server[w] = "draining") ~> (life[w] = "down")
==============================================================================
