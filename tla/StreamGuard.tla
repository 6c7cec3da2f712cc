----------------------------- MODULE StreamGuard -----------------------------
(***************************************************************************)
(* forward_streaming_request of proxy/services/forwarder.py: the proxy     *)
(* relays the SSE stream of the provider chunk by chunk, rebuilds the text *)
(* and the tool arguments as it goes, cuts the stream when the arguments   *)
(* hold a destructive order, and hands one record to the audit queue       *)
(* however the stream ends.                                                *)
(*                                                                         *)
(* A stream is a sequence of events.  On the wire an event is two units,   *)
(* the second one ending in the separator, and a chunk is any run of       *)
(* units: it may begin and end in the middle of an event.                  *)
(*                                                                         *)
(* A definition X_Something, before X, is X with a plausible bug in it; no *)
(* specification uses it.                                                  *)
(***************************************************************************)
EXTENDS ToolGuard, InOrder

CONSTANTS
    Streams,            \* what the provider may send
    Numbers, Names,     \* values of the field index of a tool call
    NoIndex             \* a tool call without the field

Indexes == Numbers \cup Names

\* One choice per event.  An event is wide when a chunk that ends inside it cuts
\* a character that takes several bytes.
Text(piece, wide) == [kind |-> "text", piece |-> piece, wide |-> wide]
Args(index, piece, wide) ==
    [kind |-> "args", index |-> index, piece |-> piece, wide |-> wide]
Finish == [kind |-> "finish", wide |-> FALSE]

\* The event with the finish_reason is the last one of the provider.
ASSUME StreamAssumption ==
    /\ NoIndex \notin Indexes
    /\ \A s \in Streams :
           /\ Len(s) \in Nat /\ DOMAIN s = 1 .. Len(s)
           /\ \A k \in 1 .. Len(s) - 1 : s[k].kind # "finish"

VARIABLES
    stream,     \* what the provider sends in this exchange
    pc,         \* where the generator is
    read,       \* units read from the provider
    torn,       \* places of the events whose text in the buffer lost a character
    sent,       \* units of the provider delivered to the client
    notices,    \* events of the proxy's own delivered after them
    outcome,    \* StreamOutcome, with tool_calls as the fragments per index
    record      \* what on_complete_callback was given

vars == <<stream, pc, read, torn, sent, notices, outcome, record>>

NoRecord == << >>

Init ==
    /\ stream \in Streams
    /\ pc = "open"
    /\ read = 0
    /\ torn = {}
    /\ sent = 0
    /\ notices = << >>
    /\ outcome = [content |-> << >>, args |-> [i \in Indexes |-> << >>], finish |-> FALSE,
                  blocked |-> FALSE, error |-> FALSE]
    /\ record = NoRecord

Units == 2 * Len(stream)

------------------------------------------------------------------------------
(* What the proxy makes of the bytes.                                      *)

\* Events of the stream with their last unit among the first n.
Complete(n) == n \div 2

\* _split_events: the events the buffer completes when units up to n arrive.
\* Events go by their places in the stream.
NewEvents_DropsRest(n) == (read + 1) \div 2 + 1 .. Complete(n)

NewEvents(n) == Complete(read) + 1 .. Complete(n)

Texts(events) == InOrder({k \in events : stream[k].kind = "text"})
Calls(events, i) == InOrder({k \in events : stream[k].kind = "args" /\ stream[k].index = i})

\* Each chunk is decoded on its own: a character cut by the end of a chunk that
\* stops at unit n becomes replacement characters, in the buffer of both chunks.
TornBy(n) == {k \in DOMAIN stream : stream[k].wide /\ n = 2 * k - 1}

Decoded(k) == IF k \in torn THEN Garbled(stream[k].piece) ELSE stream[k].piece

\* _accumulate over the events of a chunk.  A call without index is skipped.
Values(places) == [j \in DOMAIN places |-> Decoded(places[j])]
Pieces(events) == Values(Texts(events))
Fragments(events, i) == Values(Calls(events, i))

Accumulate_Overwrites(events) ==
    [outcome EXCEPT
        !.content = @ \o Pieces(events),
        !.args = [i \in Indexes |-> IF Fragments(events, i) = << >> THEN @[i]
                                    ELSE Fragments(events, i)],
        !.finish = @ \/ \E k \in events : stream[k].kind = "finish"]

Accumulate(events) ==
    [outcome EXCEPT
        !.content = @ \o Pieces(events),
        !.args = [i \in Indexes |-> @[i] \o Fragments(events, i)],
        !.finish = @ \/ \E k \in events : stream[k].kind = "finish"]

\* sorted() of the indexes in _materialize raises when it meets both kinds.
Sortable(args) ==
    LET used == {i \in Indexes : args[i] # << >>}
    IN  used \subseteq Numbers \/ used \subseteq Names

------------------------------------------------------------------------------
(* The generator.                                                          *)

\* yield of an event of the proxy followed by [DONE], then the finally.  The
\* client may have gone, and the events with it.
Notify(kind) ==
    /\ notices' \in {<<kind>>, << >>}
    /\ pc' = "finally"

\* The credential is missing, the provider cannot be reached or does not answer
\* 200; or the stream begins.
Open ==
    /\ pc = "open"
    /\ \/ pc' = "read" /\ UNCHANGED <<outcome, notices>>
       \/ outcome' = [outcome EXCEPT !.error = TRUE] /\ Notify("error")
    /\ UNCHANGED <<stream, read, torn, sent, record>>

\* The provider's units up to n come in.
Receive(n) ==
    /\ pc = "read"
    /\ n \in read + 1 .. Units
    /\ read' = n
    /\ torn' = torn \cup TornBy(n)

ReadChunk_InspectsAtEnd(n) ==
    /\ Receive(n)
    /\ outcome' = Accumulate(NewEvents(n))
    /\ pc' = "forward"
    /\ UNCHANGED <<stream, sent, notices, record>>

\* The loop over the chunks, from the read to the yield: indexes of both kinds
\* raise before the calls are inspected.
ReadChunk(n) ==
    /\ Receive(n)
    /\ LET after == Accumulate(NewEvents(n))
       IN  \/ /\ ~ Sortable(after.args)
              /\ outcome' = after
              /\ pc' = "finally"
              /\ UNCHANGED notices
           \/ /\ Sortable(after.args) /\ Unsafe(after.args)
              /\ outcome' = [after EXCEPT !.blocked = TRUE]
              /\ Notify("block")
           \/ /\ Sortable(after.args) /\ ~ Unsafe(after.args)
              /\ outcome' = after
              /\ pc' = "forward"
              /\ UNCHANGED notices
    /\ UNCHANGED <<stream, sent, record>>

\* A choice, a delta or a call that is not an object, or an index that cannot be
\* a key, makes _accumulate raise after some of the events of the chunk; no
\* notice follows.
ReadRaises(n, m) ==
    /\ Receive(n)
    /\ m \in read .. n
    /\ outcome' = Accumulate(NewEvents(m))
    /\ pc' = "finally"
    /\ UNCHANGED <<stream, sent, notices, record>>

\* yield raw_chunk.
Forward ==
    /\ pc = "forward"
    /\ sent' = read
    /\ pc' = "read"
    /\ UNCHANGED <<stream, read, torn, notices, outcome, record>>

ProviderFails_StartsOver ==
    /\ pc = "read"
    /\ read' = 0
    /\ UNCHANGED <<stream, pc, torn, sent, notices, outcome, record>>

\* httpx.RequestError while the stream is read.
ProviderFails ==
    /\ pc = "read"
    /\ outcome' = [outcome EXCEPT !.error = TRUE]
    /\ Notify("error")
    /\ UNCHANGED <<stream, read, torn, sent, record>>

\* The stream ends; the arguments, which can be sorted, are inspected once more.
ProviderEnds ==
    /\ pc = "read"
    /\ read = Units
    /\ IF Unsafe(outcome.args)
       THEN outcome' = [outcome EXCEPT !.blocked = TRUE] /\ Notify("block")
       ELSE pc' = "finally" /\ UNCHANGED <<outcome, notices>>
    /\ UNCHANGED <<stream, read, torn, sent, record>>

\* The client goes: the generator is closed, or cancelled, where it waits.
ClientLeaves ==
    /\ pc \in {"open", "read", "forward"}
    /\ pc' = "finally"
    /\ UNCHANGED <<stream, read, torn, sent, notices, outcome, record>>

Record_SkipsFailures ==
    /\ pc = "finally"
    /\ Sortable(outcome.args)
    /\ record' = IF outcome.error THEN NoRecord ELSE <<outcome>>
    /\ pc' = "ended"
    /\ UNCHANGED <<stream, read, torn, sent, notices, outcome>>

\* finally: the outcome goes to the audit queue (AuditWorker!EnqueueLog).
Record ==
    /\ pc = "finally"
    /\ Sortable(outcome.args)
    /\ record' = <<outcome>>
    /\ pc' = "ended"
    /\ UNCHANGED <<stream, read, torn, sent, notices, outcome>>

\* finally, without a record: _materialize raises again, or the callback raises
\* and its exception is logged.
NoRecordMade ==
    /\ pc = "finally"
    /\ pc' = IF Sortable(outcome.args) THEN "swallowed" ELSE "raised"
    /\ UNCHANGED <<stream, read, torn, sent, notices, outcome, record>>

Next ==
    \/ Open
    \/ \E n \in 1 .. Units : ReadChunk(n)
    \/ \E n, m \in 0 .. Units : ReadRaises(n, m)
    \/ Forward
    \/ ProviderFails
    \/ ProviderEnds
    \/ ClientLeaves
    \/ Record
    \/ NoRecordMade

Spec == Init /\ [][Next]_vars

\* The provider answers or times out, and the client reads or goes.
FairSpec == Spec /\ WF_vars(Next)

------------------------------------------------------------------------------
(* What the client reads.                                                  *)

Delivered == 1 .. Complete(sent)

\* The client has the bytes, and puts the chunks together before it decodes them.
AsSent(places) == [j \in DOMAIN places |-> stream[places[j]].piece]

------------------------------------------------------------------------------
(* Correctness.                                                            *)

TypeOK ==
    /\ stream \in Streams
    /\ pc \in {"open", "read", "forward", "finally", "ended", "raised", "swallowed"}
    /\ read \in 0 .. Units /\ sent \in 0 .. read
    /\ torn \subseteq DOMAIN stream
    /\ notices \in {<< >>, <<"block">>, <<"error">>}
    /\ DOMAIN outcome.args = Indexes
    /\ record \in {NoRecord, <<outcome>>}

\* No sequence of chunks, however it cuts the events and the order itself, lets
\* the events that make up a destructive order of one call reach the client, as
\* long as the call has an index, which the API requires (docstring of
\* _accumulate), and no character of it was cut between two chunks.
NoDestructiveDelivered ==
    \A i \in Indexes :
        LET places == Calls(Delivered, i)
        IN  (\A j \in DOMAIN places : places[j] \notin torn) => ~ Destructive(AsSent(places))

\* The chunk that would start the execution in the client, the finish_reason
\* tool_calls, does not reach it when the stream was blocked.
BlockedBeforeFinish ==
    outcome.blocked => \A k \in Delivered : stream[k].kind # "finish"

\* What was kept of some events: each of them, and as it was sent unless a
\* character of it was cut.
Covers(kept, places) ==
    /\ Len(places) <= Len(kept)
    /\ \A j \in DOMAIN places : places[j] \notin torn => kept[j] = stream[places[j]].piece

\* A record holds every piece of text and every fragment of an indexed call that
\* the client has read, wherever the client left or the provider failed, and each
\* of them as it was sent unless a character of it was cut between two chunks.
RecordCoversDelivered ==
    record # NoRecord =>
        /\ Covers(record[1].content, Texts(Delivered))
        /\ \A i \in Indexes : Covers(record[1].args[i], Calls(Delivered, i))

\* Every exchange whose generator has begun ends with a record of it in the
\* audit queue, whether the client left, the provider failed or _accumulate
\* raised ("un corte del cliente o un fallo del proveedor tambien queda
\* registrado", docstring of forward_streaming_request), with two exceptions
\* that the docstring does not name: indexes that cannot be sorted, and a
\* callback that raises.
EventuallyRecorded ==
    <>(\/ record # NoRecord
       \/ pc = "raised" /\ ~ Sortable(outcome.args)
       \/ pc = "swallowed")

\* forwarder.py, StreamOutcome: what is rebuilt for the ledger, text and
\* arguments, begins with what the client read.
RecordedIsRead ==
    record # NoRecord =>
        /\ AsSent(Texts(Delivered)) = SubSeq(record[1].content, 1, Len(Texts(Delivered)))
        /\ \A i \in Indexes :
               AsSent(Calls(Delivered, i))
                   = SubSeq(record[1].args[i], 1, Len(Calls(Delivered, i)))
==============================================================================
