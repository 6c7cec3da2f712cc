---------------------------- MODULE MCStreamGuard ----------------------------
(* Instances of StreamGuard for TLC: every stream of a few events, texts and    *)
(* fragments for two tool calls with numbers, one with a name and one without   *)
(* an index, in any order, the finish event last if there is one.               *)
EXTENDS StreamGuard

CONSTANTS MaxEvents, n0, n1, s0

MCNumbers == {n0, n1}
MCNames == {s0}

Events ==
    {Text("accent", TRUE), Args(n0, "wideDrop", TRUE), Args(n0, "wideWord", TRUE)}
        \cup {Args(n0, f, FALSE) : f \in {"drop", "table", "hidden", "close"}}
        \cup {Args(n1, f, FALSE) : f \in {"drop", "table"}}
        \cup {Args(i, "word", FALSE) : i \in {s0, NoIndex}}

Bodies == UNION {[1 .. n -> Events] : n \in 0 .. MaxEvents}

MCStreams == Bodies \cup {Append(s, Finish) : s \in {b \in Bodies : Len(b) < MaxEvents}}
==============================================================================
