------------------------------ MODULE ToolGuard ------------------------------
(***************************************************************************)
(* proxy/security/tool_guard.py: the verdict on the arguments of a tool    *)
(* call, as far as it depends on where the provider cuts them.  Arguments  *)
(* are a sequence of fragments:                                            *)
(*   "drop"      an order's first word and a gap: blanks, or a comment     *)
(*               that normalize turns into one                             *)
(*   "wideDrop"  the same, its gap a blank that takes several bytes, and   *)
(*               "tornDrop" what is left of it when that blank is lost     *)
(*   "table"     its second word                                           *)
(*   "hidden"    the whole order, its gap written as an escape of JSON     *)
(*   "word"      more letters; "wideWord" letters of several bytes         *)
(*   "torn"      replacement characters, which are no letters              *)
(*   "close"     the quote and brace that end the JSON text                *)
(* The patterns want the order between word boundaries, and an escape is   *)
(* seen only in a text that json.loads takes, so a verdict may turn either *)
(* way as fragments come.                                                  *)
(***************************************************************************)
EXTENDS Naturals, Sequences

BeginsWithLetter == {"drop", "wideDrop", "tornDrop", "table", "hidden", "word", "wideWord"}
EndsWithLetter == {"table", "hidden", "word", "wideWord"}

\* What a piece, of the arguments or of a text, becomes when a character of it
\* is decoded in two halves.
Garbled(piece) == IF piece = "wideDrop" THEN "tornDrop" ELSE "torn"

\* The \b at both ends of what fragments a to b spell.
Bounded(s, a, b) ==
    /\ a > 1 => s[a - 1] \notin EndsWithLetter
    /\ b < Len(s) => s[b + 1] \notin BeginsWithLetter

\* json.loads takes the whole or raises.
Parses(s) == \E n \in DOMAIN s : s[n] = "close" /\ n = Len(s) /\ \A k \in 1 .. n - 1 : s[k] # "close"

\* inspect_single_argument: the text as it is, and what its JSON holds.
Destructive(s) ==
    \/ \E k \in 1 .. Len(s) - 1 :
           s[k] \in {"drop", "wideDrop"} /\ s[k + 1] = "table" /\ Bounded(s, k, k + 1)
    \/ /\ Parses(s)
       /\ \E k \in DOMAIN s : s[k] = "hidden" /\ Bounded(s, k, k)

\* inspect_tool_calls: each call on its own, its arguments put together.
Unsafe(calls) == \E i \in DOMAIN calls : Destructive(calls[i])
==============================================================================
