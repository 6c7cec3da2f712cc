------------------------------- MODULE DaySeals -------------------------------
(***************************************************************************)
(* What the daily archive promises, whatever its tasks, failures and kills *)
(* do: rows are chained, each of some day; a day is sealed at most once,   *)
(* with its rows chained up to some moment; the rows a seal counts are     *)
(* flagged in the same step; and nothing else happens to a seal or a flag. *)
(* proxy/storage/s3_worm_archiver.py implements it.                        *)
(***************************************************************************)
EXTENDS Naturals, Sequences

CONSTANT Days

VARIABLES
    days,       \* the day of each row, in the order of their ids
    seals,      \* one for each day that is sealed: its date and its rows
    flagged     \* rows that count as archived

archive == <<days, seals, flagged>>

Init ==
    /\ days = << >>
    /\ seals = {}
    /\ flagged = {}

Chain(day) ==
    /\ days' = Append(days, day)
    /\ UNCHANGED <<seals, flagged>>

Seal(seal, moment) ==
    /\ \A s \in seals : s.date # seal.date
    /\ seal.ids = {k \in 1 .. moment : days[k] = seal.date}
    /\ seal.ids # {}
    /\ seals' = seals \cup {seal}
    /\ flagged' = flagged \cup seal.ids
    /\ UNCHANGED days

Next ==
    \/ \E day \in Days : Chain(day)
    \/ \E seal \in seals', moment \in DOMAIN days : Seal(seal, moment)

Spec == Init /\ [][Next]_archive
===============================================================================
