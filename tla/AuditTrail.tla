------------------------------ MODULE AuditTrail ------------------------------
(***************************************************************************)
(* What the audit side of the proxy promises, whatever its processes do:   *)
(* an entry that arrived is chained at most once, the chain and the        *)
(* mailbox of failed entries only grow, and an entry is in the chain only  *)
(* if it arrived.  proxy/services/audit_worker.py implements it.           *)
(***************************************************************************)
EXTENDS Naturals, Sequences

CONSTANT Items

VARIABLES
    arrived,    \* entries handed over to be recorded
    chain,      \* entries recorded, oldest first
    mailbox,    \* entries left in data/failed_audit
    lost        \* entries dropped by a killed process or a failed disk

trail == <<arrived, chain, mailbox, lost>>

Recorded == {chain[k] : k \in DOMAIN chain}

Init ==
    /\ arrived = {}
    /\ chain = << >>
    /\ mailbox = {}
    /\ lost = {}

Arrive(i) ==
    /\ i \notin arrived
    /\ arrived' = arrived \cup {i}
    /\ UNCHANGED <<chain, mailbox, lost>>

Record(i) ==
    /\ i \in arrived \ Recorded
    /\ chain' = Append(chain, i)

\* Some arrived entries are given up: left in the mailbox or dropped.
GiveUp(kept, dropped) ==
    /\ mailbox' = mailbox \cup kept
    /\ lost' = lost \cup dropped

Resolve ==
    /\ UNCHANGED chain \/ \E i \in Items : Record(i)
    /\ \E kept, dropped \in SUBSET arrived : GiveUp(kept, dropped)
    /\ UNCHANGED arrived

Next == Resolve \/ \E i \in Items : Arrive(i)

Spec == Init /\ [][Next]_trail
===============================================================================
