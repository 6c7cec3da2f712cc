------------------------------ MODULE HashChain ------------------------------
(***************************************************************************)
(* The hash chain of proxy/security/crypto_chain.py.  SHA-256 is taken to  *)
(* be injective, so a hash is modelled by what it commits to: the sequence *)
(* of the entries from the genesis to the row.  An entry stands for the    *)
(* five hashed columns of a row (request_id, timestamp, model, the two     *)
(* payloads); the rows are kept in the order of their ids.                 *)
(***************************************************************************)
EXTENDS Naturals, Sequences

Genesis == << >>

RecordHash(prev, entry) == Append(prev, entry)

NewRow(prev, entry) ==
    [entry |-> entry, prev |-> prev, hash |-> RecordHash(prev, entry)]

\* What `SELECT record_hash ORDER BY id DESC LIMIT 1` gives, or the genesis.
TailHash(rows) == IF rows = << >> THEN Genesis ELSE rows[Len(rows)].hash

\* The hash the verification expects as the previous_hash of row k.
ExpectedPrev(rows, k) == IF k = 1 THEN Genesis ELSE rows[k - 1].hash

RowHolds(rows, k) ==
    /\ rows[k].prev = ExpectedPrev(rows, k)
    /\ rows[k].hash = RecordHash(rows[k].prev, rows[k].entry)

Intact(rows) == \A k \in DOMAIN rows : RowHolds(rows, k)
==============================================================================
