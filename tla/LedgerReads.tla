----------------------------- MODULE LedgerReads -----------------------------
(***************************************************************************)
(* The long reads of the ledger: verify_ledger_integrity of crypto_chain.py*)
(* (GET /api/v1/audit/verify) and export_audit_dossier of audit_routes.py, *)
(* which verifies first.  Both go page by page, each page in a SELECT of   *)
(* its own, while the worker appends rows and somebody with access to the  *)
(* database alters stored payloads (tests/manual_tamper.py).  Between two  *)
(* pages of a request any number of these steps can happen.                *)
(*                                                                         *)
(* A definition X_Something, before X, is X with a plausible bug in it; no *)
(* specification uses it.                                                  *)
(***************************************************************************)
EXTENDS HashChain, InOrder

CONSTANTS
    Entries,      \* what a row says
    Forged,       \* what an altered row says
    MaxRows,      \* bound on the rows of the table
    PageSize,     \* AUDIT_PAGE_SIZE
    ExportMax,    \* AUDIT_EXPORT_MAX_RECORDS
    Filters       \* filters of a dossier, each the set of entries it keeps

ASSUME ReadsAssumption ==
    /\ Forged \notin Entries
    /\ MaxRows \in Nat
    /\ PageSize \in Nat \ {0}
    /\ ExportMax \in Nat \ {0}
    /\ Filters \subseteq SUBSET Entries

VARIABLES
    rows,       \* audit_ledger; the id of a row is its position
    reader,     \* the request being served
    suspects    \* history: rows altered before the request began

vars == <<rows, reader, suspects>>

Ids == DOMAIN rows
Altered == {k \in Ids : rows[k].entry = Forged}

\* The request and what its loops carry from page to page.  lastId and
\* expected belong to the verification, seen and out to the dossier.
NoRequest == [pc |-> "none", export |-> FALSE, filter |-> {}, max |-> 0, total |-> 0,
              lastId |-> 0, expected |-> Genesis, valid |-> TRUE, broken |-> 0,
              seen |-> 0, out |-> << >>, truncated |-> FALSE]

Init ==
    /\ rows = << >>
    /\ reader = NoRequest
    /\ suspects = {}

------------------------------------------------------------------------------
(* The other users of the table.                                           *)

\* The worker chains an entry (AuditWorker!Persist).
AppendRow(e) ==
    /\ Len(rows) < MaxRows
    /\ rows' = Append(rows, NewRow(TailHash(rows), e))
    /\ UNCHANGED <<reader, suspects>>

\* A stored payload is rewritten, its hash is left as it was.
AlterRow(k) ==
    /\ rows[k].entry # Forged
    /\ rows' = [rows EXCEPT ![k].entry = Forged]
    /\ UNCHANGED <<reader, suspects>>

------------------------------------------------------------------------------
(* verify_ledger_integrity.                                                *)

\* A request arrives and counts the rows.  An empty table is valid at once.
Begin(export, filter, limit) ==
    /\ reader.pc = "none"
    /\ reader' = [NoRequest EXCEPT
            !.pc = IF rows # << >> THEN "verify" ELSE IF export THEN "export" ELSE "done",
            !.export = export,
            !.filter = filter,
            !.max = IF limit < ExportMax THEN limit ELSE ExportMax,
            !.total = Len(rows)]
    /\ suspects' = Altered
    /\ UNCHANGED rows

\* SELECT ... WHERE id > after ORDER BY id LIMIT n.
Page_SkipsOne(after, n) == {k \in Ids : after + (IF after = 0 THEN 0 ELSE 1) < k /\ k <= after + n}

Page(after, n) == {k \in Ids : after < k /\ k <= after + n}

\* Row k passes both tests of the loop; expected is what the row before it, of
\* this page or of the last one, left in expected_prev.
Passes_PageForgetsTail(k) ==
    LET before == IF k = reader.lastId + 1 THEN Genesis ELSE rows[k - 1].hash
    IN  rows[k].prev = before /\ rows[k].hash = RecordHash(rows[k].prev, rows[k].entry)

Passes_LinkOnly(k) ==
    rows[k].prev = IF k = reader.lastId + 1 THEN reader.expected ELSE rows[k - 1].hash

Passes(k) ==
    LET before == IF k = reader.lastId + 1 THEN reader.expected ELSE rows[k - 1].hash
    IN  rows[k].prev = before /\ rows[k].hash = RecordHash(rows[k].prev, rows[k].entry)

Lowest(S) == CHOOSE k \in S : \A j \in S : k <= j
Highest(S) == CHOOSE k \in S : \A j \in S : j <= k

AfterVerify == IF reader.export THEN "export" ELSE "done"

VerifyPage ==
    /\ reader.pc = "verify"
    /\ LET page == Page(reader.lastId, PageSize)
           bad == {k \in page : ~Passes(k)}
       IN  \/ /\ page = {}
              /\ reader' = [reader EXCEPT !.pc = AfterVerify]
           \/ /\ bad # {}
              /\ reader' = [reader EXCEPT !.pc = AfterVerify, !.valid = FALSE,
                                          !.broken = Lowest(bad)]
           \/ /\ page # {} /\ bad = {}
              /\ reader' = [reader EXCEPT !.lastId = Highest(page),
                                          !.expected = rows[Highest(page)].hash]
    /\ UNCHANGED <<rows, suspects>>

------------------------------------------------------------------------------
(* export_audit_dossier.                                                   *)

\* The filters look at app_id and timestamp_utc, which an altered payload leaves
\* as they were: they are those of the entry the row's hash commits to.
Kept(k) == rows[k].hash[Len(rows[k].hash)] \in reader.filter

KeptIds(after, last) == {k \in Ids : after < k /\ k <= last /\ Kept(k)}

First(n, s) == SubSeq(s, 1, IF n < Len(s) THEN n ELSE Len(s))

Remaining_OneMore == reader.max - Len(reader.out) + 1

Remaining == reader.max - Len(reader.out)

\* LIMIT min(page_size, remaining + 1): one row more than there is room for,
\* when a page can hold it.
NextRows_NoCursor == First(IF PageSize < Remaining + 1 THEN PageSize ELSE Remaining + 1,
                           InOrder(KeptIds(Len(reader.out), Len(rows))))

NextRows == First(IF PageSize < Remaining + 1 THEN PageSize ELSE Remaining + 1,
                  InOrder(KeptIds(reader.seen, Len(rows))))

Truncates_WhenFull(page) == Len(page) >= Remaining

\* A row of the page is met when the dossier is already full.
Truncates(page) == Len(page) > Remaining

ExportPage ==
    /\ reader.pc = "export"
    /\ Remaining > 0
    /\ LET page == NextRows
           taken == First(Remaining, page)
       IN  \/ /\ page = << >>
              /\ reader' = [reader EXCEPT !.pc = "done"]
           \/ /\ page # << >>
              /\ reader' = [reader EXCEPT
                    !.out = @ \o [i \in DOMAIN taken |-> [id |-> taken[i], row |-> rows[taken[i]]]],
                    !.seen = taken[Len(taken)],
                    !.truncated = Truncates(page),
                    !.pc = IF Truncates(page) THEN "done" ELSE @]
    /\ UNCHANGED <<rows, suspects>>

\* while exported < max_records ends by its condition.
ExportFull ==
    /\ reader.pc = "export"
    /\ Remaining = 0
    /\ reader' = [reader EXCEPT !.pc = "done"]
    /\ UNCHANGED <<rows, suspects>>

\* The answer is sent; its manifest is signed as it stands.
Answer ==
    /\ reader.pc = "done"
    /\ reader' = NoRequest
    /\ suspects' = {}
    /\ UNCHANGED rows

Next ==
    \/ \E e \in Entries : AppendRow(e)
    \/ \E k \in Ids : AlterRow(k)
    \/ \E f \in Filters, n \in 1 .. ExportMax + 1 : Begin(TRUE, f, n)
    \/ Begin(FALSE, {}, 0)
    \/ VerifyPage
    \/ ExportPage
    \/ ExportFull
    \/ Answer

Spec == Init /\ [][Next]_vars

------------------------------------------------------------------------------
(* Correctness.                                                            *)

TypeOK ==
    /\ rows \in Seq([entry : Entries \cup {Forged}, prev : Seq(Entries), hash : Seq(Entries)])
    /\ reader.pc \in {"none", "verify", "export", "done"}
    /\ reader.filter \in Filters \cup {{}}
    /\ reader.max \in 0 .. ExportMax
    /\ reader.lastId \in 0 .. MaxRows /\ reader.total \in 0 .. MaxRows
    /\ reader.broken \in 0 .. MaxRows /\ reader.seen \in 0 .. MaxRows
    /\ Len(reader.out) <= reader.max
    /\ suspects \subseteq Ids

Verified == reader.pc \in {"export", "done"}

\* A verification that pages through a growing table never reports a row that
\* nobody altered: neither the page boundaries nor rows chained meanwhile break
\* the chain it carries from page to page.
NoFalseAlarm == reader.broken # 0 => reader.broken \in Altered

\* A row altered before the request is found, and no row after the first such
\* one is named in its place.
FindsAltered ==
    (Verified /\ suspects # {}) => /\ ~reader.valid
                                   /\ reader.broken <= Lowest(suspects)

\* A valid answer has checked every row its total_records counts.
CoversTotal == (Verified /\ reader.valid) => reader.lastId >= reader.total

\* The dossier holds every row of its period up to the last one it reached,
\* each once and in the order of the chain, whatever was appended meanwhile.
ExportExact ==
    [i \in DOMAIN reader.out |-> reader.out[i].id] = InOrder(KeptIds(0, reader.seen))

\* A dossier marked as truncated did leave a row of its period out.
TruncatedIsTrue ==
    reader.truncated => KeptIds(reader.seen, Len(rows)) # {}

\* A dossier that is not marked as truncated holds every row of its period
\* that the request counted when it began.
UntruncatedIsWhole ==
    (reader.export /\ reader.pc = "done" /\ ~reader.truncated)
        => KeptIds(reader.seen, reader.total) = {}
==============================================================================
