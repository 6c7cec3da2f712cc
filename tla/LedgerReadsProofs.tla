-------------------------- MODULE LedgerReadsProofs --------------------------
(* The verdict of verify_ledger_integrity, for any table, any page size and    *)
(* any rows chained or altered between two pages: the rows it names are        *)
(* altered, the rows altered before it began are found, and a valid verdict    *)
(* has checked every row it counts.                                            *)
EXTENDS LedgerReads, InOrderProofs, WellFoundedInduction

\* A set of ids has a least one.
LEMMA LowestIsLeast ==
    ASSUME NEW S, S \subseteq Nat, S # {}
    PROVE  Lowest(S) \in S /\ \A j \in S : Lowest(S) <= j
<1> DEFINE less == OpToRel(<, Nat)
<1>1. PICK x \in S : \A j \in S : ~ (<<j, x>> \in less)
  BY NatLessThanWellFounded, WFMin
<1>2. ASSUME NEW j \in S, ~ (x <= j)
      PROVE  FALSE
  <2>1. <<j, x>> \in less
    BY <1>2 DEF OpToRel
  <2> QED  BY <1>1, <2>1
<1> QED  BY <1>1, <1>2 DEF Lowest

------------------------------------------------------------------------------
(* The invariant.                                                          *)

Row == [entry : Entries \cup {Forged}, prev : Seq(Entries), hash : Seq(Entries)]

\* Whoever alters a payload leaves the hashes, which commit to the first entry.
Chained ==
    /\ rows \in Seq(Row)
    /\ \A k \in Ids :
        /\ rows[k].prev = ExpectedPrev(rows, k)
        /\ \E e \in Entries : /\ rows[k].hash = Append(rows[k].prev, e)
                              /\ rows[k].entry \in {e, Forged}

ReaderTyped ==
    reader \in [pc : {"none", "verify", "export", "done"}, export : BOOLEAN,
                filter : {reader.filter}, max : {reader.max}, total : Nat, lastId : Nat,
                expected : {reader.expected}, valid : BOOLEAN, broken : Nat,
                seen : {reader.seen}, out : {reader.out}, truncated : {reader.truncated}]

\* The verification carries the hash of the last row it read and has left no
\* altered row of the beginning behind.
Paging ==
    reader.pc = "verify" =>
        /\ reader.valid
        /\ reader.expected = IF reader.lastId = 0 THEN Genesis ELSE rows[reader.lastId].hash
        /\ \A k \in suspects : reader.lastId < k

Verdict ==
    /\ reader.valid => reader.broken = 0
    /\ ~reader.valid => reader.broken \in Altered /\ \A k \in suspects : reader.broken <= k
    /\ (Verified /\ reader.valid) => suspects = {} /\ reader.total <= reader.lastId

Within ==
    /\ reader.total <= Len(rows) /\ reader.lastId <= Len(rows)
    /\ suspects \subseteq Altered

ReadsInv == Chained /\ ReaderTyped /\ Within /\ Paging /\ Verdict

\* The invariant says what the properties ask.
LEMMA ReadsInvMeaning == ReadsInv => NoFalseAlarm /\ FindsAltered /\ CoversTotal
<1> SUFFICES ASSUME ReadsInv
             PROVE  NoFalseAlarm /\ FindsAltered /\ CoversTotal
  OBVIOUS
<1>1. NoFalseAlarm
  BY DEF ReadsInv, ReaderTyped, Verdict, NoFalseAlarm
<1>2. suspects # {} => Lowest(suspects) \in suspects
  <2>1. suspects \subseteq Nat
    BY DEF ReadsInv, Within, Altered, Ids, Chained
  <2> QED  BY <2>1, LowestIsLeast
<1>3. FindsAltered
  BY <1>2 DEF ReadsInv, ReaderTyped, Verdict, FindsAltered
<1>4. CoversTotal
  BY DEF ReadsInv, ReaderTyped, Verdict, CoversTotal
<1> QED  BY <1>1, <1>3, <1>4

\* It holds of an empty table.
LEMMA ReadsInvInit == Init => ReadsInv
BY DEF Init, ReadsInv, Chained, ReaderTyped, Within, Paging, Verdict, NoRequest, Ids, Altered,
       Verified

------------------------------------------------------------------------------
(* The other users of the table.                                           *)

\* What holds of the reader goes on holding while rows keep their hashes and
\* altered rows stay altered.
LEMMA TableGrows ==
    ASSUME ReadsInv, UNCHANGED <<reader, suspects>>, Chained',
           Len(rows) \in Nat, Len(rows') \in Nat, Len(rows) <= Len(rows'), Ids = 1 .. Len(rows),
           Altered \subseteq Altered',
           \A k \in Ids : rows'[k].hash = rows[k].hash
    PROVE  ReadsInv'
<1>1. ReaderTyped'
  BY DEF ReadsInv, ReaderTyped
<1>2. Within'
  BY <1>1 DEF ReadsInv, Within, ReaderTyped
<1>3. Paging'
  BY DEF ReadsInv, Paging, Within, ReaderTyped
<1>4. Verdict'
  BY DEF ReadsInv, Verdict, Verified
<1> QED  BY <1>1, <1>2, <1>3, <1>4 DEF ReadsInv

\* A new row follows the last one.
LEMMA AppendRowStep ==
    ASSUME ReadsInv, NEW e \in Entries, AppendRow(e)
    PROVE  ReadsInv'
<1>1. PICK row : row = NewRow(TailHash(rows), e)
  OBVIOUS
<1>2. rows' = Append(rows, row) /\ UNCHANGED <<reader, suspects>>
  BY <1>1 DEF AppendRow
<1>3. rows \in Seq(Row) /\ Len(rows) \in Nat /\ Ids = 1 .. Len(rows)
  BY DEF ReadsInv, Chained, Ids
<1>4. TailHash(rows) \in Seq(Entries)
  <2>1. CASE rows = << >>
    BY <2>1 DEF TailHash, Genesis
  <2>2. CASE rows # << >>
    <3>1. rows[Len(rows)] \in Row
      BY <2>2, <1>3
    <3> QED  BY <2>2, <3>1 DEF TailHash, Row
  <2> QED  BY <2>1, <2>2
<1>5. /\ row \in Row /\ row.prev = TailHash(rows) /\ row.entry = e
      /\ row.hash = Append(row.prev, e)
  BY <1>1, <1>4 DEF NewRow, RecordHash, Row
<1>6. /\ rows' \in Seq(Row) /\ Len(rows') = Len(rows) + 1 /\ Ids' = 1 .. (Len(rows) + 1)
      /\ \A k \in Ids : rows'[k] = rows[k]
      /\ rows'[Len(rows) + 1] = row
  BY <1>2, <1>3, <1>5 DEF Ids
<1>7. Chained'
  <2> SUFFICES ASSUME NEW k \in Ids'
               PROVE  /\ rows'[k].prev = ExpectedPrev(rows', k)
                      /\ \E x \in Entries : /\ rows'[k].hash = Append(rows'[k].prev, x)
                                            /\ rows'[k].entry \in {x, Forged}
    BY <1>6 DEF Chained
  <2>1. CASE k \in Ids
    <3>1. rows'[k] = rows[k] /\ (k # 1 => rows'[k - 1] = rows[k - 1])
      BY <2>1, <1>3, <1>6
    <3> QED  BY <2>1, <3>1 DEF ReadsInv, Chained, ExpectedPrev
  <2>2. CASE k \notin Ids
    <3>1. k = Len(rows) + 1 /\ rows'[k] = row
      BY <2>2, <1>3, <1>6
    <3>2. rows # << >> => rows'[k - 1] = rows[Len(rows)] /\ k # 1
      BY <3>1, <1>3, <1>6
    <3> QED  BY <3>1, <3>2, <1>5, <1>3 DEF ExpectedPrev, TailHash
  <2> QED  BY <2>1, <2>2
<1>8. Altered \subseteq Altered' /\ \A k \in Ids : rows'[k].hash = rows[k].hash
  BY <1>3, <1>6 DEF Altered
<1> QED  BY <1>2, <1>3, <1>6, <1>7, <1>8, TableGrows

\* An altered row keeps both hashes.
LEMMA AlterRowStep ==
    ASSUME ReadsInv, NEW j \in Ids, AlterRow(j)
    PROVE  ReadsInv'
<1>1. PICK row : row = [rows[j] EXCEPT !.entry = Forged]
  OBVIOUS
<1>2. rows' = [rows EXCEPT ![j] = row] /\ UNCHANGED <<reader, suspects>>
  BY <1>1 DEF AlterRow
<1>3. /\ rows \in Seq(Row) /\ rows \in [1 .. Len(rows) -> Row]
      /\ Len(rows) \in Nat /\ Ids = 1 .. Len(rows)
  BY DEF ReadsInv, Chained, Ids
<1>4. /\ row \in Row /\ row.prev = rows[j].prev /\ row.hash = rows[j].hash
      /\ row.entry = Forged
  <2>1. rows[j] \in Row
    BY <1>3
  <2> QED  BY <1>1, <2>1 DEF Row
<1>5. rows' \in [1 .. Len(rows) -> Row]
  BY <1>2, <1>3, <1>4
<1>6. rows' \in Seq(Row) /\ Len(rows') = Len(rows) /\ Ids' = Ids
  BY <1>3, <1>5 DEF Ids
<1>7. \A k \in Ids : rows'[k] = IF k = j THEN row ELSE rows[k]
  BY <1>2, <1>3
<1>8. \A k \in Ids : rows'[k].prev = rows[k].prev /\ rows'[k].hash = rows[k].hash
  BY <1>4, <1>7
<1>9. Altered \subseteq Altered'
  BY <1>4, <1>6, <1>7 DEF Altered
<1>10. Chained'
  <2> SUFFICES ASSUME NEW k \in Ids
               PROVE  /\ rows'[k].prev = ExpectedPrev(rows', k)
                      /\ \E x \in Entries : /\ rows'[k].hash = Append(rows'[k].prev, x)
                                            /\ rows'[k].entry \in {x, Forged}
    BY <1>6 DEF Chained
  <2>1. ExpectedPrev(rows', k) = ExpectedPrev(rows, k)
    BY <1>3, <1>8 DEF ExpectedPrev
  <2>2. rows'[k].entry \in {rows[k].entry, Forged}
    BY <1>4, <1>7
  <2> QED  BY <1>8, <2>1, <2>2 DEF ReadsInv, Chained
<1> QED  BY <1>2, <1>3, <1>6, <1>8, <1>9, <1>10, TableGrows

------------------------------------------------------------------------------
(* The pages of a verification.                                            *)

\* A row fails the two tests of the loop when and only when it is altered.
LEMMA FailsIffAltered ==
    ASSUME ReadsInv, reader.pc = "verify", NEW k \in Ids, reader.lastId < k
    PROVE  Passes(k) <=> k \notin Altered
<1>1. /\ rows \in Seq(Row) /\ Len(rows) \in Nat /\ Ids = 1 .. Len(rows)
      /\ reader.lastId \in Nat
  BY DEF ReadsInv, Chained, Ids, ReaderTyped
<1>2. PICK e \in Entries : /\ rows[k].hash = Append(rows[k].prev, e)
                           /\ rows[k].entry \in {e, Forged}
  BY DEF ReadsInv, Chained
<1>3. (IF k = reader.lastId + 1 THEN reader.expected ELSE rows[k - 1].hash) = rows[k].prev
  <2>1. rows[k].prev = IF k = 1 THEN Genesis ELSE rows[k - 1].hash
    BY DEF ReadsInv, Chained, ExpectedPrev
  <2>2. reader.expected = IF reader.lastId = 0 THEN Genesis ELSE rows[reader.lastId].hash
    BY DEF ReadsInv, Paging
  <2>3. CASE k = reader.lastId + 1
    <3>1. k - 1 = reader.lastId /\ (k = 1 <=> reader.lastId = 0)
      BY <1>1, <2>3
    <3> QED  BY <2>1, <2>2, <2>3, <3>1
  <2>4. CASE k # reader.lastId + 1
    <3>1. k # 1
      BY <1>1, <2>4
    <3> QED  BY <2>1, <2>4, <3>1
  <2> QED  BY <2>3, <2>4
<1>4. rows[k] \in Row /\ rows[k].prev \in Seq(Entries) /\ e # Forged
  <2>1. rows[k] \in Row
    BY <1>1
  <2>2. e \in Entries /\ Forged \notin Entries
    BY <1>2, ReadsAssumption
  <2> QED  BY <2>1, <2>2 DEF Row
<1>5. PICK prev : prev = rows[k].prev
  OBVIOUS
<1>6. \A x, y : prev \in Seq(Entries) /\ Append(prev, x) = Append(prev, y) => x = y
  <2> SUFFICES ASSUME NEW x, NEW y, prev \in Seq(Entries), Append(prev, x) = Append(prev, y)
               PROVE  x = y
    OBVIOUS
  <2>1. prev \in Seq(Entries \cup {x, y}) /\ Len(prev) \in Nat
    OBVIOUS
  <2>2. Append(prev, x)[Len(prev) + 1] = x /\ Append(prev, y)[Len(prev) + 1] = y
    BY <2>1
  <2> QED  BY <2>2
<1>7. Passes(k) <=> rows[k].hash = Append(rows[k].prev, rows[k].entry)
  BY <1>3 DEF Passes, RecordHash
<1>8. Passes(k) <=> rows[k].entry # Forged
  BY <1>2, <1>4, <1>5, <1>6, <1>7
<1> QED  BY <1>8 DEF Altered

\* Where the reader stands changes and the table does not.
LEMMA ReaderMoves ==
    ASSUME ReadsInv, UNCHANGED rows, ReaderTyped', Within', Paging', Verdict'
    PROVE  ReadsInv'
BY DEF ReadsInv, Chained, Ids

\* A page of the verification.
LEMMA VerifyPageStep ==
    ASSUME ReadsInv, VerifyPage
    PROVE  ReadsInv'
<1> DEFINE page == Page(reader.lastId, PageSize)
           bad == {k \in page : ~Passes(k)}
<1>1. /\ rows \in Seq(Row) /\ Len(rows) \in Nat /\ Ids = 1 .. Len(rows)
      /\ reader.lastId \in Nat /\ reader.lastId <= Len(rows) /\ PageSize \in Nat \ {0}
      /\ reader.pc = "verify" /\ UNCHANGED <<rows, suspects>>
  BY ReadsAssumption DEF ReadsInv, Chained, Ids, ReaderTyped, Within, VerifyPage
<1>2. \A k : k \in page <=> k \in Ids /\ reader.lastId < k /\ k <= reader.lastId + PageSize
  BY DEF Page
<1>3. bad = page \cap Altered
  BY <1>1, <1>2, FailsIffAltered
<1>4. \A k \in suspects : k \in Ids /\ k \in Altered /\ reader.lastId < k
  BY <1>1 DEF ReadsInv, Within, Paging, Altered
<1>5. page \subseteq Nat
  BY <1>1, <1>2
<1>6. AfterVerify \in {"export", "done"}
  BY DEF AfterVerify
<1>7. Altered' = Altered
  BY <1>1 DEF Altered, Ids
<1>8. CASE page = {} /\ reader' = [reader EXCEPT !.pc = AfterVerify]
  <2>1. reader.lastId = Len(rows)
    <3>1. ~ (reader.lastId + 1 \in page)
      BY <1>8
    <3> QED  BY <1>1, <1>2, <3>1
  <2>2. suspects = {}
    BY <1>1, <1>4, <2>1
  <2>3. ReaderTyped'
    BY <1>8, <1>6 DEF ReadsInv, ReaderTyped
  <2>4. /\ reader'.pc = AfterVerify /\ reader'.lastId = reader.lastId
        /\ reader'.total = reader.total /\ reader'.valid = reader.valid
        /\ reader'.broken = reader.broken
    BY <1>8 DEF ReadsInv, ReaderTyped
  <2>5. Within' /\ Paging'
    BY <1>1, <1>6, <1>7, <2>4 DEF ReadsInv, Within, Paging
  <2>6. Verdict'
    BY <1>1, <1>7, <2>1, <2>2, <2>4 DEF ReadsInv, Verdict, Within, Paging
  <2> QED  BY <1>1, <2>3, <2>5, <2>6, ReaderMoves
<1>9. CASE bad # {} /\ reader' = [reader EXCEPT !.pc = AfterVerify, !.valid = FALSE,
                                                !.broken = Lowest(bad)]
  <2>1. PICK b : b = Lowest(bad)
    OBVIOUS
  <2>2. b \in bad /\ \A k \in bad : b <= k
    BY <1>5, <1>9, <2>1, LowestIsLeast
  <2>3. b \in Nat /\ b \in Altered /\ b <= reader.lastId + PageSize
    BY <1>2, <1>3, <1>5, <2>2
  <2>4. \A k \in suspects : b <= k
    <3> SUFFICES ASSUME NEW k \in suspects PROVE b <= k
      OBVIOUS
    <3>1. CASE k \in page
      BY <1>3, <1>4, <2>2, <3>1
    <3>2. CASE k \notin page
      BY <1>1, <1>2, <1>4, <2>3, <3>2
    <3> QED  BY <3>1, <3>2
  <2>5. ReaderTyped'
    BY <1>6, <1>9, <2>1, <2>3 DEF ReadsInv, ReaderTyped
  <2>6. /\ reader'.pc = AfterVerify /\ reader'.lastId = reader.lastId
        /\ reader'.total = reader.total /\ ~reader'.valid /\ reader'.broken = b
    BY <1>9, <2>1 DEF ReadsInv, ReaderTyped
  <2>7. Within' /\ Paging'
    BY <1>1, <1>6, <1>7, <2>6 DEF ReadsInv, Within, Paging
  <2>8. Verdict'
    BY <1>1, <1>7, <2>3, <2>4, <2>6 DEF Verdict
  <2> QED  BY <1>1, <2>5, <2>7, <2>8, ReaderMoves
<1>10. CASE /\ page # {} /\ bad = {}
            /\ reader' = [reader EXCEPT !.lastId = Highest(page),
                                        !.expected = rows[Highest(page)].hash]
  <2>1. PICK h : h = Highest(page)
    OBVIOUS
  <2>2. h \in page
    <3>1. PICK m : m = IF Len(rows) < reader.lastId + PageSize THEN Len(rows)
                       ELSE reader.lastId + PageSize
      OBVIOUS
    <3>2. m \in page /\ \A k \in page : k <= m
      <4>1. PICK k \in page : TRUE
        BY <1>10
      <4> QED  BY <1>1, <1>2, <3>1, <4>1
    <3> QED  BY <2>1, <3>2 DEF Highest
  <2>3. h \in Ids /\ h \in Nat /\ h # 0 /\ h <= Len(rows) /\ h <= reader.lastId + PageSize
    BY <1>1, <1>2, <2>2
  <2>4. \A k \in suspects : h < k
    BY <1>1, <1>2, <1>3, <1>4, <1>10, <2>3
  <2>5. ReaderTyped'
    BY <1>10, <2>1, <2>3 DEF ReadsInv, ReaderTyped
  <2>6. /\ reader'.pc = reader.pc /\ reader'.lastId = h /\ reader'.expected = rows[h].hash
        /\ reader'.total = reader.total /\ reader'.valid = reader.valid
        /\ reader'.broken = reader.broken
    BY <1>10, <2>1 DEF ReadsInv, ReaderTyped
  <2>7. Within' /\ Paging'
    BY <1>1, <1>7, <2>3, <2>4, <2>6 DEF ReadsInv, Within, Paging
  <2>8. Verdict'
    BY <1>1, <1>7, <2>6 DEF ReadsInv, Verdict, Verified
  <2> QED  BY <1>1, <2>5, <2>7, <2>8, ReaderMoves
<1> QED  BY <1>8, <1>9, <1>10 DEF VerifyPage

------------------------------------------------------------------------------
(* The rest of a request.                                                  *)

\* A request begins: what it notes down is what there is.
LEMMA BeginStep ==
    ASSUME ReadsInv, NEW export \in BOOLEAN, NEW filter, NEW limit, Begin(export, filter, limit)
    PROVE  ReadsInv'
<1>1. rows \in Seq(Row) /\ Len(rows) \in Nat /\ Ids = 1 .. Len(rows) /\ UNCHANGED rows
  BY DEF ReadsInv, Chained, Ids, Begin
<1>2. PICK pc, max :
        /\ reader' = [NoRequest EXCEPT !.pc = pc, !.export = export, !.filter = filter,
                                       !.max = max, !.total = Len(rows)]
        /\ pc = IF rows # << >> THEN "verify" ELSE IF export THEN "export" ELSE "done"
  BY DEF Begin
<1>3. /\ reader'.pc = pc /\ reader'.total = Len(rows) /\ reader'.lastId = 0
      /\ reader'.expected = Genesis /\ reader'.valid /\ reader'.broken = 0
      /\ ReaderTyped'
  <2>1. pc \in {"none", "verify", "export", "done"}
    BY <1>2
  <2>2. reader' = [pc |-> pc, export |-> export, filter |-> filter, max |-> max,
                   total |-> Len(rows), lastId |-> 0, expected |-> Genesis, valid |-> TRUE,
                   broken |-> 0, seen |-> 0, out |-> << >>, truncated |-> FALSE]
    BY <1>2 DEF NoRequest
  <2> QED  BY <1>1, <2>1, <2>2 DEF ReaderTyped
<1>4. suspects' = Altered /\ Altered' = Altered /\ \A k \in Altered : k \in Nat /\ 0 < k
  BY <1>1 DEF Begin, Altered, Ids
<1>5. pc # "verify" => Len(rows) = 0 /\ Altered = {}
  BY <1>1, <1>2 DEF Altered
<1>6. Within' /\ Paging'
  BY <1>1, <1>3, <1>4 DEF Within, Paging
<1>7. Verdict'
  BY <1>1, <1>2, <1>3, <1>4, <1>5 DEF Verdict, Verified
<1> QED  BY <1>1, <1>3, <1>6, <1>7, ReaderMoves

\* The dossier and the answer leave the verdict alone.
LEMMA DossierStep ==
    ASSUME ReadsInv, ExportPage \/ ExportFull
    PROVE  ReadsInv'
<1>1. reader.pc = "export" /\ UNCHANGED <<rows, suspects>>
  BY DEF ExportPage, ExportFull
<1>2. /\ reader'.pc \in {"export", "done"} /\ reader'.lastId = reader.lastId
      /\ reader'.total = reader.total /\ reader'.valid = reader.valid
      /\ reader'.broken = reader.broken /\ ReaderTyped'
  <2>1. CASE reader' = [reader EXCEPT !.pc = "done"]
    BY <2>1 DEF ReadsInv, ReaderTyped
  <2> DEFINE page == NextRows
             taken == First(Remaining, page)
             out == reader.out \o [i \in DOMAIN taken |-> [id |-> taken[i], row |-> rows[taken[i]]]]
             full == Truncates(page)
  <2>2. \/ reader' = [reader EXCEPT !.pc = "done"]
        \/ reader' = [reader EXCEPT !.out = out, !.seen = taken[Len(taken)], !.truncated = full,
                                    !.pc = IF full THEN "done" ELSE reader.pc]
    BY DEF ExportPage, ExportFull
  <2>3. PICK pc, held, seen, cut : /\ pc = IF full THEN "done" ELSE reader.pc
                                   /\ held = out /\ seen = taken[Len(taken)] /\ cut = full
    OBVIOUS
  <2>4. pc \in {"export", "done"}
    BY <1>1, <2>3
  <2>5. \/ reader' = [reader EXCEPT !.pc = "done"]
        \/ reader' = [reader EXCEPT !.out = held, !.seen = seen, !.truncated = cut, !.pc = pc]
    BY <2>2, <2>3
  <2>6. CASE reader' = [reader EXCEPT !.out = held, !.seen = seen, !.truncated = cut, !.pc = pc]
    BY <2>4, <2>6 DEF ReadsInv, ReaderTyped
  <2> QED  BY <2>1, <2>5, <2>6
<1>3. Altered' = Altered
  BY <1>1 DEF Altered, Ids
<1>4. Within' /\ Paging' /\ Verdict'
  BY <1>1, <1>2, <1>3 DEF ReadsInv, Within, Paging, Verdict, Verified
<1> QED  BY <1>1, <1>2, <1>4, ReaderMoves

\* The request is over.
LEMMA AnswerStep ==
    ASSUME ReadsInv, Answer
    PROVE  ReadsInv'
<1>1. Len(rows) \in Nat /\ UNCHANGED rows /\ reader' = NoRequest /\ suspects' = {}
  BY DEF ReadsInv, Chained, Answer
<1>2. ReaderTyped' /\ Within' /\ Paging' /\ Verdict'
  BY <1>1 DEF NoRequest, ReaderTyped, Within, Paging, Verdict, Verified
<1> QED  BY <1>1, <1>2, ReaderMoves

------------------------------------------------------------------------------
(* The theorems.                                                           *)

\* Every step keeps the invariant.
LEMMA ReadsInvStep == ReadsInv /\ [Next]_vars => ReadsInv'
<1> SUFFICES ASSUME ReadsInv, [Next]_vars
             PROVE  ReadsInv'
  OBVIOUS
<1>1. CASE \E e \in Entries : AppendRow(e)
  BY <1>1, AppendRowStep
<1>2. CASE \E k \in Ids : AlterRow(k)
  BY <1>2, AlterRowStep
<1>3. CASE \E f \in Filters, n \in 1 .. ExportMax + 1 : Begin(TRUE, f, n)
  BY <1>3, BeginStep
<1>4. CASE Begin(FALSE, {}, 0)
  BY <1>4, BeginStep
<1>5. CASE VerifyPage
  BY <1>5, VerifyPageStep
<1>6. CASE ExportPage \/ ExportFull
  BY <1>6, DossierStep
<1>7. CASE Answer
  BY <1>7, AnswerStep
<1>8. CASE UNCHANGED vars
  BY <1>8 DEF vars, ReadsInv, Chained, ReaderTyped, Within, Paging, Verdict, Verified, Ids,
              Altered
<1> QED  BY <1>1, <1>2, <1>3, <1>4, <1>5, <1>6, <1>7, <1>8 DEF Next

\* It holds for ever.
LEMMA ReadsInvAlways == Spec => []ReadsInv
BY ReadsInvInit, ReadsInvStep, PTL DEF Spec

\* verify_ledger_integrity names a row only when it was altered, wherever its
\* pages end and whatever is chained meanwhile.
THEOREM NeverAFalseAlarm == Spec => []NoFalseAlarm
BY ReadsInvMeaning, ReadsInvAlways, PTL

\* A row altered before the request makes the verdict, or an earlier one does.
THEOREM AlteredIsFound == Spec => []FindsAltered
BY ReadsInvMeaning, ReadsInvAlways, PTL

\* A valid verdict has checked the rows that total_records counts.
THEOREM ValidCoversTotal == Spec => []CoversTotal
BY ReadsInvMeaning, ReadsInvAlways, PTL

------------------------------------------------------------------------------
(* The dossier.                                                            *)

Item == [id : Nat, row : Row]
Listed == [i \in DOMAIN reader.out |-> reader.out[i].id]

\* What the pages have listed is all that is kept up to seen.
DossierInv ==
    /\ Len(rows) <= MaxRows
    /\ reader.filter \in Filters \cup {{}}
    /\ reader.max \in 0 .. ExportMax
    /\ reader.out \in Seq(Item) /\ Len(reader.out) <= reader.max
    /\ reader.seen \in Nat /\ reader.seen <= Len(rows)
    /\ Listed = InOrder(KeptIds(0, reader.seen))
    /\ reader.truncated => KeptIds(reader.seen, Len(rows)) # {}

\* The invariants say what the properties ask.
LEMMA DossierMeaning ==
    ReadsInv /\ DossierInv => TypeOK /\ ExportExact /\ TruncatedIsTrue
<1> SUFFICES ASSUME ReadsInv, DossierInv PROVE TypeOK /\ ExportExact /\ TruncatedIsTrue
  OBVIOUS
<1>1. rows \in Seq(Row) /\ Len(rows) \in Nat /\ Ids = 1 .. Len(rows) /\ MaxRows \in Nat
  BY ReadsAssumption DEF ReadsInv, Chained, Ids
<1>2. reader.broken \in 0 .. MaxRows
  <2>1. reader.broken \in Nat /\ reader.valid \in BOOLEAN
    BY DEF ReadsInv, ReaderTyped
  <2>2. reader.broken = 0 \/ reader.broken \in Ids
    BY <2>1 DEF ReadsInv, Verdict, Altered
  <2> QED  BY <1>1, <2>1, <2>2 DEF DossierInv
<1>3. /\ reader.pc \in {"none", "verify", "export", "done"}
      /\ reader.lastId \in 0 .. MaxRows /\ reader.total \in 0 .. MaxRows
  <2>1. /\ reader.pc \in {"none", "verify", "export", "done"}
        /\ reader.lastId \in Nat /\ reader.total \in Nat
    BY DEF ReadsInv, ReaderTyped
  <2>2. reader.lastId <= Len(rows) /\ reader.total <= Len(rows) /\ Len(rows) <= MaxRows
    BY DEF ReadsInv, Within, DossierInv
  <2> QED  BY <1>1, <2>1, <2>2
<1>4. reader.seen \in 0 .. MaxRows
  BY <1>1 DEF DossierInv
<1>5. suspects \subseteq Ids
  BY DEF ReadsInv, Within, Altered
<1>6. TypeOK
  BY <1>1, <1>2, <1>3, <1>4, <1>5 DEF DossierInv, TypeOK, Row
<1> QED  BY <1>6 DEF DossierInv, Listed, ExportExact, TruncatedIsTrue

\* Sets of ids can be listed.
LEMMA IdsAreFinite ==
    ASSUME ReadsInv, NEW S \in SUBSET Ids
    PROVE  S \in SUBSET Nat /\ IsFiniteSet(S)
<1>1. Len(rows) \in Nat /\ Ids = 1 .. Len(rows)
  BY DEF ReadsInv, Chained, Ids
<1>2. IsFiniteSet(1 .. Len(rows))
  BY <1>1, FS_Interval
<1>3. S \in SUBSET (1 .. Len(rows)) /\ S \subseteq Nat
  BY <1>1
<1>4. IsFiniteSet(S)
  BY <1>2, <1>3, FS_Subset
<1> QED  BY <1>3, <1>4

\* An empty dossier lists all that is kept up to id 0.
LEMMA NothingListed ==
    ASSUME ReadsInv
    PROVE  InOrder(KeptIds(0, 0)) = << >>
<1>1. KeptIds(0, 0) = {}
  BY DEF KeptIds, ReadsInv, Chained, Ids
<1> QED  BY <1>1, EmptyInOrder

\* The dossier goes on being right of a table that grows and keeps its hashes.
LEMMA DossierKept ==
    ASSUME ReadsInv, DossierInv,
           reader'.filter = reader.filter, reader'.max = reader.max, reader'.out = reader.out,
           reader'.seen = reader.seen, reader'.truncated = reader.truncated,
           Len(rows') \in Nat, Len(rows) <= Len(rows'), Len(rows') <= MaxRows,
           Ids' = 1 .. Len(rows'), \A k \in Ids : rows'[k].hash = rows[k].hash
    PROVE  DossierInv'
<1>1. Len(rows) \in Nat /\ Ids = 1 .. Len(rows)
  BY DEF ReadsInv, Chained, Ids
<1>2. \A k \in Ids : Kept(k)' <=> Kept(k)
  BY DEF Kept
<1>3. KeptIds(0, reader.seen)' = KeptIds(0, reader.seen)
  BY <1>1, <1>2 DEF KeptIds, DossierInv
<1>4. KeptIds(reader.seen, Len(rows)) \subseteq KeptIds(reader.seen, Len(rows))'
  BY <1>1, <1>2 DEF KeptIds, DossierInv
<1>5. Listed' = Listed
  BY DEF Listed
<1>6. InOrder(KeptIds(0, reader.seen))' = InOrder(KeptIds(0, reader.seen))
  <2>1. PICK K : K = KeptIds(0, reader.seen)
    OBVIOUS
  <2>2. KeptIds(0, reader.seen)' = K
    BY <1>3, <2>1
  <2> QED  BY <2>1, <2>2
<1> QED  BY <1>1, <1>4, <1>5, <1>6 DEF DossierInv

\* The other users of the table.
LEMMA DossierTableStep ==
    ASSUME ReadsInv, DossierInv,
           (\E e \in Entries : AppendRow(e)) \/ (\E k \in Ids : AlterRow(k)) \/ UNCHANGED vars
    PROVE  DossierInv'
<1>1. /\ rows \in Seq(Row) /\ rows \in [1 .. Len(rows) -> Row]
      /\ Len(rows) \in Nat /\ Ids = 1 .. Len(rows) /\ MaxRows \in Nat
  BY ReadsAssumption DEF ReadsInv, Chained, Ids
<1>2. UNCHANGED reader
  BY DEF AppendRow, AlterRow, vars
<1>3. CASE UNCHANGED vars
  BY <1>1, <1>2, <1>3, DossierKept DEF vars, DossierInv, Ids
<1>4. CASE \E e \in Entries : AppendRow(e)
  <2>1. PICK row : rows' = Append(rows, row) /\ Len(rows) < MaxRows
    BY <1>4 DEF AppendRow
  <2>2. /\ Len(rows') = Len(rows) + 1 /\ Ids' = 1 .. (Len(rows) + 1)
        /\ \A k \in Ids : rows'[k] = rows[k]
    BY <1>1, <2>1 DEF Ids
  <2>3. \A k \in Ids : rows'[k].hash = rows[k].hash
    BY <2>2
  <2>4. Len(rows') \in Nat /\ Len(rows) <= Len(rows') /\ Len(rows') <= MaxRows
        /\ Ids' = 1 .. Len(rows')
    BY <1>1, <2>1, <2>2
  <2> QED  BY <1>2, <2>3, <2>4, DossierKept
<1>5. CASE \E k \in Ids : AlterRow(k)
  <2>1. PICK j \in Ids : AlterRow(j)
    BY <1>5
  <2>2. PICK row : row = [rows[j] EXCEPT !.entry = Forged]
    OBVIOUS
  <2>3. rows' = [rows EXCEPT ![j] = row]
    BY <2>1, <2>2 DEF AlterRow
  <2>4. row \in Row /\ row.hash = rows[j].hash
    <3>1. rows[j] \in Row
      BY <1>1
    <3> QED  BY <2>2, <3>1 DEF Row
  <2>5. rows' \in [1 .. Len(rows) -> Row]
    BY <1>1, <2>3, <2>4
  <2>6. rows' \in Seq(Row) /\ Len(rows') = Len(rows) /\ Ids' = Ids
    BY <1>1, <2>5 DEF Ids
  <2>7. \A k \in Ids : rows'[k].hash = rows[k].hash
    BY <1>1, <2>3, <2>4
  <2> QED  BY <1>1, <1>2, <2>6, <2>7, DossierKept DEF DossierInv
<1> QED  BY <1>3, <1>4, <1>5

\* The verification leaves the dossier empty.
LEMMA DossierVerifyStep ==
    ASSUME ReadsInv, DossierInv, VerifyPage \/ ExportFull
    PROVE  DossierInv'
<1>1. UNCHANGED rows
  BY DEF VerifyPage, ExportFull
<1>2. /\ reader'.filter = reader.filter /\ reader'.max = reader.max
      /\ reader'.out = reader.out /\ reader'.seen = reader.seen
      /\ reader'.truncated = reader.truncated
  <2>1. CASE VerifyPage
    <3>1. PICK pc, broken, lastId, expected :
            \/ reader' = [reader EXCEPT !.pc = pc]
            \/ reader' = [reader EXCEPT !.pc = pc, !.valid = FALSE, !.broken = broken]
            \/ reader' = [reader EXCEPT !.lastId = lastId, !.expected = expected]
      BY <2>1 DEF VerifyPage
    <3> QED  BY <3>1 DEF ReadsInv, ReaderTyped
  <2>2. CASE ExportFull
    BY <2>2 DEF ExportFull, ReadsInv, ReaderTyped
  <2> QED  BY <2>1, <2>2
<1>3. Len(rows) \in Nat /\ Ids = 1 .. Len(rows) /\ Ids' = Ids
  BY <1>1 DEF ReadsInv, Chained, Ids
<1> QED  BY <1>1, <1>2, <1>3, DossierKept DEF DossierInv

\* A request begins, or is over: its dossier is empty.
LEMMA DossierFreshStep ==
    ASSUME ReadsInv, DossierInv, UNCHANGED rows,
           NEW filter \in Filters \cup {{}}, reader'.filter = filter, reader'.max \in 0 .. ExportMax,
           reader'.out = << >>, reader'.seen = 0, reader'.truncated = FALSE
    PROVE  DossierInv'
<1>1. Len(rows) \in Nat /\ Ids' = Ids /\ Ids \subseteq Nat
  BY DEF ReadsInv, Chained, Ids
<1>2. KeptIds(0, reader.seen)' = {}
  BY <1>1 DEF KeptIds
<1>4. InOrder(KeptIds(0, reader.seen))' = << >>
  BY <1>2, EmptyInOrder
<1>5. Listed' = << >>
  BY DEF Listed
<1> QED  BY <1>1, <1>4, <1>5 DEF DossierInv

\* The beginning of a list.
LEMMA FirstIs ==
    ASSUME NEW s \in Seq(Nat), NEW n \in Nat
    PROVE  /\ First(n, s) \in Seq(Nat)
           /\ Len(First(n, s)) = IF n < Len(s) THEN n ELSE Len(s)
           /\ \A i \in 1 .. Len(First(n, s)) : First(n, s)[i] = s[i]
<1>1. PICK m : m = IF n < Len(s) THEN n ELSE Len(s)
  OBVIOUS
<1>2. m \in 0 .. Len(s) /\ First(n, s) = SubSeq(s, 1, m)
  BY <1>1 DEF First
<1>3. \A i \in 1 .. m : s[i] \in Nat
  BY <1>2
<1> QED  BY <1>1, <1>2, <1>3, SubSeqProperties

\* What is taken of a page is the beginning of what was left.
LEMMA FirstOfFirst ==
    ASSUME NEW s \in Seq(Nat), NEW a \in Nat, NEW b \in Nat
    PROVE  \E m \in 0 .. Len(s) : /\ First(a, First(b, s)) = SubSeq(s, 1, m)
                                  /\ m <= a /\ m <= b
                                  /\ m = a \/ m = b \/ m = Len(s)
<1>1. PICK page, taken : page = First(b, s) /\ taken = First(a, page)
  OBVIOUS
<1>2. /\ page \in Seq(Nat) /\ Len(page) = IF b < Len(s) THEN b ELSE Len(s)
      /\ \A i \in 1 .. Len(page) : page[i] = s[i]
  BY <1>1, FirstIs
<1>3. /\ taken \in Seq(Nat) /\ Len(taken) = IF a < Len(page) THEN a ELSE Len(page)
      /\ \A i \in 1 .. Len(taken) : taken[i] = page[i]
  BY <1>1, <1>2, FirstIs
<1>4. PICK m : m = Len(taken)
  OBVIOUS
<1>5. /\ m \in 0 .. Len(s) /\ m <= a /\ m <= b /\ m <= Len(page)
      /\ m = a \/ m = b \/ m = Len(s)
  BY <1>2, <1>3, <1>4
<1>6. /\ SubSeq(s, 1, m) \in Seq(Nat) /\ Len(SubSeq(s, 1, m)) = m
      /\ \A i \in 1 .. m : SubSeq(s, 1, m)[i] = s[i]
  <2>1. \A i \in 1 .. m : s[i] \in Nat
    BY <1>5
  <2> QED  BY <1>5, <2>1, SubSeqProperties
<1>7. \A i \in 1 .. m : taken[i] = s[i]
  <2> SUFFICES ASSUME NEW i \in 1 .. m PROVE taken[i] = s[i]
    OBVIOUS
  <2>1. i \in 1 .. Len(taken) /\ i \in 1 .. Len(page)
    BY <1>2, <1>4, <1>5
  <2> QED  BY <1>2, <1>3, <2>1
<1>8. taken = SubSeq(s, 1, m)
  BY <1>3, <1>4, <1>6, <1>7
<1> QED  BY <1>1, <1>2, <1>5, <1>8

\* A page goes on where the last one stopped.
LEMMA ExportPageStep ==
    ASSUME ReadsInv, DossierInv, ExportPage
    PROVE  DossierInv'
<1>1. /\ rows \in Seq(Row) /\ Len(rows) \in Nat /\ Ids = 1 .. Len(rows) /\ UNCHANGED rows
      /\ reader.seen \in Nat /\ reader.seen <= Len(rows)
  BY DEF ReadsInv, Chained, Ids, DossierInv, ExportPage
<1>2. PICK K : K = KeptIds(reader.seen, Len(rows))
  OBVIOUS
<1>3. K \in SUBSET Ids /\ K \in SUBSET Nat /\ IsFiniteSet(K)
  BY <1>2, IdsAreFinite DEF KeptIds
<1>4. PICK s : s = InOrder(K)
  OBVIOUS
<1>5. /\ s \in Seq(Nat) /\ Len(s) \in Nat /\ s \in [1 .. Len(s) -> K] /\ Increasing(s)
  <2>1. IsListOf(s, K) /\ Increasing(s)
    BY <1>3, <1>4, InOrderLists
  <2>2. Len(s) \in Nat /\ s \in [1 .. Len(s) -> K]
    BY <2>1 DEF IsListOf
  <2>3. s \in [1 .. Len(s) -> Nat]
    BY <1>3, <2>2
  <2> QED  BY <2>1, <2>2, <2>3
<1>6. PICK limit : limit = IF PageSize < Remaining + 1 THEN PageSize ELSE Remaining + 1
  OBVIOUS
<1>7. PICK left : left = Remaining
  OBVIOUS
<1>8. /\ left \in Nat /\ left # 0 /\ left = reader.max - Len(reader.out)
      /\ Len(reader.out) \in Nat /\ reader.max \in Nat
      /\ limit \in Nat /\ limit # 0 /\ limit <= left + 1
  <2>1. /\ reader.max \in Nat /\ Len(reader.out) \in Nat /\ Len(reader.out) <= reader.max
        /\ PageSize \in Nat \ {0}
    BY ReadsAssumption DEF DossierInv
  <2>2. left = reader.max - Len(reader.out) /\ left > 0
    BY <1>7 DEF Remaining, ExportPage
  <2> QED  BY <1>6, <1>7, <2>1, <2>2
<1>9. PICK page, taken : page = First(limit, s) /\ taken = First(left, page)
  OBVIOUS
<1>10. page = NextRows
  BY <1>2, <1>4, <1>6, <1>9 DEF NextRows
<1>11. /\ page \in Seq(Nat) /\ Len(page) = IF limit < Len(s) THEN limit ELSE Len(s)
       /\ \A i \in 1 .. Len(page) : page[i] = s[i]
  BY <1>5, <1>8, <1>9, FirstIs
<1>12. PICK m \in 0 .. Len(s) : /\ taken = SubSeq(s, 1, m)
                                /\ m <= left /\ m <= limit
                                /\ m = left \/ m = limit \/ m = Len(s)
  BY <1>5, <1>8, <1>9, FirstOfFirst
<1>13. taken \in Seq(Nat) /\ Len(taken) = m /\ \A i \in 1 .. m : taken[i] = s[i]
  <2>1. \A i \in 1 .. m : s[i] \in Nat
    BY <1>5
  <2> QED  BY <1>12, <2>1, SubSeqProperties
<1>14. CASE page = << >> /\ reader' = [reader EXCEPT !.pc = "done"]
  <2>1. /\ reader'.filter = reader.filter /\ reader'.max = reader.max
        /\ reader'.out = reader.out /\ reader'.seen = reader.seen
        /\ reader'.truncated = reader.truncated
    BY <1>14 DEF ReadsInv, ReaderTyped
  <2> QED  BY <1>1, <2>1, DossierKept DEF DossierInv, Ids
<1>15. PICK items : items = [i \in DOMAIN taken |-> [id |-> taken[i], row |-> rows[taken[i]]]]
  OBVIOUS
<1>16. CASE /\ page # << >>
            /\ reader' = [reader EXCEPT
                  !.out = @ \o items,
                  !.seen = taken[Len(taken)],
                  !.truncated = Truncates(page),
                  !.pc = IF Truncates(page) THEN "done" ELSE @]
  <2>1. m \in 1 .. Len(s)
    BY <1>5, <1>8, <1>11, <1>12, <1>16
  <2>2. PICK h : h = s[m]
    OBVIOUS
  <2>3. h \in K /\ h \in Ids /\ h \in Nat /\ reader.seen < h /\ h <= Len(rows) /\ taken[Len(taken)] = h
    BY <1>1, <1>2, <1>3, <1>5, <1>13, <2>1, <2>2 DEF KeptIds
  <2>4. PICK out, full, pc : /\ out = reader.out \o items /\ full = Truncates(page)
                             /\ pc = IF Truncates(page) THEN "done" ELSE reader.pc
    OBVIOUS
  <2>5. /\ reader'.filter = reader.filter /\ reader'.max = reader.max
        /\ reader'.out = out /\ reader'.seen = h /\ reader'.truncated = full
    <3>1. reader' = [reader EXCEPT !.out = out, !.seen = h, !.truncated = full, !.pc = pc]
      BY <1>16, <2>3, <2>4
    <3> QED  BY <3>1 DEF ReadsInv, ReaderTyped
  <2>6. /\ items \in Seq(Item) /\ Len(items) = m
        /\ \A i \in 1 .. m : items[i].id = s[i]
    <3>1. ASSUME NEW i \in 1 .. m
          PROVE  taken[i] \in Nat /\ rows[taken[i]] \in Row
      <4>1. i \in 1 .. Len(s) /\ taken[i] = s[i]
        BY <1>13, <2>1
      <4>2. s[i] \in K /\ s[i] \in 1 .. Len(rows)
        BY <1>1, <1>3, <1>5, <4>1
      <4> QED  BY <1>1, <4>1, <4>2
    <3>2. items \in [1 .. m -> Item]
      BY <1>13, <1>15, <3>1 DEF Item
    <3> QED  BY <1>13, <1>15, <2>1, <3>2
  <2>7. /\ out \in Seq(Item) /\ Len(out) = Len(reader.out) + m
        /\ \A i \in 1 .. Len(reader.out) + m :
              out[i] = IF i <= Len(reader.out) THEN reader.out[i] ELSE items[i - Len(reader.out)]
    <3>1. PICK old \in Seq(Item) : old = reader.out
      BY DEF DossierInv
    <3>2. /\ old \o items \in Seq(Item) /\ Len(old \o items) = Len(old) + Len(items)
          /\ \A i \in 1 .. Len(old) + Len(items) :
                (old \o items)[i] = IF i <= Len(old) THEN old[i] ELSE items[i - Len(old)]
      BY <2>6, <3>1, ConcatProperties
    <3> QED  BY <2>4, <2>6, <3>1, <3>2
  <2>8. Len(out) <= reader.max
    BY <1>8, <1>12, <2>7
  <2>9. PICK P : P = KeptIds(0, reader.seen)
    OBVIOUS
  <2>10. PICK Q : Q = {x \in K : x <= h}
    OBVIOUS
  <2>11. KeptIds(0, h) = P \cup Q
    BY <1>1, <1>2, <2>3, <2>9, <2>10 DEF KeptIds
  <2>12. /\ P \in SUBSET Nat /\ Q \in SUBSET Nat /\ IsFiniteSet(P) /\ IsFiniteSet(Q)
         /\ \A p \in P, q \in Q : p < q
    <3>1. P \in SUBSET Ids /\ Q \in SUBSET Ids
      BY <1>3, <2>9, <2>10 DEF KeptIds
    <3>2. \A p \in P : p \in Nat /\ p <= reader.seen
      BY <1>1, <2>9 DEF KeptIds
    <3>3. \A q \in Q : q \in Nat /\ reader.seen < q
      BY <1>1, <1>2, <2>10 DEF KeptIds
    <3> QED  BY <1>1, <3>1, <3>2, <3>3, IdsAreFinite
  <2>13. InOrder(KeptIds(0, h)) = Listed \o taken
    <3>1. InOrder(P \cup Q) = InOrder(P) \o InOrder(Q)
      BY <2>12, InOrderGoesOn
    <3>2. InOrder(Q) = taken
      <4>1. m \in 1 .. Len(InOrder(K)) /\ h = InOrder(K)[m]
        BY <1>4, <2>1, <2>2
      <4> QED  BY <1>3, <1>4, <1>12, <2>10, <4>1, InOrderBegins
    <3>3. InOrder(P) = Listed
      BY <2>9 DEF DossierInv
    <3> QED  BY <2>11, <3>1, <3>2, <3>3
  <2>14. [i \in DOMAIN out |-> out[i].id] = Listed \o taken
    <3>1. /\ DOMAIN reader.out = 1 .. Len(reader.out) /\ Listed \in Seq(Nat)
          /\ Len(Listed) = Len(reader.out)
          /\ \A i \in 1 .. Len(reader.out) : Listed[i] = reader.out[i].id
      <4>1. reader.out \in Seq(Item) /\ DOMAIN reader.out = 1 .. Len(reader.out)
        BY DEF DossierInv
      <4>2. \A i \in 1 .. Len(reader.out) : reader.out[i].id \in Nat
        <5>1. \A i \in 1 .. Len(reader.out) : reader.out[i] \in Item
          BY <4>1
        <5> QED  BY <5>1 DEF Item
      <4>3. Listed \in [1 .. Len(reader.out) -> Nat]
        BY <4>1, <4>2 DEF Listed
      <4> QED  BY <1>8, <4>1, <4>3 DEF Listed
    <3>2. PICK list : list = Listed \o taken
      OBVIOUS
    <3>3. /\ list \in Seq(Nat) /\ Len(list) = Len(reader.out) + m
          /\ \A i \in 1 .. Len(reader.out) + m :
                list[i] = IF i <= Len(reader.out) THEN Listed[i] ELSE taken[i - Len(reader.out)]
      <4>1. PICK old \in Seq(Nat), new \in Seq(Nat) : old = Listed /\ new = taken
        BY <1>13, <3>1
      <4>2. /\ old \o new \in Seq(Nat) /\ Len(old \o new) = Len(old) + Len(new)
            /\ \A i \in 1 .. Len(old) + Len(new) :
                  (old \o new)[i] = IF i <= Len(old) THEN old[i] ELSE new[i - Len(old)]
        BY ConcatProperties
      <4>3. Len(old) = Len(reader.out) /\ Len(new) = m /\ list = old \o new
        BY <1>13, <3>1, <3>2, <4>1
      <4> QED  BY <4>1, <4>2, <4>3
    <3>4. ASSUME NEW i \in 1 .. Len(reader.out) + m
          PROVE  out[i].id = list[i]
      <4>1. CASE i <= Len(reader.out)
        <5>1. i \in 1 .. Len(reader.out)
          BY <1>8, <4>1
        <5> QED  BY <2>7, <3>1, <3>3, <4>1, <5>1
      <4>2. CASE ~ (i <= Len(reader.out))
        <5>1. i - Len(reader.out) \in 1 .. m
          BY <1>8, <4>2
        <5> QED  BY <1>13, <2>6, <2>7, <3>3, <4>2, <5>1
      <4> QED  BY <4>1, <4>2
    <3>5. DOMAIN out = 1 .. Len(reader.out) + m /\ DOMAIN list = 1 .. Len(reader.out) + m
          /\ list = [i \in 1 .. Len(reader.out) + m |-> list[i]]
      BY <2>7, <3>3
    <3> QED  BY <3>2, <3>4, <3>5
  <2>15. Listed' = InOrder(KeptIds(0, h))
    BY <2>5, <2>13, <2>14 DEF Listed
  <2>16. KeptIds(0, reader.seen)' = KeptIds(0, h)
    <3>1. \A k \in Ids : Kept(k)' <=> Kept(k)
      BY <1>1, <2>5 DEF Kept
    <3> QED  BY <1>1, <2>5, <3>1 DEF KeptIds, Ids
  <2>17. (InOrder(KeptIds(0, reader.seen)))' = InOrder(KeptIds(0, h))
    BY <2>16
  <2>18. full => KeptIds(reader.seen, Len(rows))' # {}
    <3> SUFFICES ASSUME full PROVE KeptIds(reader.seen, Len(rows))' # {}
      OBVIOUS
    <3>1. Len(page) > left
      BY <1>7, <2>4 DEF Truncates
    <3>2. m = left /\ left + 1 \in 1 .. Len(s)
      <4>1. /\ Len(s) \in Nat /\ left \in Nat /\ limit \in Nat /\ limit <= left + 1
            /\ m \in 0 .. Len(s) /\ m <= left /\ (m = left \/ m = limit \/ m = Len(s))
        BY <1>5, <1>8, <1>12
      <4>2. Len(page) = IF limit < Len(s) THEN limit ELSE Len(s)
        BY <1>11
      <4>3. left < limit /\ left < Len(s)
        BY <3>1, <4>1, <4>2
      <4> QED  BY <4>1, <4>3
    <3>3. PICK k : k = s[left + 1]
      OBVIOUS
    <3>4. k \in K /\ h < k
      BY <1>5, <1>8, <2>1, <2>2, <3>2, <3>3 DEF Increasing
    <3>5. k \in Ids /\ Kept(k) /\ k <= Len(rows)
      BY <1>2, <3>4 DEF KeptIds
    <3>6. k \in KeptIds(reader.seen, Len(rows))'
      BY <1>1, <2>5, <3>4, <3>5 DEF KeptIds, Kept, Ids
    <3> QED  BY <3>6
  <2> QED  BY <1>1, <2>3, <2>5, <2>7, <2>8, <2>15, <2>17, <2>18 DEF DossierInv
<1> QED  BY <1>9, <1>10, <1>7, <1>14, <1>15, <1>16 DEF ExportPage

\* Every step keeps the dossier right.
LEMMA DossierInvStep == ReadsInv /\ DossierInv /\ [Next]_vars => DossierInv'
<1> SUFFICES ASSUME ReadsInv, DossierInv, [Next]_vars
             PROVE  DossierInv'
  OBVIOUS
<1>1. CASE (\E e \in Entries : AppendRow(e)) \/ (\E k \in Ids : AlterRow(k)) \/ UNCHANGED vars
  BY <1>1, DossierTableStep
<1>2. CASE VerifyPage \/ ExportFull
  BY <1>2, DossierVerifyStep
<1>3. CASE ExportPage
  BY <1>3, ExportPageStep
<1>4. ASSUME NEW export, NEW filter \in Filters \cup {{}}, NEW limit \in Nat,
             Begin(export, filter, limit)
      PROVE  DossierInv'
  <2>1. PICK max \in 0 .. ExportMax : max = IF limit < ExportMax THEN limit ELSE ExportMax
    BY ReadsAssumption
  <2>2. PICK pc : reader' = [NoRequest EXCEPT !.pc = pc, !.export = export, !.filter = filter,
                                              !.max = max, !.total = Len(rows)]
    BY <1>4, <2>1 DEF Begin
  <2>3. /\ reader'.filter = filter /\ reader'.max = max /\ reader'.out = << >>
        /\ reader'.seen = 0 /\ reader'.truncated = FALSE /\ UNCHANGED rows
    BY <1>4, <2>2 DEF NoRequest, Begin
  <2> QED  BY <2>3, DossierFreshStep
<1>5. CASE Answer
  <2>1. UNCHANGED rows /\ reader' = NoRequest /\ ExportMax \in Nat
    BY <1>5, ReadsAssumption DEF Answer
  <2>2. /\ reader'.filter = {} /\ reader'.max \in 0 .. ExportMax /\ reader'.out = << >>
        /\ reader'.seen = 0 /\ reader'.truncated = FALSE
    BY <2>1 DEF NoRequest
  <2> QED  BY <2>1, <2>2, DossierFreshStep
<1>6. CASE \/ \E f \in Filters, n \in 1 .. ExportMax + 1 : Begin(TRUE, f, n)
           \/ Begin(FALSE, {}, 0)
  <2>1. ASSUME NEW f \in Filters, NEW n \in 1 .. ExportMax + 1, Begin(TRUE, f, n)
        PROVE  DossierInv'
    <3>1. f \in Filters \cup {{}} /\ n \in Nat
      BY ReadsAssumption
    <3> QED  BY <1>4, <2>1, <3>1
  <2>2. CASE Begin(FALSE, {}, 0)
    <3>1. {} \in Filters \cup {{}} /\ 0 \in Nat
      OBVIOUS
    <3> QED  BY <1>4, <2>2, <3>1
  <2> QED  BY <1>6, <2>1, <2>2
<1> QED  BY <1>1, <1>2, <1>3, <1>5, <1>6 DEF Next

\* It holds for ever.
LEMMA DossierInvAlways == Spec => []DossierInv
<1>1. Init => DossierInv
  <2> SUFFICES ASSUME Init PROVE DossierInv
    OBVIOUS
  <2>1. ReadsInv
    BY ReadsInvInit
  <2>2. /\ reader.filter = {} /\ reader.max = 0 /\ reader.out = << >> /\ reader.seen = 0
        /\ reader.truncated = FALSE /\ rows = << >>
    BY DEF Init, NoRequest
  <2>3. Listed = << >> /\ InOrder(KeptIds(0, reader.seen)) = << >>
    BY <2>1, <2>2, NothingListed DEF Listed
  <2> QED  BY <2>2, <2>3, ReadsAssumption DEF DossierInv
<1> QED  BY <1>1, DossierInvStep, ReadsInvAlways, PTL DEF Spec

\* Every variable has its type, and a dossier never holds more than it may.
THEOREM ReadsTypes == Spec => []TypeOK
BY DossierMeaning, ReadsInvAlways, DossierInvAlways, PTL

\* A dossier lists every row of its period up to the last one it reached, each
\* once and in order, whatever its pages are cut by and whatever is chained or
\* altered between them.
THEOREM DossierIsExact == Spec => []ExportExact
BY DossierMeaning, ReadsInvAlways, DossierInvAlways, PTL

\* A dossier marked as truncated left a row of its period out.
THEOREM TruncationIsTrue == Spec => []TruncatedIsTrue
BY DossierMeaning, ReadsInvAlways, DossierInvAlways, PTL
==============================================================================
