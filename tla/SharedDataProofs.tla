---------------------------- MODULE SharedDataProofs ---------------------------
(* The schema, the key files and the time stamp authority, for any number of   *)
(* processes, keys, roots, nonces, failures and tokens.  The three parts share *)
(* no state: a step of one leaves the others as they are.                      *)
EXTENDS MCSharedData, TLAPS

------------------------------------------------------------------------------
(* Time stamp tokens: TimestampTokenProofs, its clients being the processes. *)

Sealing == INSTANCE TimestampTokenProofs WITH Clients <- Processes, drawn <- nonces

\* A step of the whole is one of the authority and its clients, or none.
LEMMA TokenStep == [Next]_vars => [Sealing!Next]_Sealing!vars
<1> SUFFICES ASSUME [Next]_vars
             PROVE  Sealing!Next \/ UNCHANGED Sealing!vars
  OBVIOUS
<1>1. CASE UNCHANGED tokenVars
  BY <1>1 DEF tokenVars, Sealing!vars
<1>2. Authority!Issue => Sealing!Issue
  BY DEF Authority!Issue, Authority!Token, Authority!Cardinality,
         Sealing!Issue, Sealing!Token, Sealing!Cardinality
<1>3. ASSUME NEW c \in Processes, NEW root \in Roots, Authority!Ask(c, root)
      PROVE  Sealing!Ask(c, root)
  BY <1>3 DEF Authority!Ask, Authority!None, Authority!NonceField, Authority!Given, Authority!Absent,
              Sealing!Ask, Sealing!None, Sealing!NonceField, Sealing!Given, Sealing!Absent
<1>4. ASSUME NEW c \in Processes, Authority!Answer(c)
      PROVE  Sealing!Answer(c)
  BY <1>4 DEF Authority!Answer, Authority!None, Authority!Coherent, Authority!Given, Authority!Absent,
              Sealing!Answer, Sealing!None, Sealing!Coherent, Sealing!Given, Sealing!Absent
<1>5. ASSUME NEW c \in Processes, Authority!NoAnswer(c)
      PROVE  Sealing!NoAnswer(c)
  BY <1>5 DEF Authority!NoAnswer, Authority!None, Sealing!NoAnswer, Sealing!None
<1>6. CASE Authority!Next
  BY <1>2, <1>3, <1>4, <1>5, <1>6 DEF Authority!Next, Sealing!Next
<1>7. Authority!Next \/ UNCHANGED tokenVars
  BY DEF Next, vars
<1> QED  BY <1>1, <1>6, <1>7

TokensKept == Sealing!TokenInv /\ Sealing!TypeOK /\ Sealing!SingleUse

\* The invariants of the tokens hold at first and are kept.
LEMMA TokensInductive == (Init => TokensKept) /\ (TokensKept /\ [Next]_vars => TokensKept')
<1>1. Authority!Init => Sealing!Init
  BY DEF Authority!Init, Authority!None, Sealing!Init, Sealing!None
<1>2. Init => TokensKept
  BY <1>1, Sealing!TokenInvInit, Sealing!TypesInit, Sealing!SingleUseInit DEF Init, TokensKept
<1>3. TokensKept /\ [Next]_vars => TokensKept'
  BY TokenStep, Sealing!TokenInvStep, Sealing!TypesStep, Sealing!SingleUseStep DEF TokensKept
<1> QED  BY <1>2, <1>3

\* What the invariants of the tokens say.
LEMMA TokensMean == TokensKept => Authority!TypeOK /\ TokenServesOne /\ AcceptedIsFresh
<1>1. Sealing!TypeOK => Authority!TypeOK
  BY DEF Sealing!TypeOK, Sealing!None, Sealing!Given, Sealing!Absent,
         Authority!TypeOK, Authority!None, Authority!Given, Authority!Absent
<1>2. Sealing!SingleUse => TokenServesOne
  <2>1. Sealing!TokenServesOne => TokenServesOne
    BY DEF Sealing!TokenServesOne, TokenServesOne, Authority!TokenServesOne
  <2> QED  BY <2>1, Sealing!SingleUseServesOne
<1>3. Sealing!TokenInv => AcceptedIsFresh
  BY DEF Sealing!TokenInv, Sealing!AcceptedIsFresh, AcceptedIsFresh, Authority!AcceptedIsFresh
<1> QED  BY <1>1, <1>2, <1>3 DEF TokensKept

------------------------------------------------------------------------------
(* The schema: a statement only adds, what one finds is there to stay, and *)
(* what goes on without the index has said so.                             *)

Everything == {"table", "column", "chain"}
AllParts == {"table", "request", "column", "chain"}

\* Where each process is, and what it has found or made by then.
Arrived(p) ==
    LET sees == schema \cup pending[p]
    IN  /\ pc[p] = "indexes" => Everything \subseteq sees
        /\ pc[p] \in {"columns", "alter", "guard"} => "table" \in sees
        /\ pc[p] = "guard" => "column" \in sees
        /\ (pc[p] = "commit" /\ ~ warned[p]) => Everything \subseteq sees
        /\ dialect = "sqlite" =>
               /\ pending[p] = {}
               /\ pc[p] \in {"commit", "up"} => {"table", "column"} \subseteq schema
        /\ dialect = "postgresql" =>
               /\ (pc[p] # "indexes" /\ "table" \in pending[p]) => "request" \in sees
               /\ (pc[p] = "up" /\ ~ warned[p]) => AllParts \subseteq schema
        /\ (pc[p] = "up" /\ ~ warned[p]) => Everything \subseteq schema

\* A table of this release has its constraint, committed or not.
ChainWithTable(parts) == "table" \in parts => "chain" \in parts

\* A transaction leaves no table without the index of request_id.
RequestWithTable ==
    (dialect = "postgresql" /\ "table" \in schema) => "request" \in schema

SchemaInv ==
    /\ Migration!TypeOK
    /\ \A p \in Processes : Arrived(p)
    /\ RequestWithTable
    /\ base.parts = {} =>
           /\ ~ forked /\ ChainWithTable(schema)
           /\ \A p \in Processes : ChainWithTable(pending[p])

\* No process has begun, and an empty database is not forked.
LEMMA SchemaInit == Init => SchemaInv
<1> SUFFICES ASSUME Init PROVE SchemaInv
  OBVIOUS
<1>1. /\ dialect \in {"sqlite", "postgresql"}
      /\ base \in {[parts |-> {}, forked |-> FALSE],
                   [parts |-> {"table", "request", "column", "chain"}, forked |-> FALSE],
                   [parts |-> {"table", "request"}, forked |-> FALSE],
                   [parts |-> {"table", "request"}, forked |-> TRUE]}
      /\ schema = base.parts /\ forked = base.forked
      /\ pc = [p \in Processes |-> "down"] /\ pending = [p \in Processes |-> {}]
      /\ warned = [p \in Processes |-> FALSE] /\ failures = 0
  BY DEF Init, Migration!Init
<1>2. MaxFailures \in Nat
  BY SharedDataAssumption DEF Migration!SchemaAssumption
<1>3. schema \subseteq {"table", "request", "column", "chain"} /\ forked \in BOOLEAN
      /\ (base.parts = {} => ~ forked /\ schema = {}) /\ RequestWithTable
  <2>1. \/ base.parts = {} /\ base.forked = FALSE
        \/ base.parts = {"table", "request", "column", "chain"} /\ base.forked = FALSE
        \/ base.parts = {"table", "request"} /\ base.forked \in BOOLEAN
    <3>1. ASSUME NEW parts, NEW fork, base = [parts |-> parts, forked |-> fork]
          PROVE  base.parts = parts /\ base.forked = fork
      BY <3>1
    <3> QED  BY <1>1, <3>1, Zenon
  <2> QED  BY <1>1, <2>1 DEF RequestWithTable
<1>4. Migration!TypeOK
  BY <1>1, <1>2, <1>3 DEF Migration!TypeOK, Migration!Parts
<1>5. \A p \in Processes : Arrived(p)
  BY <1>1 DEF Arrived
<1>6. \A p \in Processes : ChainWithTable(pending[p])
  BY <1>1 DEF ChainWithTable
<1> QED  BY <1>3, <1>4, <1>5, <1>6 DEF SchemaInv, ChainWithTable

Places == {"down", "create", "indexes", "columns", "alter", "guard", "commit", "up"}

\* A step of one process in init_db is seen by the others as a schema that grows.
LEMMA OneMoves ==
    ASSUME SchemaInv, NEW p \in Processes, NEW target \in Places,
           dialect' = dialect, base' = base, forked' = forked,
           pc' = [pc EXCEPT ![p] = target], failures' \in 0 .. MaxFailures,
           pending' \in [Processes -> SUBSET AllParts], warned' \in [Processes -> BOOLEAN],
           \A q \in Processes \ {p} : pending'[q] = pending[q] /\ warned'[q] = warned[q],
           schema \subseteq schema', schema' \subseteq AllParts,
           Arrived(p)', RequestWithTable',
           base.parts = {} => ChainWithTable(schema') /\ ChainWithTable(pending'[p])
    PROVE  SchemaInv'
<1>1. pc \in [Processes -> Places]
  BY DEF SchemaInv, Migration!TypeOK, Places
<1>2. Migration!TypeOK'
  <2>1. pc' \in [Processes -> Places]
    BY <1>1
  <2>2. dialect \in {"sqlite", "postgresql"} /\ forked \in BOOLEAN
    BY DEF SchemaInv, Migration!TypeOK
  <2>3. (base \in {[parts |-> {}, forked |-> FALSE],
                   [parts |-> {"table", "request", "column", "chain"}, forked |-> FALSE],
                   [parts |-> {"table", "request"}, forked |-> FALSE],
                   [parts |-> {"table", "request"}, forked |-> TRUE]})'
    BY Zenon DEF SchemaInv, Migration!TypeOK
  <2> QED  BY <2>1, <2>2, <2>3 DEF Migration!TypeOK, Migration!Parts, Places, AllParts
<1>3. ASSUME NEW q \in Processes PROVE Arrived(q)'
  <2>1. CASE q = p
    BY <2>1
  <2>2. CASE q # p
    <3>1. pc'[q] = pc[q] /\ pending'[q] = pending[q] /\ warned'[q] = warned[q]
      BY <1>1, <2>2
    <3>2. Arrived(q)
      BY DEF SchemaInv
    <3> QED  BY <3>1, <3>2 DEF Arrived
  <2> QED  BY <2>1, <2>2
<1>4. (base.parts = {})' => ~ forked' /\ ChainWithTable(schema')
          /\ \A q \in Processes : ChainWithTable(pending'[q])
  <2>1. base.parts = {} => ~ forked /\ \A q \in Processes : ChainWithTable(pending[q])
    BY DEF SchemaInv
  <2>2. ASSUME base.parts = {}, NEW q \in Processes PROVE ChainWithTable(pending'[q])
    <3>1. q = p \/ pending'[q] = pending[q]
      OBVIOUS
    <3> QED  BY <2>1, <2>2, <3>1
  <2> QED  BY <2>1, <2>2
<1> QED  BY <1>2, <1>3, <1>4 DEF SchemaInv, ChainWithTable

\* A statement adds its parts, to the schema or to the transaction.
LEMMA ApplyAdds ==
    ASSUME SchemaInv, NEW p \in Processes, NEW parts \in SUBSET AllParts, Migration!Apply(p, parts)
    PROVE  /\ schema' \in {schema, schema \cup parts} /\ schema \subseteq AllParts
           /\ pending \in [Processes -> SUBSET AllParts]
           /\ pending' \in [Processes -> SUBSET AllParts]
           /\ pending'[p] \in {pending[p], pending[p] \cup parts}
           /\ \A q \in Processes \ {p} : pending'[q] = pending[q]
           /\ schema' \cup pending'[p] = schema \cup pending[p] \cup parts
<1>1. pending \in [Processes -> SUBSET AllParts] /\ schema \subseteq AllParts
  BY DEF SchemaInv, Migration!TypeOK, Migration!Parts, AllParts
<1>2. CASE schema' = schema \cup parts /\ pending' = pending
  BY <1>1, <1>2
<1>3. CASE pending' = [pending EXCEPT ![p] = @ \cup parts] /\ schema' = schema
  <2>1. pending' = [pending EXCEPT ![p] = pending[p] \cup parts] /\ pending[p] \cup parts \in SUBSET AllParts
    BY <1>1, <1>3
  <2>2. /\ pending' \in [Processes -> SUBSET AllParts] /\ pending'[p] = pending[p] \cup parts
        /\ \A q \in Processes \ {p} : pending'[q] = pending[q]
    BY <1>1, <2>1
  <2> QED  BY <1>1, <1>3, <2>2
<1> QED  BY <1>2, <1>3 DEF Migration!Apply

\* A process that ends leaves the committed schema.
LEMMA DyingKeepsSchema ==
    ASSUME SchemaInv, NEW p \in Processes, Migration!Dies(p), failures' \in 0 .. MaxFailures
    PROVE  SchemaInv'
<1>1. /\ pc' = [pc EXCEPT ![p] = "down"] /\ pending' = [pending EXCEPT ![p] = {}]
      /\ warned' = [warned EXCEPT ![p] = FALSE]
      /\ dialect' = dialect /\ base' = base /\ schema' = schema /\ forked' = forked
  BY DEF Migration!Dies, Migration!GoTo
<1>2. /\ pending \in [Processes -> SUBSET AllParts] /\ warned \in [Processes -> BOOLEAN]
      /\ pc \in [Processes -> Places] /\ schema \subseteq AllParts
  BY DEF SchemaInv, Migration!TypeOK, Migration!Parts, AllParts, Places
<1>3. /\ pending' \in [Processes -> SUBSET AllParts] /\ warned' \in [Processes -> BOOLEAN]
      /\ pending'[p] = {} /\ pc'[p] = "down"
      /\ \A q \in Processes \ {p} : pending'[q] = pending[q] /\ warned'[q] = warned[q]
  BY <1>1, <1>2
<1>4. Arrived(p)'
  BY <1>3 DEF Arrived
<1>5. base.parts = {} => ChainWithTable(schema') /\ ChainWithTable(pending'[p])
  BY <1>1, <1>3 DEF SchemaInv, ChainWithTable
<1>6. "down" \in Places
  BY DEF Places
<1>7. RequestWithTable'
  BY <1>1 DEF SchemaInv, RequestWithTable
<1> QED  BY <1>1, <1>2, <1>3, <1>4, <1>5, <1>6, <1>7, OneMoves

\* Looking and reading change nothing but the place.
LEMMA LookingKeepsSchema ==
    ASSUME SchemaInv, NEW p \in Processes, Migration!Inspect(p) \/ Migration!ReadColumns(p)
    PROVE  SchemaInv'
<1>1. PICK target \in {"create", "columns", "guard", "alter"} :
          /\ pc' = [pc EXCEPT ![p] = target]
          /\ target = "columns" => "table" \in schema
          /\ pc[p] \in {"down", "columns"} /\ (target \in {"guard", "alter"} => pc[p] = "columns")
          /\ target = "guard" => "column" \in schema \cup pending[p]
          /\ UNCHANGED <<dialect, base, schema, forked, pending, warned, failures>>
  BY DEF Migration!Inspect, Migration!ReadColumns, Migration!GoTo, Migration!Visible
<1>2. /\ pending \in [Processes -> SUBSET AllParts] /\ warned \in [Processes -> BOOLEAN]
      /\ pc \in [Processes -> Places] /\ schema \subseteq AllParts /\ failures \in 0 .. MaxFailures
  BY DEF SchemaInv, Migration!TypeOK, Migration!Parts, AllParts, Places
<1>3. pc'[p] = target
  BY <1>1, <1>2
<1>4. Arrived(p)'
  BY <1>1, <1>3 DEF Arrived, SchemaInv
<1>5. base.parts = {} => ChainWithTable(schema') /\ ChainWithTable(pending'[p])
  BY <1>1 DEF SchemaInv, ChainWithTable
<1>6. target \in Places
  BY <1>1 DEF Places
<1>7. RequestWithTable'
  BY <1>1 DEF SchemaInv, RequestWithTable
<1> QED  BY <1>1, <1>2, <1>4, <1>5, <1>6, <1>7, OneMoves

\* A DDL statement that succeeds: the table comes with its constraint.
LEMMA StatementsKeepSchema ==
    ASSUME SchemaInv, NEW p \in Processes, NEW parts \in SUBSET AllParts, NEW target \in Places,
           Migration!Apply(p, parts), pc' = [pc EXCEPT ![p] = target],
           UNCHANGED <<dialect, base, forked, warned, failures>>,
           ChainWithTable(parts),
           target = "indexes" => Everything \subseteq parts,
           target \in {"columns", "guard"} => "table" \in schema \cup pending[p] \cup parts,
           target = "guard" => "column" \in parts,
           target = "commit" => Everything \subseteq schema \cup pending[p] \cup parts,
           target = "indexes" \/ "table" \notin parts,
           pc[p] = "indexes" => "request" \in parts,
           target \notin {"alter", "up"}
    PROVE  SchemaInv'
<1>1. /\ schema' \in {schema, schema \cup parts} /\ schema \subseteq AllParts
      /\ pending' \in [Processes -> SUBSET AllParts]
      /\ pending'[p] \in {pending[p], pending[p] \cup parts}
      /\ \A q \in Processes \ {p} : pending'[q] = pending[q]
      /\ schema' \cup pending'[p] = schema \cup pending[p] \cup parts
  BY ApplyAdds
<1>3. /\ dialect = "sqlite" => schema' = schema \cup parts /\ pending'[p] = pending[p]
      /\ dialect = "postgresql" => schema' = schema /\ pending'[p] = pending[p] \cup parts
      /\ dialect \in {"sqlite", "postgresql"}
  BY DEF Migration!Apply, SchemaInv, Migration!TypeOK, Migration!Parts, AllParts
<1>2. /\ warned' \in [Processes -> BOOLEAN] /\ pc'[p] = target /\ failures' \in 0 .. MaxFailures
      /\ \A q \in Processes \ {p} : warned'[q] = warned[q]
  BY DEF SchemaInv, Migration!TypeOK
<1>4. Arrived(p)'
  <2>1. Arrived(p)
    BY DEF SchemaInv
  <2>2. (dialect = "postgresql" /\ target # "indexes" /\ "table" \in pending'[p])
            => "request" \in schema' \cup pending'[p]
    BY <1>1, <1>3, <2>1 DEF Arrived
  <2>3. dialect = "sqlite" =>
            pending'[p] = {} /\ (target = "commit" => {"table", "column"} \subseteq schema')
    BY <1>1, <1>3, <2>1 DEF Arrived, Everything
  <2> QED  BY <1>1, <1>2, <2>2, <2>3 DEF Arrived, Everything
<1>5. base.parts = {} => ChainWithTable(schema') /\ ChainWithTable(pending'[p])
  BY <1>1 DEF SchemaInv, ChainWithTable
<1>6. schema \subseteq schema' /\ schema' \subseteq AllParts
  BY <1>1
<1>7. RequestWithTable'
  BY <1>3 DEF SchemaInv, RequestWithTable
<1> QED  BY <1>1, <1>2, <1>4, <1>5, <1>6, <1>7, OneMoves

\* The index is there, or its failure has been said.
LEMMA GuardingKeepsSchema ==
    ASSUME SchemaInv, NEW p \in Processes, Migration!GuardChain(p) \/ Migration!GuardFails(p)
    PROVE  SchemaInv'
<1>1. /\ pending \in [Processes -> SUBSET AllParts] /\ warned \in [Processes -> BOOLEAN]
      /\ pc \in [Processes -> Places] /\ schema \subseteq AllParts /\ failures \in 0 .. MaxFailures
  BY DEF SchemaInv, Migration!TypeOK, Migration!Parts, AllParts, Places
<1>2. pc[p] = "guard" /\ pc' = [pc EXCEPT ![p] = "commit"] /\ pc'[p] = "commit"
      /\ UNCHANGED <<dialect, base, forked>>
  BY <1>1 DEF Migration!GuardChain, Migration!GuardFails, Migration!GoTo
<1>3. "commit" \in Places /\ {"table", "column"} \subseteq schema \cup pending[p]
  BY <1>2 DEF Places, SchemaInv, Arrived
<1>4. CASE Migration!GuardChain(p) /\ "chain" \in schema \cup pending[p]
  <2>1. UNCHANGED <<schema, pending, warned, failures>>
    BY <1>4 DEF Migration!GuardChain, Migration!Visible
  <2>2. Arrived(p)'
    BY <1>2, <1>3, <1>4, <2>1 DEF Arrived, Everything, SchemaInv
  <2>3. base.parts = {} => ChainWithTable(schema') /\ ChainWithTable(pending'[p])
    BY <2>1 DEF SchemaInv, ChainWithTable
  <2>4. RequestWithTable'
    BY <1>2, <2>1 DEF SchemaInv, RequestWithTable
  <2> QED  BY <1>1, <1>2, <1>3, <2>1, <2>2, <2>3, <2>4, OneMoves
<1>5. CASE Migration!GuardChain(p) /\ "chain" \notin schema \cup pending[p]
  <2>1. Migration!Apply(p, {"chain"}) /\ UNCHANGED <<warned, failures>>
    BY <1>5 DEF Migration!GuardChain, Migration!Visible
  <2>2. {"chain"} \in SUBSET AllParts /\ ChainWithTable({"chain"})
        /\ Everything \subseteq schema \cup pending[p] \cup {"chain"}
    BY <1>3 DEF AllParts, ChainWithTable, Everything
  <2> QED  BY <1>2, <1>3, <2>1, <2>2, StatementsKeepSchema
<1>6. CASE Migration!GuardFails(p)
  <2>1. /\ warned' = [warned EXCEPT ![p] = TRUE] /\ pending' = [pending EXCEPT ![p] = {}]
        /\ schema' = schema
        /\ \/ failures' = failures
           \/ failures < MaxFailures /\ failures' = failures + 1
    BY <1>6 DEF Migration!GuardFails
  <2>2. /\ warned' \in [Processes -> BOOLEAN] /\ pending' \in [Processes -> SUBSET AllParts]
        /\ warned'[p] = TRUE /\ pending'[p] = {}
        /\ \A q \in Processes \ {p} : pending'[q] = pending[q] /\ warned'[q] = warned[q]
    BY <1>1, <2>1
  <2>3. failures' \in 0 .. MaxFailures
    <3>1. MaxFailures \in Nat
      BY SharedDataAssumption DEF Migration!SchemaAssumption
    <3> QED  BY <1>1, <2>1, <3>1
  <2>4. Arrived(p)'
    BY <1>2, <1>3, <2>1, <2>2 DEF Arrived, SchemaInv
  <2>5. base.parts = {} => ChainWithTable(schema') /\ ChainWithTable(pending'[p])
    BY <2>1, <2>2 DEF SchemaInv, ChainWithTable
  <2>6. RequestWithTable'
    BY <1>2, <2>1 DEF SchemaInv, RequestWithTable
  <2> QED  BY <1>1, <1>2, <1>3, <2>1, <2>2, <2>3, <2>4, <2>5, <2>6, OneMoves
<1> QED  BY <1>4, <1>5, <1>6

\* A commit makes the rest of what the process did visible to all.
LEMMA CommitKeepsSchema ==
    ASSUME SchemaInv, NEW p \in Processes, Migration!Commit(p)
    PROVE  SchemaInv'
<1>1. /\ pending \in [Processes -> SUBSET AllParts] /\ warned \in [Processes -> BOOLEAN]
      /\ pc \in [Processes -> Places] /\ schema \subseteq AllParts /\ failures \in 0 .. MaxFailures
  BY DEF SchemaInv, Migration!TypeOK, Migration!Parts, AllParts, Places
<1>2. /\ pc[p] = "commit" /\ schema' = schema \cup pending[p]
      /\ pending' = [pending EXCEPT ![p] = {}] /\ pc' = [pc EXCEPT ![p] = "up"]
      /\ UNCHANGED <<dialect, base, forked, warned, failures>>
  BY DEF Migration!Commit, Migration!GoTo
<1>3. /\ pending' \in [Processes -> SUBSET AllParts] /\ pending'[p] = {} /\ pc'[p] = "up"
      /\ \A q \in Processes \ {p} : pending'[q] = pending[q] /\ warned'[q] = warned[q]
  BY <1>1, <1>2
<1>4. RequestWithTable'
  BY <1>2 DEF Arrived, SchemaInv, RequestWithTable
<1>5. Arrived(p)'
  <2>1. Arrived(p)
    BY DEF SchemaInv
  <2>2. (dialect = "postgresql" /\ ~ warned[p]) => AllParts \subseteq schema'
    BY <1>2, <1>4, <2>1 DEF Arrived, Everything, AllParts, RequestWithTable
  <2> QED  BY <1>2, <1>3, <2>1, <2>2 DEF Arrived
<1>6. base.parts = {} => ChainWithTable(schema') /\ ChainWithTable(pending'[p])
  BY <1>2, <1>3 DEF SchemaInv, ChainWithTable
<1>7. "up" \in Places /\ schema \subseteq schema' /\ schema' \subseteq AllParts
  BY <1>1, <1>2 DEF Places
<1> QED  BY <1>1, <1>2, <1>3, <1>4, <1>5, <1>6, <1>7, OneMoves

\* A table of this release is never written by two at once.
LEMMA ForkKeepsSchema ==
    ASSUME SchemaInv, Migration!Fork
    PROVE  SchemaInv'
<1>1. /\ "table" \in schema /\ "chain" \notin schema /\ forked' = TRUE
      /\ UNCHANGED <<dialect, base, schema, pc, pending, warned, failures>>
  BY DEF Migration!Fork
<1>2. base.parts # {}
  BY <1>1 DEF SchemaInv, ChainWithTable
<1>3. Migration!TypeOK'
  <2>1. (base \in {[parts |-> {}, forked |-> FALSE],
                   [parts |-> {"table", "request", "column", "chain"}, forked |-> FALSE],
                   [parts |-> {"table", "request"}, forked |-> FALSE],
                   [parts |-> {"table", "request"}, forked |-> TRUE]})'
    BY <1>1, Zenon DEF SchemaInv, Migration!TypeOK
  <2> QED  BY <1>1, <2>1 DEF SchemaInv, Migration!TypeOK
<1>4. \A p \in Processes : Arrived(p)'
  BY <1>1 DEF SchemaInv, Arrived
<1>5. RequestWithTable'
  BY <1>1 DEF SchemaInv, RequestWithTable
<1> QED  BY <1>1, <1>2, <1>3, <1>4, <1>5 DEF SchemaInv

\* Whatever a process does in init_db, and wherever it ends.
LEMMA ProcessKeepsSchema ==
    ASSUME SchemaInv, NEW p \in Processes, Migration!Step(p) \/ Migration!Fails(p)
    PROVE  SchemaInv'
<1>1. MaxFailures \in Nat /\ failures \in 0 .. MaxFailures
  BY SharedDataAssumption DEF SchemaInv, Migration!TypeOK, Migration!SchemaAssumption
<1>2. CASE Migration!Inspect(p) \/ Migration!ReadColumns(p)
  BY <1>2, LookingKeepsSchema
<1>3. CASE Migration!CreateTable(p)
  <2>1. CASE Migration!Dies(p)
    BY <1>1, <1>3, <2>1, DyingKeepsSchema DEF Migration!CreateTable
  <2>2. CASE ~ Migration!Dies(p)
    <3>1. /\ Migration!Apply(p, Everything) /\ pc' = [pc EXCEPT ![p] = "indexes"]
          /\ UNCHANGED <<dialect, base, forked, warned, failures>>
      <4>1. Everything = {"table", "column", "chain"}
        BY DEF Everything
      <4> QED  BY <1>3, <2>2, <4>1 DEF Migration!CreateTable, Migration!GoTo
    <3>2. Everything \in SUBSET AllParts /\ ChainWithTable(Everything) /\ "indexes" \in Places
          /\ pc[p] = "create"
      BY <1>3 DEF Everything, AllParts, ChainWithTable, Places, Migration!CreateTable
    <3> QED  BY <3>1, <3>2, StatementsKeepSchema
  <2> QED  BY <2>1, <2>2
<1>4. CASE Migration!CreateIndexes(p)
  <2>1. /\ Migration!Apply(p, {"request"}) /\ pc' = [pc EXCEPT ![p] = "columns"] /\ pc[p] = "indexes"
        /\ UNCHANGED <<dialect, base, forked, warned, failures>>
    BY <1>4 DEF Migration!CreateIndexes, Migration!GoTo
  <2>2. {"request"} \in SUBSET AllParts /\ ChainWithTable({"request"}) /\ "columns" \in Places
    BY DEF AllParts, ChainWithTable, Places
  <2>3. "table" \in schema \cup pending[p] \cup {"request"}
    BY <2>1 DEF SchemaInv, Arrived, Everything
  <2> QED  BY <2>1, <2>2, <2>3, StatementsKeepSchema
<1>5. CASE Migration!AddColumn(p)
  <2>1. CASE Migration!Dies(p)
    BY <1>1, <1>5, <2>1, DyingKeepsSchema DEF Migration!AddColumn
  <2>2. CASE ~ Migration!Dies(p)
    <3>1. /\ Migration!Apply(p, {"column"}) /\ pc' = [pc EXCEPT ![p] = "guard"] /\ pc[p] = "alter"
          /\ UNCHANGED <<dialect, base, forked, warned, failures>>
      BY <1>5, <2>2 DEF Migration!AddColumn, Migration!GoTo
    <3>2. {"column"} \in SUBSET AllParts /\ ChainWithTable({"column"}) /\ "guard" \in Places
      BY DEF AllParts, ChainWithTable, Places
    <3>3. "table" \in schema \cup pending[p] \cup {"column"}
      BY <3>1 DEF SchemaInv, Arrived
    <3> QED  BY <3>1, <3>2, <3>3, StatementsKeepSchema
  <2> QED  BY <2>1, <2>2
<1>6. CASE Migration!GuardChain(p) \/ Migration!GuardFails(p)
  BY <1>6, GuardingKeepsSchema
<1>7. CASE Migration!Commit(p)
  BY <1>7, CommitKeepsSchema
<1>8. CASE Migration!Fails(p)
  <2>1. Migration!Dies(p) /\ failures < MaxFailures /\ failures' = failures + 1
    BY <1>8 DEF Migration!Fails
  <2>2. failures' \in 0 .. MaxFailures
    BY <1>1, <2>1
  <2> QED  BY <2>1, <2>2, DyingKeepsSchema
<1> QED  BY <1>2, <1>3, <1>4, <1>5, <1>6, <1>7, <1>8 DEF Migration!Step

\* The invariant of the schema is kept.
LEMMA SchemaStep == SchemaInv /\ [Next]_vars => SchemaInv'
<1> SUFFICES ASSUME SchemaInv, [Next]_vars PROVE SchemaInv'
  OBVIOUS
<1>1. CASE Migration!Next
  BY <1>1, ForkKeepsSchema, ProcessKeepsSchema DEF Migration!Next
<1>2. CASE UNCHANGED schemaVars
  <2>1. UNCHANGED <<dialect, base, schema, forked, pc, pending, warned, failures>>
    BY <1>2 DEF schemaVars
  <2>2. Migration!TypeOK'
    BY <2>1, Zenon DEF SchemaInv, Migration!TypeOK
  <2>3. \A p \in Processes : Arrived(p)'
    BY <2>1 DEF SchemaInv, Arrived
  <2>4. RequestWithTable'
    BY <2>1 DEF SchemaInv, RequestWithTable
  <2> QED  BY <2>1, <2>2, <2>3, <2>4 DEF SchemaInv
<1> QED  BY <1>1, <1>2 DEF Next, vars

\* What the invariant of the schema says.
LEMMA SchemaMeans == SchemaInv => Migration!TypeOK /\ UpIsMigrated /\ BornUnforked
<1>1. SchemaInv => UpIsMigrated
  <2> SUFFICES ASSUME SchemaInv, NEW p \in Processes, pc[p] = "up"
               PROVE  IF dialect = "sqlite"
                      THEN {"table", "column"} \subseteq schema /\ ("chain" \in schema \/ warned[p])
                      ELSE Migration!Parts \subseteq schema \/ warned[p]
    BY DEF UpIsMigrated, Migration!UpIsMigrated
  <2>1. Arrived(p) /\ dialect \in {"sqlite", "postgresql"} /\ warned[p] \in BOOLEAN
    BY DEF SchemaInv, Migration!TypeOK
  <2> QED  BY <2>1 DEF Arrived, Everything, AllParts, Migration!Parts
<1>2. SchemaInv => BornUnforked
  BY DEF SchemaInv, BornUnforked, Migration!BornUnforked
<1> QED  BY <1>1, <1>2 DEF SchemaInv

------------------------------------------------------------------------------
(* The keys: as long as there is no pair at most one process is at it, and *)
(* from then on all who read, write and sign hold the key of the pair.     *)

NoneHeld == [private |-> NoKey, public |-> NoKey]

Files == {Signer!Missing, Signer!Blank} \cup {Signer!Holds(k, e) : k \in Keys, e \in BOOLEAN}

\* What a process has in hand that makes the first pair.
Making(p) ==
    /\ signed[p] = NoKey
    /\ \/ place[p] = "idle" /\ held[p] = NoneHeld
       \/ /\ place[p] \in {"blankPrivate", "fillPrivate", "blankPublic"}
          /\ \E k \in Keys :
                 /\ held[p] = [private |-> k, public |-> k]
                 /\ place[p] = "blankPublic" => private \in {Signer!Holds(k, e) : e \in BOOLEAN}

\* There is no pair yet.
NoPair ==
    /\ public = Signer!Missing /\ issued = {}
    /\ private \in Files
    /\ \A p \in Processes : Making(p)
    /\ \A p, q \in Processes : place[p] # "idle" /\ place[q] # "idle" => p = q

\* What a process has in hand that uses the pair of key k, or writes it.
Using(p, k) ==
    /\ signed[p] \in {NoKey, k}
    /\ \/ place[p] \in {"idle", "again", "readPrivate"} /\ held[p] = NoneHeld
       \/ /\ place[p] \in {"blankPrivate", "fillPrivate", "readPublic"}
          /\ held[p] = [private |-> k, public |-> NoKey]
       \/ place[p] \in {"fillPublic", "use"} /\ held[p] = [private |-> k, public |-> k]

\* The pair of key k is there, each file whole or emptied for good or for now.
Pair(k) ==
    /\ private \in {Signer!Blank} \cup {Signer!Holds(k, e) : e \in BOOLEAN}
    /\ public \in {Signer!Blank, Signer!Holds(k, FALSE)}
    /\ issued \subseteq {[key |-> k, public |-> k]}
    /\ \A p \in Processes : Using(p, k)

Shapes ==
    /\ place = [p \in Processes |-> place[p]] /\ held = [p \in Processes |-> held[p]]
    /\ signed = [p \in Processes |-> signed[p]]
    /\ drawn \subseteq Keys /\ passphrase \in BOOLEAN /\ crashes \in 0 .. MaxFailures

KeyInv == Shapes /\ (NoPair \/ \E k \in Keys : Pair(k))

\* The constants of the keys.
LEMMA KeyConstants == NoKey \notin Keys /\ MaxFailures \in Nat
BY SharedDataAssumption DEF Signer!KeyStoreAssumption

\* No key, or the pair of an older release.
LEMMA KeyInit == Init => KeyInv
<1> SUFFICES ASSUME Init PROVE KeyInv
  OBVIOUS
<1>1. /\ place = [p \in Processes |-> "idle"] /\ held = [p \in Processes |-> NoneHeld]
      /\ signed = [p \in Processes |-> NoKey] /\ issued = {} /\ passphrase \in BOOLEAN /\ crashes = 0
      /\ \/ private = Signer!Missing /\ public = Signer!Missing /\ drawn = {}
         \/ \E k \in Keys : private = Signer!Holds(k, FALSE) /\ public = Signer!Holds(k, FALSE) /\ drawn = {k}
  BY DEF Init, Signer!Init, Signer!Nothing, NoneHeld
<1>2. Shapes
  <2>1. drawn \subseteq Keys
    BY <1>1
  <2>2. 0 \in 0 .. MaxFailures
    BY KeyConstants
  <2> QED  BY <1>1, <2>1, <2>2 DEF Shapes
<1>3. CASE private = Signer!Missing /\ public = Signer!Missing
  <2>1. \A p \in Processes : Making(p)
    BY <1>1 DEF Making
  <2>2. private \in Files
    BY <1>3 DEF Files
  <2> QED  BY <1>1, <1>2, <1>3, <2>1, <2>2 DEF NoPair, KeyInv
<1>4. ASSUME NEW k \in Keys, private = Signer!Holds(k, FALSE), public = Signer!Holds(k, FALSE)
      PROVE  Pair(k)
  <2>1. \A p \in Processes : Using(p, k)
    BY <1>1 DEF Using
  <2> QED  BY <1>1, <1>4, <2>1 DEF Pair
<1> QED  BY <1>1, <1>2, <1>3, <1>4 DEF KeyInv

\* A step of one process, as the others see it in a pair of key k.
LEMMA OneUses ==
    ASSUME Shapes, NEW k \in Keys, Pair(k), NEW p \in Processes,
           place' = [place EXCEPT ![p] = place'[p]],
           held' = [held EXCEPT ![p] = held'[p]],
           signed' = [signed EXCEPT ![p] = signed'[p]],
           private' \in {private, Signer!Blank, Signer!Holds(k, TRUE), Signer!Holds(k, FALSE)},
           public' \in {public, Signer!Blank, Signer!Holds(k, FALSE)},
           issued' \in {issued, issued \cup {[key |-> k, public |-> k]}},
           drawn' = drawn, passphrase' = passphrase, crashes' \in 0 .. MaxFailures,
           Using(p, k)'
    PROVE  KeyInv'
<1>1. Shapes'
  BY DEF Shapes
<1>2. ASSUME NEW q \in Processes PROVE Using(q, k)'
  <2>1. CASE q = p
    BY <2>1
  <2>2. CASE q # p
    <3>1. place'[q] = place[q] /\ held'[q] = held[q] /\ signed'[q] = signed[q]
      BY <2>2 DEF Shapes
    <3> QED  BY <3>1 DEF Pair, Using
  <2> QED  BY <2>1, <2>2
<1>3. private' \in {Signer!Blank} \cup {Signer!Holds(k, e) : e \in BOOLEAN}
  BY DEF Pair
<1>4. public' \in {Signer!Blank, Signer!Holds(k, FALSE)} /\ issued' \subseteq {[key |-> k, public |-> k]}
  BY DEF Pair
<1>5. Pair(k)'
  BY <1>2, <1>3, <1>4 DEF Pair
<1> QED  BY <1>1, <1>5 DEF KeyInv

\* The same while there is no pair.
LEMMA OneMakes ==
    ASSUME Shapes, NoPair, NEW p \in Processes, \A q \in Processes : place[q] # "idle" => q = p,
           place' = [place EXCEPT ![p] = place'[p]],
           held' = [held EXCEPT ![p] = held'[p]],
           signed' = [signed EXCEPT ![p] = signed'[p]],
           public' = public, issued' = issued, drawn' \subseteq Keys, passphrase' = passphrase,
           private' \in Files,
           crashes' \in 0 .. MaxFailures, Making(p)'
    PROVE  KeyInv'
<1>1. Shapes'
  BY DEF Shapes
<1>2. ASSUME NEW q \in Processes, q # p
      PROVE  Making(q)' /\ place'[q] = "idle"
  <2>1. place'[q] = place[q] /\ held'[q] = held[q] /\ signed'[q] = signed[q] /\ place[q] = "idle"
    BY <1>2 DEF Shapes
  <2> QED  BY <2>1 DEF NoPair, Making
<1>3. NoPair'
  BY <1>2 DEF NoPair
<1> QED  BY <1>1, <1>3 DEF KeyInv

\* The files of a pair, as Look and the two reads see them.
LEMMA PairIsComplete ==
    ASSUME NEW k \in Keys, Pair(k)
    PROVE  /\ private # Signer!Missing /\ public # Signer!Missing
           /\ (Signer!HoldsKey(private) => private.key = k)
           /\ (Signer!HoldsKey(public) => public.key = k)
<1>1. \A e \in BOOLEAN : Signer!Holds(k, e) # Signer!Missing /\ Signer!Holds(k, e).key = k
  BY DEF Signer!Holds, Signer!Missing
<1>2. Signer!Blank # Signer!Missing /\ ~ Signer!HoldsKey(Signer!Blank)
  BY DEF Signer!Blank, Signer!Missing, Signer!HoldsKey
<1> QED  BY <1>1, <1>2 DEF Pair

\* With a pair, whatever a process does leaves the pair, and it has its key.
LEMMA PairStays ==
    ASSUME Shapes, NEW k \in Keys, Pair(k), NEW p \in Processes,
           \/ Signer!Look(p) \/ Signer!ReadPrivate(p) \/ Signer!BlankPrivate(p)
           \/ Signer!FillPrivate(p) \/ Signer!BlankPublic(p) \/ Signer!FillPublic(p)
           \/ Signer!ReadPublic(p) \/ Signer!Sign(p) \/ Signer!ShowPublicKey(p) \/ Signer!Crash(p)
    PROVE  KeyInv'
<1>1. /\ Using(p, k) /\ NoKey # k /\ crashes \in 0 .. MaxFailures /\ MaxFailures \in Nat
      /\ place = [q \in Processes |-> place[q]] /\ held = [q \in Processes |-> held[q]]
      /\ signed = [q \in Processes |-> signed[q]] /\ passphrase \in BOOLEAN
      /\ signed[p] \in {NoKey, k}
  BY KeyConstants DEF Pair, Using, Shapes
<1>2. CASE Signer!Look(p)
  <2>1. /\ place[p] \in {"idle", "again"} /\ place' = [place EXCEPT ![p] = "readPrivate"]
        /\ UNCHANGED <<held, drawn, private, public, signed, issued, passphrase, crashes>>
    BY <1>2, PairIsComplete DEF Signer!Look, Signer!Complete, Signer!GoTo
  <2>2. Using(p, k)'
    BY <1>1, <2>1 DEF Using
  <2> QED  BY <1>1, <2>1, <2>2, OneUses
<1>3. CASE Signer!ReadPrivate(p)
  <2>1. CASE Signer!HoldsKey(private)
    <3>1. /\ place[p] = "readPrivate" /\ held' = [held EXCEPT ![p].private = k]
          /\ \E target \in {"readPublic", "blankPrivate"} : place' = [place EXCEPT ![p] = target]
          /\ UNCHANGED <<signed, private, public, issued, drawn, passphrase, crashes>>
      BY <1>3, <2>1, PairIsComplete DEF Signer!ReadPrivate, Signer!GoTo
    <3>2. held[p] = NoneHeld
      BY <1>1, <3>1 DEF Using
    <3>3. held'[p] = [private |-> k, public |-> NoKey] /\ held' = [held EXCEPT ![p] = held'[p]]
      BY <1>1, <3>1, <3>2 DEF NoneHeld
    <3>4. place'[p] \in {"readPublic", "blankPrivate"} /\ place' = [place EXCEPT ![p] = place'[p]]
      BY <1>1, <3>1
    <3>5. signed' = [signed EXCEPT ![p] = signed'[p]]
      BY <1>1, <3>1
    <3>6. Using(p, k)'
      BY <1>1, <3>1, <3>3, <3>4 DEF Using
    <3> QED  BY <1>1, <3>1, <3>3, <3>4, <3>5, <3>6, OneUses
  <2>2. CASE ~ Signer!HoldsKey(private)
    <3>1. Signer!GivesUp(p) /\ UNCHANGED <<private, public, issued, drawn, passphrase, crashes>>
      BY <1>3, <2>2 DEF Signer!ReadPrivate
    <3>2. /\ place' = [place EXCEPT ![p] = "idle"] /\ held' = [held EXCEPT ![p] = NoneHeld]
          /\ signed' = [signed EXCEPT ![p] = NoKey]
      BY <3>1 DEF Signer!GivesUp, Signer!GoTo, Signer!Nothing, NoneHeld
    <3>3. Using(p, k)'
      BY <1>1, <3>2 DEF Using
    <3> QED  BY <1>1, <3>1, <3>2, <3>3, OneUses
  <2> QED  BY <2>1, <2>2
<1>4. CASE Signer!BlankPrivate(p)
  <2>1. /\ place[p] = "blankPrivate" /\ place' = [place EXCEPT ![p] = "fillPrivate"]
        /\ private' = Signer!Blank
        /\ UNCHANGED <<held, drawn, public, signed, issued, passphrase, crashes>>
    BY <1>4 DEF Signer!BlankPrivate, Signer!GoTo
  <2>2. Using(p, k)'
    BY <1>1, <2>1 DEF Using
  <2> QED  BY <1>1, <2>1, <2>2, OneUses
<1>5. CASE Signer!FillPrivate(p)
  <2>1. place[p] = "fillPrivate"
    BY <1>5 DEF Signer!FillPrivate
  <2>2. held[p] = [private |-> k, public |-> NoKey]
    BY <1>1, <2>1 DEF Using
  <2>3. /\ place' = [place EXCEPT ![p] = "readPublic"] /\ private' = Signer!Holds(k, passphrase)
        /\ UNCHANGED <<held, drawn, public, signed, issued, passphrase, crashes>>
    BY <1>5, <2>2 DEF Signer!FillPrivate, Signer!GoTo
  <2>4. private' \in {Signer!Holds(k, TRUE), Signer!Holds(k, FALSE)}
    BY <1>1, <2>3
  <2>5. Using(p, k)'
    BY <1>1, <2>2, <2>3 DEF Using
  <2> QED  BY <1>1, <2>3, <2>4, <2>5, OneUses
<1>6. CASE Signer!BlankPublic(p)
  <2>1. place[p] = "blankPublic"
    BY <1>6 DEF Signer!BlankPublic
  <2> QED  BY <1>1, <2>1 DEF Using
<1>7. CASE Signer!FillPublic(p)
  <2>1. place[p] = "fillPublic"
    BY <1>7 DEF Signer!FillPublic
  <2>2. held[p] = [private |-> k, public |-> k]
    BY <1>1, <2>1 DEF Using
  <2>3. /\ place' = [place EXCEPT ![p] = "use"] /\ public' = Signer!Holds(k, FALSE)
        /\ UNCHANGED <<held, drawn, private, signed, issued, passphrase, crashes>>
    BY <1>7, <2>2 DEF Signer!FillPublic, Signer!GoTo
  <2>4. Using(p, k)'
    BY <1>1, <2>2, <2>3 DEF Using
  <2> QED  BY <1>1, <2>3, <2>4, OneUses
<1>8. CASE Signer!ReadPublic(p)
  <2>1. CASE Signer!HoldsKey(public)
    <3>1. /\ place[p] = "readPublic" /\ held' = [held EXCEPT ![p].public = k]
          /\ place' = [place EXCEPT ![p] = "use"]
          /\ UNCHANGED <<signed, private, public, issued, drawn, passphrase, crashes>>
      BY <1>8, <2>1, PairIsComplete DEF Signer!ReadPublic, Signer!GoTo
    <3>2. held[p] = [private |-> k, public |-> NoKey]
      BY <1>1, <3>1 DEF Using
    <3>3. held'[p] = [private |-> k, public |-> k] /\ held' = [held EXCEPT ![p] = held'[p]]
      BY <1>1, <3>1, <3>2
    <3>4. signed' = [signed EXCEPT ![p] = signed'[p]] /\ place'[p] = "use"
          /\ place' = [place EXCEPT ![p] = place'[p]]
      BY <1>1, <3>1
    <3>5. Using(p, k)'
      BY <1>1, <3>1, <3>3, <3>4 DEF Using
    <3> QED  BY <1>1, <3>1, <3>3, <3>4, <3>5, OneUses
  <2>2. CASE ~ Signer!HoldsKey(public)
    <3>1. Signer!GivesUp(p) /\ UNCHANGED <<private, public, issued, drawn, passphrase, crashes>>
      BY <1>8, <2>2 DEF Signer!ReadPublic
    <3>2. /\ place' = [place EXCEPT ![p] = "idle"] /\ held' = [held EXCEPT ![p] = NoneHeld]
          /\ signed' = [signed EXCEPT ![p] = NoKey]
      BY <3>1 DEF Signer!GivesUp, Signer!GoTo, Signer!Nothing, NoneHeld
    <3>3. Using(p, k)'
      BY <1>1, <3>2 DEF Using
    <3> QED  BY <1>1, <3>1, <3>2, <3>3, OneUses
  <2> QED  BY <2>1, <2>2
<1>9. CASE Signer!Sign(p)
  <2>1. place[p] = "use"
    BY <1>9 DEF Signer!Sign
  <2>2. held[p] = [private |-> k, public |-> k]
    BY <1>1, <2>1 DEF Using
  <2>3. /\ place' = [place EXCEPT ![p] = "again"] /\ signed' = [signed EXCEPT ![p] = k]
        /\ held' = [held EXCEPT ![p] = NoneHeld]
        /\ UNCHANGED <<drawn, private, public, issued, passphrase, crashes>>
    BY <1>9, <2>2 DEF Signer!Sign, Signer!GoTo, Signer!Nothing, NoneHeld
  <2>4. Using(p, k)'
    BY <1>1, <2>3 DEF Using
  <2> QED  BY <1>1, <2>3, <2>4, OneUses
<1>10. CASE Signer!ShowPublicKey(p)
  <2>1. place[p] = "use"
    BY <1>10 DEF Signer!ShowPublicKey
  <2>2. held[p] = [private |-> k, public |-> k]
    BY <1>1, <2>1 DEF Using
  <2>3. /\ issued' \in {issued, issued \cup {[key |-> k, public |-> k]}}
        /\ Signer!GivesUp(p) /\ UNCHANGED <<private, public, drawn, passphrase, crashes>>
    BY <1>1, <1>10, <2>2 DEF Signer!ShowPublicKey
  <2>4. /\ place' = [place EXCEPT ![p] = "idle"] /\ held' = [held EXCEPT ![p] = NoneHeld]
        /\ signed' = [signed EXCEPT ![p] = NoKey]
    BY <2>3 DEF Signer!GivesUp, Signer!GoTo, Signer!Nothing, NoneHeld
  <2>5. Using(p, k)'
    BY <1>1, <2>4 DEF Using
  <2> QED  BY <1>1, <2>3, <2>4, <2>5, OneUses
<1>11. CASE Signer!Crash(p)
  <2>1. /\ crashes < MaxFailures /\ crashes' = crashes + 1
        /\ Signer!GivesUp(p) /\ UNCHANGED <<private, public, issued, drawn, passphrase>>
    BY <1>11 DEF Signer!Crash
  <2>2. /\ place' = [place EXCEPT ![p] = "idle"] /\ held' = [held EXCEPT ![p] = NoneHeld]
        /\ signed' = [signed EXCEPT ![p] = NoKey] /\ crashes' \in 0 .. MaxFailures
    BY <1>1, <2>1 DEF Signer!GivesUp, Signer!GoTo, Signer!Nothing, NoneHeld
  <2>3. Using(p, k)'
    BY <1>1, <2>2 DEF Using
  <2> QED  BY <1>1, <2>1, <2>2, <2>3, OneUses
<1> QED  BY <1>2, <1>3, <1>4, <1>5, <1>6, <1>7, <1>8, <1>9, <1>10, <1>11

\* Without a pair, one process makes one at a time, and with its public key
\* emptied the pair is there.
LEMMA PairComes ==
    ASSUME Shapes, NoPair, NEW p \in Processes,
           \/ Signer!Look(p) \/ Signer!ReadPrivate(p) \/ Signer!BlankPrivate(p)
           \/ Signer!FillPrivate(p) \/ Signer!BlankPublic(p) \/ Signer!FillPublic(p)
           \/ Signer!ReadPublic(p) \/ Signer!Sign(p) \/ Signer!ShowPublicKey(p) \/ Signer!Crash(p)
    PROVE  KeyInv'
<1>1. /\ Making(p) /\ NoKey \notin Keys /\ crashes \in 0 .. MaxFailures /\ MaxFailures \in Nat
      /\ place = [q \in Processes |-> place[q]] /\ held = [q \in Processes |-> held[q]]
      /\ signed = [q \in Processes |-> signed[q]] /\ passphrase \in BOOLEAN /\ signed[p] = NoKey
      /\ public = Signer!Missing /\ drawn \subseteq Keys
      /\ private \in Files
  BY KeyConstants DEF NoPair, Making, Shapes
<1>2. place[p] # "idle" => \A q \in Processes : place[q] # "idle" => q = p
  BY DEF NoPair
<1>3. CASE Signer!Look(p)
  <2>1. /\ place[p] \in {"idle", "again"} /\ ~ Signer!Complete
        /\ \A q \in Processes \ {p} : ~ Signer!Creating(q) /\ place[q] \in {"idle", "again"}
    BY <1>1, <1>3 DEF Signer!Look, Signer!Complete
  <2>2. \A q \in Processes : place[q] # "idle" => q = p
    BY <2>1 DEF NoPair, Making
  <2>3. PICK k \in Keys :
            /\ held' = [held EXCEPT ![p] = [private |-> k, public |-> k]]
            /\ drawn' = drawn \cup {k}
    BY <1>3, <2>1 DEF Signer!Look
  <2>4. /\ place' \in {[place EXCEPT ![p] = "blankPrivate"]}
        /\ UNCHANGED <<private, public, signed, issued, passphrase, crashes>>
    BY <1>3, <2>1 DEF Signer!Look, Signer!GoTo
  <2>5. Making(p)'
    BY <1>1, <2>3, <2>4 DEF Making
  <2>6. drawn' \subseteq Keys
    BY <1>1, <2>3
  <2> QED  BY <1>1, <2>2, <2>3, <2>4, <2>5, <2>6, OneMakes
<1>4. CASE Signer!BlankPrivate(p)
  <2>1. /\ place[p] = "blankPrivate" /\ place' = [place EXCEPT ![p] = "fillPrivate"]
        /\ private' = Signer!Blank
        /\ UNCHANGED <<held, drawn, public, signed, issued, passphrase, crashes>>
    BY <1>4 DEF Signer!BlankPrivate, Signer!GoTo
  <2>2. Making(p)'
    BY <1>1, <2>1 DEF Making
  <2>3. private' \in Files
    BY <2>1 DEF Files
  <2> QED  BY <1>1, <1>2, <2>1, <2>2, <2>3, OneMakes
<1>5. CASE Signer!FillPrivate(p)
  <2>1. place[p] = "fillPrivate"
    BY <1>5 DEF Signer!FillPrivate
  <2>2. PICK k \in Keys : held[p] = [private |-> k, public |-> k]
    BY <1>1, <2>1 DEF Making
  <2>3. held[p].public # NoKey /\ held[p].private = k
    BY <1>1, <2>2
  <2>4. /\ place' = [place EXCEPT ![p] = "blankPublic"] /\ private' = Signer!Holds(k, passphrase)
        /\ UNCHANGED <<held, drawn, public, signed, issued, passphrase, crashes>>
    BY <1>5, <2>3 DEF Signer!FillPrivate, Signer!GoTo
  <2>5. private' \in {Signer!Holds(k, e) : e \in BOOLEAN}
    BY <1>1, <2>4
  <2>6. (private \in {Signer!Holds(k, e) : e \in BOOLEAN})'
    BY <2>5 DEF Signer!Holds
  <2>7. Making(p)'
    BY <1>1, <2>2, <2>4, <2>6 DEF Making
  <2>8. private' \in Files
    BY <2>5 DEF Files
  <2> QED  BY <1>1, <1>2, <2>1, <2>4, <2>7, <2>8, OneMakes
<1>6. CASE Signer!BlankPublic(p)
  <2>1. /\ place[p] = "blankPublic" /\ place' = [place EXCEPT ![p] = "fillPublic"]
        /\ public' = Signer!Blank
        /\ UNCHANGED <<held, drawn, private, signed, issued, passphrase, crashes>>
    BY <1>6 DEF Signer!BlankPublic, Signer!GoTo
  <2>2. PICK k \in Keys : /\ held[p] = [private |-> k, public |-> k]
                          /\ private \in {Signer!Holds(k, e) : e \in BOOLEAN}
    BY <1>1, <2>1 DEF Making
  <2>3. ASSUME NEW q \in Processes PROVE Using(q, k)'
    <3>1. CASE q = p
      BY <1>1, <2>1, <2>2, <3>1 DEF Using
    <3>2. CASE q # p
      <4>1. place[q] = "idle" /\ Making(q)
        BY <1>2, <2>1, <3>2 DEF NoPair
      <4> QED  BY <1>1, <2>1, <3>2, <4>1 DEF Using, Making
    <3> QED  BY <3>1, <3>2
  <2>4. issued' = {}
    BY <2>1 DEF NoPair
  <2>5. Pair(k)'
    BY <2>1, <2>2, <2>3, <2>4 DEF Pair, Signer!Holds, Signer!Blank
  <2>6. Shapes'
    BY <1>1, <2>1 DEF Shapes
  <2> QED  BY <2>5, <2>6 DEF KeyInv
<1>7. CASE Signer!Crash(p)
  <2>1. /\ place[p] # "idle" /\ crashes < MaxFailures /\ crashes' = crashes + 1
        /\ Signer!GivesUp(p) /\ UNCHANGED <<private, public, issued, drawn, passphrase>>
    BY <1>7 DEF Signer!Crash
  <2>2. /\ place' = [place EXCEPT ![p] = "idle"] /\ held' = [held EXCEPT ![p] = NoneHeld]
        /\ signed' = [signed EXCEPT ![p] = NoKey] /\ crashes' \in 0 .. MaxFailures
    BY <1>1, <2>1 DEF Signer!GivesUp, Signer!GoTo, Signer!Nothing, NoneHeld
  <2>3. Making(p)'
    BY <1>1, <2>2 DEF Making
  <2> QED  BY <1>1, <1>2, <2>1, <2>2, <2>3, OneMakes
<1>8. CASE \/ Signer!ReadPrivate(p) \/ Signer!FillPublic(p) \/ Signer!ReadPublic(p)
           \/ Signer!Sign(p) \/ Signer!ShowPublicKey(p)
  <2>1. place[p] \in {"readPrivate", "fillPublic", "readPublic", "use"}
    BY <1>8 DEF Signer!ReadPrivate, Signer!FillPublic, Signer!ReadPublic, Signer!Sign, Signer!ShowPublicKey
  <2> QED  BY <1>1, <2>1 DEF Making
<1> QED  BY <1>3, <1>4, <1>5, <1>6, <1>7, <1>8

\* The invariant of the keys is kept.
LEMMA KeyStep == KeyInv /\ [Next]_vars => KeyInv'
<1> SUFFICES ASSUME KeyInv, [Next]_vars PROVE KeyInv'
  OBVIOUS
<1>1. CASE Signer!Next
  BY <1>1, PairStays, PairComes DEF Signer!Next, KeyInv
<1>2. CASE UNCHANGED keyVars
  <2>1. UNCHANGED <<private, public, place, held, signed, issued, drawn, passphrase, crashes>>
    BY <1>2 DEF keyVars
  <2>2. Shapes'
    BY <2>1 DEF KeyInv, Shapes
  <2>3. NoPair => NoPair'
    BY <2>1 DEF NoPair, Making, Files, Signer!Holds
  <2>4. ASSUME NEW k \in Keys, Pair(k) PROVE Pair(k)'
    BY <2>1, <2>4 DEF Pair, Using, Signer!Holds
  <2> QED  BY <2>2, <2>3, <2>4 DEF KeyInv
<1> QED  BY <1>1, <1>2 DEF Next, vars

\* What the invariant of the keys says.
LEMMA KeysMean == KeyInv => Signer!TypeOK /\ IssuedVerifies /\ IssuedKeepVerifying
<1> SUFFICES ASSUME KeyInv PROVE Signer!TypeOK /\ IssuedVerifies /\ IssuedKeepVerifying
  OBVIOUS
<1> DEFINE File == Files
           Key == Keys \cup {NoKey}
           At == {"idle", "again", "readPrivate", "blankPrivate", "fillPrivate", "blankPublic",
                  "fillPublic", "readPublic", "use"}
           Hand == [private : Key, public : Key]
<1>1. Shapes
  BY DEF KeyInv
<1>2. CASE NoPair
  <2>1. ASSUME NEW p \in Processes PROVE place[p] \in At /\ held[p] \in Hand /\ signed[p] \in Key
    <3>1. Making(p)
      BY <1>2 DEF NoPair
    <3>2. \A k \in Keys : [private |-> k, public |-> k] \in Hand
      OBVIOUS
    <3>3. NoneHeld \in Hand
      BY DEF NoneHeld
    <3>4. held[p] \in Hand /\ signed[p] \in Key
      BY <3>1, <3>2, <3>3 DEF Making
    <3>5. place[p] \in At
      BY <3>1 DEF Making
    <3> QED  BY <3>4, <3>5
  <2>2. private \in File /\ public \in File /\ issued = {}
    BY <1>2 DEF NoPair, Files
  <2>3. place \in [Processes -> At] /\ held \in [Processes -> Hand] /\ signed \in [Processes -> Key]
    BY <1>1, <2>1 DEF Shapes
  <2>4. Signer!TypeOK
    BY <1>1, <2>2, <2>3 DEF Shapes, Files, Signer!TypeOK
  <2> QED  BY <2>2, <2>4 DEF IssuedVerifies, IssuedKeepVerifying, Signer!IssuedVerifies, Signer!IssuedKeepVerifying
<1>3. ASSUME NEW k \in Keys, Pair(k)
      PROVE  Signer!TypeOK /\ IssuedVerifies /\ IssuedKeepVerifying
  <2>1. \A p \in Processes : place[p] \in At /\ held[p] \in Hand /\ signed[p] \in Key
    BY <1>3 DEF Pair, Using, NoneHeld
  <2>2. private \in File /\ public \in File /\ issued \subseteq {[key |-> k, public |-> k]}
    <3>1. Signer!Blank \in Files /\ \A e \in BOOLEAN : Signer!Holds(k, e) \in Files
      BY DEF Files
    <3> QED  BY <1>3, <3>1 DEF Pair
  <2>3. place \in [Processes -> At] /\ held \in [Processes -> Hand] /\ signed \in [Processes -> Key]
    BY <1>1, <2>1 DEF Shapes
  <2>4. issued \subseteq [key : Keys, public : Keys] /\ \A s \in issued : s.key = k /\ s.public = k
    BY <2>2
  <2>5. Signer!TypeOK
    BY <1>1, <2>2, <2>3, <2>4 DEF Shapes, Files, Signer!TypeOK
  <2>6. Signer!HoldsKey(public) => public.key = k
    BY <1>3, PairIsComplete
  <2> QED  BY <2>4, <2>5, <2>6 DEF IssuedVerifies, IssuedKeepVerifying, Signer!IssuedVerifies, Signer!IssuedKeepVerifying
<1> QED  BY <1>2, <1>3 DEF KeyInv

------------------------------------------------------------------------------
(* The three parts together.                                               *)

\* Every variable of the three parts has its type.
THEOREM SharedTypes == FairSpec => []TypeOK
<1>1. SchemaInv /\ KeyInv /\ TokensKept => TypeOK
  BY SchemaMeans, KeysMean, TokensMean DEF TypeOK
<1> QED  BY <1>1, SchemaInit, SchemaStep, KeyInit, KeyStep, TokensInductive, PTL DEF FairSpec

\* However starts race, fail and are killed, a process that is up works on the
\* table, its column and the guarded chain: but for the guard, on SQLite, and for
\* any of it, on PostgreSQL, when it logged that its index failed.
THEOREM UpAlwaysMigrated == FairSpec => []UpIsMigrated
BY SchemaInit, SchemaStep, SchemaMeans, PTL DEF FairSpec

\* A table of this release is never forked, by however many processes.
THEOREM NewTablesUnforked == FairSpec => []BornUnforked
BY SchemaInit, SchemaStep, SchemaMeans, PTL DEF FairSpec

\* As long as no two processes make the first pair at once, every signature is
\* handed out with the public key that verifies it.
THEOREM SignaturesVerify == FairSpec => []IssuedVerifies
BY KeyInit, KeyStep, KeysMean, PTL DEF FairSpec

\* ... and goes on being verified by the key in the file.
THEOREM SignaturesKeepVerifying == FairSpec => []IssuedKeepVerifying
BY KeyInit, KeyStep, KeysMean, PTL DEF FairSpec

\* However answers are swapped and repeated, no two requests end with one token.
THEOREM TokensServeOneRequest == FairSpec => []TokenServesOne
BY TokensInductive, TokensMean, PTL DEF FairSpec

\* A token that was taken is younger than its request.
THEOREM TokensAreFresh == FairSpec => []AcceptedIsFresh
BY TokensInductive, TokensMean, PTL DEF FairSpec
==============================================================================
