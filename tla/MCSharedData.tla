---------------------------- MODULE MCSharedData ----------------------------
(* The small components that processes share, for TLC: the schema of the    *)
(* database, the key files, and the time stamp authority.  They share no    *)
(* state, so each behaviour is one of a single part, and the others rest.   *)
EXTENDS Naturals, FiniteSets

CONSTANTS
    Processes,      \* of the proxy, while they start and with the key files
    Keys, NoKey,    \* of KeyStore
    Roots, Nonces,  \* of TimestampToken
    MaxFailures,    \* bound of SchemaMigration and of KeyStore
    MaxTokens       \* bound of TimestampToken

VARIABLES
    part,           \* the one that moves: "schema", "keys" or "tokens"
    dialect, base, schema, forked, pc, pending, warned, failures,
    private, public, place, held, signed, issued, drawn, passphrase, crashes,
    request, nonces, asked, tokens, accepted

Migration == INSTANCE SchemaMigration WITH
                Dialects <- {"sqlite", "postgresql"},
                Bases <- {[parts |-> {}, forked |-> FALSE],
                          [parts |-> {"table", "request", "column", "chain"}, forked |-> FALSE],
                          [parts |-> {"table", "request"}, forked |-> FALSE],
                          [parts |-> {"table", "request"}, forked |-> TRUE]}

Signer == INSTANCE KeyStore WITH
                SerialFirstUse <- TRUE, MaxCrashes <- MaxFailures, pc <- place

Authority == INSTANCE TimestampToken WITH
                Clients <- Processes, drawn <- nonces

ASSUME SharedDataAssumption ==
    /\ Migration!SchemaAssumption
    /\ Signer!KeyStoreAssumption
    /\ Authority!NonceAssumption

schemaVars == <<dialect, base, schema, forked, pc, pending, warned, failures>>
keyVars == <<private, public, place, held, signed, issued, drawn, passphrase, crashes>>
tokenVars == <<request, nonces, asked, tokens, accepted>>
vars == <<part, schemaVars, keyVars, tokenVars>>

Init ==
    /\ Migration!Init
    /\ Signer!Init
    /\ Authority!Init
    /\ \/ part = "schema" /\ drawn = {} /\ passphrase
       \/ part = "keys" /\ schema = {} /\ dialect = "sqlite"
       \/ part = "tokens" /\ schema = {} /\ dialect = "sqlite" /\ drawn = {} /\ passphrase

Next ==
    \/ part = "schema" /\ Migration!Next /\ UNCHANGED <<part, keyVars, tokenVars>>
    \/ part = "keys" /\ Signer!Next /\ UNCHANGED <<part, schemaVars, tokenVars>>
    \/ part = "tokens" /\ Authority!Next /\ UNCHANGED <<part, schemaVars, keyVars>>

MigrationStep(p) ==
    part = "schema" /\ Migration!Step(p) /\ UNCHANGED <<part, keyVars, tokenVars>>

\* The fairness of SchemaMigration; the others state none.
FairSpec == Init /\ [][Next]_vars /\ \A p \in Processes : WF_vars(MigrationStep(p))

------------------------------------------------------------------------------
(* The properties of the parts, where each is explained.                   *)

\* Every variable of the three parts has its type.
TypeOK == Migration!TypeOK /\ Signer!TypeOK /\ Authority!TypeOK

\* A process that is up works on the present schema, but for what its dialect
\* lets go and for what a logged failure of the index stands for.
UpIsMigrated == Migration!UpIsMigrated

\* A table this release created never holds a fork.
BornUnforked == Migration!BornUnforked

\* Every process that starts gets through init_db in the end.
EventuallyUp == part = "schema" => Migration!EventuallyUp

\* The public key that travels with a signature is the one that verifies it.
IssuedVerifies == Signer!IssuedVerifies

\* No later start, kill or rewrite leaves a signature that was handed out
\* without its public key in the file.
IssuedKeepVerifying == Signer!IssuedKeepVerifying

\* No two requests end with the same token.
TokenServesOne == Authority!TokenServesOne

\* A token that was taken did not exist before its request was sent.
AcceptedIsFresh == Authority!AcceptedIsFresh
==============================================================================
