---------------------------- MODULE TimestampToken ----------------------------
(***************************************************************************)
(* proxy/security/eidas_tsp.py: a batch asks a time stamp authority (TSA)  *)
(* to seal its Merkle root, and takes the answer only if the token is one  *)
(* for that root and for that request.  The answer comes over a network    *)
(* that may give any token the TSA ever issued, or none.                   *)
(*                                                                         *)
(* A definition X_Something, before X, is X with a plausible bug in it; no *)
(* specification uses it.                                                  *)
(***************************************************************************)
EXTENDS Naturals, FiniteSets

CONSTANTS
    Clients,    \* batches that ask, one after another or together
    Roots,      \* Merkle roots
    Nonces,     \* what os.urandom may give; 8 bytes, taken as never repeated
    MaxTokens   \* bound on the tokens in the world

\* What the constants are; an instance of the module assumes it.
NonceAssumption == Nonces \subseteq Nat /\ MaxTokens \in Nat

VARIABLES
    request,    \* the request each client waits on
    drawn,      \* nonces drawn so far
    asked,      \* requests the network has carried
    tokens,     \* tokens in the world
    accepted    \* what clients took, each with its request and the tokens older than it

vars == <<request, drawn, asked, tokens, accepted>>

None == [sent |-> FALSE]

\* An optional field of a request or of a token.
Absent == << >>
Given(nonce) == <<nonce>>

Token(root, nonce, sha256) == [root |-> root, nonce |-> nonce, sha256 |-> sha256]

Init ==
    /\ request = [c \in Clients |-> None]
    /\ drawn = {}
    /\ asked = {}
    /\ tokens = {}
    /\ accepted = {}

\* create_rfc3161_request: a nonce of zero is left out of the request.
NonceField(nonce) == IF nonce # 0 THEN Given(nonce) ELSE Absent

\* request_eidas_timestamp up to its POST.  A batch that failed asks again for
\* the same root.
Ask(c, root) ==
    /\ request[c] = None
    /\ \E nonce \in Nonces \ drawn :
           /\ request' = [request EXCEPT ![c] =
                  [sent |-> TRUE, root |-> root, nonce |-> nonce, before |-> tokens]]
           /\ drawn' = drawn \cup {nonce}
           /\ asked' = asked \cup {[root |-> root, nonce |-> NonceField(nonce)]}
    /\ UNCHANGED <<tokens, accepted>>

\* The TSA seals what it is asked, or is wrong about the root or the algorithm.
Issue ==
    /\ Cardinality(tokens) < MaxTokens
    /\ \E r \in asked, root \in Roots, sha256 \in BOOLEAN :
           tokens' = tokens \cup {Token(root, r.nonce, sha256)}
    /\ UNCHANGED <<request, drawn, asked, accepted>>

Coherent_NonceIfReturned(token, root, nonce) ==
    /\ token.sha256
    /\ token.root = root
    /\ token.nonce # Absent => token.nonce = Given(nonce)

Coherent_AnyNonce(token, root, nonce) ==
    /\ token.sha256
    /\ token.root = root
    /\ token.nonce # Absent

\* verify_timestamp_response on a token that can be read.
Coherent(token, root, nonce) ==
    /\ token.sha256
    /\ token.root = root
    /\ token.nonce # Absent
    /\ token.nonce = Given(nonce)

\* The answer is a token; it is taken or rejected.
Answer(c) ==
    /\ request[c] # None
    /\ \E token \in tokens :
           accepted' = IF Coherent(token, request[c].root, request[c].nonce)
                       THEN accepted \cup {[root |-> request[c].root, nonce |-> request[c].nonce,
                                            token |-> token, before |-> request[c].before]}
                       ELSE accepted
    /\ request' = [request EXCEPT ![c] = None]
    /\ UNCHANGED <<drawn, asked, tokens>>

\* Time out, HTTP error, other content, a PKIStatus that rejects, a token that
\* is missing or cannot be read.
NoAnswer(c) ==
    /\ request[c] # None
    /\ request' = [request EXCEPT ![c] = None]
    /\ UNCHANGED <<drawn, asked, tokens, accepted>>

Next ==
    \/ Issue
    \/ \E c \in Clients : (\E root \in Roots : Ask(c, root)) \/ Answer(c) \/ NoAnswer(c)

Spec == Init /\ [][Next]_vars

------------------------------------------------------------------------------
(* Correctness.                                                            *)

TypeOK ==
    LET Field == {Absent} \cup {Given(n) : n \in Nonces}
        Tokens == [root : Roots, nonce : Field, sha256 : BOOLEAN]
    IN  /\ \A c \in Clients :
               request[c] = None \/ (request[c].root \in Roots /\ request[c].nonce \in drawn)
        /\ drawn \subseteq Nonces
        /\ asked \subseteq [root : Roots, nonce : Field]
        /\ tokens \subseteq Tokens
        /\ \A a \in accepted : a.root \in Roots /\ a.token \in tokens

\* A token that was taken serves one request: when several batches wait, also for
\* the same root, or one asks again, and answers are swapped or repeated, no two
\* requests end with the same token.
TokenServesOne == \A a, b \in accepted : a.token = b.token => a = b

\* A token that was taken did not exist before its request was sent: "el nonce
\* es lo que impide que alguien reutilice un token antiguo como respuesta a una
\* peticion nueva" (eidas_tsp.py:90-92), also for a root that is sealed again.
AcceptedIsFresh == \A a \in accepted : a.token \notin a.before
==============================================================================
