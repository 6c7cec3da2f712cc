------------------------- MODULE TimestampTokenProofs --------------------------
(* What a batch takes from the time stamp authority was made for its own       *)
(* request and for no other, for any clients, roots, nonces and tokens.        *)
EXTENDS TimestampToken, Sequences, TLAPS

\* A field that is given is not absent, and tells its nonce.
LEMMA GivenTellsNonce ==
    ASSUME NEW n, NEW m
    PROVE  Given(n) # Absent /\ (Given(n) = Given(m) => n = m)
<1>1. Len(<<n>>) = 1 /\ <<n>>[1] = n /\ <<m>>[1] = m
  OBVIOUS
<1>2. <<n>> # << >>
  OBVIOUS
<1> QED  BY <1>1, <1>2 DEF Given, Absent

------------------------------------------------------------------------------
(* The freshness: a request draws a nonce nobody knows yet, so no token    *)
(* that exists then can answer to it.                                      *)

\* A nonce that the world knows was drawn.
FieldDrawn(field) == field = Absent \/ \E n \in drawn : field = Given(n)

KnownWasDrawn ==
    /\ \A r \in asked : FieldDrawn(r.nonce)
    /\ \A t \in tokens : FieldDrawn(t.nonce)

\* No token older than a request answers to its nonce.
RequestIsFresh ==
    \A c \in Clients :
        request[c] # None => \A t \in request[c].before : t.nonce # Given(request[c].nonce)

TokenInv ==
    /\ request = [c \in Clients |-> request[c]]
    /\ KnownWasDrawn
    /\ RequestIsFresh
    /\ AcceptedIsFresh

\* Nothing is known before the first request.
LEMMA TokenInvInit == Init => TokenInv
BY DEF Init, TokenInv, KnownWasDrawn, FieldDrawn, RequestIsFresh, AcceptedIsFresh

\* A field that was drawn stays so.
LEMMA FieldStaysDrawn ==
    ASSUME NEW field, FieldDrawn(field), drawn \subseteq drawn'
    PROVE  FieldDrawn(field)'
BY DEF FieldDrawn

\* The invariant is inductive.
LEMMA TokenInvStep == TokenInv /\ [Next]_vars => TokenInv'
<1> SUFFICES ASSUME TokenInv, [Next]_vars
             PROVE  TokenInv'
  OBVIOUS
<1> USE DEF TokenInv
<1>1. ASSUME NEW c \in Clients, NEW root \in Roots, Ask(c, root)
      PROVE  TokenInv'
  <2>1. PICK nonce \in Nonces \ drawn :
            /\ request' = [request EXCEPT ![c] =
                   [sent |-> TRUE, root |-> root, nonce |-> nonce, before |-> tokens]]
            /\ drawn' = drawn \cup {nonce}
            /\ asked' = asked \cup {[root |-> root, nonce |-> NonceField(nonce)]}
    BY <1>1 DEF Ask
  <2>2. UNCHANGED <<tokens, accepted>>
    BY <1>1 DEF Ask
  <2>3. drawn \subseteq drawn'
    BY <2>1
  <2>4. KnownWasDrawn'
    <3>1. ASSUME NEW r \in asked'
          PROVE  FieldDrawn(r.nonce)'
      <4>1. CASE r \in asked
        BY <4>1, <2>3, FieldStaysDrawn DEF KnownWasDrawn
      <4>2. CASE r.nonce = NonceField(nonce)
        BY <4>2, <2>1 DEF NonceField, FieldDrawn
      <4> QED  BY <4>1, <4>2, <2>1
    <3>2. ASSUME NEW t \in tokens'
          PROVE  FieldDrawn(t.nonce)'
      BY <2>2, <2>3, FieldStaysDrawn DEF KnownWasDrawn
    <3> QED  BY <3>1, <3>2 DEF KnownWasDrawn
  <2>5. RequestIsFresh'
    <3>1. ASSUME NEW t \in tokens
          PROVE  t.nonce # Given(nonce)
      <4>1. FieldDrawn(t.nonce)
        BY DEF KnownWasDrawn
      <4> QED  BY <4>1, <2>1, GivenTellsNonce DEF FieldDrawn
    <3>2. ASSUME NEW d \in Clients, request'[d] # None, NEW t \in request'[d].before
          PROVE  t.nonce # Given(request'[d].nonce)
      <4>1. CASE d = c
        <5>1. request'[d] = [sent |-> TRUE, root |-> root, nonce |-> nonce, before |-> tokens]
          BY <4>1, <2>1
        <5> QED  BY <5>1, <3>1, <3>2
      <4>2. CASE d # c
        BY <4>2, <3>2, <2>1 DEF RequestIsFresh
      <4> QED  BY <4>1, <4>2
    <3> QED  BY <3>2 DEF RequestIsFresh
  <2>6. AcceptedIsFresh'
    BY <2>2 DEF AcceptedIsFresh
  <2>7. (request = [d \in Clients |-> request[d]])'
    BY <2>1
  <2> QED  BY <2>4, <2>5, <2>6, <2>7
<1>2. CASE Issue
  <2>1. PICK r \in asked, root \in Roots, sha256 \in BOOLEAN :
            tokens' = tokens \cup {Token(root, r.nonce, sha256)}
    BY <1>2 DEF Issue
  <2>2. UNCHANGED <<request, drawn, asked, accepted>>
    BY <1>2 DEF Issue
  <2>3. Token(root, r.nonce, sha256).nonce = r.nonce
    BY DEF Token
  <2>4. KnownWasDrawn'
    BY <2>1, <2>2, <2>3 DEF KnownWasDrawn, FieldDrawn
  <2> QED  BY <2>2, <2>4 DEF RequestIsFresh, AcceptedIsFresh
<1>3. ASSUME NEW c \in Clients, Answer(c)
      PROVE  TokenInv'
  <2>1. PICK token \in tokens :
            accepted' = IF Coherent(token, request[c].root, request[c].nonce)
                        THEN accepted \cup {[root |-> request[c].root, nonce |-> request[c].nonce,
                                             token |-> token, before |-> request[c].before]}
                        ELSE accepted
    BY <1>3 DEF Answer
  <2>2. /\ request[c] # None
        /\ request' = [request EXCEPT ![c] = None]
        /\ UNCHANGED <<drawn, asked, tokens>>
    BY <1>3 DEF Answer
  <2>3. AcceptedIsFresh'
    BY <2>1, <2>2 DEF AcceptedIsFresh, RequestIsFresh, Coherent
  <2>4. RequestIsFresh' /\ (request = [d \in Clients |-> request[d]])'
    BY <2>2 DEF RequestIsFresh
  <2> QED  BY <2>2, <2>3, <2>4 DEF KnownWasDrawn, FieldDrawn
<1>4. ASSUME NEW c \in Clients, NoAnswer(c)
      PROVE  TokenInv'
  BY <1>4 DEF NoAnswer, KnownWasDrawn, FieldDrawn, RequestIsFresh, AcceptedIsFresh
<1>5. CASE UNCHANGED vars
  BY <1>5 DEF vars, KnownWasDrawn, FieldDrawn, RequestIsFresh, AcceptedIsFresh
<1> QED  BY <1>1, <1>2, <1>3, <1>4, <1>5 DEF Next

\* A token that was taken is younger than its request: no replay of an old one,
\* also for a nonce of zero, which the request leaves out.
THEOREM AcceptedAlwaysFresh == Spec => []AcceptedIsFresh
<1>1. TokenInv => AcceptedIsFresh
  BY DEF TokenInv
<1> QED  BY <1>1, TokenInvInit, TokenInvStep, PTL DEF Spec

------------------------------------------------------------------------------
(* One token, one request: the nonce in the token tells the request, and no *)
(* other request has it or will.                                            *)

Waiting(c) == request[c] # None

SingleUse ==
    /\ \A c \in Clients : Waiting(c) => request[c].nonce \in drawn
    /\ \A c, d \in Clients :
           Waiting(c) /\ Waiting(d) /\ request[c].nonce = request[d].nonce => c = d
    /\ \A a \in accepted : a.nonce \in drawn /\ a.token.nonce = Given(a.nonce)
    /\ \A a \in accepted, c \in Clients : Waiting(c) => request[c].nonce # a.nonce
    /\ \A a, b \in accepted : a.nonce = b.nonce => a = b

\* Nobody waits in the beginning.
LEMMA SingleUseInit == Init => SingleUse
BY DEF Init, SingleUse, Waiting

\* A nonce is drawn once, and goes with its request into what is accepted.
LEMMA SingleUseStep == TokenInv /\ SingleUse /\ [Next]_vars => SingleUse'
<1> SUFFICES ASSUME TokenInv, SingleUse, [Next]_vars
             PROVE  SingleUse'
  OBVIOUS
<1>1. ASSUME NEW c \in Clients, NEW root \in Roots, Ask(c, root)
      PROVE  SingleUse'
  <2>1. PICK nonce \in Nonces \ drawn :
            /\ request' = [request EXCEPT ![c] =
                   [sent |-> TRUE, root |-> root, nonce |-> nonce, before |-> tokens]]
            /\ drawn' = drawn \cup {nonce}
    BY <1>1 DEF Ask
  <2>2. accepted' = accepted
    BY <1>1 DEF Ask
  <2>3. request'[c].nonce = nonce /\ \A d \in Clients \ {c} : request'[d] = request[d]
    BY <2>1 DEF TokenInv
  <2> QED  BY <2>1, <2>2, <2>3 DEF SingleUse, Waiting
<1>2. ASSUME NEW c \in Clients, Answer(c)
      PROVE  SingleUse'
  <2>1. PICK token \in tokens :
            accepted' = IF Coherent(token, request[c].root, request[c].nonce)
                        THEN accepted \cup {[root |-> request[c].root, nonce |-> request[c].nonce,
                                             token |-> token, before |-> request[c].before]}
                        ELSE accepted
    BY <1>2 DEF Answer
  <2>2. Waiting(c) /\ drawn' = drawn /\ request' = [request EXCEPT ![c] = None]
    BY <1>2 DEF Answer, Waiting
  <2>3. request'[c] = None /\ \A d \in Clients \ {c} : request'[d] = request[d]
    BY <2>2 DEF TokenInv
  <2>4. \A d \in Clients : Waiting(d)' => d # c /\ Waiting(d) /\ request'[d] = request[d]
    BY <2>3 DEF Waiting
  <2>5. CASE accepted' = accepted
    BY <2>2, <2>4, <2>5 DEF SingleUse
  <2>6. CASE accepted' # accepted
    <3>1. PICK new : /\ new = [root |-> request[c].root, nonce |-> request[c].nonce,
                               token |-> token, before |-> request[c].before]
                     /\ accepted' = accepted \cup {new}
      BY <2>1, <2>6
    <3>2. new.nonce = request[c].nonce /\ new.token.nonce = Given(new.nonce)
      BY <2>1, <2>6, <3>1 DEF Coherent
    <3>3. new.nonce \in drawn /\ \A a \in accepted : a.nonce # new.nonce
      BY <2>2, <3>2 DEF SingleUse
    <3>4. \A d \in Clients : Waiting(d)' => request'[d].nonce # new.nonce
      BY <2>2, <2>4, <3>2 DEF SingleUse
    <3> QED  BY <2>2, <2>4, <3>1, <3>2, <3>3, <3>4 DEF SingleUse
  <2> QED  BY <2>5, <2>6
<1>3. ASSUME NEW c \in Clients, NoAnswer(c)
      PROVE  SingleUse'
  <2>1. drawn' = drawn /\ accepted' = accepted /\ request' = [request EXCEPT ![c] = None]
    BY <1>3 DEF NoAnswer
  <2>2. request'[c] = None /\ \A d \in Clients \ {c} : request'[d] = request[d]
    BY <2>1 DEF TokenInv
  <2> QED  BY <2>1, <2>2 DEF SingleUse, Waiting
<1>4. CASE Issue \/ UNCHANGED vars
  BY <1>4 DEF Issue, vars, SingleUse, Waiting
<1> QED  BY <1>1, <1>2, <1>3, <1>4 DEF Next

\* Equal tokens have equal nonces.
LEMMA SingleUseServesOne == SingleUse => TokenServesOne
<1> SUFFICES ASSUME SingleUse, NEW a \in accepted, NEW b \in accepted, a.token = b.token
             PROVE  a = b
  BY DEF TokenServesOne
<1>1. Given(a.nonce) = Given(b.nonce)
  BY DEF SingleUse
<1> QED  BY <1>1, GivenTellsNonce DEF SingleUse

\* However many batches wait, for one root or several, and however answers are
\* swapped and repeated, no two requests end with the same token.
THEOREM TokensServeOne == Spec => []TokenServesOne
<1>1. TokenInv /\ SingleUse /\ [Next]_vars => (TokenInv /\ SingleUse)'
  BY TokenInvStep, SingleUseStep
<1> QED  BY <1>1, TokenInvInit, SingleUseInit, SingleUseServesOne, PTL DEF Spec

------------------------------------------------------------------------------
(* The types.                                                              *)

\* Requests, tokens and what was taken stay what they are.
LEMMA TypesStep == TokenInv /\ TypeOK /\ [Next]_vars => TypeOK'
<1> SUFFICES ASSUME TokenInv, TypeOK, [Next]_vars
             PROVE  TypeOK'
  OBVIOUS
<1> DEFINE Field == {Absent} \cup {Given(n) : n \in Nonces}
           Asked == [root : Roots, nonce : Field]
           Tokens == [root : Roots, nonce : Field, sha256 : BOOLEAN]
           Waits(r) == r = None \/ (r.root \in Roots /\ r.nonce \in drawn)
<1>1. /\ \A c \in Clients : Waits(request[c])
      /\ request = [c \in Clients |-> request[c]]
      /\ drawn \subseteq Nonces /\ asked \subseteq Asked /\ tokens \subseteq Tokens
      /\ \A a \in accepted : a.root \in Roots /\ a.token \in tokens
  BY DEF TypeOK, TokenInv
<1>2. ASSUME NEW c \in Clients, NEW root \in Roots, Ask(c, root)
      PROVE  TypeOK'
  <2>1. PICK nonce \in Nonces \ drawn :
            /\ request' = [request EXCEPT ![c] =
                   [sent |-> TRUE, root |-> root, nonce |-> nonce, before |-> tokens]]
            /\ drawn' = drawn \cup {nonce}
            /\ asked' = asked \cup {[root |-> root, nonce |-> NonceField(nonce)]}
    BY <1>2 DEF Ask
  <2>2. tokens' = tokens /\ accepted' = accepted
    BY <1>2 DEF Ask
  <2>3. NonceField(nonce) \in Field
    BY <2>1 DEF NonceField
  <2>4. drawn' \subseteq Nonces /\ asked' \subseteq Asked
    BY <1>1, <2>1, <2>3
  <2>5. ASSUME NEW d \in Clients
        PROVE  Waits(request[d])'
    BY <1>1, <2>1
  <2> QED  BY <1>1, <2>2, <2>4, <2>5 DEF TypeOK
<1>3. CASE Issue
  <2>1. PICK r \in asked, root \in Roots, sha256 \in BOOLEAN :
            tokens' = tokens \cup {Token(root, r.nonce, sha256)}
    BY <1>3 DEF Issue
  <2>2. request' = request /\ drawn' = drawn /\ asked' = asked /\ accepted' = accepted
    BY <1>3 DEF Issue
  <2>3. r.nonce \in Field
    BY <1>1
  <2>4. Token(root, r.nonce, sha256) \in Tokens
    BY <2>3 DEF Token
  <2>5. tokens' \subseteq Tokens /\ tokens \subseteq tokens'
    BY <1>1, <2>1, <2>4
  <2> QED  BY <1>1, <2>2, <2>5 DEF TypeOK
<1>4. ASSUME NEW c \in Clients, Answer(c) \/ NoAnswer(c)
      PROVE  TypeOK'
  <2>1. /\ request' = [request EXCEPT ![c] = None]
        /\ drawn' = drawn /\ asked' = asked /\ tokens' = tokens /\ request[c] # None
    BY <1>4 DEF Answer, NoAnswer
  <2>2. \A a \in accepted' : a \in accepted \/ \E token \in tokens : a.root = request[c].root /\ a.token = token
    BY <1>4 DEF Answer, NoAnswer
  <2>3. \A a \in accepted' : a.root \in Roots /\ a.token \in tokens
    BY <1>1, <2>1, <2>2
  <2>4. \A d \in Clients : Waits(request[d])'
    BY <1>1, <2>1
  <2> QED  BY <1>1, <2>1, <2>3, <2>4 DEF TypeOK
<1>5. CASE UNCHANGED vars
  BY <1>1, <1>5 DEF TypeOK, vars
<1> QED  BY <1>2, <1>3, <1>4, <1>5 DEF Next

\* Nothing was asked, issued or taken in the beginning.
LEMMA TypesInit == Init => TypeOK
BY DEF Init, TypeOK

\* The state of the clients, the network and the authority has its types.
THEOREM TokenTypes == Spec => []TypeOK
<1>1. TokenInv /\ TypeOK /\ [Next]_vars => (TokenInv /\ TypeOK)'
  BY TokenInvStep, TypesStep
<1> QED  BY <1>1, TokenInvInit, TypesInit, PTL DEF Spec
==============================================================================
