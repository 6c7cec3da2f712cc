--------------------------- MODULE StreamGuardProofs ---------------------------
(* The guard of a stream and its record, for every stream of the provider, any  *)
(* number of tool calls and any way to cut the stream into chunks.  All rests   *)
(* on one fact: after n units the outcome holds what the first n units carry.   *)
EXTENDS StreamGuard, InOrderProofs

------------------------------------------------------------------------------
(* The parts of a stream.                                                  *)

\* The first events of the stream.
Upto(n) == 1 .. Complete(n)

\* What a place of the stream may come to.
Value == {Decoded(k) : k \in Nat}

\* What the outcome holds is what the first m units carry.
Rebuilt(m) ==
    /\ outcome.content = Pieces(Upto(m))
    /\ \A i \in Indexes : outcome.args[i] = Fragments(Upto(m), i)

\* What the client has of a call, decoded as the guard decodes it.
Inspected == \A i \in Indexes : ~ Destructive(Fragments(Delivered, i))

Running == {"open", "read", "forward"}

Shaped ==
    /\ outcome = [content |-> outcome.content, args |-> outcome.args, finish |-> outcome.finish,
                  blocked |-> outcome.blocked, error |-> outcome.error]
    /\ outcome.args = [i \in Indexes |-> outcome.args[i]]

StreamInv ==
    /\ stream \in Streams
    /\ pc \in {"open", "read", "forward", "finally", "ended", "raised", "swallowed"}
    /\ read \in 0 .. Units /\ sent \in 0 .. read /\ torn \subseteq DOMAIN stream
    /\ notices \in {<< >>, <<"block">>, <<"error">>} /\ (pc \in Running => notices = << >>)
    /\ Shaped
    /\ \E m \in sent .. read : Rebuilt(m) /\ (pc \in Running => m = read)
    /\ pc \in Running => ~ Unsafe(outcome.args) /\ outcome.blocked = FALSE
    /\ outcome.blocked \in BOOLEAN /\ (outcome.blocked => sent < Units)
    /\ record = IF pc = "ended" THEN <<outcome>> ELSE NoRecord
    /\ Inspected

\* Half of a number of units is a number of events.
LEMMA HalvesGrow ==
    ASSUME NEW a \in Nat, NEW b \in Nat, a <= b
    PROVE  Complete(a) \in Nat /\ Complete(b) \in Nat /\ Complete(a) <= Complete(b)
BY DEF Complete

\* Events of the stream are finitely many numbers.
LEMMA PlacesAreFinite ==
    ASSUME NEW events, NEW n \in Nat, events \subseteq 1 .. n
    PROVE  events \in SUBSET Nat /\ IsFiniteSet(events)
<1>1. IsFiniteSet(1 .. n)
  BY FS_Interval
<1>2. events \in SUBSET (1 .. n) /\ events \subseteq Nat
  OBVIOUS
<1>3. IsFiniteSet(events)
  BY <1>1, <1>2, FS_Subset
<1> QED  BY <1>2, <1>3

\* A function on 1 .. n is a sequence of length n.
LEMMA ListsAreSequences ==
    ASSUME NEW S, NEW n \in Nat, NEW f \in [1 .. n -> S]
    PROVE  f \in Seq(S) /\ Len(f) = n
OBVIOUS

\* A sequence of some things is one of more things.
LEMMA SeqOfMore ==
    ASSUME NEW S, NEW T, S \subseteq T, NEW s \in Seq(S)
    PROVE  s \in Seq(T)
<1>1. Len(s) \in Nat /\ s \in [1 .. Len(s) -> S]
  OBVIOUS
<1>2. s \in [1 .. Len(s) -> T]
  BY <1>1
<1> QED  BY <1>1, <1>2

\* The texts and the calls of some events, and those of later ones behind them.
LEMMA PartsGoOn ==
    ASSUME NEW a \in Nat, NEW b \in Nat, a <= b
    PROVE  /\ Texts(1 .. b) = Texts(1 .. a) \o Texts(a + 1 .. b)
           /\ Texts(1 .. a) \in Seq(1 .. a) /\ Texts(a + 1 .. b) \in Seq(a + 1 .. b)
           /\ \A i : /\ Calls(1 .. b, i) = Calls(1 .. a, i) \o Calls(a + 1 .. b, i)
                     /\ Calls(1 .. a, i) \in Seq(1 .. a)
                     /\ Calls(a + 1 .. b, i) \in Seq(a + 1 .. b)
<1>1. ASSUME NEW S \in SUBSET (1 .. b), NEW P, P = S \cap 1 .. a, NEW Q, Q = S \cap a + 1 .. b
      PROVE  /\ InOrder(S) = InOrder(P) \o InOrder(Q)
             /\ InOrder(P) \in Seq(1 .. a) /\ InOrder(Q) \in Seq(a + 1 .. b)
  <2>1. S = P \cup Q /\ P \subseteq 1 .. a /\ Q \subseteq a + 1 .. b
    <3>1. \A k \in 1 .. b : k \in 1 .. a \/ k \in a + 1 .. b
      OBVIOUS
    <3> QED  BY <1>1, <3>1
  <2>2. P \subseteq 1 .. b /\ Q \subseteq 1 .. b /\ \A p \in P, q \in Q : p < q
    BY <2>1
  <2>3. P \in SUBSET Nat /\ IsFiniteSet(P) /\ Q \in SUBSET Nat /\ IsFiniteSet(Q)
    BY <2>2, PlacesAreFinite
  <2>4. InOrder(S) = InOrder(P) \o InOrder(Q)
    BY <2>1, <2>2, <2>3, InOrderGoesOn
  <2>5. InOrder(P) \in Seq(P) /\ InOrder(Q) \in Seq(Q)
    BY <2>3, InOrderLists
  <2>6. InOrder(P) \in Seq(1 .. a) /\ InOrder(Q) \in Seq(a + 1 .. b)
    BY <2>1, <2>5, SeqOfMore
  <2> QED  BY <2>4, <2>6
<1>2. PICK T : T = {k \in 1 .. b : stream[k].kind = "text"}
  OBVIOUS
<1>3. /\ T \cap 1 .. a = {k \in 1 .. a : stream[k].kind = "text"}
      /\ T \cap a + 1 .. b = {k \in a + 1 .. b : stream[k].kind = "text"}
  BY <1>2
<1>4. /\ Texts(1 .. b) = Texts(1 .. a) \o Texts(a + 1 .. b)
      /\ Texts(1 .. a) \in Seq(1 .. a) /\ Texts(a + 1 .. b) \in Seq(a + 1 .. b)
  BY <1>1, <1>2, <1>3 DEF Texts
<1>5. ASSUME NEW i
      PROVE  /\ Calls(1 .. b, i) = Calls(1 .. a, i) \o Calls(a + 1 .. b, i)
             /\ Calls(1 .. a, i) \in Seq(1 .. a)
             /\ Calls(a + 1 .. b, i) \in Seq(a + 1 .. b)
  <2>1. PICK C : C = {k \in 1 .. b : stream[k].kind = "args" /\ stream[k].index = i}
    OBVIOUS
  <2>2. /\ C \cap 1 .. a = {k \in 1 .. a : stream[k].kind = "args" /\ stream[k].index = i}
        /\ C \cap a + 1 .. b = {k \in a + 1 .. b : stream[k].kind = "args" /\ stream[k].index = i}
    BY <2>1
  <2> QED  BY <1>1, <2>1, <2>2 DEF Calls
<1> QED  BY <1>4, <1>5

\* What some places come to, and what the places behind them come to.
LEMMA ValuesGoOn ==
    ASSUME NEW s \in Seq(Nat), NEW t \in Seq(Nat)
    PROVE  /\ Values(s) \in Seq(Value) /\ Len(Values(s)) = Len(s)
           /\ \A j \in 1 .. Len(s) : Values(s)[j] = Decoded(s[j])
           /\ Values(s \o t) = Values(s) \o Values(t)
<1>1. ASSUME NEW u \in Seq(Nat), NEW f, f = Values(u)
      PROVE  /\ f \in Seq(Value) /\ Len(f) = Len(u) /\ DOMAIN u = 1 .. Len(u) /\ Len(u) \in Nat
             /\ \A j \in 1 .. Len(u) : f[j] = Decoded(u[j])
  <2>1. DOMAIN u = 1 .. Len(u) /\ Len(u) \in Nat /\ \A j \in 1 .. Len(u) : u[j] \in Nat
    OBVIOUS
  <2>2. f = [j \in 1 .. Len(u) |-> Decoded(u[j])]
    BY <1>1, <2>1 DEF Values
  <2>3. \A j \in 1 .. Len(u) : f[j] = Decoded(u[j]) /\ Decoded(u[j]) \in Value
    BY <2>1, <2>2 DEF Value
  <2>4. f \in [1 .. Len(u) -> Value]
    BY <2>2, <2>3
  <2> QED  BY <2>1, <2>3, <2>4, ListsAreSequences
<1>2. PICK u : u = s \o t
  OBVIOUS
<1>3. /\ u \in Seq(Nat) /\ Len(u) = Len(s) + Len(t)
      /\ \A j \in 1 .. Len(s) + Len(t) : u[j] = IF j <= Len(s) THEN s[j] ELSE t[j - Len(s)]
  BY <1>2, ConcatProperties
<1>4. PICK f, g, h : f = Values(s) /\ g = Values(t) /\ h = Values(u)
  OBVIOUS
<1>5. /\ f \in Seq(Value) /\ Len(f) = Len(s) /\ Len(s) \in Nat
      /\ \A j \in 1 .. Len(s) : f[j] = Decoded(s[j])
  BY <1>1, <1>4
<1>6. /\ g \in Seq(Value) /\ Len(g) = Len(t) /\ Len(t) \in Nat
      /\ \A j \in 1 .. Len(t) : g[j] = Decoded(t[j])
  BY <1>1, <1>4
<1>7. h \in Seq(Value) /\ Len(h) = Len(u) /\ \A j \in 1 .. Len(u) : h[j] = Decoded(u[j])
  BY <1>1, <1>3, <1>4
<1>8. PICK w : w = f \o g
  OBVIOUS
<1>9. /\ w \in Seq(Value) /\ Len(w) = Len(f) + Len(g)
      /\ \A j \in 1 .. Len(f) + Len(g) : w[j] = IF j <= Len(f) THEN f[j] ELSE g[j - Len(f)]
  <2>1. f \in Seq(Value) /\ g \in Seq(Value)
    BY <1>5, <1>6
  <2> QED  BY <1>8, <2>1, ConcatProperties
<1>10. ASSUME NEW j \in 1 .. Len(s) + Len(t)
       PROVE  h[j] = w[j]
  <2>1. h[j] = Decoded(u[j])
    BY <1>3, <1>7
  <2>2. CASE j <= Len(s)
    <3>1. j \in 1 .. Len(s)
      BY <1>5, <1>6, <2>2
    <3> QED  BY <1>3, <1>5, <1>6, <1>9, <2>1, <2>2, <3>1
  <2>3. CASE ~ (j <= Len(s))
    <3>1. j - Len(s) \in 1 .. Len(t)
      BY <1>5, <1>6, <2>3
    <3> QED  BY <1>3, <1>5, <1>6, <1>9, <2>1, <2>3, <3>1
  <2> QED  BY <2>2, <2>3
<1>11. h = w
  BY <1>3, <1>5, <1>6, <1>7, <1>9, <1>10
<1> QED  BY <1>2, <1>4, <1>5, <1>8, <1>11

\* The texts and the calls of the stream are lists of places.
LEMMA PartsArePlaces ==
    ASSUME NEW a \in Nat, NEW b \in Nat, a <= b
    PROVE  /\ Texts(1 .. a) \in Seq(Nat) /\ Texts(a + 1 .. b) \in Seq(Nat)
           /\ \A i : Calls(1 .. a, i) \in Seq(Nat) /\ Calls(a + 1 .. b, i) \in Seq(Nat)
<1>1. 1 .. a \subseteq Nat /\ a + 1 .. b \subseteq Nat
  OBVIOUS
<1>2. ASSUME NEW s, NEW t, s \in Seq(1 .. a), t \in Seq(a + 1 .. b)
      PROVE  s \in Seq(Nat) /\ t \in Seq(Nat)
  BY <1>1, <1>2, SeqOfMore
<1> QED  BY <1>2, PartsGoOn

\* What some events carry, and what later ones add to it.
LEMMA CarriedGoesOn ==
    ASSUME NEW a \in Nat, NEW b \in Nat, a <= b
    PROVE  /\ Pieces(1 .. b) = Pieces(1 .. a) \o Pieces(a + 1 .. b)
           /\ \A i : Fragments(1 .. b, i) = Fragments(1 .. a, i) \o Fragments(a + 1 .. b, i)
<1>1. Pieces(1 .. b) = Pieces(1 .. a) \o Pieces(a + 1 .. b)
  <2>1. PICK s, t : s = Texts(1 .. a) /\ t = Texts(a + 1 .. b)
    OBVIOUS
  <2>2. s \in Seq(Nat) /\ t \in Seq(Nat) /\ Texts(1 .. b) = s \o t
    BY <2>1, PartsArePlaces, PartsGoOn
  <2>3. Values(s \o t) = Values(s) \o Values(t)
    BY <2>2, ValuesGoOn
  <2> QED  BY <2>1, <2>2, <2>3 DEF Pieces
<1>2. ASSUME NEW i
      PROVE  Fragments(1 .. b, i) = Fragments(1 .. a, i) \o Fragments(a + 1 .. b, i)
  <2>1. PICK s, t : s = Calls(1 .. a, i) /\ t = Calls(a + 1 .. b, i)
    OBVIOUS
  <2>2. s \in Seq(Nat) /\ t \in Seq(Nat) /\ Calls(1 .. b, i) = s \o t
    BY <2>1, PartsArePlaces, PartsGoOn
  <2>3. Values(s \o t) = Values(s) \o Values(t)
    BY <2>2, ValuesGoOn
  <2> QED  BY <2>1, <2>2, <2>3 DEF Fragments
<1> QED  BY <1>1, <1>2

\* What no event carries.
LEMMA NothingYet == Pieces(Upto(0)) = << >> /\ \A i : Fragments(Upto(0), i) = << >>
<1>1. Upto(0) = {}
  BY DEF Upto, Complete
<1>2. InOrder({}) = << >>
  BY EmptyInOrder
<1>3. Texts({}) = << >> /\ \A i : Calls({}, i) = << >>
  <2>1. {k \in {} : stream[k].kind = "text"} = {}
    OBVIOUS
  <2>2. ASSUME NEW i PROVE {k \in {} : stream[k].kind = "args" /\ stream[k].index = i} = {}
    OBVIOUS
  <2> QED  BY <1>2, <2>1, <2>2 DEF Texts, Calls
<1>4. Values(<< >>) = << >>
  <2>1. PICK none : none = << >>
    OBVIOUS
  <2>2. none \in Seq(Nat) /\ Len(none) = 0
    BY <2>1
  <2>3. Values(none) \in Seq(Value) /\ Len(Values(none)) = 0
    BY <2>2, ValuesGoOn
  <2> QED  BY <2>1, <2>3
<1> QED  BY <1>1, <1>3, <1>4 DEF Pieces, Fragments

------------------------------------------------------------------------------
(* The invariant holds from the beginning, and every step keeps it.        *)

\* The stream has whole events: two units each.
LEMMA StreamFacts ==
    ASSUME stream \in Streams
    PROVE  /\ Len(stream) \in Nat /\ DOMAIN stream = 1 .. Len(stream) /\ Units \in Nat
           /\ \A n \in 0 .. Units : Complete(n) \in 0 .. Len(stream)
           /\ \A n \in 0 .. Units : n < Units => Complete(n) < Len(stream)
           /\ \A k \in 1 .. Len(stream) - 1 : stream[k].kind # "finish"
<1>1. /\ Len(stream) \in Nat /\ DOMAIN stream = 1 .. Len(stream)
      /\ \A k \in 1 .. Len(stream) - 1 : stream[k].kind # "finish"
  BY StreamAssumption
<1>2. PICK l \in Nat : l = Len(stream)
  BY <1>1
<1>3. \A n \in 0 .. 2 * l : n \div 2 \in 0 .. l /\ (n < 2 * l => n \div 2 < l)
  OBVIOUS
<1>4. Units = 2 * l /\ 2 * l \in Nat
  BY <1>2 DEF Units
<1> QED  BY <1>1, <1>2, <1>3, <1>4 DEF Complete

\* What some units carry goes on being the same when later ones come in.
LEMMA SameCarried ==
    ASSUME stream \in Streams, stream' = stream, NEW m \in 0 .. Units,
           torn' = torn \/ \E n \in m .. Units : torn' = torn \cup TornBy(n)
    PROVE  /\ Pieces(Upto(m))' = Pieces(Upto(m))
           /\ \A i : Fragments(Upto(m), i)' = Fragments(Upto(m), i)
<1>1. Units \in Nat /\ Complete(m) \in Nat /\ m \in Nat /\ DOMAIN stream \subseteq Nat
  BY StreamFacts
<1>2. \A k \in 1 .. Complete(m) : k \in torn' <=> k \in torn
  <2>1. ASSUME NEW k \in 1 .. Complete(m), NEW n \in m .. Units PROVE k \notin TornBy(n)
    <3>1. k \in Nat /\ 2 * k <= m /\ n \in Nat /\ n >= m
      BY <1>1 DEF Complete
    <3> QED  BY <3>1 DEF TornBy
  <2> QED  BY <2>1
<1>3. ASSUME NEW s, s \in Seq(1 .. Complete(m)) PROVE Values(s)' = Values(s)
  <2>1. \A j \in DOMAIN s : s[j] \in 1 .. Complete(m)
    <3>1. PICK S : S = 1 .. Complete(m)
      OBVIOUS
    <3>2. s \in Seq(S)
      BY <1>3, <3>1
    <3>3. \A j \in DOMAIN s : s[j] \in S
      BY <3>2
    <3> QED  BY <3>1, <3>3
  <2>2. \A j \in DOMAIN s : Decoded(s[j])' = Decoded(s[j])
    BY <1>2, <2>1 DEF Decoded
  <2> QED  BY <2>2 DEF Values
<1>4. Texts(Upto(m))' = Texts(Upto(m)) /\ \A i : Calls(Upto(m), i)' = Calls(Upto(m), i)
  BY DEF Texts, Calls, Upto, Complete
<1>5. Texts(Upto(m)) \in Seq(1 .. Complete(m)) /\ \A i : Calls(Upto(m), i) \in Seq(1 .. Complete(m))
  BY <1>1, PartsGoOn DEF Upto
<1>6. Pieces(Upto(m))' = Pieces(Upto(m))
  <2>1. PICK s : s = Texts(Upto(m))
    OBVIOUS
  <2>2. Values(s)' = Values(s)
    BY <1>3, <1>5, <2>1
  <2> QED  BY <1>4, <2>1, <2>2 DEF Pieces, Values
<1>7. ASSUME NEW i PROVE Fragments(Upto(m), i)' = Fragments(Upto(m), i)
  <2>1. PICK s : s = Calls(Upto(m), i)
    OBVIOUS
  <2>2. Values(s)' = Values(s)
    BY <1>3, <1>5, <2>1
  <2> QED  BY <1>4, <2>1, <2>2 DEF Fragments, Values
<1> QED  BY <1>6, <1>7

\* After a chunk that ends at unit n the outcome holds what n units carry.
LEMMA AccumulateMore ==
    ASSUME stream \in Streams, read \in 0 .. Units, Rebuilt(read), Shaped,
           NEW n \in read .. Units, NEW after, after = Accumulate(NewEvents(n))
    PROVE  /\ after.content = Pieces(Upto(n))
           /\ \A i \in Indexes : after.args[i] = Fragments(Upto(n), i)
           /\ after.args = [i \in Indexes |-> after.args[i]]
           /\ after.blocked = outcome.blocked
           /\ after = [content |-> after.content, args |-> after.args, finish |-> after.finish,
                       blocked |-> after.blocked, error |-> after.error]
<1>1. PICK a \in Nat, b \in Nat : a = Complete(read) /\ b = Complete(n) /\ a <= b
  <2>1. Units \in Nat /\ read \in Nat /\ n \in Nat /\ read <= n
    BY StreamFacts
  <2> QED  BY <2>1, HalvesGrow
<1>2. NewEvents(n) = a + 1 .. b /\ Upto(read) = 1 .. a /\ Upto(n) = 1 .. b
  BY <1>1 DEF NewEvents, Upto
<1>3. outcome.content \o Pieces(a + 1 .. b) = Pieces(Upto(n))
  <2>1. outcome.content = Pieces(1 .. a)
    BY <1>2 DEF Rebuilt
  <2>2. Pieces(1 .. b) = Pieces(1 .. a) \o Pieces(a + 1 .. b)
    BY <1>1, CarriedGoesOn
  <2> QED  BY <1>2, <2>1, <2>2
<1>4. ASSUME NEW i \in Indexes
      PROVE  outcome.args[i] \o Fragments(a + 1 .. b, i) = Fragments(Upto(n), i)
  <2>1. outcome.args[i] = Fragments(1 .. a, i)
    BY <1>2 DEF Rebuilt
  <2>2. Fragments(1 .. b, i) = Fragments(1 .. a, i) \o Fragments(a + 1 .. b, i)
    BY <1>1, CarriedGoesOn
  <2> QED  BY <1>2, <2>1, <2>2
<1>5. PICK done : done = (outcome.finish \/ \E k \in a + 1 .. b : stream[k].kind = "finish")
  OBVIOUS
<1>6. PICK text, calls : /\ text = outcome.content \o Pieces(a + 1 .. b)
                         /\ calls = [i \in Indexes |-> outcome.args[i] \o Fragments(a + 1 .. b, i)]
  OBVIOUS
<1>7. /\ after.content = text /\ after.blocked = outcome.blocked /\ after.args = calls
      /\ after = [content |-> after.content, args |-> after.args, finish |-> after.finish,
                  blocked |-> after.blocked, error |-> after.error]
  <2>1. after = [content |-> text, args |-> calls, finish |-> done,
                 blocked |-> outcome.blocked, error |-> outcome.error]
    BY <1>2, <1>5, <1>6 DEF Accumulate, Shaped
  <2> QED  BY <2>1
<1>8. after.args = [i \in Indexes |-> after.args[i]]
      /\ \A i \in Indexes : after.args[i] = outcome.args[i] \o Fragments(a + 1 .. b, i)
  BY <1>6, <1>7
<1> QED  BY <1>3, <1>4, <1>6, <1>7, <1>8

\* No order is destructive yet when there is nothing.
LEMMA InitGuarded == Init => StreamInv
<1> SUFFICES ASSUME Init PROVE StreamInv
  OBVIOUS
<1>1. stream \in Streams /\ pc = "open" /\ read = 0 /\ sent = 0 /\ notices = << >> /\ record = NoRecord
  BY DEF Init
<1>2. Units \in Nat
  BY <1>1, StreamFacts
<1>3. /\ outcome.content = << >> /\ outcome.args = [i \in Indexes |-> << >>]
      /\ outcome.blocked = FALSE /\ Shaped
  BY DEF Init, Shaped
<1>4. Rebuilt(0)
  BY <1>3, NothingYet DEF Rebuilt
<1>5. ~ Destructive(<< >>)
  BY DEF Destructive, Parses
<1>6. ~ Unsafe(outcome.args)
  BY <1>3, <1>5 DEF Unsafe
<1>7. Inspected
  <2>1. Delivered = Upto(0)
    BY <1>1 DEF Delivered, Upto
  <2> QED  BY <1>5, <2>1, NothingYet DEF Inspected
<1>8. \E m \in sent .. read : Rebuilt(m) /\ (pc \in Running => m = read)
  BY <1>1, <1>4
<1>9. outcome.blocked => sent < Units
  BY <1>3
<1>10. read \in 0 .. Units /\ sent \in 0 .. read /\ torn \subseteq DOMAIN stream
  BY <1>1, <1>2 DEF Init
<1>11. record = IF pc = "ended" THEN <<outcome>> ELSE NoRecord
  BY <1>1
<1> QED  BY <1>1, <1>3, <1>6, <1>7, <1>8, <1>9, <1>10, <1>11 DEF StreamInv

\* A step that sends nothing delivers nothing destructive.
LEMMA NothingMoreDelivered ==
    ASSUME Inspected, stream \in Streams, stream' = stream, sent \in 0 .. Units, sent' = sent,
           torn' = torn \/ \E n \in sent .. Units : torn' = torn \cup TornBy(n)
    PROVE  Inspected'
<1>1. PICK m \in 0 .. Units : m = sent
  OBVIOUS
<1>2. Delivered = Upto(m) /\ Delivered' = Upto(m)
  BY <1>1 DEF Delivered, Upto, Complete
<1>3. ASSUME NEW i \in Indexes PROVE ~ Destructive(Fragments(Delivered, i)')
  <2>1. ~ Destructive(Fragments(Upto(m), i))
    BY <1>2 DEF Inspected
  <2>2. Fragments(Upto(m), i)' = Fragments(Upto(m), i)
    BY <1>1, SameCarried
  <2>3. Fragments(Delivered, i)' = Fragments(Upto(m), i)'
    BY <1>2 DEF Fragments, Calls, Values, Decoded
  <2> QED  BY <2>1, <2>2, <2>3
<1> QED  BY <1>3 DEF Inspected

\* A step that reads and sends nothing keeps what the client has and what the
\* outcome holds.
LEMMA Untouched ==
    ASSUME StreamInv, stream' = stream, read' = read, sent' = sent, torn' = torn,
           outcome'.content = outcome.content, outcome'.args = outcome.args,
           pc' \in Running => pc \in Running
    PROVE  /\ Inspected' /\ torn' \subseteq DOMAIN stream'
           /\ \E m \in sent' .. read' : Rebuilt(m)' /\ (pc' \in Running => m = read')
           /\ stream' \in Streams /\ read' \in 0 .. Units' /\ sent' \in 0 .. read'
           /\ outcome'.args = [i \in Indexes |-> outcome'.args[i]]
<1>1. Units' = Units
  BY DEF Units
<1>2. /\ stream \in Streams /\ read \in 0 .. Units /\ sent \in 0 .. read /\ Units \in Nat
      /\ sent \in 0 .. Units
  BY StreamFacts DEF StreamInv
<1>3. Inspected'
  BY <1>2, NothingMoreDelivered DEF StreamInv
<1>4. PICK m \in sent .. read : Rebuilt(m) /\ (pc \in Running => m = read)
  BY DEF StreamInv
<1>5. m \in 0 .. Units
  BY <1>2
<1>6. Rebuilt(m)'
  BY <1>2, <1>4, <1>5, SameCarried DEF Rebuilt
<1>7. stream' \in Streams /\ read' \in 0 .. Units' /\ sent' \in 0 .. read' /\ torn' \subseteq DOMAIN stream'
  BY <1>1 DEF StreamInv
<1>8. outcome'.args = [i \in Indexes |-> outcome'.args[i]]
  BY DEF StreamInv, Shaped
<1> QED  BY <1>3, <1>4, <1>6, <1>7, <1>8

\* Units that come in change nothing of what was delivered before, and what they
\* carry is what the outcome holds after it, for any place m where it stops.
LEMMA ReceiveKeeps ==
    ASSUME StreamInv, NEW n \in 0 .. Units, Receive(n), stream' = stream, sent' = sent,
           NEW m \in read .. n, NEW after, after = Accumulate(NewEvents(m)),
           outcome'.content = after.content, outcome'.args = after.args
    PROVE  /\ Inspected' /\ Rebuilt(m)'
           /\ stream' \in Streams /\ read' \in 0 .. Units' /\ sent' \in 0 .. read'
           /\ torn' \subseteq DOMAIN stream' /\ read' = n /\ m \in sent' .. read'
           /\ Units' = Units /\ sent < Units
           /\ after.args = [i \in Indexes |-> after.args[i]]
           /\ after.blocked = outcome.blocked
           /\ after = [content |-> after.content, args |-> after.args, finish |-> after.finish,
                       blocked |-> after.blocked, error |-> after.error]
<1>1. read' = n /\ torn' = torn \cup TornBy(n) /\ pc = "read" /\ n \in read + 1 .. Units
  BY DEF Receive
<1>2. /\ stream \in Streams /\ read \in 0 .. Units /\ sent \in 0 .. read /\ Shaped
      /\ Rebuilt(read) /\ torn \subseteq DOMAIN stream /\ Inspected
  BY <1>1 DEF StreamInv, Running
<1>3. /\ Units \in Nat /\ m \in read .. Units /\ m \in sent .. n /\ sent < Units /\ m \in 0 .. Units
      /\ n \in m .. Units /\ n \in sent .. Units /\ sent \in 0 .. Units /\ sent \in 0 .. n
  BY <1>1, <1>2, StreamFacts
<1>4. /\ after.content = Pieces(Upto(m))
      /\ \A i \in Indexes : after.args[i] = Fragments(Upto(m), i)
      /\ after.args = [i \in Indexes |-> after.args[i]]
      /\ after.blocked = outcome.blocked
      /\ after = [content |-> after.content, args |-> after.args, finish |-> after.finish,
                  blocked |-> after.blocked, error |-> after.error]
  BY <1>2, <1>3, AccumulateMore
<1>5. Pieces(Upto(m))' = Pieces(Upto(m)) /\ \A i : Fragments(Upto(m), i)' = Fragments(Upto(m), i)
  BY <1>1, <1>2, <1>3, SameCarried
<1>6. Rebuilt(m)'
  BY <1>4, <1>5 DEF Rebuilt
<1>7. Inspected'
  BY <1>1, <1>2, <1>3, NothingMoreDelivered
<1>8. Units' = Units
  BY DEF Units
<1>9. torn' \subseteq DOMAIN stream'
  BY <1>1, <1>2 DEF TornBy
<1> QED  BY <1>1, <1>2, <1>3, <1>4, <1>6, <1>7, <1>8, <1>9

\* A chunk of the provider: what is withheld was withheld before it.
LEMMA ReadChunkGuarded ==
    ASSUME StreamInv, NEW n \in 1 .. Units, ReadChunk(n)
    PROVE  StreamInv'
<1>1. /\ stream' = stream /\ sent' = sent /\ record' = record /\ pc = "read" /\ Receive(n)
      /\ n \in 0 .. Units /\ n \in read + 1 .. Units
  BY DEF ReadChunk, Receive
<1>2. Shaped /\ outcome.blocked = FALSE /\ notices = << >> /\ record = NoRecord /\ read \in 0 .. Units
  BY <1>1 DEF StreamInv, Running
<1>3. n \in read .. n
  <2>1. Units \in Nat
    BY StreamFacts DEF StreamInv
  <2> QED  BY <1>1, <1>2, <2>1
<1>4. PICK after : after = Accumulate(NewEvents(n))
  OBVIOUS
<1>5. outcome' \in {after, [after EXCEPT !.blocked = TRUE]}
  BY <1>4 DEF ReadChunk
<1>6. outcome'.content = after.content /\ outcome'.args = after.args
  <2>1. after = [outcome EXCEPT !.content = after.content, !.args = after.args, !.finish = after.finish]
    BY <1>2, <1>4 DEF Accumulate, Shaped
  <2>2. after = [content |-> after.content, args |-> after.args, finish |-> after.finish,
                 blocked |-> outcome.blocked, error |-> outcome.error]
    BY <1>2, <2>1 DEF Shaped
  <2> QED  BY <1>5, <2>2
<1>7. /\ Inspected' /\ Rebuilt(n)'
      /\ stream' \in Streams /\ read' \in 0 .. Units' /\ sent' \in 0 .. read'
      /\ torn' \subseteq DOMAIN stream' /\ read' = n /\ n \in sent' .. read'
      /\ Units' = Units /\ sent < Units
      /\ after.args = [i \in Indexes |-> after.args[i]]
      /\ after.blocked = FALSE
      /\ after = [content |-> after.content, args |-> after.args, finish |-> after.finish,
                  blocked |-> after.blocked, error |-> after.error]
  BY <1>1, <1>2, <1>3, <1>4, <1>6, ReceiveKeeps
<1>8. Shaped' /\ outcome'.blocked \in BOOLEAN
  BY <1>5, <1>7 DEF Shaped
<1>9. \E m \in sent' .. read' : Rebuilt(m)' /\ (pc' \in Running => m = read')
  BY <1>7
<1>10. sent' < Units'
  BY <1>1, <1>7
<1>11. CASE pc' = "finally"
  <2>1. notices' \in {<< >>, <<"block">>}
    BY <1>2, <1>4, <1>11 DEF ReadChunk, Notify
  <2>2. pc' \notin Running
    BY <1>11 DEF Running
  <2> QED  BY <1>1, <1>2, <1>7, <1>8, <1>9, <1>10, <1>11, <2>1, <2>2 DEF StreamInv
<1>12. CASE pc' # "finally"
  <2>1. outcome' = after /\ pc' = "forward" /\ notices' = << >> /\ ~ Unsafe(after.args)
    BY <1>2, <1>4, <1>12 DEF ReadChunk, Notify
  <2>2. ~ Unsafe(outcome'.args) /\ outcome'.blocked = FALSE
    BY <1>7, <2>1
  <2> QED  BY <1>1, <1>2, <1>7, <1>8, <1>9, <2>1, <2>2 DEF StreamInv
<1> QED  BY <1>11, <1>12

\* A chunk that is not read to its end: the outcome stops between the chunks.
LEMMA ReadRaisesGuarded ==
    ASSUME StreamInv, NEW n \in 0 .. Units, NEW k \in 0 .. Units, ReadRaises(n, k)
    PROVE  StreamInv'
<1>1. /\ stream' = stream /\ sent' = sent /\ record' = record /\ pc = "read" /\ Receive(n)
      /\ notices' = notices /\ pc' = "finally" /\ k \in read .. n
  BY DEF ReadRaises, Receive
<1>2. Shaped /\ outcome.blocked = FALSE /\ notices = << >> /\ record = NoRecord
  BY <1>1 DEF StreamInv, Running
<1>3. PICK after : after = Accumulate(NewEvents(k)) /\ outcome' = after
  BY DEF ReadRaises
<1>4. /\ Inspected' /\ Rebuilt(k)'
      /\ stream' \in Streams /\ read' \in 0 .. Units' /\ sent' \in 0 .. read'
      /\ torn' \subseteq DOMAIN stream' /\ k \in sent' .. read'
      /\ after.args = [i \in Indexes |-> after.args[i]]
      /\ after.blocked = FALSE
      /\ after = [content |-> after.content, args |-> after.args, finish |-> after.finish,
                  blocked |-> after.blocked, error |-> after.error]
  BY <1>1, <1>2, <1>3, ReceiveKeeps
<1>5. Shaped' /\ outcome'.blocked = FALSE
  BY <1>3, <1>4 DEF Shaped
<1>6. \E m \in sent' .. read' : Rebuilt(m)' /\ (pc' \in Running => m = read')
  BY <1>1, <1>4 DEF Running
<1> QED  BY <1>1, <1>2, <1>4, <1>5, <1>6 DEF StreamInv, Running

\* What is forwarded was inspected with all that came before it.
LEMMA ForwardGuarded ==
    ASSUME StreamInv, Forward
    PROVE  StreamInv'
<1>1. /\ stream' = stream /\ sent' = read /\ read' = read /\ record' = record /\ pc = "forward"
      /\ notices' = notices /\ pc' = "read" /\ outcome' = outcome /\ torn' = torn
  BY DEF Forward
<1>2. /\ stream \in Streams /\ read \in 0 .. Units /\ Shaped /\ Rebuilt(read)
      /\ outcome.blocked = FALSE /\ ~ Unsafe(outcome.args) /\ notices = << >> /\ record = NoRecord
      /\ torn \subseteq DOMAIN stream
  BY <1>1 DEF StreamInv, Running
<1>3. Units \in Nat /\ read \in Nat /\ read \in read .. read
  BY <1>2, StreamFacts
<1>4. Units' = Units
  BY <1>1 DEF Units
<1>5. PICK m \in 0 .. Units : m = read
  BY <1>2
<1>6. Pieces(Upto(m))' = Pieces(Upto(m)) /\ \A i : Fragments(Upto(m), i)' = Fragments(Upto(m), i)
  BY <1>1, <1>2, SameCarried
<1>7. Rebuilt(m) /\ Rebuilt(m)'
  BY <1>1, <1>2, <1>5, <1>6 DEF Rebuilt
<1>8. Inspected'
  <2>1. Delivered' = Upto(m)
    BY <1>1, <1>5 DEF Delivered, Upto, Complete
  <2>2. ASSUME NEW i \in Indexes PROVE ~ Destructive(Fragments(Delivered, i)')
    <3>1. outcome.args[i] = Fragments(Upto(m), i) /\ i \in DOMAIN outcome.args
      BY <1>2, <1>7 DEF Rebuilt, Shaped
    <3>2. ~ Destructive(Fragments(Upto(m), i))
      BY <1>2, <3>1 DEF Unsafe
    <3>3. Fragments(Delivered, i)' = Fragments(Upto(m), i)'
      BY <2>1 DEF Fragments, Calls, Values, Decoded
    <3> QED  BY <1>6, <3>2, <3>3
  <2> QED  BY <2>2 DEF Inspected
<1>9. \E x \in sent' .. read' : Rebuilt(x)' /\ (pc' \in Running => x = read')
  <2>1. m \in sent' .. read' /\ m = read'
    BY <1>1, <1>3, <1>5
  <2> QED  BY <1>7, <2>1
<1>10. Shaped' /\ outcome'.blocked = FALSE /\ ~ Unsafe(outcome'.args)
  BY <1>1, <1>2 DEF Shaped
<1>11. stream' \in Streams /\ read' \in 0 .. Units' /\ sent' \in 0 .. read' /\ torn' \subseteq DOMAIN stream'
  BY <1>1, <1>2, <1>3, <1>4
<1> QED  BY <1>1, <1>2, <1>8, <1>9, <1>10, <1>11 DEF StreamInv, Running

\* Every other step neither reads nor sends.
LEMMA QuietStepsGuarded ==
    ASSUME StreamInv, Open \/ ProviderFails \/ ProviderEnds \/ ClientLeaves \/ Record \/ NoRecordMade
    PROVE  StreamInv'
<1>1. CASE Open \/ ProviderFails \/ ClientLeaves
  <2>1. /\ stream' = stream /\ read' = read /\ sent' = sent /\ torn' = torn /\ record' = record
        /\ outcome' \in {outcome, [outcome EXCEPT !.error = TRUE]}
        /\ pc \in Running /\ pc' \in {"read", "finally"}
        /\ \/ notices' = notices
           \/ notices' \in {<<"error">>, << >>} /\ pc' = "finally"
        /\ pc' \in Running => outcome' = outcome /\ notices' = notices
    BY <1>1 DEF Open, ProviderFails, ClientLeaves, Notify, Running
  <2>2. /\ Shaped /\ outcome.blocked = FALSE /\ ~ Unsafe(outcome.args) /\ notices = << >> /\ record = NoRecord
    BY <2>1 DEF StreamInv, Running
  <2>3. /\ outcome'.content = outcome.content /\ outcome'.args = outcome.args
        /\ outcome'.blocked = FALSE
        /\ outcome' = [content |-> outcome'.content, args |-> outcome'.args, finish |-> outcome'.finish,
                       blocked |-> outcome'.blocked, error |-> outcome'.error]
    BY <2>1, <2>2 DEF Shaped
  <2>4. /\ Inspected' /\ torn' \subseteq DOMAIN stream'
        /\ \E m \in sent' .. read' : Rebuilt(m)' /\ (pc' \in Running => m = read')
        /\ stream' \in Streams /\ read' \in 0 .. Units' /\ sent' \in 0 .. read'
        /\ outcome'.args = [i \in Indexes |-> outcome'.args[i]]
    BY <2>1, <2>3, Untouched
  <2>5. Shaped' /\ pc' # "ended"
    BY <2>1, <2>3, <2>4 DEF Shaped
  <2>6. notices' \in {<< >>, <<"block">>, <<"error">>} /\ (pc' \in Running => notices' = << >>)
    BY <2>1, <2>2 DEF Running
  <2> QED  BY <2>1, <2>2, <2>3, <2>4, <2>5, <2>6 DEF StreamInv
<1>2. CASE ProviderEnds
  <2>1. Shaped /\ outcome.blocked = FALSE /\ ~ Unsafe(outcome.args) /\ notices = << >> /\ record = NoRecord
    BY <1>2 DEF StreamInv, Running, ProviderEnds
  <2>2. /\ stream' = stream /\ read' = read /\ sent' = sent /\ torn' = torn /\ record' = record
        /\ outcome' = outcome /\ notices' = notices /\ pc' = "finally"
    BY <1>2, <2>1 DEF ProviderEnds
  <2>3. pc' \notin Running
    BY <2>2 DEF Running
  <2>4. /\ Inspected' /\ torn' \subseteq DOMAIN stream'
        /\ \E m \in sent' .. read' : Rebuilt(m)' /\ (pc' \in Running => m = read')
        /\ stream' \in Streams /\ read' \in 0 .. Units' /\ sent' \in 0 .. read'
    BY <2>2, <2>3, Untouched
  <2>5. Shaped'
    BY <2>1, <2>2 DEF Shaped
  <2> QED  BY <2>1, <2>2, <2>3, <2>4, <2>5 DEF StreamInv
<1>3. CASE Record \/ NoRecordMade
  <2>1. /\ stream' = stream /\ read' = read /\ sent' = sent /\ torn' = torn
        /\ outcome' = outcome /\ notices' = notices /\ pc = "finally"
        /\ pc' \in {"ended", "swallowed", "raised"}
        /\ record' = IF pc' = "ended" THEN <<outcome>> ELSE record
    BY <1>3 DEF Record, NoRecordMade
  <2>2. pc' \notin Running /\ record = NoRecord
    BY <2>1 DEF Running, StreamInv
  <2>3. /\ Inspected' /\ torn' \subseteq DOMAIN stream'
        /\ \E m \in sent' .. read' : Rebuilt(m)' /\ (pc' \in Running => m = read')
        /\ stream' \in Streams /\ read' \in 0 .. Units' /\ sent' \in 0 .. read'
    BY <2>1, <2>2, Untouched
  <2>4. Shaped' /\ notices' \in {<< >>, <<"block">>, <<"error">>}
    BY <2>1 DEF Shaped, StreamInv
  <2>5. outcome'.blocked \in BOOLEAN /\ (outcome'.blocked => sent' < Units')
    BY <2>1 DEF StreamInv, Units
  <2> QED  BY <2>1, <2>2, <2>3, <2>4, <2>5 DEF StreamInv
<1> QED  BY <1>1, <1>2, <1>3

\* Steps of nobody.
LEMMA StutterGuarded ==
    ASSUME StreamInv, UNCHANGED vars
    PROVE  StreamInv'
<1>1. /\ stream' = stream /\ read' = read /\ sent' = sent /\ record' = record
      /\ outcome' = outcome /\ notices' = notices /\ pc' = pc /\ torn' = torn
  BY DEF vars
<1>2. /\ Inspected' /\ torn' \subseteq DOMAIN stream'
      /\ \E m \in sent' .. read' : Rebuilt(m)' /\ (pc' \in Running => m = read')
      /\ stream' \in Streams /\ read' \in 0 .. Units' /\ sent' \in 0 .. read'
  BY <1>1, Untouched
<1>3. Shaped' /\ Units' = Units
  BY <1>1 DEF Shaped, StreamInv, Units
<1> QED  BY <1>1, <1>2, <1>3 DEF StreamInv

\* The invariant of the stream.
LEMMA StreamInvariant == Spec => []StreamInv
<1>1. ASSUME StreamInv, [Next]_vars
      PROVE  StreamInv'
  <2>1. CASE \E n \in 1 .. Units : ReadChunk(n)
    BY <1>1, <2>1, ReadChunkGuarded
  <2>2. CASE \E n, m \in 0 .. Units : ReadRaises(n, m)
    BY <1>1, <2>2, ReadRaisesGuarded
  <2>3. CASE Forward
    BY <1>1, <2>3, ForwardGuarded
  <2>4. CASE Open \/ ProviderFails \/ ProviderEnds \/ ClientLeaves \/ Record \/ NoRecordMade
    BY <1>1, <2>4, QuietStepsGuarded
  <2>5. CASE UNCHANGED vars
    BY <1>1, <2>5, StutterGuarded
  <2> QED  BY <1>1, <2>1, <2>2, <2>3, <2>4, <2>5 DEF Next
<1> QED  BY <1>1, InitGuarded, PTL DEF Spec

------------------------------------------------------------------------------
(* What the invariant says.                                                *)

\* What was sent of some places is what was decoded, when nothing of it was torn.
LEMMA WholeIsDecoded ==
    ASSUME NEW places, \A j \in DOMAIN places : places[j] \notin torn
    PROVE  AsSent(places) = Values(places)
<1>1. \A j \in DOMAIN places : Decoded(places[j]) = stream[places[j]].piece
  BY DEF Decoded
<1> QED  BY <1>1 DEF AsSent, Values

\* What is kept of some places covers a beginning of them.
LEMMA BeginningCovered ==
    ASSUME NEW s \in Seq(Nat), NEW t \in Seq(Nat), NEW kept, kept = Values(s) \o Values(t)
    PROVE  Covers(kept, s)
<1>1. PICK f, g : f = Values(s) /\ g = Values(t)
  OBVIOUS
<1>2. /\ f \in Seq(Value) /\ Len(f) = Len(s) /\ g \in Seq(Value)
      /\ \A j \in 1 .. Len(s) : f[j] = Decoded(s[j])
  BY <1>1, ValuesGoOn
<1>3. /\ Len(f \o g) = Len(f) + Len(g) /\ Len(g) \in Nat /\ Len(f) \in Nat
      /\ \A j \in 1 .. Len(f) : (f \o g)[j] = f[j]
  <2>1. f \in Seq(Value) /\ g \in Seq(Value)
    BY <1>2
  <2>2. /\ Len(f \o g) = Len(f) + Len(g)
        /\ \A j \in 1 .. Len(f) + Len(g) : (f \o g)[j] = IF j <= Len(f) THEN f[j] ELSE g[j - Len(f)]
    BY <2>1, ConcatProperties
  <2>3. Len(f) \in Nat /\ Len(g) \in Nat
    BY <2>1
  <2> QED  BY <2>2, <2>3
<1>4. kept = f \o g
  BY <1>1
<1>5. DOMAIN s = 1 .. Len(s)
  OBVIOUS
<1>6. ASSUME NEW j \in DOMAIN s, s[j] \notin torn PROVE kept[j] = stream[s[j]].piece
  BY <1>2, <1>3, <1>4, <1>5, <1>6 DEF Decoded
<1>7. Len(s) <= Len(kept)
  BY <1>2, <1>3, <1>4
<1> QED  BY <1>6, <1>7 DEF Covers

\* The types.
LEMMA GuardTyped == StreamInv => TypeOK
BY DEF StreamInv, TypeOK, Shaped

\* The finish event is the last one, and a block withholds a unit at least.
LEMMA FinishWithheld == StreamInv => BlockedBeforeFinish
<1> SUFFICES ASSUME StreamInv, outcome.blocked, NEW k \in Delivered
             PROVE  stream[k].kind # "finish"
  BY DEF BlockedBeforeFinish
<1>1. stream \in Streams /\ read \in 0 .. Units /\ sent \in 0 .. read /\ sent < Units
  BY DEF StreamInv
<1>2. Units \in Nat /\ Len(stream) \in Nat /\ \A j \in 1 .. Len(stream) - 1 : stream[j].kind # "finish"
  BY <1>1, StreamFacts
<1>3. sent \in 0 .. Units
  BY <1>1, <1>2
<1>4. Complete(sent) \in 0 .. Len(stream) /\ Complete(sent) < Len(stream)
  BY <1>1, <1>3, StreamFacts
<1>5. k \in 1 .. Len(stream) - 1
  BY <1>2, <1>4 DEF Delivered
<1> QED  BY <1>2, <1>5

\* What the client has of a call is what was inspected.
LEMMA DeliveredInspected == StreamInv => NoDestructiveDelivered
<1> SUFFICES ASSUME StreamInv, NEW i \in Indexes,
                    NEW places, places = Calls(Delivered, i),
                    \A j \in DOMAIN places : places[j] \notin torn
             PROVE  ~ Destructive(AsSent(places))
  BY DEF NoDestructiveDelivered
<1>1. AsSent(places) = Fragments(Delivered, i)
  BY WholeIsDecoded DEF Fragments
<1> QED  BY <1>1 DEF StreamInv, Inspected

\* The record was put together from units up to m, the client has fewer.
LEMMA RecordCovers == StreamInv => RecordCoversDelivered
<1> SUFFICES ASSUME StreamInv, record # NoRecord
             PROVE  /\ Covers(record[1].content, Texts(Delivered))
                    /\ \A i \in Indexes : Covers(record[1].args[i], Calls(Delivered, i))
  BY DEF RecordCoversDelivered
<1>1. PICK m \in sent .. read : Rebuilt(m)
  BY DEF StreamInv
<1>2. sent \in Nat /\ m \in Nat /\ sent <= m
  <2>1. stream \in Streams /\ read \in 0 .. Units /\ sent \in 0 .. read
    BY DEF StreamInv
  <2> QED  BY <2>1, StreamFacts
<1>3. PICK a \in Nat, b \in Nat : a = Complete(sent) /\ b = Complete(m) /\ a <= b
  BY <1>2, HalvesGrow
<1>4. Delivered = 1 .. a /\ Upto(m) = 1 .. b
  BY <1>3 DEF Delivered, Upto
<1>5. Covers(outcome.content, Texts(Delivered))
  <2>1. outcome.content = Values(Texts(1 .. a)) \o Values(Texts(a + 1 .. b))
    BY <1>1, <1>3, <1>4, CarriedGoesOn DEF Rebuilt, Pieces
  <2>2. Texts(1 .. a) \in Seq(Nat) /\ Texts(a + 1 .. b) \in Seq(Nat)
    BY <1>3, PartsArePlaces
  <2> QED  BY <1>4, <2>1, <2>2, BeginningCovered
<1>6. ASSUME NEW i \in Indexes PROVE Covers(outcome.args[i], Calls(Delivered, i))
  <2>1. outcome.args[i] = Values(Calls(1 .. a, i)) \o Values(Calls(a + 1 .. b, i))
    <3>1. outcome.args[i] = Fragments(1 .. b, i)
      BY <1>1, <1>4 DEF Rebuilt
    <3>2. Fragments(1 .. b, i) = Fragments(1 .. a, i) \o Fragments(a + 1 .. b, i)
      BY <1>3, CarriedGoesOn
    <3> QED  BY <3>1, <3>2 DEF Fragments
  <2>2. Calls(1 .. a, i) \in Seq(Nat) /\ Calls(a + 1 .. b, i) \in Seq(Nat)
    BY <1>3, PartsArePlaces
  <2> QED  BY <1>4, <2>1, <2>2, BeginningCovered
<1>7. record[1] = outcome
  BY DEF StreamInv
<1> QED  BY <1>5, <1>6, <1>7

\* The state of an exchange that is streamed has its types.
THEOREM StreamTypes == Spec => []TypeOK
BY StreamInvariant, GuardTyped, PTL

\* For every stream and every way to cut it into chunks, no destructive order of
\* an indexed tool call is complete in what the client has received, unless a
\* character of the call was cut between two chunks.
THEOREM NoOrderGetsThrough == Spec => []NoDestructiveDelivered
BY StreamInvariant, DeliveredInspected, PTL

\* A blocked stream never delivers the event that starts the execution.
THEOREM BlockWithholdsFinish == Spec => []BlockedBeforeFinish
BY StreamInvariant, FinishWithheld, PTL

\* A record has every text and every fragment of an indexed call that the client
\* has received, in their places and as they were sent unless a character was
\* cut between two chunks, whoever ended the stream.
THEOREM RecordIsComplete == Spec => []RecordCoversDelivered
BY StreamInvariant, RecordCovers, PTL
==============================================================================
