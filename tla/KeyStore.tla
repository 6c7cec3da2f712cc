------------------------------- MODULE KeyStore -------------------------------
(***************************************************************************)
(* proxy/security/asymmetric_signer.py: the key pair in data/keys, which   *)
(* the proxy and the dashboard share, is created at first use and kept in  *)
(* two files.  Each operation runs in one go within its process, but each  *)
(* of its file operations is a step among those of the other processes,    *)
(* and a write is two: the file is emptied, then filled.                   *)
(*                                                                         *)
(* A definition X_Something, before X, is X with a plausible bug in it; no *)
(* specification uses it.                                                  *)
(***************************************************************************)
EXTENDS Naturals

CONSTANTS
    Processes,
    Keys,               \* keys that may be drawn; each is drawn once
    NoKey,              \* no key in hand
    SerialFirstUse,     \* no operation begins while another one makes the pair
    MaxCrashes          \* bound on kills

\* What the constants are; an instance of the module assumes it.
KeyStoreAssumption ==
    /\ NoKey \notin Keys
    /\ SerialFirstUse \in BOOLEAN
    /\ MaxCrashes \in Nat

VARIABLES
    private,    \* audit_signer_private.pem
    public,     \* audit_signer_public.pem
    pc,         \* where each process is in ensure_signing_key_pair
    held,       \* the keys of the pair it loaded or made: private, public
    signed,     \* the key it signed with, when it signs and then publishes
    issued,     \* signatures handed out, each with the public key beside it
    drawn,      \* keys drawn so far
    passphrase, \* SIGNING_KEY_PASSPHRASE is set
    crashes     \* kills so far

vars == <<private, public, pc, held, signed, issued, drawn, passphrase, crashes>>

\* A file is missing, empty, or holds a key, encrypted or not.
Missing == [state |-> "missing"]
Blank == [state |-> "blank"]
Holds(key, encrypted) == [state |-> "key", key |-> key, encrypted |-> encrypted]
HoldsKey(file) == file.state = "key"

Nothing == [private |-> NoKey, public |-> NoKey]

\* No key yet, or the pair of an older release, in clear.
Init ==
    /\ \/ private = Missing /\ public = Missing /\ drawn = {}
       \/ \E k \in Keys : /\ private = Holds(k, FALSE)
                          /\ public = Holds(k, FALSE)
                          /\ drawn = {k}
    /\ pc = [p \in Processes |-> "idle"]
    /\ held = [p \in Processes |-> Nothing]
    /\ signed = [p \in Processes |-> NoKey]
    /\ issued = {}
    /\ passphrase \in BOOLEAN
    /\ crashes = 0

------------------------------------------------------------------------------
(* ensure_signing_key_pair, one file operation at a time.                  *)

GoTo(p, place) == pc' = [pc EXCEPT ![p] = place]

\* The operation raises, or its process is killed; the files stay as they are.
GivesUp(p) ==
    /\ GoTo(p, "idle")
    /\ held' = [held EXCEPT ![p] = Nothing]
    /\ signed' = [signed EXCEPT ![p] = NoKey]

Complete == private # Missing /\ public # Missing

Creating(p) == pc[p] \in {"blankPrivate", "fillPrivate", "blankPublic", "fillPublic"}

\* The two exists(): files are never removed, so they are one look.  It is also
\* the second call of an operation that has signed.
Look_EachFile(p) ==
    /\ pc[p] \in {"idle", "again"}
    /\ SerialFirstUse => \A q \in Processes \ {p} :
           ~ Creating(q) /\ (Complete \/ pc[q] \in {"idle", "again"})
    /\ \/ /\ Complete
          /\ GoTo(p, "readPrivate")
          /\ UNCHANGED <<held, drawn>>
       \/ /\ ~ Complete
          /\ \E k \in Keys \ drawn :
                 /\ held' = [held EXCEPT ![p] = [private |-> k, public |-> k]]
                 /\ drawn' = drawn \cup {k}
          /\ GoTo(p, IF private = Missing THEN "blankPrivate" ELSE "blankPublic")
    /\ UNCHANGED <<private, public, signed, issued, passphrase, crashes>>

Look(p) ==
    /\ pc[p] \in {"idle", "again"}
    /\ SerialFirstUse => \A q \in Processes \ {p} :
           ~ Creating(q) /\ (Complete \/ pc[q] \in {"idle", "again"})
    /\ \/ /\ Complete
          /\ GoTo(p, "readPrivate")
          /\ UNCHANGED <<held, drawn>>
       \/ /\ ~ Complete
          /\ \E k \in Keys \ drawn :
                 /\ held' = [held EXCEPT ![p] = [private |-> k, public |-> k]]
                 /\ drawn' = drawn \cup {k}
          /\ GoTo(p, "blankPrivate")
    /\ UNCHANGED <<private, public, signed, issued, passphrase, crashes>>

ReadPrivate_Regenerates(p) ==
    /\ pc[p] = "readPrivate"
    /\ IF HoldsKey(private)
       THEN /\ held' = [held EXCEPT ![p].private = private.key]
            /\ GoTo(p, IF private.encrypted THEN "readPublic" ELSE "blankPrivate")
            /\ UNCHANGED drawn
       ELSE /\ \E k \in Keys \ drawn :
                   /\ held' = [held EXCEPT ![p] = [private |-> k, public |-> k]]
                   /\ drawn' = drawn \cup {k}
            /\ GoTo(p, "blankPrivate")
    /\ UNCHANGED <<private, public, signed, issued, passphrase, crashes>>

\* read_bytes and _load_private_key; a key in clear is written again.
ReadPrivate(p) ==
    /\ pc[p] = "readPrivate"
    /\ \/ /\ HoldsKey(private)
          /\ held' = [held EXCEPT ![p].private = private.key]
          /\ GoTo(p, IF private.encrypted THEN "readPublic" ELSE "blankPrivate")
          /\ UNCHANGED signed
       \/ ~ HoldsKey(private) /\ GivesUp(p)
    /\ UNCHANGED <<private, public, issued, drawn, passphrase, crashes>>

\* _write_private_key: write_bytes empties the file first.
BlankPrivate(p) ==
    /\ pc[p] = "blankPrivate"
    /\ private' = Blank
    /\ GoTo(p, "fillPrivate")
    /\ UNCHANGED <<public, held, signed, issued, drawn, passphrase, crashes>>

\* A new pair goes on to its public key; an old key was only rewritten.
FillPrivate(p) ==
    /\ pc[p] = "fillPrivate"
    /\ private' = Holds(held[p].private, passphrase)
    /\ GoTo(p, IF held[p].public = NoKey THEN "readPublic" ELSE "blankPublic")
    /\ UNCHANGED <<public, held, signed, issued, drawn, passphrase, crashes>>

BlankPublic(p) ==
    /\ pc[p] = "blankPublic"
    /\ public' = Blank
    /\ GoTo(p, "fillPublic")
    /\ UNCHANGED <<private, held, signed, issued, drawn, passphrase, crashes>>

FillPublic(p) ==
    /\ pc[p] = "fillPublic"
    /\ public' = Holds(held[p].public, FALSE)
    /\ GoTo(p, "use")
    /\ UNCHANGED <<private, held, signed, issued, drawn, passphrase, crashes>>

ReadPublic_GoesOn(p) ==
    /\ pc[p] = "readPublic"
    /\ held' = [held EXCEPT ![p].public = IF HoldsKey(public) THEN public.key ELSE NoKey]
    /\ GoTo(p, "use")
    /\ UNCHANGED <<private, public, signed, issued, drawn, passphrase, crashes>>

ReadPublic(p) ==
    /\ pc[p] = "readPublic"
    /\ \/ /\ HoldsKey(public)
          /\ held' = [held EXCEPT ![p].public = public.key]
          /\ GoTo(p, "use")
          /\ UNCHANGED signed
       \/ ~ HoldsKey(public) /\ GivesUp(p)
    /\ UNCHANGED <<private, public, issued, drawn, passphrase, crashes>>

------------------------------------------------------------------------------
(* What the callers do with the pair: a dossier and an entry of Rekor take *)
(* a signature from one call and the public key from a later one.          *)

\* sign_manifest_payload, sign_digest_directly.
Sign(p) ==
    /\ pc[p] = "use"
    /\ signed[p] = NoKey
    /\ signed' = [signed EXCEPT ![p] = held[p].private]
    /\ held' = [held EXCEPT ![p] = Nothing]
    /\ GoTo(p, "again")
    /\ UNCHANGED <<private, public, issued, drawn, passphrase, crashes>>

\* get_public_key_pem, for the signature just made or, in the dashboard, to
\* show it; the operation ends.
ShowPublicKey(p) ==
    /\ pc[p] = "use"
    /\ issued' = IF signed[p] = NoKey THEN issued
                 ELSE issued \cup {[key |-> signed[p], public |-> held[p].public]}
    /\ GivesUp(p)
    /\ UNCHANGED <<private, public, drawn, passphrase, crashes>>

Crash(p) ==
    /\ pc[p] # "idle"
    /\ crashes < MaxCrashes
    /\ crashes' = crashes + 1
    /\ GivesUp(p)
    /\ UNCHANGED <<private, public, issued, drawn, passphrase>>

Next ==
    \E p \in Processes :
        \/ Look(p)
        \/ ReadPrivate(p)
        \/ BlankPrivate(p)
        \/ FillPrivate(p)
        \/ BlankPublic(p)
        \/ FillPublic(p)
        \/ ReadPublic(p)
        \/ Sign(p)
        \/ ShowPublicKey(p)
        \/ Crash(p)

Spec == Init /\ [][Next]_vars

------------------------------------------------------------------------------
(* Correctness.                                                            *)

TypeOK ==
    LET File == {Missing, Blank} \cup {Holds(k, e) : k \in Keys, e \in BOOLEAN}
        Key == Keys \cup {NoKey}
    IN  /\ private \in File /\ public \in File
        /\ pc \in [Processes -> {"idle", "again", "readPrivate", "blankPrivate",
                                 "fillPrivate", "blankPublic", "fillPublic",
                                 "readPublic", "use"}]
        /\ held \in [Processes -> [private : Key, public : Key]]
        /\ signed \in [Processes -> Key]
        /\ issued \subseteq [key : Keys, public : Keys]
        /\ drawn \subseteq Keys /\ passphrase \in BOOLEAN
        /\ crashes \in 0 .. MaxCrashes

\* The public key that travels with a signature, read by a later call, is the
\* one that verifies it (the dossier's public_key.pem, the entry of Rekor).
IssuedVerifies == \A s \in issued : s.key = s.public

\* Signatures handed out go on verifying: no later start, kill or rewrite in
\* clear puts another public key in the file ("las firmas ya emitidas siguen
\* verificando", asymmetric_signer.py:48-49).
IssuedKeepVerifying == \A s \in issued : HoldsKey(public) => public.key = s.key
==============================================================================
