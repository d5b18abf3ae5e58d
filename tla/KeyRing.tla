------------------------------- MODULE KeyRing ------------------------------
(***************************************************************************)
(* Credential envelopes (apps/credentials/crypto.py).  A payload is        *)
(* encrypted under a data key (DEK) of its own, the DEK is wrapped under a *)
(* versioned key (KEK) of the ring, and both layers are bound to tenant    *)
(* and record.                                                             *)
(*                                                                         *)
(* Envelopes are kept by callers, which take one out of the store, rotate  *)
(* it and put it back while others do the same and the ring changes.  A    *)
(* caller of remove_kek names the active envelopes: those in the store and *)
(* those others are working on.                                            *)
(*                                                                         *)
(* Keys and nonces are drawn from numbers never drawn before.  AES-GCM     *)
(* opens what was sealed under the same key and the same associated data,  *)
(* and nothing else.                                                       *)
(***************************************************************************)
EXTENDS Naturals

CONSTANTS
  Callers,     \* users of the module that run at the same time
  Records,     \* tenant and record identities
  KekVersions, \* the versions of a KEK
  FirstVersion,
  Nothing,     \* no key, no envelope
  MaxDrawn     \* bound on the keys and nonces drawn

Drawn == 1..MaxDrawn

Payloads == [dek : Drawn, nonce : Drawn, of : Records]

Envelopes ==
  [version : KekVersions, kek : Drawn, dek : Drawn, of : Records, payload : Payloads]

ASSUME KeyRingAssumption ==
  /\ KekVersions \subseteq Nat \ {0}
  /\ FirstVersion \in KekVersions
  /\ MaxDrawn \in Nat \ {0}
  /\ Nothing \notin Nat \cup Records \cup Envelopes

VARIABLES
  keys,        \* VersionedKEKRing._keys
  active,      \* VersionedKEKRing._active_version
  stored,      \* the envelope of every record
  work,        \* the record and the envelope every caller is working on
  drawn        \* the last number drawn

ringvars == <<keys, active, stored, work, drawn>>

Sealed(record, dek, nonce) == [dek |-> dek, nonce |-> nonce, of |-> record]

\* CredentialEnvelope: the DEK wrapped under kek, and the payload
Envelope(version, kek, dek, record, payload) ==
  [version |-> version, kek |-> kek, dek |-> dek, of |-> record, payload |-> payload]

NoWork == [record |-> Nothing, envelope |-> Nothing]

RingInit ==
  /\ keys = [v \in KekVersions |-> IF v = FirstVersion THEN 1 ELSE Nothing]
  /\ active = FirstVersion
  /\ stored = [i \in Records |-> Nothing]
  /\ work = [c \in Callers |-> NoWork]
  /\ drawn = 1

Available == {v \in KekVersions : keys[v] # Nothing}

\* _unwrap_dek
Unwraps(e, record) ==
  /\ e.version \in Available
  /\ keys[e.version] = e.kek /\ e.of = record

\* decrypt_credential returns the plaintext
Opens(e, record) ==
  /\ Unwraps(e, record)
  /\ e.payload.dek = e.dek /\ e.payload.of = record

\* an envelope of a fresh DEK, a fresh nonce and the active KEK
EncryptCredential(record) ==
  Envelope(active, keys[active], drawn + 1, record,
           Sealed(record, drawn + 1, drawn + 2))

\* mutant of RotateKek: the version of the envelope is left as it was
RotateKekUnderOldVersion(e, record) == [e EXCEPT !.kek = keys[active]]

\* rotate_kek: the DEK is wrapped again, the payload stays
RotateKek(e, record) ==
  Envelope(active, keys[active], e.dek, record, e.payload)

\* rotate_compromised_key: decrypt and encrypt anew
RotateCompromisedKey(e, record) == EncryptCredential(record)

-----------------------------------------------------------------------------
(***************************************************************************)
(* Callers.                                                                *)
(***************************************************************************)
CanDraw == drawn + 2 <= MaxDrawn
Busy(c) == work[c] # NoWork

Take(c, record, envelope) ==
  work' = [work EXCEPT ![c] = [record |-> record, envelope |-> envelope]]

Encrypt(c) ==
  \E i \in Records :
    /\ ~Busy(c) /\ CanDraw
    /\ Take(c, i, EncryptCredential(i))
    /\ drawn' = drawn + 2
    /\ UNCHANGED <<keys, active, stored>>

Load(c) ==
  \E i \in Records :
    /\ ~Busy(c) /\ stored[i] # Nothing
    /\ Take(c, i, stored[i])
    /\ UNCHANGED <<keys, active, stored, drawn>>

Rotate(c) ==
  /\ Busy(c) /\ Unwraps(work[c].envelope, work[c].record)
  /\ Take(c, work[c].record, RotateKek(work[c].envelope, work[c].record))
  /\ UNCHANGED <<keys, active, stored, drawn>>

RotateCompromised(c) ==
  /\ Busy(c) /\ CanDraw /\ Opens(work[c].envelope, work[c].record)
  /\ Take(c, work[c].record, RotateCompromisedKey(work[c].envelope, work[c].record))
  /\ drawn' = drawn + 2
  /\ UNCHANGED <<keys, active, stored>>

Store(c) ==
  /\ Busy(c)
  /\ stored' = [stored EXCEPT ![work[c].record] = work[c].envelope]
  /\ work' = [work EXCEPT ![c] = NoWork]
  /\ UNCHANGED <<keys, active, drawn>>

\* done with it, or the process ended
Drop(c) ==
  /\ Busy(c)
  /\ work' = [work EXCEPT ![c] = NoWork]
  /\ UNCHANGED <<keys, active, stored, drawn>>

-----------------------------------------------------------------------------
(***************************************************************************)
(* The ring.                                                               *)
(***************************************************************************)
\* a version that was removed may be added again, with another key
AddKek(version, makeActive) ==
  /\ version \notin Available /\ drawn < MaxDrawn
  /\ keys' = [keys EXCEPT ![version] = drawn + 1]
  /\ active' = IF makeActive THEN version ELSE active
  /\ drawn' = drawn + 1
  /\ UNCHANGED <<stored, work>>

Activate(version) ==
  /\ version \in Available
  /\ active' = version
  /\ UNCHANGED <<keys, stored, work, drawn>>

ActiveEnvelopes ==
  ({stored[i] : i \in Records} \cup {work[c].envelope : c \in Callers}) \ {Nothing}

Referenced(version) == \E e \in ActiveEnvelopes : e.version = version

RemoveKek(version) ==
  /\ version \in Available
  /\ version # active /\ ~Referenced(version)
  /\ keys' = [keys EXCEPT ![version] = Nothing]
  /\ UNCHANGED <<active, stored, work, drawn>>

CallerStep(c) ==
  \/ Encrypt(c) \/ Load(c) \/ Rotate(c) \/ RotateCompromised(c)
  \/ Store(c) \/ Drop(c)

RingStep(v) ==
  (\E makeActive \in BOOLEAN : AddKek(v, makeActive)) \/ Activate(v) \/ RemoveKek(v)

RingNext ==
  (\E c \in Callers : CallerStep(c)) \/ (\E v \in KekVersions : RingStep(v))

RingSpec == RingInit /\ [][RingNext]_ringvars

-----------------------------------------------------------------------------
Works == {NoWork} \cup [record : Records, envelope : Envelopes]

\* Types; the active version is always one of the ring.
RingTypeOK ==
  /\ keys \in [KekVersions -> Drawn \cup {Nothing}]
  /\ active \in Available
  /\ stored \in [Records -> Envelopes \cup {Nothing}]
  /\ work \in [Callers -> Works]
  /\ drawn \in Drawn

\* Every envelope in use opens for its record, and for no other.
EnvelopesOpen ==
  /\ \A i \in Records : stored[i] # Nothing =>
       \A j \in Records : Opens(stored[i], j) <=> i = j
  /\ \A c \in Callers : Busy(c) =>
       \A j \in Records : Opens(work[c].envelope, j) <=> work[c].record = j

\* Envelopes with the same DEK are wrappings of one payload, and it is no KEK.
OnePayloadPerDek ==
  \A e, d \in ActiveEnvelopes :
    /\ e.dek = d.dek => e.payload = d.payload
    /\ \A v \in Available : keys[v] # e.dek

\* An envelope that is stored, or that a caller works on, can be opened for its
\* record and for no other, and no DEK encrypts two payloads, however rotations,
\* removals and versions that are added again with another key interleave
\* (remove_kek, rotate_kek, rotate_compromised_key).
EnvelopesAreSound == EnvelopesOpen /\ OnePayloadPerDek

=============================================================================
