----------------------------- MODULE PartsProofs ----------------------------
(***************************************************************************)
(* The listener, proved for any workers, jobs, attempts and capacity of a  *)
(* connection, the key ring, proved for any callers, records, versions and *)
(* number of keys drawn, and the parts side by side.                       *)
(*                                                                         *)
(* The listener: NothingMissed speaks of workers that wait.  What makes it *)
(* so is that it holds from the moment claim_next_job returned None: a     *)
(* worker that goes from there to its wait already hears what is enqueued  *)
(* meanwhile.                                                              *)
(*                                                                         *)
(* The ring: that an envelope opens depends on the key its version has     *)
(* now, which may have been removed and added again meanwhile.  The        *)
(* invariant is that this cannot have happened to an envelope in use, and  *)
(* that every key was drawn once: a key of the ring is no DEK, and neither *)
(* is drawn later.                                                         *)
(***************************************************************************)
EXTENDS Parts, CalculationsProofs

(***************************************************************************)
(* The listener.                                                           *)
(***************************************************************************)
\* a job that still may be claimed has an attempt left
AttemptsInv ==
  \A j \in Jobs : job[j] \in {"ready", "delayed"} => attempts[j] < MaxAttempts

\* workers on the way to a wait, or in one, that nothing will wake
Unwarned ==
  {w \in Workers : worker[w] \in {"drained", "waiting"} /\ pending[w] = 0} \ deaf

HeardInv == Unwarned # {} => Claimable \subseteq silent

LInv == ListenerTypeOK /\ AttemptsInv /\ HeardInv

-----------------------------------------------------------------------------
LEMMA InitLInv == ListenerInit => LInv
BY JobListenerAssumption
DEF ListenerInit, LInv, ListenerTypeOK, AttemptsInv, HeardInv, Unwarned, Ready

\* A step that changes no claim, wakes or silences nobody who was not warned,
\* and makes no job claimable but silently, keeps HeardInv.
LEMMA StillHeard ==
  ASSUME LInv, Unwarned' \subseteq Unwarned,
         Claimable' \ silent' \subseteq Claimable \ silent
  PROVE  HeardInv'
BY DEF LInv, HeardInv

LEMMA JobKeeps ==
  ASSUME LInv, NEW j \in Jobs, JobStep(j)
  PROVE  LInv'
<1> USE JobListenerAssumption DEF LInv
<1>1. CASE MakeAvailable(j)
  <2>1. ListenerTypeOK'
    BY <1>1 DEF MakeAvailable, ListenerTypeOK, Ready, Notify, Capped, Hearing
  <2>2. AttemptsInv'
    BY <1>1 DEF MakeAvailable, AttemptsInv, ListenerTypeOK
  <2>3. Unwarned' = {}
    BY <1>1
    DEF MakeAvailable, ListenerTypeOK, Unwarned, Notify, Capped, Hearing
  <2> QED
    BY <2>1, <2>2, <2>3 DEF HeardInv
<1>2. CASE Delay(j)
  <2>1. ListenerTypeOK' /\ AttemptsInv'
    BY <1>2 DEF Delay, ListenerTypeOK, Ready, AttemptsInv
  <2>2. Unwarned' = Unwarned /\ Claimable' \subseteq Claimable
    BY <1>2 DEF Delay, ListenerTypeOK, Unwarned, Claimable, Ready, Locked
  <2> QED
    BY <1>2, <2>1, <2>2, StillHeard DEF Delay
<1>3. CASE BecomeDue(j)
  <2>1. ListenerTypeOK' /\ AttemptsInv'
    BY <1>3 DEF BecomeDue, ListenerTypeOK, Ready, AttemptsInv
  <2>2. Unwarned' = Unwarned /\ Claimable' \subseteq Claimable \cup {j}
    BY <1>3 DEF BecomeDue, ListenerTypeOK, Unwarned, Claimable, Ready, Locked
  <2> QED
    BY <1>3, <2>1, <2>2, StillHeard DEF BecomeDue
<1>4. CASE Settle(j)
  <2>1. ListenerTypeOK' /\ AttemptsInv'
    BY <1>4 DEF Settle, ListenerTypeOK, Ready, AttemptsInv
  <2>2. Unwarned' = Unwarned /\ Claimable' \subseteq Claimable
    BY <1>4 DEF Settle, ListenerTypeOK, Unwarned, Claimable, Ready, Locked
  <2> QED
    BY <1>4, <2>1, <2>2, StillHeard DEF Settle
<1> QED
  BY <1>1, <1>2, <1>3, <1>4 DEF JobStep

\* Steps of a worker that leave jobs, claims and notifications as they are.
LEMMA MoveKeeps ==
  ASSUME LInv, NEW w \in Workers,
         NEW step \in {"draining", "waiting"}, Goto(w, step),
         claiming[w] = NoJob,
         pending' \in [Workers -> 0..MaxPending],
         \A v \in Workers \ {w} : pending'[v] = pending[v],
         step = "waiting" => worker[w] = "drained" /\ pending' = pending,
         UNCHANGED <<job, attempts, silent, claiming, deaf>>
  PROVE  LInv'
<1>1. ListenerTypeOK'
  BY DEF LInv, ListenerTypeOK, Goto, Ready
<1>2. AttemptsInv'
  BY DEF LInv, AttemptsInv
<1>3. Unwarned' \subseteq Unwarned
  BY DEF LInv, ListenerTypeOK, Unwarned, Goto
<1>4. Claimable' = Claimable
  BY DEF Claimable, Ready, Locked
<1> QED
  BY <1>1, <1>2, <1>3, <1>4, StillHeard DEF LInv

LEMMA WorkerKeeps ==
  ASSUME LInv, NEW w \in Workers, WorkerStep(w)
  PROVE  LInv'
<1> USE JobListenerAssumption DEF LInv
<1>1. CASE Connect(w) \/ Wait(w) \/ Wake(w) \/ TimeOut(w)
  <2>1. claiming[w] = NoJob
    BY <1>1 DEF Connect, Wait, Wake, TimeOut, ListenerTypeOK
  <2>2. pending' \in [Workers -> 0..MaxPending]
    BY <1>1 DEF Connect, Wait, Wake, TimeOut, ListenerTypeOK
  <2>3. \A v \in Workers \ {w} : pending'[v] = pending[v]
    BY <1>1 DEF Connect, Wait, Wake, TimeOut, ListenerTypeOK
  <2>4. /\ Goto(w, "draining") \/ (Goto(w, "waiting") /\ worker[w] = "drained" /\ pending' = pending)
        /\ UNCHANGED <<job, attempts, silent, claiming, deaf>>
    BY <1>1 DEF Connect, Wait, Wake, TimeOut
  <2>5. CASE Goto(w, "draining")
    BY <2>1, <2>2, <2>3, <2>4, <2>5, MoveKeeps
  <2>6. CASE Goto(w, "waiting") /\ worker[w] = "drained" /\ pending' = pending
    BY <2>1, <2>2, <2>3, <2>4, <2>6, MoveKeeps
  <2> QED
    BY <2>4, <2>5, <2>6
<1>2. CASE LockCandidate(w)
  <2>1. PICK j \in Claimable : claiming' = [claiming EXCEPT ![w] = j]
    BY <1>2 DEF LockCandidate
  <2>2. /\ worker[w] = "draining" /\ claiming[w] = NoJob /\ j # NoJob
        /\ UNCHANGED <<job, attempts, silent, worker, pending, deaf>>
    BY <1>2, <2>1 DEF LockCandidate, Claimable, Ready
  <2>3. ListenerTypeOK'
    BY <2>1, <2>2 DEF ListenerTypeOK, Claimable, Ready, Locked
  <2>4. Unwarned' = Unwarned /\ Claimable' \subseteq Claimable
    BY <2>1, <2>2 DEF ListenerTypeOK, Unwarned, Claimable, Ready, Locked
  <2> QED
    BY <2>2, <2>3, <2>4, StillHeard DEF AttemptsInv
<1>3. CASE CommitClaim(w)
  <2>1. PICK j : j = claiming[w]
    OBVIOUS
  <2>2. /\ j \in Jobs /\ job[j] = "ready" /\ j # NoJob
        /\ job' = [job EXCEPT ![j] = "running"]
        /\ attempts' = [attempts EXCEPT ![j] = @ + 1]
        /\ silent' = silent \ {j}
        /\ claiming' = [claiming EXCEPT ![w] = NoJob]
        /\ UNCHANGED <<worker, pending, deaf>>
    BY <1>3, <2>1 DEF CommitClaim, ListenerTypeOK, Ready
  <2>3. ListenerTypeOK'
    BY <2>1, <2>2 DEF ListenerTypeOK, AttemptsInv, Ready
  <2>4. AttemptsInv'
    BY <2>2 DEF AttemptsInv, ListenerTypeOK
  <2>5. Unwarned' = Unwarned /\ Claimable' \subseteq Claimable /\ j \notin Claimable'
    BY <2>1, <2>2 DEF ListenerTypeOK, Unwarned, Claimable, Ready, Locked
  <2> QED
    BY <2>2, <2>3, <2>4, <2>5, StillHeard
<1>4. CASE FinishDrain(w)
  <2>1. /\ worker[w] = "draining" /\ claiming[w] = NoJob /\ Claimable = {}
        /\ worker' = [worker EXCEPT ![w] = "drained"]
        /\ UNCHANGED <<job, attempts, silent, claiming, pending, deaf>>
    BY <1>4 DEF FinishDrain, Goto
  <2>2. ListenerTypeOK' /\ AttemptsInv'
    BY <2>1 DEF ListenerTypeOK, AttemptsInv, Ready
  <2>3. Claimable' = {}
    BY <2>1 DEF Claimable, Ready, Locked
  <2> QED
    BY <2>2, <2>3 DEF HeardInv
<1>5. CASE Disconnect(w)
  <2>1. PICK j : j = claiming[w]
    OBVIOUS
  <2>2. /\ worker' = [worker EXCEPT ![w] = "down"]
        /\ silent' = silent \cup ({j} \ {NoJob})
        /\ claiming' = [claiming EXCEPT ![w] = NoJob]
        /\ pending' = [pending EXCEPT ![w] = 0]
        /\ deaf' = deaf \ {w}
        /\ UNCHANGED <<job, attempts>>
    BY <1>5, <2>1 DEF Disconnect, Goto
  <2>3. ListenerTypeOK' /\ AttemptsInv'
    BY <2>1, <2>2 DEF ListenerTypeOK, AttemptsInv, Ready
  <2>4. Unwarned' \subseteq Unwarned
    BY <2>2 DEF ListenerTypeOK, Unwarned
  <2>5. Claimable' \subseteq Claimable \cup ({j} \ {NoJob})
    BY <2>1, <2>2 DEF ListenerTypeOK, Claimable, Ready, Locked
  <2> QED
    BY <2>2, <2>3, <2>4, <2>5, StillHeard
<1>6. CASE GoDeaf(w)
  <2>1. ListenerTypeOK' /\ AttemptsInv'
    BY <1>6 DEF GoDeaf, ListenerTypeOK, AttemptsInv, Ready
  <2>2. Unwarned' \subseteq Unwarned /\ Claimable' = Claimable
    BY <1>6 DEF GoDeaf, Unwarned, Claimable, Ready, Locked
  <2> QED
    BY <1>6, <2>1, <2>2, StillHeard DEF GoDeaf
<1> QED
  BY <1>1, <1>2, <1>3, <1>4, <1>5, <1>6 DEF WorkerStep

LEMMA NextLInv == LInv /\ [ListenerNext]_listenervars => LInv'
<1>1. ASSUME LInv, UNCHANGED listenervars PROVE LInv'
  BY <1>1
  DEF listenervars, LInv, ListenerTypeOK, AttemptsInv, HeardInv, Unwarned,
      Claimable, Ready, Locked
<1> QED
  BY <1>1, JobKeeps, WorkerKeeps DEF ListenerNext

LEMMA LInvHolds == ListenerSpec => []LInv
BY InitLInv, NextLInv, PTL DEF ListenerSpec

-----------------------------------------------------------------------------
\* Types; only a draining worker holds a claim, and no row is claimed twice.
THEOREM ListenerTypes == ListenerSpec => []ListenerTypeOK
BY LInvHolds, PTL DEF LInv

\* No notification is missed, whatever is enqueued while workers connect,
\* drain, wait and lose their connections (run_connected_cycle and the trigger
\* notify_background_job).
THEOREM NothingIsMissed == ListenerSpec => []NothingMissed
<1>1. LInv => NothingMissed
  BY DEF LInv, HeardInv, Unwarned, NothingMissed
<1> QED
  BY <1>1, LInvHolds, PTL

-----------------------------------------------------------------------------
(***************************************************************************)
(* The key ring.                                                           *)
(***************************************************************************)
\* an envelope in use is wrapped under the key that its version has now
Wrapped(e) ==
  /\ keys[e.version] = e.kek
  /\ e.payload.dek = e.dek
  /\ e.payload.of = e.of
  /\ e.dek <= drawn /\ e.kek <= drawn

WrappedInv == \A e \in ActiveEnvelopes : Wrapped(e)

\* an envelope is kept for the record it was made for
PlaceInv ==
  /\ \A i \in Records : stored[i] # Nothing => stored[i].of = i
  /\ \A c \in Callers : work[c] # NoWork => work[c].envelope.of = work[c].record

\* what was drawn was drawn once
FreshInv ==
  /\ \A v \in Available : keys[v] <= drawn
  /\ \A e \in ActiveEnvelopes : \A v \in KekVersions : keys[v] # e.dek
  /\ \A e, d \in ActiveEnvelopes : e.dek = d.dek => e.payload = d.payload

RInv == RingTypeOK /\ WrappedInv /\ PlaceInv /\ FreshInv

-----------------------------------------------------------------------------
(***************************************************************************)
(* Lemmas.                                                                 *)
(***************************************************************************)

\* The envelope somebody takes is the only one that may be new.
LEMMA TakeAdds ==
  ASSUME NEW c \in Callers, NEW record, NEW e,
         RingTypeOK, Take(c, record, e), stored' = stored
  PROVE  ActiveEnvelopes' \subseteq ActiveEnvelopes \cup {e}
BY DEF ActiveEnvelopes, Take, RingTypeOK

\* Whatever is kept in the store or in a caller's hands is an envelope in use.
LEMMA InUse ==
  ASSUME RingTypeOK
  PROVE  /\ ActiveEnvelopes \subseteq Envelopes
         /\ \A i \in Records : stored[i] # Nothing => stored[i] \in ActiveEnvelopes
         /\ \A c \in Callers : work[c] # NoWork =>
              /\ work[c].envelope \in ActiveEnvelopes
              /\ work[c].record \in Records
BY KeyRingAssumption DEF ActiveEnvelopes, RingTypeOK, Works, NoWork

\* An envelope of a fresh DEK: it is wrapped under the active key, and neither
\* its DEK nor its payload has been there before.
LEMMA FreshEnvelope ==
  ASSUME RInv, NEW i \in Records, NEW e, e = EncryptCredential(i),
         CanDraw, drawn' = drawn + 2, keys' = keys
  PROVE  /\ e \in Envelopes /\ e.of = i
         /\ Wrapped(e)'
         /\ \A v \in KekVersions : keys[v] # e.dek
         /\ \A d \in ActiveEnvelopes : e.dek # d.dek
<1>1. /\ active \in KekVersions /\ keys[active] \in Drawn /\ keys[active] <= drawn
      /\ keys[active] \in Nat /\ drawn \in Nat /\ drawn + 1 \in Drawn /\ drawn + 2 \in Drawn
  BY KeyRingAssumption DEF RInv, RingTypeOK, FreshInv, Available, CanDraw, Drawn
<1>2. \A v \in KekVersions : keys[v] # drawn + 1
  BY <1>1, KeyRingAssumption DEF RInv, FreshInv, RingTypeOK, Available, Drawn
<1>3. \A d \in ActiveEnvelopes : d.dek # drawn + 1
  BY <1>1, InUse DEF RInv, WrappedInv, Wrapped, Envelopes, Drawn
<1>4. /\ e.version = active /\ e.kek = keys[active] /\ e.dek = drawn + 1 /\ e.of = i
      /\ e.payload = [dek |-> drawn + 1, nonce |-> drawn + 2, of |-> i]
  BY DEF EncryptCredential, Envelope, Sealed
<1>5. e \in Envelopes
  BY <1>1 DEF EncryptCredential, Envelope, Sealed, Envelopes, Payloads
<1>6. e.payload.dek = e.dek /\ e.payload.of = e.of
  BY <1>4
<1>7. Wrapped(e)'
  BY <1>1, <1>4, <1>6 DEF Wrapped
<1> QED BY <1>2, <1>3, <1>4, <1>5, <1>7

\* One envelope more keeps the parts of the invariant that are about envelopes,
\* if it is wrapped under its version's key and its DEK is its payload's own.
LEMMA OneMore ==
  ASSUME RInv, NEW e \in Envelopes,
         ActiveEnvelopes' \subseteq ActiveEnvelopes \cup {e},
         keys' = keys, drawn' \in Nat, drawn' >= drawn,
         Wrapped(e)',
         \A v \in KekVersions : keys[v] # e.dek,
         \A d \in ActiveEnvelopes : e.dek = d.dek => e.payload = d.payload
  PROVE  WrappedInv' /\ FreshInv'
<1>1. ActiveEnvelopes \subseteq Envelopes /\ drawn \in Nat
  BY InUse, KeyRingAssumption DEF RInv, RingTypeOK, Drawn
<1>2. WrappedInv'
  <2>1. ASSUME NEW d \in ActiveEnvelopes PROVE Wrapped(d)'
    BY <1>1, <2>1 DEF RInv, WrappedInv, Wrapped, Envelopes, Drawn
  <2> QED BY <2>1 DEF WrappedInv
<1>3. \A v \in Available' : keys'[v] <= drawn'
  <2>1. Available' = Available /\ \A v \in Available : keys[v] \in Nat /\ keys[v] <= drawn
    BY KeyRingAssumption DEF RInv, FreshInv, RingTypeOK, Available, Drawn
  <2> QED BY <1>1, <2>1
<1>4. \A d \in ActiveEnvelopes' : \A v \in KekVersions : keys'[v] # d.dek
  BY DEF RInv, FreshInv
<1>5. \A d, f \in ActiveEnvelopes' : d.dek = f.dek => d.payload = f.payload
  BY DEF RInv, FreshInv
<1> QED BY <1>2, <1>3, <1>4, <1>5 DEF FreshInv

-----------------------------------------------------------------------------
(***************************************************************************)
(* The invariant.                                                          *)
(***************************************************************************)
LEMMA InitRInv == RingInit => RInv
<1> SUFFICES ASSUME RingInit PROVE RInv
  OBVIOUS
<1>1. ActiveEnvelopes = {}
  BY DEF RingInit, ActiveEnvelopes, NoWork
<1>2. RingTypeOK
  BY KeyRingAssumption DEF RingInit, RingTypeOK, Available, Works, Drawn
<1>3. \A v \in Available : keys[v] <= drawn
  BY KeyRingAssumption DEF RingInit, Available
<1> QED
  BY <1>1, <1>2, <1>3 DEF RInv, WrappedInv, PlaceInv, FreshInv, RingInit, NoWork

\* Every step of a caller that takes an envelope keeps the invariant, if the
\* envelope is sound.
LEMMA TakeKeeps ==
  ASSUME RInv, NEW c \in Callers, NEW i \in Records, NEW e \in Envelopes,
         Take(c, i, e), e.of = i,
         stored' = stored, keys' = keys, active' = active,
         drawn' \in Drawn, drawn' >= drawn,
         Wrapped(e)',
         \A v \in KekVersions : keys[v] # e.dek,
         \A d \in ActiveEnvelopes : e.dek = d.dek => e.payload = d.payload
  PROVE  RInv'
<1>1. WrappedInv' /\ FreshInv'
  BY TakeAdds, OneMore DEF RInv, Drawn
<1>2. RingTypeOK'
  BY DEF RInv, RingTypeOK, Available, Take, Works
<1>3. PlaceInv'
  BY DEF RInv, PlaceInv, Take, RingTypeOK
<1> QED
  BY <1>1, <1>2, <1>3 DEF RInv

\* So does every step of a caller that only lets envelopes go, or puts one in
\* its place.
LEMMA ReleaseKeeps ==
  ASSUME RInv, NEW c \in Callers, work' = [work EXCEPT ![c] = NoWork],
         ActiveEnvelopes' \subseteq ActiveEnvelopes,
         stored' \in [Records -> Envelopes \cup {Nothing}],
         \A i \in Records : stored'[i] # Nothing => stored'[i].of = i,
         UNCHANGED <<keys, active, drawn>>
  PROVE  RInv'
<1>1. RingTypeOK'
  BY DEF RInv, RingTypeOK, Available, Works
<1>2. WrappedInv'
  BY DEF RInv, WrappedInv, Wrapped
<1>3. PlaceInv'
  BY DEF RInv, PlaceInv, RingTypeOK
<1>4. FreshInv'
  BY DEF RInv, FreshInv, Available
<1> QED
  BY <1>1, <1>2, <1>3, <1>4 DEF RInv

LEMMA CallerKeeps ==
  ASSUME RInv, NEW c \in Callers, CallerStep(c)
  PROVE  RInv'
<1> USE DEF Busy
<1>1. CASE Encrypt(c)
  <2>1. PICK i \in Records :
          /\ CanDraw /\ Take(c, i, EncryptCredential(i)) /\ drawn' = drawn + 2
          /\ UNCHANGED <<keys, active, stored>>
    BY <1>1 DEF Encrypt
  <2>2. PICK e : e = EncryptCredential(i)
    OBVIOUS
  <2>3. Take(c, i, e) /\ drawn' \in Drawn /\ drawn' >= drawn
    BY <2>1, <2>2, KeyRingAssumption DEF Take, CanDraw, RInv, RingTypeOK, Drawn
  <2> QED
    BY <2>1, <2>2, <2>3, FreshEnvelope, TakeKeeps
<1>2. CASE Load(c)
  <2>1. PICK i \in Records :
          /\ stored[i] # Nothing /\ Take(c, i, stored[i])
          /\ UNCHANGED <<keys, active, stored, drawn>>
    BY <1>2 DEF Load
  <2>2. PICK e : e = stored[i]
    OBVIOUS
  <2>3. e \in ActiveEnvelopes /\ e \in Envelopes /\ e.of = i /\ Take(c, i, e)
    BY <2>1, <2>2, InUse DEF RInv, PlaceInv, Take
  <2>4. Wrapped(e)'
    BY <2>1, <2>3 DEF RInv, WrappedInv, Wrapped
  <2>5. \A v \in KekVersions : keys[v] # e.dek
    BY <2>3 DEF RInv, FreshInv
  <2>6. \A d \in ActiveEnvelopes : e.dek = d.dek => e.payload = d.payload
    BY <2>3 DEF RInv, FreshInv
  <2>7. drawn' \in Drawn /\ drawn' >= drawn
    BY <2>1, KeyRingAssumption DEF RInv, RingTypeOK, Drawn
  <2> QED
    BY <2>1, <2>3, <2>4, <2>5, <2>6, <2>7, TakeKeeps
<1>3. CASE Rotate(c)
  <2>1. PICK i, f, e : /\ i = work[c].record /\ f = work[c].envelope
                       /\ e = RotateKek(f, i)
    OBVIOUS
  <2>2. /\ i \in Records /\ f \in ActiveEnvelopes /\ f \in Envelopes
        /\ f.of = i /\ Take(c, i, e)
        /\ UNCHANGED <<keys, active, stored, drawn>>
    BY <1>3, <2>1, InUse DEF Rotate, RInv, PlaceInv, Take
  <2>3. /\ e \in Envelopes /\ e.of = i /\ e.dek = f.dek /\ e.payload = f.payload
        /\ e.version = active /\ e.kek = keys[active]
    BY <2>1, <2>2 DEF RotateKek, Envelope, Envelopes, RInv, RingTypeOK, Available
  <2>4. Wrapped(e)'
    BY <2>2, <2>3 DEF RInv, WrappedInv, Wrapped, RingTypeOK, FreshInv
  <2>5. \A v \in KekVersions : keys[v] # e.dek
    BY <2>2, <2>3 DEF RInv, FreshInv
  <2>6. \A d \in ActiveEnvelopes : e.dek = d.dek => e.payload = d.payload
    BY <2>2, <2>3 DEF RInv, FreshInv
  <2>7. drawn' \in Drawn /\ drawn' >= drawn
    BY <2>2, KeyRingAssumption DEF RInv, RingTypeOK, Drawn
  <2> QED
    BY <2>2, <2>3, <2>4, <2>5, <2>6, <2>7, TakeKeeps
<1>4. CASE RotateCompromised(c)
  <2>1. PICK i, e : i = work[c].record /\ e = EncryptCredential(i)
    OBVIOUS
  <2>2. /\ i \in Records /\ CanDraw /\ Take(c, i, e) /\ drawn' = drawn + 2
        /\ UNCHANGED <<keys, active, stored>>
    BY <1>4, <2>1, InUse DEF RotateCompromised, RotateCompromisedKey, RInv, Take
  <2>3. drawn' \in Drawn /\ drawn' >= drawn
    BY <2>2, KeyRingAssumption DEF CanDraw, RInv, RingTypeOK, Drawn
  <2> QED
    BY <2>1, <2>2, <2>3, FreshEnvelope, TakeKeeps
<1>5. CASE Store(c)
  <2>1. /\ work[c].envelope \in ActiveEnvelopes /\ work[c].envelope \in Envelopes
        /\ work[c].record \in Records
        /\ work[c].envelope.of = work[c].record
    BY <1>5, InUse DEF Store, RInv, PlaceInv
  <2>2. ActiveEnvelopes' \subseteq ActiveEnvelopes
    BY <1>5, <2>1 DEF Store, ActiveEnvelopes, RInv, RingTypeOK, NoWork
  <2>3. stored' \in [Records -> Envelopes \cup {Nothing}]
    BY <1>5, <2>1 DEF Store, RInv, RingTypeOK
  <2>4. \A i \in Records : stored'[i] # Nothing => stored'[i].of = i
    BY <1>5, <2>1 DEF Store, RInv, RingTypeOK, PlaceInv
  <2> QED
    BY <1>5, <2>2, <2>3, <2>4, ReleaseKeeps DEF Store
<1>6. CASE Drop(c)
  <2>1. ActiveEnvelopes' \subseteq ActiveEnvelopes
    BY <1>6 DEF Drop, ActiveEnvelopes, RInv, RingTypeOK, NoWork
  <2> QED
    BY <1>6, <2>1, ReleaseKeeps DEF Drop, RInv, RingTypeOK, PlaceInv
<1> QED
  BY <1>1, <1>2, <1>3, <1>4, <1>5, <1>6 DEF CallerStep

LEMMA RingKeeps ==
  ASSUME RInv, NEW v \in KekVersions, RingStep(v)
  PROVE  RInv'
<1>1. ActiveEnvelopes' = ActiveEnvelopes /\ PlaceInv'
  BY DEF RingStep, AddKek, Activate, RemoveKek, ActiveEnvelopes, RInv, PlaceInv
<1>2. ActiveEnvelopes \subseteq Envelopes /\ drawn \in Nat
  BY InUse, KeyRingAssumption DEF RInv, RingTypeOK, Drawn
<1>3. ASSUME NEW makeActive \in BOOLEAN, AddKek(v, makeActive)
      PROVE  RInv'
  <2>1. /\ keys[v] = Nothing /\ keys' = [keys EXCEPT ![v] = drawn + 1]
        /\ drawn' = drawn + 1 /\ drawn + 1 \in Drawn
        /\ active' \in {active, v}
    BY <1>2, <1>3, KeyRingAssumption DEF AddKek, Available, Drawn
  <2>2. RingTypeOK'
    BY <1>2, <1>3, <2>1, KeyRingAssumption
    DEF AddKek, RInv, RingTypeOK, Available, Drawn
  <2>3. ASSUME NEW e \in ActiveEnvelopes PROVE Wrapped(e)'
    BY <1>2, <2>1, <2>3, KeyRingAssumption
    DEF RInv, WrappedInv, Wrapped, RingTypeOK, Envelopes, Drawn
  <2>4. \A u \in Available' : keys'[u] <= drawn'
    BY <1>2, <2>1, KeyRingAssumption DEF RInv, FreshInv, RingTypeOK, Available, Drawn
  <2>5. \A e \in ActiveEnvelopes : \A u \in KekVersions : keys'[u] # e.dek
    BY <1>2, <2>1 DEF RInv, FreshInv, RingTypeOK, WrappedInv, Wrapped, Envelopes, Drawn
  <2>6. FreshInv'
    BY <1>1, <2>4, <2>5 DEF RInv, FreshInv
  <2> QED
    BY <1>1, <2>2, <2>3, <2>6 DEF RInv, WrappedInv
<1>4. CASE Activate(v)
  BY <1>1, <1>4
  DEF Activate, RInv, RingTypeOK, Available, WrappedInv, Wrapped, FreshInv
<1>5. CASE RemoveKek(v)
  <2>1. /\ v # active /\ keys' = [keys EXCEPT ![v] = Nothing]
        /\ \A e \in ActiveEnvelopes : e.version # v
        /\ UNCHANGED <<active, stored, work, drawn>>
    BY <1>5 DEF RemoveKek, Referenced
  <2>2. RingTypeOK'
    BY <2>1 DEF RInv, RingTypeOK, Available
  <2>3. ASSUME NEW e \in ActiveEnvelopes PROVE Wrapped(e)'
    BY <1>2, <2>1, <2>3 DEF RInv, WrappedInv, Wrapped, RingTypeOK, Envelopes
  <2>4. \A u \in Available' : keys'[u] <= drawn'
    BY <2>1 DEF RInv, FreshInv, RingTypeOK, Available
  <2>5. \A e \in ActiveEnvelopes : \A u \in KekVersions : keys'[u] # e.dek
    BY <1>2, <2>1, KeyRingAssumption DEF RInv, FreshInv, RingTypeOK, Envelopes, Drawn
  <2>6. FreshInv'
    BY <1>1, <2>4, <2>5 DEF RInv, FreshInv
  <2> QED
    BY <1>1, <2>2, <2>3, <2>6 DEF RInv, WrappedInv
<1> QED
  BY <1>3, <1>4, <1>5 DEF RingStep

LEMMA NextRInv == RInv /\ [RingNext]_ringvars => RInv'
<1>1. ASSUME RInv, UNCHANGED ringvars PROVE RInv'
  BY <1>1 DEF ringvars, RInv, RingTypeOK, Available, WrappedInv, Wrapped, PlaceInv,
     FreshInv, ActiveEnvelopes
<1> QED
  BY <1>1, CallerKeeps, RingKeeps DEF RingNext

LEMMA RInvHolds == RingSpec => []RInv
BY InitRInv, NextRInv, PTL DEF RingSpec

LEMMA RInvIsSound == RInv => EnvelopesAreSound
<1> SUFFICES ASSUME RInv PROVE EnvelopesAreSound
  OBVIOUS
<1>1. ASSUME NEW e \in ActiveEnvelopes, NEW j \in Records
      PROVE  Opens(e, j) <=> e.of = j
  <2>1. e \in Envelopes /\ Wrapped(e)
    BY <1>1, InUse DEF RInv, WrappedInv
  <2>2. e.version \in Available
    BY <2>1, KeyRingAssumption DEF Available, Wrapped, Envelopes, Drawn
  <2> QED
    BY <2>1, <2>2 DEF Opens, Unwraps, Wrapped
<1>2. EnvelopesOpen
  <2>1. ASSUME NEW i \in Records, stored[i] # Nothing, NEW j \in Records
        PROVE  Opens(stored[i], j) <=> i = j
    BY <1>1, <2>1, InUse DEF RInv, PlaceInv
  <2>2. ASSUME NEW c \in Callers, Busy(c), NEW j \in Records
        PROVE  Opens(work[c].envelope, j) <=> work[c].record = j
    BY <1>1, <2>2, InUse DEF RInv, PlaceInv, Busy
  <2> QED
    BY <2>1, <2>2 DEF EnvelopesOpen
<1>3. OnePayloadPerDek
  BY DEF OnePayloadPerDek, RInv, FreshInv, Available
<1> QED
  BY <1>2, <1>3 DEF EnvelopesAreSound

\* Types, for any number of callers, records, versions and keys drawn.
THEOREM RingTypes == RingSpec => []RingTypeOK
BY RInvHolds, PTL DEF RInv

\* Whatever callers and operators of the ring do in whatever order, every
\* envelope in use can be opened for its record and for no other, and no DEK
\* encrypts two payloads (remove_kek, rotate_kek, rotate_compromised_key).
THEOREM EnvelopesStaySound == RingSpec => []EnvelopesAreSound
BY RInvHolds, RInvIsSound, PTL

-----------------------------------------------------------------------------
(***************************************************************************)
(* The parts side by side.                                                 *)
(***************************************************************************)
\* What is invariant in each part is so while the others rest.
LEMMA PartsKeep ==
  /\ Init => LInv /\ RInv /\ Answered
  /\ LInv /\ RInv /\ Answered /\ [Next]_partvars => LInv' /\ RInv' /\ Answered'
<1>1. Init => LInv /\ RInv /\ Answered
  BY InitLInv, InitRInv, AnsweredInit DEF Init
<1>2. [Next]_partvars =>
        [ListenerNext]_listenervars /\ [RingNext]_ringvars /\ [CalcNext]_calcvars
  BY DEF Next, partvars
<1> QED
  BY <1>1, <1>2, NextLInv, NextRInv, AnsweredNext

\* Notifications, envelopes and the answers of the engines are right in the
\* system of all three parts, and access lowers no risk in it.
THEOREM PartsAreSound ==
  Spec => /\ [](NothingMissed /\ EnvelopesAreSound)
          /\ [](RiskIsSound /\ RoiAddsUp /\ MatchIsExact /\ RootsBind /\ ReportAddsUp)
          /\ MoreAccessIsNoLessRisk
<1>1. LInv => NothingMissed
  BY DEF LInv, HeardInv, Unwarned, NothingMissed
<1>2. RInv => EnvelopesAreSound
  BY RInvIsSound
<1>3. Answered => RiskIsSound /\ RoiAddsUp /\ MatchIsExact /\ RootsBind /\ ReportAddsUp
  BY AnsweredIsSound, AnsweredAddsUp, AnsweredIsExact, RootsOfBlocksBind, ReportedAddsUp
  DEF Answered
<1>4. Answered /\ [Next]_partvars => [RiskRises]_calcvars
  <2>1. [Next]_partvars => [CalcNext]_calcvars
    BY DEF Next, partvars
  <2> QED BY <2>1, RiskGrows DEF Answered
<1> QED
  BY <1>1, <1>2, <1>3, <1>4, PartsKeep, PTL DEF Spec, MoreAccessIsNoLessRisk

=============================================================================
