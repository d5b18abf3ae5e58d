-------------------------- MODULE AuditChainProofs --------------------------
(***************************************************************************)
(* The audit chain, proved for every set of events, every number of seal   *)
(* transactions and every block size.                                      *)
(*                                                                         *)
(* The two properties of the tables, ChainIntact and BlocksMatchEvents,    *)
(* are nearly inductive together: what a transaction read may be stale, but *)
(* the guards of its last statements compare it with the rows once more.   *)
(* TxnInv adds what the transactions hold in their hands.                  *)
(*                                                                         *)
(* The second half is about what runs beside the chain: the order in which *)
(* events are taken into blocks, a verification (AuditVerification) and    *)
(* the seal jobs (AuditPipeline).                                          *)
(***************************************************************************)
EXTENDS AuditVerification, AuditPipeline, FiniteSetTheorems, TLAPS

TxnInv ==
    \A s \in Sealers : step[s] = "writing" <=> draft[s] # {}

IInv == TypeOK /\ TxnInv /\ ChainIntact /\ BlocksMatchEvents

-----------------------------------------------------------------------------
(***************************************************************************)
(* Positions in a batch.                                                   *)
(***************************************************************************)

\* The position enumerate gives an event is a natural number.
LEMMA RankType ==
  ASSUME NEW B \in SUBSET Events, NEW e \in B
  PROVE  Rank(e, B) \in Nat /\ IsFiniteSet({f \in B : f < e})
  <1>1. e \in Nat /\ \A f \in B : f \in Nat
    BY AuditChainAssumption
  <1>2. {f \in B : f < e} \subseteq 0..e
    <2>1. ASSUME NEW f \in B, f < e
          PROVE  f \in 0..e
      BY <1>1, <2>1
    <2> QED BY <2>1
  <1>3. IsFiniteSet(0..e)
    BY <1>1, FS_Interval
  <1>4. IsFiniteSet({f \in B : f < e})
    BY <1>2, <1>3, FS_Subset
  <1> QED BY <1>4, FS_CardinalityType DEF Rank

\* Positions follow the canonical order, so no two events share one.
LEMMA RankOrder ==
  ASSUME NEW B \in SUBSET Events, NEW e \in B, NEW f \in B, e < f
  PROVE  Rank(e, B) < Rank(f, B)
  <1> DEFINE below(g) == {h \in B : h < g}
  <1>1. \A g \in B : g \in Nat
    BY AuditChainAssumption
  <1>2. below(e) \subseteq below(f)
    <2>1. ASSUME NEW h \in B, h < e
          PROVE  h < f
      BY <1>1, <2>1
    <2> QED BY <2>1
  <1>3. e \in below(f) /\ e \notin below(e)
    BY <1>1
  <1>4. IsFiniteSet(below(f))
    BY RankType
  <1>5. Cardinality(below(e)) < Cardinality(below(f))
    <2>1. below(e) # below(f)
      BY <1>3
    <2>2. Cardinality(below(e)) <= Cardinality(below(f))
      BY <1>2, <1>4, FS_Subset
    <2>3. Cardinality(below(e)) # Cardinality(below(f))
      BY <1>2, <1>4, <2>1, FS_Subset
    <2>4. Cardinality(below(e)) \in Nat /\ Cardinality(below(f)) \in Nat
      BY <1>2, <1>4, FS_Subset, FS_CardinalityType
    <2> QED BY <2>2, <2>3, <2>4
  <1> QED BY <1>5 DEF Rank

-----------------------------------------------------------------------------
(***************************************************************************)
(* The inductive invariant.                                                *)
(***************************************************************************)

\* An organization without events or head row satisfies the invariant.
LEMMA InitInv == Init => IInv
  <1> SUFFICES ASSUME Init PROVE IInv
    OBVIOUS
  <1>1. TypeOK
    BY DEF Init, TypeOK, Unsealed, NoHead, NoSnapshot
  <1>2. TxnInv
    BY DEF Init, TxnInv
  <1>3. ChainIntact
    <2>1. blocks = {} /\ head.sequence = 0 /\ head.hash = NoHash
      BY DEF Init, NoHead
    <2>2. 1..0 = {}
      OBVIOUS
    <2> QED BY <2>1, <2>2 DEF ChainIntact
  <1>4. BlocksMatchEvents
    BY DEF Init, BlocksMatchEvents, Unsealed, NoHead
  <1> QED BY <1>1, <1>2, <1>3, <1>4 DEF IInv

\* A step that leaves the event, block and head rows alone, the existence of
\* the head row and new events apart, keeps the chain as it was.
LEMMA TablesKept ==
  ASSUME IInv, UNCHANGED <<seal, blocks>>, committed \subseteq committed',
         head'.sequence = head.sequence, head'.hash = head.hash
  PROVE  ChainIntact' /\ BlocksMatchEvents'
  <1>1. ChainIntact'
    BY DEF IInv, ChainIntact
  <1>2. BlocksMatchEvents'
    BY DEF IInv, BlocksMatchEvents
  <1> QED BY <1>1, <1>2

\* CommitBlock extends the chain by one block that says what the event rows
\* now say.
LEMMA CommitInv ==
  ASSUME IInv, NEW s \in Sealers, CommitBlock(s)
  PROVE  IInv'
  <1> DEFINE B == draft[s]
             n == head.sequence + 1
             b == NewBlock(B, head)
  <1>1. /\ blocks' = blocks \cup {b}
        /\ seal' = [e \in Events |-> IF e \in B THEN SealOf(e, b) ELSE seal[e]]
        /\ head' = HeadAfter(head, b)
        /\ committed' = committed
        /\ B \subseteq Open
        /\ step[s] = "writing"
        /\ End(s)
    BY DEF CommitBlock
  <1>2. /\ B \in SUBSET Events
        /\ B # {}
        /\ B \subseteq committed
        /\ \A e \in B : seal[e] = Unsealed
        /\ head.sequence \in Nat
        /\ n \in Nat
    BY <1>1 DEF IInv, TypeOK, TxnInv, Open
  <1>3. /\ b.sequence = n
        /\ b.root = [e \in B |-> Rank(e, B)]
        /\ b.previous = head.hash
        /\ b.hash = BlockHash(n, b.root, head.hash)
    BY DEF NewBlock
  <1>4. head'.exists = TRUE /\ head'.sequence = n /\ head'.hash = b.hash
    BY <1>1, <1>3 DEF HeadAfter
  <1>5. \A e \in Events :
          /\ e \in B => seal'[e] = [block |-> n, position |-> Rank(e, B)]
          /\ e \notin B => seal'[e] = seal[e]
    BY <1>1, <1>3 DEF SealOf
  <1>6. \A e \in B : Rank(e, B) \in Nat
    BY <1>2, RankType
  <1> HIDE DEF b, B
  <1>7. ASSUME NEW e \in B
         PROVE  /\ e \in Events
                /\ seal[e].block = 0
                /\ seal'[e].block = n
                /\ seal'[e].position = Rank(e, B)
    <2>1. e \in Events /\ seal[e] = Unsealed
      BY <1>2
    <2>2. seal'[e] = [block |-> n, position |-> Rank(e, B)]
      BY <1>5, <2>1
    <2> QED BY <2>1, <2>2 DEF Unsealed
  <1>8. ASSUME NEW e \in Events, e \notin B
         PROVE  seal'[e] = seal[e]
    BY <1>5, <1>8
  <1> HIDE DEF n
  <1>9. TypeOK'
    <2>1. seal' \in [Events -> [block : Nat, position : Nat]]
      <3>1. ASSUME NEW e \in Events
            PROVE  seal'[e] \in [block : Nat, position : Nat]
        <4>1. CASE e \in B
          <5>1. seal'[e] = [block |-> n, position |-> Rank(e, B)]
            BY <1>5, <4>1
          <5>2. Rank(e, B) \in Nat
            BY <1>6, <4>1
          <5> QED BY <1>2, <5>1, <5>2
        <4>2. CASE e \notin B
          <5>1. seal'[e] = seal[e]
            BY <1>5, <4>2
          <5> QED BY <5>1 DEF IInv, TypeOK
        <4> QED BY <4>1, <4>2
      <3>2. seal' = [e \in Events |-> seal'[e]]
        BY <1>1
      <3> QED BY <3>1, <3>2
    <2>2. \A c \in blocks' : c.sequence \in Nat
      BY <1>1, <1>2, <1>3 DEF IInv, TypeOK
    <2>3. head'.exists \in BOOLEAN /\ head'.sequence \in Nat
      BY <1>2, <1>4
    <2>4. /\ step' \in [Sealers -> {"idle", "reading", "locked", "writing"}]
          /\ draft' \in [Sealers -> SUBSET Events]
          /\ DOMAIN seen' = Sealers
          /\ \A t \in Sealers : seen'[t].open \subseteq Events /\ draft'[t] \subseteq seen'[t].open
      BY <1>1 DEF IInv, TypeOK, End, Goto, NoSnapshot
    <2> QED BY <1>1, <2>1, <2>2, <2>3, <2>4 DEF IInv, TypeOK
  <1>10. TxnInv'
    BY <1>1 DEF IInv, TypeOK, TxnInv, End, Goto
  <1>11. \A c \in blocks : c.sequence \in 1..head.sequence /\ c.sequence # n
    BY <1>2 DEF IInv, ChainIntact, n
  <1>12. ChainIntact'
    <2>1. {c.sequence : c \in blocks'} = 1..head'.sequence
      <3>1. {c.sequence : c \in blocks'} = {c.sequence : c \in blocks} \cup {n}
        BY <1>1, <1>3
      <3>2. {c.sequence : c \in blocks} = 1..head.sequence
        BY DEF IInv, ChainIntact
      <3>3. (1..head.sequence) \cup {n} = 1..n
        BY <1>2 DEF n
      <3> QED BY <1>4, <3>1, <3>2, <3>3
    <2>2. \A c \in blocks' : c.hash = BlockHash(c.sequence, c.root, c.previous)
      BY <1>1, <1>3 DEF IInv, ChainIntact
    <2>3. \A c, d \in blocks' : c.sequence = d.sequence => c = d
      BY <1>1, <1>3, <1>11 DEF IInv, ChainIntact
    <2>4. \A c, d \in blocks' : c.sequence = d.sequence + 1 => c.previous = d.hash
      <3> SUFFICES ASSUME NEW c \in blocks', NEW d \in blocks', c.sequence = d.sequence + 1
                   PROVE  c.previous = d.hash
        OBVIOUS
      <3>1. CASE c \in blocks /\ d \in blocks
        BY <3>1 DEF IInv, ChainIntact
      <3>2. CASE c = b /\ d \in blocks
        <4>1. d.sequence = head.sequence
          BY <1>2, <1>3, <1>11, <3>2 DEF n
        <4> QED BY <1>3, <3>2, <4>1 DEF IInv, ChainIntact
      <3>3. CASE d = b
        BY <1>1, <1>2, <1>3, <1>11, <3>3 DEF n
      <3> QED BY <1>1, <3>1, <3>2, <3>3
    <2>5. \A c \in blocks' :
            /\ c.sequence = 1 => c.previous = NoHash
            /\ c.sequence = head'.sequence => c.hash = head'.hash
      <3>1. CASE head.sequence = 0
        BY <1>1, <1>3, <1>4, <1>11, <3>1 DEF IInv, ChainIntact
      <3>2. CASE head.sequence # 0
        BY <1>1, <1>2, <1>3, <1>4, <1>11, <3>2 DEF IInv, ChainIntact, n
      <3> QED BY <3>1, <3>2
    <2>6. head'.sequence # 0
      BY <1>2, <1>4 DEF n
    <2> QED BY <2>1, <2>2, <2>3, <2>4, <2>5, <2>6 DEF ChainIntact
  <1>13. BlocksMatchEvents'
    <2>1. \A e \in Events : seal[e].block \in 0..head.sequence
      BY DEF IInv, BlocksMatchEvents
    <2>2. ASSUME NEW c \in blocks'
          PROVE  c.root = [e \in {e \in Events : seal'[e].block = c.sequence} |-> seal'[e].position]
      <3>1. CASE c \in blocks
        <4>1. \A e \in Events : e \in B => seal'[e].block # c.sequence /\ seal[e].block # c.sequence
          BY <1>11, <1>7, <3>1
        <4>2. {e \in Events : seal'[e].block = c.sequence} = {e \in Events : seal[e].block = c.sequence}
          BY <1>8, <4>1
        <4>3. \A e \in {e \in Events : seal'[e].block = c.sequence} : seal'[e].position = seal[e].position
          BY <1>8, <4>1
        <4>4. c.root = [e \in {e \in Events : seal[e].block = c.sequence} |-> seal[e].position]
          BY <3>1 DEF IInv, BlocksMatchEvents
        <4> QED BY <4>2, <4>3, <4>4
      <3>2. CASE c = b
        <4>1. {e \in Events : seal'[e].block = n} = B
          BY <1>2, <1>7, <1>8, <2>1 DEF n
        <4>2. \A e \in B : seal'[e].position = Rank(e, B)
          BY <1>7
        <4> QED BY <1>3, <3>2, <4>1, <4>2
      <3> QED BY <1>1, <3>1, <3>2
    <2>3. ASSUME NEW e \in Events
          PROVE  /\ seal'[e].block \in 0..head'.sequence
                 /\ seal'[e].block = 0 <=> seal'[e] = Unsealed
                 /\ seal'[e].block # 0 => e \in committed'
      <3>1. CASE e \in B
        <4>1. seal'[e].block = n /\ e \in committed'
          BY <1>1, <1>2, <1>7, <3>1
        <4>2. n # 0 /\ n \in 0..n
          BY <1>2 DEF n
        <4>3. seal'[e] # Unsealed
          BY <4>1, <4>2 DEF Unsealed
        <4> QED BY <1>4, <4>1, <4>2, <4>3
      <3>2. CASE e \notin B
        BY <1>1, <1>2, <1>4, <1>5, <2>1, <3>2 DEF IInv, BlocksMatchEvents, n
      <3> QED BY <3>1, <3>2
    <2> QED BY <2>2, <2>3 DEF BlocksMatchEvents
  <1> QED BY <1>9, <1>10, <1>12, <1>13 DEF IInv

\* Every step of the requests and of the seal transactions preserves the
\* invariant: one case per action.
LEMMA NextInv == IInv /\ [Next]_vars => IInv'
  <1> SUFFICES ASSUME IInv, [Next]_vars PROVE IInv'
    OBVIOUS
  <1>1. ASSUME NEW e \in Events, Append(e)
        PROVE  IInv'
    <2>1. TypeOK' /\ TxnInv'
      BY <1>1 DEF IInv, TypeOK, TxnInv, Append, txn
    <2>2. ChainIntact' /\ BlocksMatchEvents'
      BY <1>1, TablesKept DEF Append
    <2> QED BY <2>1, <2>2 DEF IInv
  <1>2. ASSUME NEW s \in Sealers, Begin(s)
        PROVE  IInv'
    <2>1. Open \subseteq Events
      BY DEF IInv, TypeOK, Open
    <2>2. draft[s] = {}
      BY <1>2 DEF IInv, TxnInv, Begin
    <2>3. TypeOK' /\ TxnInv'
      BY <1>2, <2>1, <2>2 DEF IInv, TypeOK, TxnInv, Begin, Goto
    <2>4. ChainIntact' /\ BlocksMatchEvents'
      BY <1>2, TablesKept DEF Begin
    <2> QED BY <2>3, <2>4 DEF IInv
  <1>3. ASSUME NEW s \in Sealers, LockHead(s)
        PROVE  IInv'
    <2>1. TypeOK' /\ TxnInv'
      BY <1>3 DEF IInv, TypeOK, TxnInv, LockHead, Goto
    <2>2. ChainIntact' /\ BlocksMatchEvents'
      BY <1>3, TablesKept DEF LockHead
    <2> QED BY <2>1, <2>2 DEF IInv
  <1>4. ASSUME NEW s \in Sealers, SerializationFailure(s) \/ Rollback(s)
        PROVE  IInv'
    <2>1. End(s) /\ UNCHANGED <<committed, seal, blocks, head>>
      BY <1>4 DEF SerializationFailure, Rollback
    <2>2. TypeOK' /\ TxnInv'
      BY <2>1 DEF IInv, TypeOK, TxnInv, End, Goto, NoSnapshot
    <2>3. ChainIntact' /\ BlocksMatchEvents'
      BY <2>1, TablesKept
    <2> QED BY <2>2, <2>3 DEF IInv
  <1>5. ASSUME NEW s \in Sealers, NothingToSeal(s)
        PROVE  IInv'
    <2>1. /\ End(s) /\ UNCHANGED <<committed, seal, blocks>>
          /\ head' = [exists |-> TRUE, sequence |-> head.sequence, hash |-> head.hash]
      BY <1>5 DEF NothingToSeal
    <2>2. head'.sequence = head.sequence /\ head'.hash = head.hash /\ head'.exists \in BOOLEAN
      BY <2>1 DEF IInv, TypeOK
    <2>3. TypeOK' /\ TxnInv'
      BY <2>1, <2>2 DEF IInv, TypeOK, TxnInv, End, Goto, NoSnapshot
    <2>4. ChainIntact' /\ BlocksMatchEvents'
      BY <2>1, <2>2, TablesKept
    <2> QED BY <2>3, <2>4 DEF IInv
  <1>6. ASSUME NEW s \in Sealers, SelectRows(s)
        PROVE  IInv'
    <2>1. FirstRows(seen[s].open) # {} /\ FirstRows(seen[s].open) \subseteq seen[s].open
      BY <1>6 DEF SelectRows, FirstRows
    <2>2. TypeOK' /\ TxnInv'
      BY <1>6, <2>1 DEF IInv, TypeOK, TxnInv, SelectRows, Goto
    <2>3. ChainIntact' /\ BlocksMatchEvents'
      BY <1>6, TablesKept DEF SelectRows
    <2> QED BY <2>2, <2>3 DEF IInv
  <1>7. CASE UNCHANGED vars
    BY <1>7 DEF IInv, TypeOK, TxnInv, ChainIntact, BlocksMatchEvents, vars
  <1> QED BY <1>1, <1>2, <1>3, <1>4, <1>5, <1>6, <1>7, CommitInv DEF Next, Seals

-----------------------------------------------------------------------------
(***************************************************************************)
(* The theorems.                                                           *)
(***************************************************************************)

\* The inductive invariant holds in every state requests and seal jobs reach.
THEOREM InvariantHolds == Spec => []IInv
  BY InitInv, NextInv, PTL DEF Spec

\* The rows keep their types, and a transaction seals only rows it read.
THEOREM TypeCorrect == Spec => []TypeOK
  BY InvariantHolds, PTL DEF IInv

\* However many seal transactions interleave, roll back or work from a stale
\* snapshot, the blocks form one unbroken chain that ends at the head row.
THEOREM ChainStaysIntact == Spec => []ChainIntact
  BY InvariantHolds, PTL DEF IInv

\* Every sealed event is a leaf of exactly the block it names.
THEOREM RootsMatchEvents == Spec => []BlocksMatchEvents
  BY InvariantHolds, PTL DEF IInv

-----------------------------------------------------------------------------
(***************************************************************************)
(* Refinement.                                                             *)
(***************************************************************************)

\* The empty tables are the empty log.
LEMMA LogInit == Init => Log!Init
  BY DEF Init, Log!Init, NoHead

\* A commit of seal_tenant_audit_events seals one batch of the log; every
\* other step of it leaves the log alone.
LEMMA LogNext == IInv /\ [Next]_vars => [Log!Next]_(Log!log)
  <1> SUFFICES ASSUME IInv, [Next]_vars
               PROVE  Log!Next \/ UNCHANGED <<committed, seal, head.sequence>>
    BY DEF Log!log
  <1>1. ASSUME NEW e \in Events, Append(e)
        PROVE  Log!Append(e)
    BY <1>1 DEF Append, Log!Append
  <1>2. ASSUME NEW s \in Sealers, CommitBlock(s)
        PROVE  Log!Seal(draft[s])
    <2> DEFINE B == draft[s]
               b == NewBlock(B, head)
    <2>1. /\ seal' = [e \in Events |-> IF e \in B THEN SealOf(e, b) ELSE seal[e]]
          /\ head' = HeadAfter(head, b)
          /\ committed' = committed
          /\ B \subseteq Open
          /\ B # {}
          /\ B \in SUBSET Events
      BY <1>2 DEF CommitBlock, IInv, TypeOK, TxnInv
    <2>2. ASSUME NEW e \in B
          PROVE  /\ e \in committed /\ seal[e] = Unsealed
                 /\ seal'[e].block = head.sequence + 1
                 /\ seal'[e].position = Rank(e, B)
      BY <2>1 DEF Open, SealOf, NewBlock
    <2>3. ASSUME NEW e \in Events \ B
          PROVE  seal'[e] = seal[e]
      BY <2>1
    <2>4. ASSUME NEW e \in B, NEW f \in B, e < f
          PROVE  seal'[e].position < seal'[f].position
      BY <2>1, <2>2, <2>4, RankOrder
    <2>5. head'.sequence = head.sequence + 1
      BY <2>1 DEF HeadAfter, NewBlock
    <2> QED BY <2>1, <2>2, <2>3, <2>4, <2>5 DEF Log!Seal
  <1>3. ASSUME NEW s \in Sealers,
               \/ Begin(s) \/ LockHead(s) \/ SerializationFailure(s)
               \/ NothingToSeal(s) \/ SelectRows(s) \/ Rollback(s)
        PROVE  UNCHANGED <<committed, seal, head.sequence>>
    BY <1>3 DEF Begin, LockHead, SerializationFailure, NothingToSeal, SelectRows, Rollback
  <1>4. CASE UNCHANGED vars
    BY <1>4 DEF vars
  <1>5. \A s \in Sealers : draft[s] \in SUBSET Events
    BY DEF IInv, TypeOK
  <1> QED BY <1>1, <1>2, <1>3, <1>4, <1>5 DEF Next, Seals, Log!Next

\* The chain implements the log: what is sealed stays where it is, batch by
\* batch and in canonical order, for any interleaving of seal transactions.
THEOREM ChainImplementsLog == Spec => ImplementsLog
  <1>1. Spec => []IInv
    BY InvariantHolds
  <1> QED BY LogInit, LogNext, <1>1, PTL DEF Spec, ImplementsLog, Log!Spec

-----------------------------------------------------------------------------
(***************************************************************************)
(* ORDER BY occurred_at, id LIMIT max_events: what FirstRows takes.        *)
(***************************************************************************)

\* A set of events has a first one.
LEMMA FirstExists ==
  ASSUME NEW T \in SUBSET Events, T # {}
  PROVE  \E x \in T : \A y \in T : x <= y
  <1> DEFINE below(x) == {y \in T : y < x}
             F == {below(x) : x \in T}
  <1>1. \A x \in T : x \in Int
    BY AuditChainAssumption
  <1>2. F \subseteq FiniteSubsetsOf(T) /\ F # {}
    <2>1. ASSUME NEW x \in T PROVE below(x) \in SUBSET T /\ IsFiniteSet(below(x))
      BY RankType
    <2> HIDE DEF below
    <2> QED BY <2>1 DEF FiniteSubsetsOf
  <1>3. PICK S \in F : \A R \in F : ~(<<R, S>> \in StrictSubsetOrdering(T))
    <2> HIDE DEF F
    <2> QED BY <1>2, FS_StrictSubsetOrderingWellFounded, WFMin
  <1>4. PICK x \in T : S = below(x)
    BY <1>3
  <1>5. ASSUME NEW y \in T, ~(x <= y) PROVE FALSE
    <2>1. \A w, z \in T : w \in below(z) <=> w < z
      OBVIOUS
    <2>2. below(x) \subseteq T /\ below(y) \subseteq T
      OBVIOUS
    <2> HIDE DEF below
    <2>3. y < x /\ ~(y < y)
      BY <1>1, <1>5
    <2>4. ASSUME NEW z \in T, z < y PROVE z < x
      BY <1>1, <2>3, <2>4
    <2>5. below(y) \subseteq below(x) /\ y \in below(x) /\ y \notin below(y)
      BY <2>1, <2>2, <2>3, <2>4
    <2>6. <<below(y), below(x)>> \in StrictSubsetOrdering(T)
      BY <2>2, <2>5 DEF StrictSubsetOrdering
    <2>7. below(y) \in F
      OBVIOUS
    <2> HIDE DEF F
    <2> QED BY <1>3, <1>4, <2>6, <2>7
  <1> QED BY <1>5

\* A finite set of events has a last one: the one with the most before it.
LEMMA LastExists ==
  ASSUME NEW T \in SUBSET Events, T # {}, IsFiniteSet(T)
  PROVE  \E x \in T : \A y \in T : y <= x
  <1> DEFINE above(x) == {y \in T : y > x}
             F == {above(x) : x \in T}
  <1>1. \A x \in T : x \in Int
    BY AuditChainAssumption
  <1>2. F \subseteq FiniteSubsetsOf(T) /\ F # {}
    <2>1. ASSUME NEW x \in T PROVE above(x) \in SUBSET T /\ IsFiniteSet(above(x))
      <3>1. above(x) \in SUBSET T
        OBVIOUS
      <3> QED BY <3>1, FS_Subset
    <2> HIDE DEF above
    <2> QED BY <2>1 DEF FiniteSubsetsOf
  <1>3. PICK S \in F : \A R \in F : ~(<<R, S>> \in StrictSubsetOrdering(T))
    <2> HIDE DEF F
    <2> QED BY <1>2, FS_StrictSubsetOrderingWellFounded, WFMin
  <1>4. PICK x \in T : S = above(x)
    BY <1>3
  <1>5. ASSUME NEW y \in T, ~(y <= x) PROVE FALSE
    <2>1. \A w, z \in T : w \in above(z) <=> w > z
      OBVIOUS
    <2>2. above(x) \subseteq T /\ above(y) \subseteq T
      OBVIOUS
    <2> HIDE DEF above
    <2>3. y > x /\ ~(y > y)
      BY <1>1, <1>5
    <2>4. ASSUME NEW z \in T, z > y PROVE z > x
      BY <1>1, <2>3, <2>4
    <2>5. above(y) \subseteq above(x) /\ y \in above(x) /\ y \notin above(y)
      BY <2>1, <2>2, <2>3, <2>4
    <2>6. <<above(y), above(x)>> \in StrictSubsetOrdering(T)
      BY <2>2, <2>5 DEF StrictSubsetOrdering
    <2>7. above(y) \in F
      OBVIOUS
    <2> HIDE DEF F
    <2> QED BY <1>3, <1>4, <2>6, <2>7
  <1> QED BY <1>5

\* ORDER BY ... LIMIT takes a row whenever there is one.
LEMMA FirstRowsTakes ==
  ASSUME NEW S \in SUBSET Events, S # {}
  PROVE  FirstRows(S) # {}
  <1>1. PICK x \in S : \A y \in S : x <= y
    BY FirstExists
  <1>2. {f \in S : f < x} = {}
    <2>1. ASSUME NEW f \in S PROVE ~(f < x)
      BY <1>1, AuditChainAssumption
    <2> QED BY <2>1
  <1>3. Rank(x, S) = 0
    BY <1>2, FS_EmptySet DEF Rank
  <1> QED BY <1>3, AuditChainAssumption DEF FirstRows

\* A row it leaves out comes after all those it takes, and it takes as many
\* as it may.
LEMMA FirstRowsFull ==
  ASSUME NEW S \in SUBSET Events, NEW e \in S, e \notin FirstRows(S)
  PROVE  /\ Cardinality(FirstRows(S)) = MaxEvents
         /\ \A f \in FirstRows(S) : f < e
  <1> DEFINE B == FirstRows(S)
             Left == {x \in S : x \notin B}
             before(x) == {f \in S : f < x}
  <1>1. \A x \in S : x \in Int
    BY AuditChainAssumption
  <1>2. \A x \in S : Rank(x, S) \in Nat /\ IsFiniteSet(before(x)) /\ Rank(x, S) = Cardinality(before(x))
    BY RankType DEF Rank
  <1>3. \A x \in S : x \in B <=> Rank(x, S) < MaxEvents
    BY DEF FirstRows
  <1>4. B \subseteq S
    BY DEF FirstRows
  <1>10. MaxEvents \in Int
    BY AuditChainAssumption
  <1> HIDE DEF B
  <1>5. \A x, y \in S : x \in B /\ y \notin B => x < y
    <2> SUFFICES ASSUME NEW x \in S, NEW y \in S, x \in B, y \notin B
                 PROVE  x < y
      OBVIOUS
    <2>1. Rank(x, S) < Rank(y, S)
      <3>1. Rank(x, S) < MaxEvents /\ ~(Rank(y, S) < MaxEvents)
        BY <1>3
      <3>2. Rank(x, S) \in Nat /\ Rank(y, S) \in Nat
        BY <1>2
      <3> QED BY <1>10, <3>1, <3>2
    <2>2. CASE y < x
      <3>1. Rank(y, S) < Rank(x, S)
        BY <2>2, RankOrder
      <3>2. Rank(x, S) \in Nat /\ Rank(y, S) \in Nat
        BY <1>2
      <3> QED BY <2>1, <3>1, <3>2
    <2>3. x # y
      OBVIOUS
    <2>4. x \in Int /\ y \in Int
      BY <1>1
    <2> QED BY <2>2, <2>3, <2>4
  <1>6. PICK x \in Left : \A y \in Left : x <= y
    <2>1. Left \in SUBSET Events /\ Left # {}
      BY DEF B
    <2> HIDE DEF Left
    <2> QED BY <2>1, FirstExists
  <1>7. before(x) = B
    BY <1>1, <1>4, <1>5, <1>6
  <1> DEFINE r == Cardinality(B)
  <1>8. IsFiniteSet(B) /\ r \in Nat /\ r >= MaxEvents
    BY <1>2, <1>3, <1>6, <1>7, AuditChainAssumption
  <1>9. r <= MaxEvents
    <2>1. B # {}
      BY FirstRowsTakes DEF B
    <2>2. PICK g \in B : \A y \in B : y <= g
      BY <1>4, <1>8, <2>1, LastExists
    <2>3. before(g) = B \ {g}
      <3>1. ASSUME NEW f \in S, f < g PROVE f \in B
        BY <1>1, <1>4, <1>5, <2>2, <3>1
      <3>2. ASSUME NEW f \in B, f # g PROVE f < g
        BY <1>1, <1>4, <2>2, <3>2
      <3> QED BY <1>1, <1>4, <2>2, <3>1, <3>2
    <2>4. Rank(g, S) = r - 1
      <3>1. Rank(g, S) = Cardinality(B \ {g})
        BY <1>2, <1>4, <2>2, <2>3
      <3> QED BY <1>8, <2>2, <3>1, FS_RemoveElement
    <2>5. Rank(g, S) < MaxEvents
      BY <1>3, <1>4, <2>2
    <2> QED BY <1>8, <2>4, <2>5, AuditChainAssumption
  <1>11. r = MaxEvents
    BY <1>8, <1>9, AuditChainAssumption
  <1> QED BY <1>5, <1>4, <1>11 DEF B

-----------------------------------------------------------------------------
(***************************************************************************)
(* The lock on the head row, and what a transaction has selected.          *)
(***************************************************************************)

\* One transaction at a time holds the head row; while it does, the head is
\* where its snapshot has it, and its rows are the first of its snapshot.
LockInv ==
    /\ \A s, t \in Sealers : HoldsHead(s) /\ HoldsHead(t) => s = t
    /\ \A s \in Sealers :
         /\ seen[s].head.sequence \in 0..head.sequence
         /\ HoldsHead(s) => seen[s].head.sequence = head.sequence
         /\ step[s] = "writing" => draft[s] = FirstRows(seen[s].open)

\* The leaves of every block were numbered in the canonical order.
RootRanks ==
    \A b \in blocks : \A e \in DOMAIN b.root : b.root[e] = Rank(e, DOMAIN b.root)

\* The invariant of the chain with both.
ChainInv == IInv /\ LockInv /\ RootRanks

\* An organization without events or head row satisfies these too.
LEMMA InitChainInv == Init => ChainInv
  <1> SUFFICES ASSUME Init PROVE ChainInv
    OBVIOUS
  <1>1. IInv
    BY InitInv
  <1>2. LockInv
    <2>1. \A s \in Sealers : ~HoldsHead(s)
      BY DEF Init, HoldsHead
    <2> QED BY <2>1 DEF Init, LockInv, HoldsHead, NoSnapshot, NoHead
  <1>3. RootRanks
    BY DEF Init, RootRanks
  <1> QED BY <1>1, <1>2, <1>3 DEF ChainInv

\* The rows of CommitBlock, and the block it makes of them.
LEMMA CommitBlockMoves ==
  ASSUME ChainInv, NEW s \in Sealers, CommitBlock(s)
  PROVE  LET b == NewBlock(draft[s], seen[s].head)
         IN  /\ blocks' = blocks \cup {b}
             /\ b.sequence = head.sequence + 1 /\ head'.sequence = head.sequence + 1
             /\ DOMAIN b.root = draft[s] /\ \A e \in draft[s] : b.root[e] = Rank(e, draft[s])
             /\ draft[s] \subseteq Open /\ draft[s] # {} /\ draft[s] \subseteq Events
             /\ \A e \in Events :
                  IF e \in draft[s] THEN seal'[e].block = head'.sequence ELSE seal'[e] = seal[e]
  <1> DEFINE b == NewBlock(draft[s], seen[s].head)
  <1>1. /\ blocks' = blocks \cup {b}
        /\ head = seen[s].head
        /\ head' = HeadAfter(head, b)
        /\ draft[s] \subseteq Open
        /\ step[s] = "writing"
        /\ seal' = [e \in Events |-> IF e \in draft[s] THEN SealOf(e, b) ELSE seal[e]]
    BY DEF CommitBlock
  <1>2. /\ b.sequence = head.sequence + 1
        /\ b.root = [e \in draft[s] |-> Rank(e, draft[s])]
    BY <1>1 DEF NewBlock
  <1>3. draft[s] # {} /\ draft[s] \subseteq Events
    BY <1>1 DEF ChainInv, IInv, TxnInv, TypeOK
  <1> HIDE DEF b
  <1>4. head'.sequence = head.sequence + 1
    BY <1>1, <1>2 DEF HeadAfter
  <1>5. \A e \in Events :
          IF e \in draft[s] THEN seal'[e].block = head'.sequence ELSE seal'[e] = seal[e]
    BY <1>1, <1>2, <1>4 DEF SealOf
  <1> QED BY <1>1, <1>2, <1>3, <1>4, <1>5 DEF b

\* What no step of the requests and seal transactions takes back.
Grows ==
    /\ committed \subseteq committed'
    /\ head.sequence <= head'.sequence
    /\ blocks \subseteq blocks'
    /\ \A b \in blocks' \ blocks : b.sequence = head.sequence + 1 /\ head'.sequence = b.sequence
    /\ \A e \in Events : seal[e].block # 0 => seal'[e].block = seal[e].block

\* Only CommitBlock changes the blocks, the seals and the number of the head.
LEMMA OthersKeep ==
  ASSUME NEW s \in Sealers,
         \/ Begin(s) \/ LockHead(s) \/ SerializationFailure(s)
         \/ NothingToSeal(s) \/ SelectRows(s) \/ Rollback(s)
  PROVE  UNCHANGED <<committed, seal, blocks, head.sequence, head.hash>>
  BY DEF Begin, LockHead, SerializationFailure, NothingToSeal, SelectRows, Rollback

\* The tables only grow: blocks are added at the end and no seal is undone.
LEMMA ChainGrows ==
  ASSUME ChainInv, [Next]_vars
  PROVE  Grows
  <1> USE DEF Grows
  <1>0. head.sequence \in Nat
    BY DEF ChainInv, IInv, TypeOK
  <1>1. ASSUME NEW e \in Events, Append(e) PROVE Grows
    BY <1>0, <1>1 DEF Append
  <1>2. ASSUME NEW s \in Sealers, CommitBlock(s) PROVE Grows
    <2> DEFINE b == NewBlock(draft[s], seen[s].head)
    <2>1. /\ blocks' = blocks \cup {b}
          /\ b.sequence = head.sequence + 1 /\ head'.sequence = head.sequence + 1
          /\ draft[s] \subseteq Open
          /\ \A e \in Events : e \notin draft[s] => seal'[e] = seal[e]
      BY <1>2, CommitBlockMoves
    <2> HIDE DEF b
    <2>2. \A e \in draft[s] : seal[e].block = 0
      BY <2>1 DEF Open, Unsealed
    <2>3. committed' = committed
      BY <1>2 DEF CommitBlock
    <2> QED BY <1>0, <2>1, <2>2, <2>3
  <1>3. ASSUME NEW s \in Sealers,
               \/ Begin(s) \/ LockHead(s) \/ SerializationFailure(s)
               \/ NothingToSeal(s) \/ SelectRows(s) \/ Rollback(s)
        PROVE  Grows
    BY <1>0, <1>3, OthersKeep
  <1>4. CASE UNCHANGED vars
    BY <1>0, <1>4 DEF vars
  <1> QED BY <1>1, <1>2, <1>3, <1>4 DEF Next, Seals

\* The block that is added numbers its leaves by Rank.
LEMMA RootRanksKept ==
  ASSUME ChainInv, [Next]_vars
  PROVE  RootRanks'
  <1> DEFINE Ranked(b) == \A e \in DOMAIN b.root : b.root[e] = Rank(e, DOMAIN b.root)
  <1>1. \A b \in blocks : Ranked(b)
    BY DEF ChainInv, RootRanks
  <1>2. ASSUME NEW s \in Sealers, CommitBlock(s) PROVE \A b \in blocks' : Ranked(b)
    <2> DEFINE b == NewBlock(draft[s], seen[s].head)
    <2>1. blocks' = blocks \cup {b}
      BY <1>2, CommitBlockMoves
    <2>2. Ranked(b)
      BY <1>2, CommitBlockMoves
    <2> HIDE DEF b, Ranked
    <2> QED BY <1>1, <2>1, <2>2
  <1>3. ASSUME UNCHANGED blocks PROVE \A b \in blocks' : Ranked(b)
    BY <1>1, <1>3
  <1>4. \A b \in blocks' : Ranked(b)
    BY <1>2, <1>3, OthersKeep DEF Next, Seals, vars, Append
  <1> QED BY <1>4 DEF RootRanks

\* LockHead waits for the holder and compares the head with the snapshot's,
\* and only the holder moves the head on.
LEMMA LockKept ==
  ASSUME ChainInv, [Next]_vars
  PROVE  LockInv'
  <1> DEFINE Of(s) ==
               /\ seen[s].head.sequence \in 0..head.sequence
               /\ HoldsHead(s) => seen[s].head.sequence = head.sequence
               /\ step[s] = "writing" => draft[s] = FirstRows(seen[s].open)
             Alone == \A s, t \in Sealers : HoldsHead(s) /\ HoldsHead(t) => s = t
  <1>0. /\ head.sequence \in Nat /\ head'.sequence \in Nat /\ head.sequence <= head'.sequence
        /\ step \in [Sealers -> {"idle", "reading", "locked", "writing"}]
        /\ draft \in [Sealers -> SUBSET Events] /\ DOMAIN seen = Sealers
        /\ Alone /\ \A s \in Sealers : Of(s)
    BY ChainGrows, NextInv DEF ChainInv, IInv, TypeOK, LockInv, Grows
  <1> SUFFICES Alone' /\ \A s \in Sealers : Of(s)'
    BY DEF LockInv
  <1> USE DEF HoldsHead, Goto
  <1>1. ASSUME NEW e \in Events, Append(e) PROVE Alone' /\ \A s \in Sealers : Of(s)'
    BY <1>0, <1>1 DEF Append, txn
  <1>2. ASSUME NEW s \in Sealers, Begin(s) PROVE Alone' /\ \A t \in Sealers : Of(t)'
    <2>1. seen'[s].head = head /\ step'[s] = "reading" /\ head' = head
      BY <1>0, <1>2 DEF Begin
    <2>2. \A t \in Sealers : t # s => seen'[t] = seen[t] /\ step'[t] = step[t] /\ draft'[t] = draft[t]
      BY <1>0, <1>2 DEF Begin
    <2> QED BY <1>0, <2>1, <2>2
  <1>3. ASSUME NEW s \in Sealers, LockHead(s) PROVE Alone' /\ \A t \in Sealers : Of(t)'
    <2>1. seen[s].head = head /\ step'[s] = "locked" /\ UNCHANGED <<head, seen, draft>>
      BY <1>0, <1>3 DEF LockHead
    <2>2. \A t \in Sealers : ~HoldsHead(t) /\ (t # s => step'[t] = step[t])
      BY <1>0, <1>3 DEF LockHead
    <2> QED BY <1>0, <2>1, <2>2
  <1>4. ASSUME NEW s \in Sealers, End(s),
               \/ head'.sequence = head.sequence
               \/ HoldsHead(s)
        PROVE  Alone' /\ \A t \in Sealers : Of(t)'
    <2>1. seen'[s].head.sequence = 0 /\ step'[s] = "idle"
      BY <1>0, <1>4 DEF End, NoSnapshot, NoHead
    <2>2. \A t \in Sealers : t # s => seen'[t] = seen[t] /\ step'[t] = step[t] /\ draft'[t] = draft[t]
      BY <1>0, <1>4 DEF End
    <2>3. ASSUME NEW t \in Sealers, t # s PROVE Of(t)'
      <3>1. CASE head'.sequence = head.sequence
        BY <1>0, <2>2, <2>3, <3>1
      <3>2. CASE HoldsHead(s)
        <4>1. ~HoldsHead(t)
          BY <1>0, <2>3, <3>2
        <4> QED BY <1>0, <2>2, <2>3, <4>1
      <3> QED BY <1>4, <3>1, <3>2
    <2> QED BY <1>0, <2>1, <2>2, <2>3
  <1>5. ASSUME NEW s \in Sealers, SelectRows(s) PROVE Alone' /\ \A t \in Sealers : Of(t)'
    <2>1. /\ draft'[s] = FirstRows(seen[s].open)
          /\ step[s] = "locked" /\ step'[s] = "writing" /\ UNCHANGED <<head, seen>>
      BY <1>0, <1>5 DEF SelectRows
    <2>2. \A t \in Sealers : t # s => step'[t] = step[t] /\ draft'[t] = draft[t]
      BY <1>0, <1>5 DEF SelectRows
    <2> QED BY <1>0, <2>1, <2>2
  <1>6. CASE UNCHANGED vars
    BY <1>0, <1>6 DEF vars
  <1>7. ASSUME NEW s \in Sealers,
               SerializationFailure(s) \/ NothingToSeal(s) \/ CommitBlock(s) \/ Rollback(s)
        PROVE  End(s) /\ (head'.sequence = head.sequence \/ HoldsHead(s))
    BY <1>7 DEF SerializationFailure, NothingToSeal, CommitBlock, Rollback
  <1> QED BY <1>1, <1>2, <1>3, <1>4, <1>5, <1>6, <1>7 DEF Next, Seals

\* Every step of the requests and the seal transactions preserves ChainInv.
LEMMA NextChainInv == ChainInv /\ [Next]_vars => ChainInv'
  BY NextInv, LockKept, RootRanksKept DEF ChainInv

\* NothingSkipped of a step.
LEMMA NoneSkipped ==
  ASSUME ChainInv, Next, NEW s \in Sealers, step[s] = "writing", head' # head,
         NEW e \in seen[s].open
  PROVE  \/ seal'[e].block = head'.sequence
         \/ /\ Cardinality(draft[s]) = MaxEvents
            /\ \A f \in draft[s] : f < e
  <1>1. CommitBlock(s)
    <2>1. ASSUME NEW t \in Sealers, NothingToSeal(t) \/ CommitBlock(t) PROVE t = s
      BY <2>1 DEF NothingToSeal, CommitBlock, ChainInv, LockInv, HoldsHead
    <2>2. ~NothingToSeal(s)
      BY DEF NothingToSeal
    <2> QED BY <2>1, <2>2 DEF Next, Seals, Append, Begin, LockHead, SerializationFailure, SelectRows, Rollback
  <1>2. seen[s].open \in SUBSET Events /\ draft[s] = FirstRows(seen[s].open)
    BY DEF ChainInv, IInv, TypeOK, LockInv
  <1>3. CASE e \in draft[s]
    BY <1>1, <1>2, <1>3, CommitBlockMoves
  <1>4. CASE e \notin draft[s]
    BY <1>2, <1>4, FirstRowsFull
  <1> QED BY <1>3, <1>4

\* SelectRows takes the rows of the snapshot in canonical order: a block that
\* leaves out an event the snapshot showed is full of earlier ones.
THEOREM EarlierEventsFirst == Spec => NothingSkipped
  <1>1. Spec => []ChainInv
    BY InitChainInv, NextChainInv, PTL DEF Spec
  <1>2. ChainInv /\ [Next]_vars =>
          [\A s \in Sealers :
             step[s] = "writing" /\ head' # head =>
                \A e \in seen[s].open :
                   \/ seal'[e].block = head'.sequence
                   \/ /\ Cardinality(draft[s]) = MaxEvents
                      /\ \A f \in draft[s] : f < e]_vars
    BY NoneSkipped
  <1> QED BY <1>1, <1>2, PTL DEF Spec, NothingSkipped

-----------------------------------------------------------------------------
(***************************************************************************)
(* A verification beside the seal transactions.  Blocks are only added, so *)
(* what it has read stays the beginning of the chain.                      *)
(***************************************************************************)

\* The blocks up to the m-th.
Prefix(m) == {b \in blocks : b.sequence <= m}

\* A chain of m blocks has m blocks.
LEMMA PrefixCounts ==
  ASSUME ChainInv, NEW m \in 0..head.sequence
  PROVE  IsFiniteSet(Prefix(m)) /\ Cardinality(Prefix(m)) = m
  <1> DEFINE f == [n \in 1..m |-> CHOOSE b \in blocks : b.sequence = n]
  <1>0. head.sequence \in Nat /\ m \in Nat /\ \A b \in blocks : b.sequence \in Nat
    BY DEF ChainInv, IInv, TypeOK
  <1>1. /\ {b.sequence : b \in blocks} = 1..head.sequence
        /\ \A b, c \in blocks : b.sequence = c.sequence => b = c
    BY DEF ChainInv, IInv, ChainIntact
  <1>2. \A n \in 1..m : \E b \in blocks : b.sequence = n
    <2>1. 1..m \subseteq 1..head.sequence
      BY <1>0
    <2> QED BY <1>1, <2>1
  <1>3. \A n \in 1..m : f[n] \in blocks /\ f[n].sequence = n
    BY <1>2
  <1> HIDE DEF f
  <1>4. \A n \in 1..m : f[n] \in Prefix(m)
    BY <1>0, <1>3 DEF Prefix
  <1>5. f \in [1..m -> Prefix(m)]
    BY <1>4 DEF f
  <1>6. \A a, b \in 1..m : f[a] = f[b] => a = b
    BY <1>3
  <1>7. ASSUME NEW b \in Prefix(m) PROVE \E n \in 1..m : f[n] = b
    <2>1. b \in blocks /\ b.sequence \in 1..head.sequence /\ b.sequence <= m
      BY <1>1 DEF Prefix
    <2>2. b.sequence \in 1..m
      BY <1>0, <2>1
    <2>3. f[b.sequence] = b
      BY <1>1, <1>3, <2>1, <2>2
    <2> QED BY <2>2, <2>3
  <1>8. f \in Bijection(1..m, Prefix(m))
    BY <1>5, <1>6, <1>7 DEF Bijection, Injection, Surjection, IsInjective
  <1>9. ExistsBijection(1..m, Prefix(m))
    BY <1>8 DEF ExistsBijection
  <1> QED BY <1>0, <1>9, FS_CountingElements, FS_NatBijection

\* blocks[n - 1] is the block numbered n.
LEMMA NthBlock ==
  ASSUME ChainInv, NEW m \in 0..head.sequence, vblocks = Prefix(m), NEW n \in 1..m
  PROVE  Nth(n) \in blocks /\ Nth(n).sequence = n
  <1>0. head.sequence \in Nat /\ m \in Nat /\ \A b \in blocks : b.sequence \in 1..head.sequence
    BY DEF ChainInv, IInv, TypeOK, ChainIntact
  <1>1. ASSUME NEW b \in vblocks
        PROVE  Cardinality({c \in vblocks : c.sequence < b.sequence}) = b.sequence - 1
    <2>1. b \in blocks /\ b.sequence <= m
      BY DEF Prefix
    <2>2. b.sequence \in 1..head.sequence
      BY <1>0, <2>1
    <2>3. {c \in vblocks : c.sequence < b.sequence} = Prefix(b.sequence - 1)
      BY <1>0, <2>1, <2>2 DEF Prefix
    <2>4. b.sequence - 1 \in 0..head.sequence
      BY <1>0, <2>2
    <2> QED BY <2>3, <2>4, PrefixCounts
  <1>2. PICK b \in blocks : b.sequence = n
    <2>1. n \in 1..head.sequence
      BY <1>0
    <2> QED BY <2>1 DEF ChainInv, IInv, ChainIntact
  <1>3. b \in vblocks
    BY <1>0, <1>2 DEF Prefix
  <1> DEFINE Before(c) == Cardinality({d \in vblocks : d.sequence < c.sequence})
  <1>4. Nth(n) = CHOOSE c \in vblocks : Before(c) = n - 1
    BY DEF Nth
  <1>5. Before(b) = n - 1
    BY <1>1, <1>2, <1>3
  <1>6. \A c \in vblocks : Before(c) = c.sequence - 1
    BY <1>1
  <1> HIDE DEF Before
  <1>7. Nth(n) \in vblocks /\ Before(Nth(n)) = n - 1
    BY <1>3, <1>4, <1>5
  <1>8. Nth(n) \in blocks
    BY <1>7 DEF Prefix
  <1>9. Nth(n).sequence - 1 = n - 1
    BY <1>6, <1>7
  <1> QED BY <1>0, <1>8, <1>9

\* Every block of the chain recomputes from the rows.
LEMMA BlockRecomputes ==
  ASSUME ChainInv, NEW m \in 0..head.sequence, vblocks = Prefix(m), NEW n \in 1..m
  PROVE  BlockVerdict(Nth(n), n) = "next"
  <1> DEFINE b == Nth(n)
             M == EventsOf(b)
             root == [e \in M |-> seal[e].position]
  <1>0. head.sequence \in Nat /\ m \in Nat /\ committed \subseteq Events
    BY DEF ChainInv, IInv, TypeOK
  <1>1. b \in blocks /\ b.sequence = n
    BY NthBlock
  <1> HIDE DEF b
  <1>2. M = {e \in Events : seal[e].block = b.sequence}
    BY <1>0, <1>1 DEF EventsOf, ChainInv, IInv, BlocksMatchEvents
  <1>3. b.root = root
    BY <1>1, <1>2 DEF ChainInv, IInv, BlocksMatchEvents
  <1>4. DOMAIN b.root = M
    BY <1>3
  <1>5. \A e \in M : seal[e].position = Rank(e, M)
    <2>1. \A e \in M : b.root[e] = Rank(e, M)
      BY <1>1, <1>4 DEF ChainInv, RootRanks
    <2>2. \A e \in M : root[e] = seal[e].position
      OBVIOUS
    <2> HIDE DEF root, M
    <2> QED BY <1>3, <2>1, <2>2
  <1>6. b.hash = BlockHash(b.sequence, root, b.previous)
    BY <1>1, <1>3 DEF ChainInv, IInv, ChainIntact
  <1>7. b.previous = IF n = 1 THEN NoHash ELSE Nth(n - 1).hash
    <2>1. CASE n = 1
      BY <1>1, <2>1 DEF ChainInv, IInv, ChainIntact
    <2>2. CASE n # 1
      <3>1. n - 1 \in 1..m
        BY <1>0, <2>2
      <3>2. Nth(n - 1) \in blocks /\ Nth(n - 1).sequence = n - 1
        BY <3>1, NthBlock
      <3>3. b.sequence = Nth(n - 1).sequence + 1
        BY <1>0, <1>1, <3>2
      <3> QED BY <1>1, <2>2, <3>2, <3>3 DEF ChainInv, IInv, ChainIntact
    <2> QED BY <2>1, <2>2
  <1>8. Recomputes(b, n)
    <2> HIDE DEF M
    <2> QED BY <1>1, <1>3, <1>5, <1>6, <1>7 DEF Recomputes, M
  <1> QED BY <1>4, <1>8 DEF BlockVerdict, b

\* The verifier has read the first m blocks of the chain: what it took from
\* them and from the head still agrees with the chain, however much longer
\* that has grown.
ReadUpTo(m) ==
    /\ m \in 0..head.sequence
    /\ vblocks = Prefix(m)
    /\ checked \in 0..m
    /\ atStart.committed \subseteq committed
    /\ \A e \in atStart.sealed : e \in Events /\ seal[e].block \in 1..m
    /\ vstep \in {"check", "unsealed"} \/ verdict \in {"VALID", "INVALID"} =>
         /\ m > 0
         /\ vhead.sequence \in m..head.sequence
         /\ \A b \in blocks : b.sequence = vhead.sequence => b.hash = vhead.hash
    /\ vstep # "done" => verdict = "none"
    /\ vstep = "unsealed" \/ verdict = "VALID" => checked = m /\ m = vhead.sequence
    /\ verdict = "VALID" => \A e \in atStart.committed : seal[e].block # 0
    /\ verdict = "INVALID" => checked = m /\ vhead.sequence > m

\* The invariant of a verification beside the seal transactions.
VInv == ChainInv /\ \E m \in 0..head.sequence : ReadUpTo(m)

\* A verification that has not begun has read the empty prefix.
LEMMA InitVInv == VInit => VInv
  <1> SUFFICES ASSUME VInit PROVE VInv
    OBVIOUS
  <1>1. ChainInv
    BY InitChainInv DEF VInit
  <1>2. head.sequence = 0 /\ blocks = {}
    BY DEF VInit, Init, NoHead
  <1>3. ReadUpTo(0)
    BY <1>2 DEF ReadUpTo, VInit, Prefix
  <1> QED BY <1>1, <1>2, <1>3 DEF VInv

\* What requests and seal transactions do leaves the verifier's view true.
LEMMA ViewKept ==
  ASSUME ChainInv, ChainInv', [Next]_vars, UNCHANGED verifier,
         NEW m \in 0..head.sequence, ReadUpTo(m)
  PROVE  ReadUpTo(m)'
  <1>0. head.sequence \in Nat /\ head'.sequence \in Nat /\ m \in Nat /\ \A b \in blocks : b.sequence \in Nat
    BY DEF ChainInv, IInv, TypeOK
  <1>1. Grows
    BY ChainGrows
  <1>2. Prefix(m)' = Prefix(m)
    BY <1>0, <1>1 DEF Prefix, Grows
  <1>3. ASSUME vstep \in {"check", "unsealed"} \/ verdict \in {"VALID", "INVALID"}
        PROVE  /\ m > 0
               /\ vhead.sequence \in m..head'.sequence
               /\ \A b \in blocks' : b.sequence = vhead.sequence => b.hash = vhead.hash
    <2>1. /\ m > 0 /\ vhead.sequence \in m..head.sequence
          /\ \A b \in blocks : b.sequence = vhead.sequence => b.hash = vhead.hash
      BY <1>3 DEF ReadUpTo
    <2> QED BY <1>0, <1>1, <2>1 DEF Grows
  <1>4. m \in 0..head'.sequence
    BY <1>0, <1>1 DEF Grows
  <1>5. \A e \in atStart.sealed : e \in Events /\ seal'[e].block \in 1..m
    <2>1. \A e \in atStart.sealed : e \in Events /\ seal[e].block \in 1..m
      BY DEF ReadUpTo
    <2> QED BY <1>0, <1>1, <2>1 DEF Grows
  <1>6. verdict = "VALID" => \A e \in atStart.committed : seal'[e].block # 0
    <2>1. atStart.committed \subseteq Events
      BY DEF ChainInv, IInv, TypeOK, ReadUpTo
    <2> QED BY <1>1, <2>1 DEF Grows, ReadUpTo
  <1>7. atStart.committed \subseteq committed'
    BY <1>1 DEF Grows, ReadUpTo
  <1> QED BY <1>2, <1>3, <1>4, <1>5, <1>6, <1>7 DEF ReadUpTo, verifier

\* Every statement of the verification leaves it with a prefix of the chain:
\* one case per statement.
LEMMA VerifyInv ==
  ASSUME VInv, Verify
  PROVE  \E m \in 0..head'.sequence : ReadUpTo(m)'
  <1>0. PICK m \in 0..head.sequence : ReadUpTo(m)
    BY DEF VInv
  <1>1. head.sequence \in Nat /\ m \in Nat /\ \A b \in blocks : b.sequence \in 1..head.sequence
    BY DEF VInv, ChainInv, IInv, TypeOK, ChainIntact
  <1> USE DEF ReadUpTo, Prefix, vars
  <1>2. CASE ReadBlocks
    <2>1. vblocks' = Prefix(head.sequence)' /\ UNCHANGED vars /\ checked' \in 0..head.sequence
      BY <1>0, <1>1, <1>2 DEF ReadBlocks
    <2>2. \A e \in atStart'.sealed : e \in Events /\ seal[e].block \in 1..head.sequence
      <3>1. atStart'.sealed = committed \ Open
        BY <1>2 DEF ReadBlocks
      <3>2. \A e \in committed \ Open : e \in Events /\ seal[e] # Unsealed
        BY DEF VInv, ChainInv, IInv, TypeOK, Open
      <3>3. \A e \in Events : seal[e].block \in 0..head.sequence /\ (seal[e].block = 0 <=> seal[e] = Unsealed)
        BY DEF VInv, ChainInv, IInv, BlocksMatchEvents
      <3> QED BY <1>1, <3>1, <3>2, <3>3
    <2>3. ReadUpTo(head.sequence)'
      BY <1>0, <1>1, <1>2, <2>1, <2>2 DEF ReadBlocks
    <2> QED BY <1>1, <2>1, <2>3
  <1>3. CASE ReadHead
    <2>1. CASE vblocks = {} \/ ~head.exists
      <3>1. ReadUpTo(m)'
        BY <1>0, <1>1, <1>3, <2>1 DEF ReadHead, Return
      <3> QED BY <1>3, <3>1 DEF ReadHead
    <2>2. CASE ~(vblocks = {} \/ ~head.exists)
      <3>1. /\ vstep' = "check" /\ vhead' = head
            /\ UNCHANGED <<vars, vblocks, checked, atStart, verdict>>
        BY <1>3, <2>2 DEF ReadHead
      <3>2. m > 0
        BY <1>0, <1>1, <2>2
      <3>3. \A b \in blocks : b.sequence = head.sequence => b.hash = head.hash
        BY DEF VInv, ChainInv, IInv, ChainIntact
      <3>4. verdict = "none"
        BY <1>0, <1>3 DEF ReadHead
      <3>5. ReadUpTo(m)'
        BY <1>0, <1>1, <3>1, <3>2, <3>3, <3>4
      <3> QED BY <3>1, <3>5
    <2> QED BY <2>1, <2>2
  <1>4. CASE CheckBlock
    <2>1. vstep = "check" /\ checked < Cardinality(vblocks) /\ Cardinality(vblocks) = m
      BY <1>0, <1>4, PrefixCounts DEF CheckBlock, VInv
    <2>2. checked + 1 \in 1..m
      BY <1>0, <1>1, <2>1
    <2>3. BlockVerdict(Nth(checked + 1), checked + 1) = "next"
      BY <1>0, <2>2, BlockRecomputes DEF VInv
    <2>4. checked' = checked + 1 /\ UNCHANGED <<vars, vblocks, vhead, atStart, vstep, verdict>>
      BY <1>4, <2>3 DEF CheckBlock
    <2>5. ReadUpTo(m)'
      BY <1>0, <1>1, <2>1, <2>2, <2>4
    <2> QED BY <2>4, <2>5
  <1>5. CASE CheckHead
    <2>1. vstep = "check" /\ checked = m /\ UNCHANGED <<vars, vblocks, vhead, checked, atStart>>
      BY <1>0, <1>5, PrefixCounts DEF CheckHead, VInv
    <2>2. m > 0 /\ vhead.sequence \in m..head.sequence /\ verdict = "none"
      BY <1>0, <2>1
    <2>3. Nth(m) \in blocks /\ Nth(m).sequence = m
      BY <1>0, <1>1, <2>2, NthBlock DEF VInv
    <2>4. CASE HeadMatches(Nth(checked))
      <3>1. vstep' = "unsealed" /\ UNCHANGED verdict
        BY <1>5, <2>4 DEF CheckHead
      <3>2. vhead.sequence = m
        BY <2>1, <2>3, <2>4 DEF HeadMatches
      <3>3. ReadUpTo(m)'
        BY <1>0, <1>1, <2>1, <2>2, <3>1, <3>2
      <3> QED BY <2>1, <3>3
    <2>5. CASE ~HeadMatches(Nth(checked))
      <3>1. vstep' = "done" /\ verdict' = "INVALID"
        BY <1>5, <2>5 DEF CheckHead, Return
      <3>2. vhead.sequence # m
        BY <1>0, <2>1, <2>3, <2>5 DEF HeadMatches
      <3>3. vhead.sequence > m
        BY <1>1, <2>2, <3>2
      <3>4. ReadUpTo(m)'
        BY <1>0, <1>1, <2>1, <2>2, <3>1, <3>3
      <3> QED BY <2>1, <3>4
    <2> QED BY <2>4, <2>5
  <1>6. CASE CheckUnsealed
    <2>1. /\ vstep = "unsealed" /\ UNCHANGED <<vars, vblocks, vhead, checked, atStart>>
          /\ vstep' = "done" /\ verdict' = (IF Open # {} THEN "INCOMPLETE" ELSE "VALID")
      BY <1>6 DEF CheckUnsealed, Return
    <2>2. Open = {} => \A e \in atStart.committed : seal[e].block # 0
      <3>1. atStart.committed \subseteq committed /\ committed \subseteq Events
        BY <1>0 DEF VInv, ChainInv, IInv, TypeOK
      <3> QED BY <3>1 DEF Open, VInv, ChainInv, IInv, BlocksMatchEvents
    <2>3. ReadUpTo(m)'
      BY <1>0, <1>1, <2>1, <2>2
    <2> QED BY <2>1, <2>3
  <1> QED BY <1>2, <1>3, <1>4, <1>5, <1>6 DEF Verify

\* Both kinds of step preserve the invariant.
LEMMA NextVInv == VInv /\ [VNext]_allvars => VInv'
  <1> SUFFICES ASSUME VInv, [VNext]_allvars PROVE VInv'
    OBVIOUS
  <1>1. [Next]_vars
    BY DEF VNext, Verify, ReadBlocks, ReadHead, CheckBlock, CheckHead, CheckUnsealed, allvars
  <1>2. ChainInv'
    BY <1>1, NextChainInv DEF VInv
  <1>3. CASE Verify
    BY <1>2, <1>3, VerifyInv DEF VInv
  <1>4. CASE UNCHANGED verifier
    <2>1. PICK m \in 0..head.sequence : ReadUpTo(m)
      BY DEF VInv
    <2>2. ReadUpTo(m)'
      BY <1>1, <1>2, <1>4, <2>1, ViewKept DEF VInv
    <2>3. m \in 0..head'.sequence
      BY <2>2 DEF ReadUpTo
    <2> QED BY <1>2, <2>2, <2>3 DEF VInv
  <1> QED BY <1>3, <1>4 DEF VNext, allvars, Next

\* So it holds of every verification beside the seal transactions.
LEMMA VInvHolds == VSpec => []VInv
  BY InitVInv, NextVInv, PTL DEF VSpec

\* What VALID says of the chain follows from it,
LEMMA ValidFromInv == VInv => ValidIsSound
  <1> SUFFICES ASSUME VInv, verdict = "VALID" PROVE ValidIsSound
    BY DEF ValidIsSound
  <1>1. PICK m \in 0..head.sequence : ReadUpTo(m)
    BY DEF VInv
  <1>2. checked = m /\ m = vhead.sequence
    BY <1>1 DEF ReadUpTo
  <1>3. \A b \in blocks : b.sequence <= checked <=> b \in vblocks
    BY <1>1, <1>2 DEF ReadUpTo, Prefix
  <1>4. \A e \in atStart.sealed : InChecked(e)
    BY <1>1, <1>2 DEF ReadUpTo, InChecked
  <1>5. \A e \in atStart.committed : seal[e] # Unsealed
    BY <1>1 DEF ReadUpTo, Unsealed
  <1> QED BY <1>2, <1>3, <1>4, <1>5 DEF ValidIsSound

\* and what INVALID says.
LEMMA InvalidFromInv == VInv => InvalidOnlyIfOvertaken
  <1> SUFFICES ASSUME VInv, verdict = "INVALID"
               PROVE  checked = Cardinality(vblocks) /\ vhead.sequence > checked
    BY DEF InvalidOnlyIfOvertaken
  <1>1. PICK m \in 0..head.sequence : ReadUpTo(m)
    BY DEF VInv
  <1>2. Cardinality(vblocks) = m
    BY <1>1, PrefixCounts DEF VInv, ReadUpTo
  <1> QED BY <1>1, <1>2 DEF ReadUpTo

\* However sealing interleaves with verify_tenant_audit_history, VALID is
\* returned only of the whole chain as its head was read, with every event
\* sealed before in it and every event committed before sealed by now.
THEOREM ValidVerdictIsSound == VSpec => []ValidIsSound
  BY VInvHolds, ValidFromInv, PTL

\* It never returns INVALID for what a block or an event row says, only
\* because the head was read after a block was added.
THEOREM InvalidNeedsOvertaking == VSpec => []InvalidOnlyIfOvertaken
  BY VInvHolds, InvalidFromInv, PTL

-----------------------------------------------------------------------------
(***************************************************************************)
(* The seal jobs, one per event.                                           *)
(***************************************************************************)

\* The jobs of which a try has taken effect, and the sealed events.
Effective == {e \in Events : effects[e] # {}}
Sealed == committed \ Open

\* A job is tried, and so has effects, only after its event is committed, and
\* is completed only by an effect.
QueueInv ==
    /\ state \in [Events -> {"absent", "pending", "completed", "failed"}]
    /\ tries \in [Events -> Nat]
    /\ effects \in [Events -> SUBSET Nat]
    /\ task \in [Sealers -> [job : Events \cup {0}, try : Nat]]
    /\ \A e \in Events :
         /\ state[e] # "absent" <=> e \in committed
         /\ state[e] = "absent" => tries[e] = 0
         /\ tries[e] = 0 => effects[e] = {}
         /\ state[e] = "completed" => effects[e] # {}
    /\ \A s \in Sealers : step[s] # "idle" => task[s].job \in committed

\* Every job with an effect is paid for by a sealed event of its own: by one
\* of the block it wrote, or, if it found nothing to seal, because then the
\* events of all jobs with an effect are sealed.
Balance ==
    /\ IsFiniteSet(committed)
    /\ Cardinality(Effective) <= Cardinality(Sealed)
    /\ \A s \in Sealers :
         step[s] # "idle" /\ seen[s].open = {} /\ seen[s].head.sequence = head.sequence =>
            Effective \cup {task[s].job} \subseteq Sealed

\* The invariant of the pipeline.
PInv == ChainInv /\ QueueInv /\ Balance

\* Without events there are no jobs and nothing to balance.
LEMMA InitPInv == PInit => PInv
  <1> SUFFICES ASSUME PInit PROVE PInv
    OBVIOUS
  <1>1. ChainInv
    BY InitChainInv DEF PInit
  <1>2. QueueInv
    BY DEF PInit, Init, Queue!Init, QueueInv, NoTask
  <1>3. committed = {} /\ Effective = {} /\ Sealed = {} /\ \A s \in Sealers : step[s] = "idle"
    BY DEF PInit, Init, Queue!Init, Effective, Sealed
  <1>4. Balance
    BY <1>3, FS_EmptySet DEF Balance
  <1> QED BY <1>1, <1>2, <1>4 DEF PInv

\* A step of the pipeline is a step of the requests and seal transactions.
LEMMA PipelineMovesChain == [PNext]_pvars => [Next]_vars
  BY DEF PNext, pvars, AppendEvent, Try, Complete, GiveUp, BeginTry, Proceed, Commit, Abandon, Next, Seals

\* No step of the requests, the queue or the workers breaks the ledger's part.
LEMMA QueueKept ==
  ASSUME PInv, [PNext]_pvars
  PROVE  QueueInv'
  <1> USE DEF QueueInv, PInv
  <1>0. committed \subseteq Events /\ step \in [Sealers -> {"idle", "reading", "locked", "writing"}]
    BY DEF ChainInv, IInv, TypeOK
  <1>1. ASSUME NEW e \in Events, AppendEvent(e) PROVE QueueInv'
    BY <1>0, <1>1 DEF AppendEvent, Append, Queue!Submit, txn
  <1>2. ASSUME NEW e \in Events, Try(e) PROVE QueueInv'
    BY <1>0, <1>2 DEF Try, Queue!Try, vars
  <1>3. ASSUME NEW e \in Events, Complete(e) PROVE QueueInv'
    BY <1>0, <1>3 DEF Complete, Queue!Finish, vars
  <1>4. ASSUME NEW e \in Events, GiveUp(e) PROVE QueueInv'
    BY <1>0, <1>4 DEF GiveUp, Queue!GiveUp, vars
  <1>5. ASSUME NEW s \in Sealers, BeginTry(s) PROVE QueueInv'
    <2>1. PICK e \in Events : \E n \in (1..tries[e]) \ begun[e] :
            task' = [task EXCEPT ![s] = [job |-> e, try |-> n]]
      BY <1>5 DEF BeginTry
    <2>2. PICK n \in 1..tries[e] : task' = [task EXCEPT ![s] = [job |-> e, try |-> n]]
      BY <2>1
    <2>3. tries[e] \in Nat /\ tries[e] # 0 /\ n \in Nat
      BY <2>2
    <2>4. e \in committed
      BY <2>3
    <2>5. UNCHANGED <<state, tries, effects, committed>> /\ step' = [step EXCEPT ![s] = "reading"]
      BY <1>5 DEF BeginTry, Begin, Goto, queue
    <2> QED BY <1>0, <2>2, <2>3, <2>4, <2>5
  <1>6. ASSUME NEW s \in Sealers, Proceed(s) PROVE QueueInv'
    <2>1. UNCHANGED <<state, tries, effects, committed, task>>
      BY <1>6 DEF Proceed, LockHead, SelectRows, queue
    <2>2. \A t \in Sealers : step'[t] # "idle" => step[t] # "idle"
      BY <1>0, <1>6 DEF Proceed, LockHead, SelectRows, Goto
    <2> QED BY <2>1, <2>2
  <1>7. ASSUME NEW s \in Sealers, End(s), UNCHANGED <<state, tries, committed>>,
               task' = [task EXCEPT ![s] = NoTask],
               \/ UNCHANGED effects
               \/ step[s] # "idle" /\ Queue!TakeEffect(task[s].job)
        PROVE  QueueInv'
    <2>1. \A t \in Sealers : step'[t] # "idle" => step[t] # "idle" /\ task'[t] = task[t]
      BY <1>0, <1>7 DEF End, Goto
    <2>2. task' \in [Sealers -> [job : Events \cup {0}, try : Nat]]
      BY <1>7 DEF NoTask
    <2>3. /\ effects' \in [Events -> SUBSET Nat]
          /\ \A e \in Events : /\ effects[e] \subseteq effects'[e]
                               /\ effects'[e] # effects[e] => tries[e] # 0
      <3>1. CASE UNCHANGED effects
        BY <3>1
      <3>2. CASE step[s] # "idle" /\ Queue!TakeEffect(task[s].job)
        <4>1. task[s].job \in Events
          BY <1>0, <3>2
        <4>2. PICK n \in 1..tries[task[s].job] : effects' = [effects EXCEPT ![task[s].job] = @ \cup {n}]
          BY <3>2 DEF Queue!TakeEffect
        <4>3. n \in Nat /\ tries[task[s].job] # 0
          BY <4>1, <4>2
        <4> QED BY <4>1, <4>2, <4>3
      <3> QED BY <1>7, <3>1, <3>2
    <2> QED BY <1>7, <2>1, <2>2, <2>3
  <1>8. ASSUME NEW s \in Sealers, Commit(s) PROVE QueueInv'
    <2>1. End(s) /\ step[s] # "idle" /\ UNCHANGED <<state, tries, committed>>
      BY <1>8 DEF Commit, CommitBlock, NothingToSeal, Queue!TakeEffect
    <2> QED BY <1>7, <1>8, <2>1 DEF Commit
  <1>9. ASSUME NEW s \in Sealers, Abandon(s) PROVE QueueInv'
    <2>1. End(s) /\ UNCHANGED <<state, tries, committed, effects>>
      BY <1>9 DEF Abandon, SerializationFailure, Rollback, queue
    <2> QED BY <1>7, <1>9, <2>1 DEF Abandon
  <1>10. CASE UNCHANGED pvars
    BY <1>10 DEF pvars, vars, queue
  <1> QED BY <1>1, <1>2, <1>3, <1>4, <1>5, <1>6, <1>8, <1>9, <1>10 DEF PNext

\* Sealed events stay sealed.
LEMMA SealedGrows ==
  ASSUME ChainInv, ChainInv', [Next]_vars
  PROVE  Sealed \subseteq Sealed' /\ Sealed \subseteq committed
  <1>1. /\ \A e \in committed : e \in Events
        /\ \A e \in Events : seal[e].block = 0 <=> seal[e] = Unsealed
        /\ \A e \in Events : seal'[e].block = 0 <=> seal'[e] = Unsealed
    BY DEF ChainInv, IInv, TypeOK, BlocksMatchEvents
  <1>2. Grows
    BY ChainGrows
  <1> QED BY <1>1, <1>2 DEF Sealed, Open, Grows

\* The part of Balance that speaks of a transaction.
Settled(s) ==
    step[s] # "idle" /\ seen[s].open = {} /\ seen[s].head.sequence = head.sequence =>
        Effective \cup {task[s].job} \subseteq Sealed

\* A step that leaves the effects and the head as they are keeps the balance.
LEMMA BalanceKept ==
  ASSUME PInv, ChainInv', [Next]_vars, IsFiniteSet(committed'),
         UNCHANGED <<effects, head.sequence>>,
         \A t \in Sealers :
            \/ Settled(t)'
            \/ step'[t] = "idle"
            \/ /\ step[t] # "idle" /\ UNCHANGED <<seen[t], task[t]>>
  PROVE  Balance'
  <1>1. Effective' = Effective
    BY DEF Effective
  <1>2. Sealed \subseteq Sealed' /\ Sealed' \subseteq committed'
    BY SealedGrows DEF PInv, Sealed
  <1>3. IsFiniteSet(Sealed') /\ IsFiniteSet(Sealed) /\ Cardinality(Sealed) <= Cardinality(Sealed')
    <2>1. IsFiniteSet(Sealed')
      BY <1>2, FS_Subset
    <2> QED BY <1>2, <2>1, FS_Subset
  <1>4. Cardinality(Effective) <= Cardinality(Sealed) /\ Cardinality(Effective) \in Nat
    <2>1. Effective \subseteq committed
      BY DEF Effective, PInv, QueueInv
    <2>2. IsFiniteSet(Effective)
      BY <2>1, FS_Subset DEF PInv, Balance
    <2> QED BY <2>2, FS_CardinalityType DEF PInv, Balance
  <1>5. Cardinality(Sealed) \in Nat /\ Cardinality(Sealed') \in Nat
    BY <1>3, FS_CardinalityType
  <1>6. Cardinality(Effective') <= Cardinality(Sealed')
    BY <1>1, <1>3, <1>4, <1>5
  <1>7. \A t \in Sealers : Settled(t)'
    <2>1. \A t \in Sealers : Settled(t)
      BY DEF PInv, Balance, Settled
    <2> QED BY <1>1, <1>2, <2>1 DEF Settled
  <1> QED BY <1>6, <1>7 DEF Balance, Settled

\* Every step keeps the balance: CommitBlock seals an event of its own, and
\* NothingToSeal, which holds the head, knows that no block was added since
\* its snapshot found all committed events sealed.
LEMMA BalanceInv ==
  ASSUME PInv, ChainInv', [PNext]_pvars
  PROVE  Balance'
  <1>0. /\ [Next]_vars
        /\ committed \subseteq Events /\ step \in [Sealers -> {"idle", "reading", "locked", "writing"}]
        /\ DOMAIN seen = Sealers /\ task \in [Sealers -> [job : Events \cup {0}, try : Nat]]
        /\ IsFiniteSet(committed)
    BY PipelineMovesChain DEF PInv, ChainInv, IInv, TypeOK, QueueInv, Balance
  <1>8. Effective \subseteq committed
    BY DEF PInv, QueueInv, Effective
  <1>1. ASSUME NEW e \in Events, AppendEvent(e) PROVE Balance'
    <2>1. IsFiniteSet(committed')
      BY <1>0, <1>1, FS_AddElement DEF AppendEvent, Append
    <2>2. UNCHANGED <<effects, head.sequence, step, seen, task>>
      BY <1>1 DEF AppendEvent, Append, Queue!Submit, txn
    <2> QED BY <1>0, <2>1, <2>2, BalanceKept
  <1>2. ASSUME NEW e \in Events, Try(e) \/ Complete(e) \/ GiveUp(e) PROVE Balance'
    <2>2. UNCHANGED <<committed, effects, head.sequence, step, seen, task>>
      BY <1>2 DEF Try, Complete, GiveUp, Queue!Try, Queue!Finish, Queue!GiveUp, vars
    <2> QED BY <1>0, <2>2, BalanceKept
  <1>3. ASSUME NEW s \in Sealers, BeginTry(s) PROVE Balance'
    <2>1. UNCHANGED <<committed, seal, effects, head>> /\ seen'[s].open = Open
      BY <1>0, <1>3 DEF BeginTry, Begin, queue
    <2>2. PICK e \in Events : \E n \in (1..tries[e]) \ begun[e] :
            task' = [task EXCEPT ![s] = [job |-> e, try |-> n]]
      BY <1>3 DEF BeginTry
    <2>3. task'[s].job = e /\ tries[e] # 0
      BY <1>0, <2>2 DEF PInv, QueueInv
    <2>4. e \in committed
      BY <2>3 DEF PInv, QueueInv
    <2>5. Settled(s)'
      BY <1>8, <2>1, <2>3, <2>4 DEF Settled, Effective, Sealed, Open
    <2>6. \A t \in Sealers : t # s => UNCHANGED <<step[t], seen[t], task[t]>>
      BY <1>0, <1>3, <2>2 DEF BeginTry, Begin, Goto
    <2>7. \A t \in Sealers : Settled(t)' \/ step'[t] = "idle" \/ (step[t] # "idle" /\ UNCHANGED <<seen[t], task[t]>>)
      BY <2>5, <2>6 DEF Settled
    <2> QED BY <1>0, <2>1, <2>7, BalanceKept
  <1>4. ASSUME NEW s \in Sealers, Proceed(s) PROVE Balance'
    <2>1. UNCHANGED <<committed, effects, head.sequence, seen, task>>
      BY <1>4 DEF Proceed, LockHead, SelectRows, queue
    <2>2. \A t \in Sealers : step'[t] # "idle" => step[t] # "idle"
      BY <1>0, <1>4 DEF Proceed, LockHead, SelectRows, Goto
    <2> QED BY <1>0, <2>1, <2>2, BalanceKept
  <1>5. ASSUME NEW s \in Sealers, Abandon(s) PROVE Balance'
    <2>1. End(s) /\ UNCHANGED <<committed, effects, head.sequence>> /\ task' = [task EXCEPT ![s] = NoTask]
      BY <1>5 DEF Abandon, SerializationFailure, Rollback, queue
    <2>2. step'[s] = "idle" /\ \A t \in Sealers : t # s => UNCHANGED <<step[t], seen[t], task[t]>>
      BY <1>0, <2>1 DEF End, Goto
    <2> QED BY <1>0, <2>1, <2>2, BalanceKept
  <1>6. ASSUME NEW s \in Sealers, Commit(s) PROVE Balance'
    <2> DEFINE j == task[s].job
    <2>1. /\ End(s) /\ step[s] # "idle" /\ task' = [task EXCEPT ![s] = NoTask]
          /\ UNCHANGED committed
          /\ \E n \in 1..tries[j] : effects' = [effects EXCEPT ![j] = @ \cup {n}]
      BY <1>6 DEF Commit, CommitBlock, NothingToSeal, Queue!TakeEffect
    <2>2. step'[s] = "idle" /\ \A t \in Sealers : t # s => UNCHANGED <<step[t], seen[t], task[t]>>
      BY <1>0, <2>1 DEF End, Goto
    <2>3. j \in committed
      BY <2>1 DEF PInv, QueueInv
    <2>4. Effective' = Effective \cup {j}
      <3>1. effects \in [Events -> SUBSET Nat] /\ j \in Events
        BY <1>0, <2>3 DEF PInv, QueueInv
      <3>2. PICK n \in 1..tries[j] : effects' = [effects EXCEPT ![j] = @ \cup {n}]
        BY <2>1
      <3> HIDE DEF j
      <3>3. effects'[j] # {} /\ \A e \in Events : e # j => effects'[e] = effects[e]
        BY <3>1, <3>2
      <3> QED BY <3>1, <3>3 DEF Effective
    <2>5. IsFiniteSet(Effective) /\ IsFiniteSet(Sealed) /\ IsFiniteSet(Sealed') /\ IsFiniteSet(Effective')
      <3>1. Sealed \subseteq committed /\ Sealed' \subseteq committed /\ Effective' \subseteq committed
        BY <1>8, <2>1, <2>3, <2>4 DEF Sealed
      <3> QED BY <1>0, <1>8, <3>1, FS_Subset
    <2>6. /\ Cardinality(Effective) \in Nat /\ Cardinality(Sealed) \in Nat
          /\ Cardinality(Sealed') \in Nat /\ Cardinality(Effective') \in Nat
      BY <2>5, FS_CardinalityType
    <2>7. Cardinality(Effective) <= Cardinality(Sealed) /\ \A t \in Sealers : Settled(t)
      BY DEF PInv, Balance, Settled
    <2>8. CASE CommitBlock(s)
      <3>1. /\ draft[s] \subseteq Open /\ draft[s] # {} /\ draft[s] \subseteq Events
            /\ head'.sequence = head.sequence + 1
            /\ \A e \in draft[s] : seal'[e].block = head'.sequence
        BY <2>8, CommitBlockMoves DEF PInv
      <3>2. head.sequence \in Nat
        BY DEF PInv, ChainInv, IInv, TypeOK
      <3>3. PICK d \in draft[s] : d \in committed /\ seal[d] = Unsealed /\ seal'[d] # Unsealed
        BY <3>1, <3>2 DEF Open, Unsealed
      <3>4. Sealed \cup {d} \subseteq Sealed' /\ d \notin Sealed
        <4>1. Sealed \subseteq Sealed'
          BY <1>0, SealedGrows DEF PInv
        <4> QED BY <2>1, <3>3, <4>1 DEF Sealed, Open
      <3>5. Cardinality(Sealed \cup {d}) = Cardinality(Sealed) + 1
        BY <2>5, <3>4, FS_AddElement
      <3>6. Cardinality(Sealed) + 1 <= Cardinality(Sealed')
        BY <2>5, <3>4, <3>5, FS_Subset
      <3>7. Cardinality(Effective') <= Cardinality(Effective) + 1
        <4> DEFINE E == Effective
        <4>1. Cardinality(E \cup {j}) = IF j \in E THEN Cardinality(E) ELSE Cardinality(E) + 1
          BY <2>5, FS_AddElement
        <4> HIDE DEF j
        <4> QED BY <2>4, <2>6, <4>1
      <3>8. Cardinality(Effective') <= Cardinality(Sealed')
        BY <2>6, <2>7, <3>6, <3>7
      <3>9. \A t \in Sealers : t # s => seen'[t].head.sequence # head'.sequence
        BY <2>2, <3>1, <3>2 DEF PInv, ChainInv, LockInv
      <3> QED BY <1>0, <2>1, <2>2, <3>8, <3>9 DEF Balance
    <2>9. CASE NothingToSeal(s)
      <3>1. FirstRows(seen[s].open) = {} /\ HoldsHead(s) /\ UNCHANGED <<seal, committed>> /\ head'.sequence = head.sequence
        BY <2>9 DEF NothingToSeal, HoldsHead
      <3>2. seen[s].open = {} /\ seen[s].head.sequence = head.sequence
        <4>1. seen[s].open \in SUBSET Events /\ seen[s].head.sequence = head.sequence
          BY <3>1 DEF PInv, ChainInv, IInv, TypeOK, LockInv
        <4> QED BY <3>1, <4>1, FirstRowsTakes
      <3>3. Effective' \subseteq Sealed
        BY <2>1, <2>4, <2>7, <3>2 DEF Settled
      <3>4. Sealed' = Sealed
        BY <3>1 DEF Sealed, Open
      <3>5. Cardinality(Effective') <= Cardinality(Sealed')
        BY <2>5, <3>3, <3>4, FS_Subset
      <3>6. \A t \in Sealers : Settled(t)'
        BY <2>2, <2>7, <3>1, <3>3, <3>4 DEF Settled
      <3> QED BY <1>0, <2>1, <3>5, <3>6 DEF Balance, Settled
    <2> QED BY <1>6, <2>8, <2>9 DEF Commit
  <1>7. CASE UNCHANGED pvars
    <2>1. UNCHANGED <<committed, effects, head.sequence, step, seen, task>>
      BY <1>7 DEF pvars, vars, queue
    <2> QED BY <1>0, <2>1, BalanceKept
  <1> QED BY <1>1, <1>2, <1>3, <1>4, <1>5, <1>6, <1>7 DEF PNext

\* Every step of the pipeline preserves the invariant.
LEMMA NextPInv == PInv /\ [PNext]_pvars => PInv'
  <1> SUFFICES ASSUME PInv, [PNext]_pvars PROVE PInv'
    OBVIOUS
  <1>1. ChainInv'
    BY PipelineMovesChain, NextChainInv DEF PInv
  <1> QED BY <1>1, QueueKept, BalanceInv DEF PInv

\* Completed jobs have effects, so there are no more of them than sealed events.
LEMMA EnoughFromInv == PInv => EnoughJobs
  <1> SUFFICES ASSUME PInv PROVE EnoughJobs
    OBVIOUS
  <1> DEFINE Done == {e \in committed : state[e] = "completed"}
             Waiting == {e \in committed : state[e] # "completed"}
  <1>1. /\ IsFiniteSet(committed) /\ Cardinality(Effective) <= Cardinality(Sealed)
        /\ Effective \subseteq committed /\ Done \subseteq Effective
    BY DEF PInv, Balance, QueueInv, Effective, ChainInv, IInv, TypeOK
  <1>2. IsFiniteSet(Effective)
    BY <1>1, FS_Subset
  <1>3. IsFiniteSet(Done) /\ Cardinality(Done) <= Cardinality(Effective)
    BY <1>1, <1>2, FS_Subset
  <1>4. IsFiniteSet(Waiting) /\ IsFiniteSet(Open) /\ IsFiniteSet(Sealed)
    <2>1. Waiting \subseteq committed /\ Open \subseteq committed /\ Sealed \subseteq committed
      BY DEF Open, Sealed
    <2> QED BY <1>1, <2>1, FS_Subset
  <1>5. /\ Cardinality(Done) \in Nat /\ Cardinality(Waiting) \in Nat /\ Cardinality(Open) \in Nat
        /\ Cardinality(Sealed) \in Nat /\ Cardinality(Effective) \in Nat
    BY <1>2, <1>3, <1>4, FS_CardinalityType
  <1>6. Cardinality(committed) = Cardinality(Done) + Cardinality(Waiting)
    <2>1. committed = Done \cup Waiting /\ Done \cap Waiting = {}
      OBVIOUS
    <2> HIDE DEF Done, Waiting
    <2>2. Cardinality(Done \cap Waiting) = 0
      BY <2>1, FS_EmptySet
    <2>3. Cardinality(Done \cup Waiting) = Cardinality(Done) + Cardinality(Waiting) - Cardinality(Done \cap Waiting)
      BY <1>3, <1>4, FS_Union
    <2> QED BY <1>5, <2>1, <2>2, <2>3
  <1>7. Cardinality(committed) = Cardinality(Sealed) + Cardinality(Open)
    <2>1. committed = Sealed \cup Open /\ Sealed \cap Open = {}
      BY DEF Sealed, Open
    <2>2. Cardinality(Sealed \cap Open) = 0
      BY <2>1, FS_EmptySet
    <2>3. Cardinality(Sealed \cup Open) = Cardinality(Sealed) + Cardinality(Open) - Cardinality(Sealed \cap Open)
      BY <1>4, FS_Union
    <2> QED BY <1>5, <2>1, <2>2, <2>3
  <1>8. Cardinality(Open) <= Cardinality(Waiting)
    <2> HIDE DEF Done, Waiting
    <2> QED BY <1>1, <1>3, <1>5, <1>6, <1>7
  <1> QED BY <1>8 DEF EnoughJobs

\* One seal job per append_audit_event is enough, for any number of events, of
\* tries and of transactions at once: when all jobs have completed, no event
\* is left unsealed.
THEOREM JobsAreEnough == PSpec => []EnoughJobs
  BY InitPInv, NextPInv, EnoughFromInv, PTL DEF PSpec
=============================================================================
