-------------------------- MODULE TraceAssemblyProofs --------------------------
(***************************************************************************)
(* Proofs about TraceAssembly, for all records and all limits.             *)
(***************************************************************************)
EXTENDS TraceAssembly, FiniteSetTheorems, TLAPS

ContractRecord == [declaration : StreamDecl, authority : Authority]

PlanRecord == [schedule : Schedule, streamPrefix : Nat, prefix : Nat]

Declarations == {x.declaration : x \in contracts}

TraceTypes ==
  /\ header \in SUBSET Header
  /\ declared \in Seq(StreamDecl) /\ published \in Seq(Envelope)
  /\ schedules \in Seq(PlanRecord)
  /\ records \in Nat /\ identityBytes \in Nat

SessionTypes ==
  /\ contracts \in SUBSET ContractRecord /\ IsFiniteSet(contracts)
  /\ IsFiniteSet(Declarations)
  /\ prepared \in SUBSET Envelope /\ IsFiniteSet(prepared)
  /\ sessionBytes \in Nat /\ fingerprintBytes \in Nat

(* The bytes of a set of records, each byte labelled by its record.        *)
RecordBytes(S) == Cardinality(UNION {{r} \X (1..r.bytes) : r \in S})

Charged == /\ sessionBytes = RecordBytes(Declarations) + RecordBytes(prepared)
           /\ sessionBytes <= MaxIdentityBytes
           /\ fingerprintBytes <= MaxFingerprintBytes

(* While the assembler is open, what the normalizer holds is part of what  *)
(* the validator holds, and costs no more.                                 *)
SessionWithinTrace ==
  Open => /\ session = "open"
          /\ Declarations \subseteq Among(declared)
          /\ Cardinality(contracts) <= Len(declared)
          /\ prepared \subseteq Among(published)
          /\ Cardinality(prepared) <= Len(published)
          /\ sessionBytes <= identityBytes

(* What the assembler keeps for itself repeats the trace, record by record.*)
BlueprintsMirror ==
  Open => /\ blueprints \in Seq(ContractRecord) /\ Len(blueprints) = Len(declared)
          /\ \A i \in 1..Len(declared) : blueprints[i].declaration = declared[i]
          /\ sources = published

(* The header comes first and stays.                                       *)
HeaderFirst ==
  /\ records = 0 => declared = <<>> /\ published = <<>> /\ schedules = <<>>
  /\ records > 0 => \E h \in Header : header = {h}

DeclaredOnce ==
  \A i, j \in 1..Len(declared) : declared[i].id = declared[j].id => i = j

(* Every envelope belongs to a stream that was declared before it, from a  *)
(* cursor it covers, and carries the evidence the header promises.         *)
EnvelopesBelong ==
  \A i \in 1..Len(published) :
    /\ \E j \in 1..Len(declared) : /\ declared[j].id = published[i].stream
                                   /\ declared[j].initial <= published[i].cursor
    /\ \A h \in header : published[i].evidence \subseteq {h.redaction}

(* A schedule sees the streams of all envelopes it sees.                   *)
SeesItsStreams(p) ==
  /\ p.streamPrefix <= Len(declared)
  /\ p.prefix <= Len(published)
  /\ \A i \in 1..p.prefix : \E j \in 1..p.streamPrefix : declared[j].id = published[i].stream
  /\ p.schedule.targets \subseteq Ids({published[i] : i \in 1..p.prefix})

PlansSeeStreams == \A n \in 1..Len(schedules) : SeesItsStreams(schedules[n])

TraceInv == TraceTypes /\ HeaderFirst /\ DeclaredOnce /\ EnvelopesBelong /\ PlansSeeStreams

SessionInv == SessionTypes /\ N!OneContract /\ Charged

AssemblyInv == /\ TraceInv
               /\ SessionInv
               /\ SessionWithinTrace
               /\ BlueprintsMirror
               /\ SealedTraceExecutes
-----------------------------------------------------------------------------
(* Bytes and sequences of records.                                         *)

LEMMA BytesType ==
  ASSUME NEW S, IsFiniteSet(S), \A r \in S : r.bytes \in Nat
  PROVE  /\ IsFiniteSet(UNION {{r} \X (1..r.bytes) : r \in S})
         /\ RecordBytes(S) \in Nat
<1> DEFINE f == [r \in S |-> {r} \X (1..r.bytes)]
           T == {{r} \X (1..r.bytes) : r \in S}
<1>1. f \in Surjection(S, T)
  BY DEF Surjection
<1>2. IsFiniteSet(T)
  BY <1>1, FS_Surjection
<1>3. ASSUME NEW r \in S PROVE IsFiniteSet({r} \X (1..r.bytes))
  <2>1. r.bytes \in Int
    OBVIOUS
  <2>2. IsFiniteSet(1..r.bytes)
    BY <2>1, FS_Interval
  <2>3. IsFiniteSet({r})
    BY FS_Singleton
  <2> QED BY <2>2, <2>3, FS_Product
<1>4. IsFiniteSet(UNION T)
  BY <1>2, <1>3, FS_UNION
<1> QED BY <1>4, FS_CardinalityType DEF RecordBytes

(* A record that was not there adds its own bytes.                         *)
LEMMA BytesAdd ==
  ASSUME NEW S, IsFiniteSet(S), \A r \in S : r.bytes \in Nat,
         NEW x, x \notin S, NEW n \in Nat, x.bytes = n
  PROVE  RecordBytes(S \cup {x}) = RecordBytes(S) + n
<1> DEFINE Bytes(T) == UNION {{r} \X (1..r.bytes) : r \in T}
           own == {x} \X (1..n)
<1>1. Bytes(S \cup {x}) = Bytes(S) \cup own
  OBVIOUS
<1>2. Bytes(S) \cap own = {}
  OBVIOUS
<1>3. IsFiniteSet(Bytes(S)) /\ RecordBytes(S) \in Nat
  BY BytesType
<1>4. IsFiniteSet(1..n) /\ Cardinality(1..n) = n
  BY FS_Interval
<1>5. IsFiniteSet({x}) /\ Cardinality({x}) = 1
  BY FS_Singleton
<1>6. IsFiniteSet(own) /\ Cardinality(own) = Cardinality({x}) * Cardinality(1..n)
  BY <1>4, <1>5, FS_Product
<1>7. Cardinality({x}) * Cardinality(1..n) = n
  BY <1>4, <1>5
<1>8. IsFiniteSet(Bytes(S)) /\ IsFiniteSet(own) /\ Bytes(S) \cap own = {}
  BY <1>2, <1>3, <1>6
<1>9. Cardinality({}) = 0
  BY FS_EmptySet
<1>10. /\ RecordBytes(S) = Cardinality(Bytes(S))
       /\ RecordBytes(S \cup {x}) = Cardinality(Bytes(S) \cup own)
  BY <1>1 DEF RecordBytes
<1> HIDE DEF Bytes, own
<1>11. Cardinality(Bytes(S) \cup own) = Cardinality(Bytes(S)) + Cardinality(own) - Cardinality({})
  BY <1>8, FS_Union
<1>12. RecordBytes(S \cup {x}) = RecordBytes(S) + n - 0
  BY <1>6, <1>7, <1>9, <1>10, <1>11
<1> QED BY <1>3, <1>12

LEMMA NoBytes == RecordBytes({}) = 0
<1>1. UNION {{r} \X (1..r.bytes) : r \in {}} = {}
  OBVIOUS
<1> QED BY <1>1, FS_EmptySet DEF RecordBytes

LEMMA AppendFacts ==
  ASSUME NEW T, NEW list \in Seq(T), NEW x \in T
  PROVE  /\ Append(list, x) \in Seq(T)
         /\ Len(list) \in Nat /\ Len(Append(list, x)) = Len(list) + 1
         /\ \A i \in 1..Len(list) : Append(list, x)[i] = list[i]
         /\ Append(list, x)[Len(list) + 1] = x
         /\ Among(Append(list, x)) = Among(list) \cup {x}
<1>1. /\ Append(list, x) \in Seq(T)
      /\ Len(list) \in Nat /\ Len(Append(list, x)) = Len(list) + 1
      /\ \A i \in 1..Len(list) : Append(list, x)[i] = list[i]
      /\ Append(list, x)[Len(list) + 1] = x
  OBVIOUS
<1>2. DOMAIN list = 1..Len(list) /\ DOMAIN Append(list, x) = 1..(Len(list) + 1)
  OBVIOUS
<1>3. \A i : i \in 1..(Len(list) + 1) <=> i \in 1..Len(list) \/ i = Len(list) + 1
  BY <1>1
<1>4. Among(Append(list, x)) = Among(list) \cup {x}
  BY <1>1, <1>2, <1>3 DEF Among
<1> QED BY <1>1, <1>4

LEMMA SameCardinality ==
  ASSUME NEW S
  PROVE  N!Cardinality(S) = Cardinality(S)
BY DEF N!Cardinality, Cardinality

LEMMA KindsDiffer ==
  /\ \A r \in StreamDecl \cup Envelope \cup Schedule : r \notin Header
  /\ \A r \in Record : r.bytes \in Nat
  /\ {MaxRecords, MaxStreams, MaxEnvelopes, MaxSchedules, MaxIdentityBytes, MaxLineBytes,
      MaxFingerprintBytes} \subseteq Nat
BY RecordAssumption DEF Record
-----------------------------------------------------------------------------
(* The session, whoever calls it.                                          *)

LEMMA RegisterFacts ==
  ASSUME SessionInv, NEW d \in StreamDecl, NEW a \in Authority, N!Register(d, a)
  PROVE  /\ SessionInv'
         /\ Declarations' = Declarations \cup {d}
         /\ contracts' = contracts \cup {N!Contract(d, a)}
         /\ Cardinality(contracts') = Cardinality(contracts) + 1
<1> DEFINE c == N!Contract(d, a)
<1>1. /\ contracts' = contracts \cup {c} /\ sessionBytes' = sessionBytes + d.bytes
      /\ \A x \in contracts : d.id # x.declaration.id /\ d.scope # x.declaration.scope
      /\ sessionBytes + d.bytes <= MaxIdentityBytes
      /\ UNCHANGED <<prepared, fingerprintBytes>>
  BY DEF N!Register, N!New, N!Affordable
<1>2. c \in ContractRecord /\ c.declaration = d
  BY DEF N!Contract, ContractRecord
<1>3. Declarations' = Declarations \cup {d}
  BY <1>1, <1>2 DEF Declarations
<1>4. d \notin Declarations /\ c \notin contracts
  BY <1>1, <1>2 DEF Declarations
<1>5. Declarations \subseteq StreamDecl
  BY DEF SessionInv, SessionTypes, Declarations, ContractRecord
<1>6. d.bytes \in Nat /\ \A r \in Declarations : r.bytes \in Nat
  BY <1>5, KindsDiffer DEF Record
<1>7. IsFiniteSet(contracts') /\ Cardinality(contracts') = Cardinality(contracts) + 1
  BY <1>1, <1>4, FS_AddElement DEF SessionInv, SessionTypes
<1>8. IsFiniteSet(Declarations')
  BY <1>3, FS_AddElement DEF SessionInv, SessionTypes
<1>9. RecordBytes(Declarations') = RecordBytes(Declarations) + d.bytes
  BY <1>3, <1>4, <1>6, BytesAdd DEF SessionInv, SessionTypes
<1>10. RecordBytes(Declarations) \in Nat /\ RecordBytes(prepared) \in Nat
  <2>1. \A r \in prepared : r.bytes \in Nat
    BY KindsDiffer DEF SessionInv, SessionTypes, Record
  <2> QED BY <1>6, <2>1, BytesType DEF SessionInv, SessionTypes
<1>11. SessionTypes'
  <2>1. contracts' \in SUBSET ContractRecord
    BY <1>1, <1>2 DEF SessionInv, SessionTypes
  <2>2. sessionBytes' \in Nat
    BY <1>1, <1>6 DEF SessionInv, SessionTypes
  <2> QED BY <1>1, <1>7, <1>8, <2>1, <2>2 DEF SessionInv, SessionTypes
<1>12. N!OneContract'
  BY <1>1, <1>2 DEF SessionInv, N!OneContract
<1>13. Charged'
  <2>1. RecordBytes(prepared)' = RecordBytes(prepared)
    BY <1>1 DEF RecordBytes
  <2>2. sessionBytes' = RecordBytes(Declarations') + RecordBytes(prepared')
    BY <1>1, <1>6, <1>9, <1>10, <2>1 DEF SessionInv, Charged
  <2>3. RecordBytes(Declarations)' = RecordBytes(Declarations')
    BY DEF RecordBytes
  <2> QED BY <1>1, <2>1, <2>2, <2>3 DEF SessionInv, Charged
<1> QED BY <1>1, <1>3, <1>7, <1>11, <1>12, <1>13 DEF SessionInv

LEMMA PrepareFacts ==
  ASSUME SessionInv, NEW e \in Envelope, N!Prepare(e)
  PROVE  /\ SessionInv'
         /\ prepared' = prepared \cup {e}
         /\ Cardinality(prepared') = Cardinality(prepared) + 1
<1>1. /\ prepared' = prepared \cup {e} /\ sessionBytes' = sessionBytes + e.bytes
      /\ fingerprintBytes' = fingerprintBytes + e.hashed
      /\ e.id \notin Ids(prepared)
      /\ sessionBytes + e.bytes <= MaxIdentityBytes
      /\ fingerprintBytes + e.hashed <= MaxFingerprintBytes
      /\ contracts' = contracts
  BY DEF N!Prepare, N!Preparable, N!Hashable, N!Ids, Ids
<1>2. e \notin prepared
  BY <1>1 DEF Ids
<1>3. e.bytes \in Nat /\ \A r \in prepared : r.bytes \in Nat
  BY KindsDiffer DEF SessionInv, SessionTypes, Record
<1>4. e.hashed \in Nat
  BY RecordAssumption
<1>5. IsFiniteSet(prepared') /\ Cardinality(prepared') = Cardinality(prepared) + 1
  BY <1>1, <1>2, FS_AddElement DEF SessionInv, SessionTypes
<1>6. RecordBytes(prepared') = RecordBytes(prepared) + e.bytes
  BY <1>1, <1>2, <1>3, BytesAdd DEF SessionInv, SessionTypes
<1>7. Declarations' = Declarations
  BY <1>1 DEF Declarations
<1>8. RecordBytes(Declarations) \in Nat /\ RecordBytes(prepared) \in Nat
  <2>1. Declarations \subseteq StreamDecl
    BY DEF SessionInv, SessionTypes, Declarations, ContractRecord
  <2>2. \A r \in Declarations : r.bytes \in Nat
    BY <2>1, KindsDiffer DEF Record
  <2> QED BY <1>3, <2>2, BytesType DEF SessionInv, SessionTypes
<1>9. SessionTypes'
  <2>1. sessionBytes' \in Nat /\ fingerprintBytes' \in Nat
    BY <1>1, <1>3, <1>4 DEF SessionInv, SessionTypes
  <2> QED BY <1>1, <1>5, <1>7, <2>1 DEF SessionInv, SessionTypes
<1>10. N!OneContract'
  BY <1>1 DEF SessionInv, N!OneContract
<1>11. Charged'
  <2>1. sessionBytes' = RecordBytes(Declarations') + RecordBytes(prepared')
    BY <1>1, <1>3, <1>6, <1>7, <1>8 DEF SessionInv, Charged
  <2>2. /\ RecordBytes(Declarations)' = RecordBytes(Declarations')
        /\ RecordBytes(prepared)' = RecordBytes(prepared')
    BY DEF RecordBytes
  <2> QED BY <1>1, <2>1, <2>2 DEF SessionInv, Charged
<1> QED BY <1>1, <1>5, <1>9, <1>10, <1>11 DEF SessionInv

LEMMA SessionKept ==
  ASSUME SessionInv, UNCHANGED <<contracts, prepared, fingerprintBytes, sessionBytes>>
  PROVE  SessionInv'
<1>1. Declarations' = Declarations
  BY DEF Declarations
<1>2. SessionTypes'
  BY <1>1 DEF SessionInv, SessionTypes
<1>3. N!OneContract'
  BY DEF SessionInv, N!OneContract
<1>4. Charged'
  BY <1>1 DEF SessionInv, Charged, RecordBytes
<1> QED BY <1>2, <1>3, <1>4 DEF SessionInv

LEMMA SessionStep ==
  ASSUME SessionInv, N!NormalizerNext
  PROVE  SessionInv'
<1>1. ASSUME NEW d \in StreamDecl, NEW a \in Authority, N!RegisterStream(d, a)
      PROVE  SessionInv'
  BY <1>1, RegisterFacts, SessionKept
     DEF N!RegisterStream, N!RegisterAgain, N!RefuseAuthority, N!FailRegistration, N!Fail,
         N!normalizerVars
<1>2. ASSUME NEW e \in Envelope, N!PrepareEnvelope(e) PROVE SessionInv'
  BY <1>2, PrepareFacts, SessionKept DEF N!PrepareEnvelope, N!FailPreparation, N!Fail
<1>3. CASE N!FailWrongKind \/ N!Seal
  BY <1>3, SessionKept DEF N!FailWrongKind, N!Fail, N!Seal
<1> QED BY <1>1, <1>2, <1>3 DEF N!NormalizerNext, N!Authority, Authority
-----------------------------------------------------------------------------
(* The trace as the validator accepts it, whatever the normalizer says.    *)

LEMMA HeaderKeepsTrace ==
  ASSUME TraceInv, NEW h \in Header, V!AcceptHeader(h)
  PROVE  TraceInv'
<1>1. /\ records = 0 /\ header' = {h} /\ records' = records + 1
      /\ UNCHANGED <<declared, published, schedules, identityBytes>>
  BY DEF V!AcceptHeader, V!Positioned
<1>2. declared = <<>> /\ published = <<>> /\ schedules = <<>>
  BY <1>1 DEF TraceInv, HeaderFirst
<1>3. TraceTypes'
  BY <1>1 DEF TraceInv, TraceTypes
<1>4. HeaderFirst'
  BY <1>1 DEF TraceInv, HeaderFirst
<1>5. DeclaredOnce' /\ EnvelopesBelong' /\ PlansSeeStreams'
  BY <1>1, <1>2 DEF DeclaredOnce, EnvelopesBelong, PlansSeeStreams
<1> QED BY <1>3, <1>4, <1>5 DEF TraceInv

LEMMA StreamKeepsTrace ==
  ASSUME TraceInv, NEW d \in StreamDecl, V!AcceptStream(d)
  PROVE  TraceInv'
<1>1. /\ records # 0 /\ records' = records + 1
      /\ \A x \in Among(declared) : d.id # x.id
      /\ declared' = Append(declared, d)
      /\ identityBytes' = identityBytes + d.bytes
      /\ UNCHANGED <<header, published, schedules>>
  BY KindsDiffer DEF V!AcceptStream, V!AdmitsStream, V!Positioned, V!Among, Among
<1>2. /\ declared' \in Seq(StreamDecl)
      /\ Len(declared) \in Nat /\ Len(declared') = Len(declared) + 1
      /\ \A i \in 1..Len(declared) : declared'[i] = declared[i]
      /\ declared'[Len(declared) + 1] = d
  BY <1>1, AppendFacts DEF TraceInv, TraceTypes
<1>3. TraceTypes'
  <2>1. d.bytes \in Nat
    BY KindsDiffer DEF Record
  <2>2. identityBytes' \in Nat /\ records' \in Nat
    BY <1>1, <2>1 DEF TraceInv, TraceTypes
  <2> QED BY <1>1, <1>2, <2>2 DEF TraceInv, TraceTypes
<1>4. HeaderFirst'
  BY <1>1 DEF TraceInv, HeaderFirst, TraceTypes
<1>5. DeclaredOnce'
  <2> SUFFICES ASSUME NEW i \in 1..Len(declared'), NEW j \in 1..Len(declared'),
                      declared'[i].id = declared'[j].id
               PROVE  i = j
    BY DEF DeclaredOnce
  <2>1. \A k \in 1..Len(declared) : declared[k].id # d.id
    BY <1>1 DEF TraceInv, TraceTypes, Among
  <2>2. /\ i \in 1..Len(declared) \/ i = Len(declared) + 1
        /\ j \in 1..Len(declared) \/ j = Len(declared) + 1
    BY <1>2
  <2> QED BY <1>2, <2>1, <2>2 DEF TraceInv, DeclaredOnce
<1>6. EnvelopesBelong'
  <2> SUFFICES ASSUME NEW i \in 1..Len(published)
               PROVE  /\ \E j \in 1..Len(declared') :
                           /\ declared'[j].id = published[i].stream
                           /\ declared'[j].initial <= published[i].cursor
                      /\ \A h \in header : published[i].evidence \subseteq {h.redaction}
    BY <1>1 DEF EnvelopesBelong
  <2>1. PICK j \in 1..Len(declared) : /\ declared[j].id = published[i].stream
                                      /\ declared[j].initial <= published[i].cursor
    BY DEF TraceInv, EnvelopesBelong
  <2>2. j \in 1..Len(declared') /\ declared'[j] = declared[j]
    BY <1>2
  <2>3. \A h \in header : published[i].evidence \subseteq {h.redaction}
    BY DEF TraceInv, EnvelopesBelong
  <2> QED BY <2>1, <2>2, <2>3
<1>7. PlansSeeStreams'
  <2> SUFFICES ASSUME NEW n \in 1..Len(schedules) PROVE SeesItsStreams(schedules[n])'
    BY <1>1 DEF PlansSeeStreams
  <2> DEFINE p == schedules[n]
  <2>1. SeesItsStreams(p) /\ p \in PlanRecord
    BY DEF TraceInv, PlansSeeStreams, TraceTypes
  <2>2. p.streamPrefix \in Nat /\ p.prefix \in Nat
    BY <2>1 DEF PlanRecord
  <2>3. \A j \in 1..p.streamPrefix : declared'[j] = declared[j]
    BY <1>2, <2>1, <2>2 DEF SeesItsStreams
  <2>4. p.streamPrefix <= Len(declared')
    BY <1>2, <2>1, <2>2 DEF SeesItsStreams
  <2>5. \A i \in 1..p.prefix : \E j \in 1..p.streamPrefix : declared'[j].id = published[i].stream
    BY <2>1, <2>3 DEF SeesItsStreams
  <2> QED BY <1>1, <2>1, <2>4, <2>5 DEF SeesItsStreams
<1> QED BY <1>3, <1>4, <1>5, <1>6, <1>7 DEF TraceInv

LEMMA EnvelopeKeepsTrace ==
  ASSUME TraceInv, NEW e \in Envelope, V!AcceptEnvelope(e)
  PROVE  TraceInv'
<1>1. /\ records # 0 /\ records' = records + 1
      /\ \E d \in Among(declared) : d.id = e.stream /\ d.initial <= e.cursor
      /\ \A h \in header : e.evidence \subseteq {h.redaction}
      /\ published' = Append(published, e)
      /\ identityBytes' = identityBytes + e.bytes
      /\ UNCHANGED <<header, declared, schedules>>
  BY KindsDiffer
     DEF V!AcceptEnvelope, V!AdmitsEnvelope, V!Positioned, V!EvidenceAllowed, V!Among, Among
<1>2. /\ published' \in Seq(Envelope)
      /\ Len(published) \in Nat /\ Len(published') = Len(published) + 1
      /\ \A i \in 1..Len(published) : published'[i] = published[i]
      /\ published'[Len(published) + 1] = e
  BY <1>1, AppendFacts DEF TraceInv, TraceTypes
<1>3. TraceTypes'
  <2>1. e.bytes \in Nat
    BY KindsDiffer DEF Record
  <2>2. identityBytes' \in Nat /\ records' \in Nat
    BY <1>1, <2>1 DEF TraceInv, TraceTypes
  <2> QED BY <1>1, <1>2, <2>2 DEF TraceInv, TraceTypes
<1>4. HeaderFirst'
  BY <1>1 DEF TraceInv, HeaderFirst, TraceTypes
<1>5. DeclaredOnce'
  BY <1>1 DEF TraceInv, DeclaredOnce
<1>6. EnvelopesBelong'
  <2> SUFFICES ASSUME NEW i \in 1..Len(published')
               PROVE  /\ \E j \in 1..Len(declared) :
                           /\ declared[j].id = published'[i].stream
                           /\ declared[j].initial <= published'[i].cursor
                      /\ \A h \in header : published'[i].evidence \subseteq {h.redaction}
    BY <1>1 DEF EnvelopesBelong
  <2>1. CASE i \in 1..Len(published)
    BY <1>2, <2>1 DEF TraceInv, EnvelopesBelong
  <2>2. CASE i = Len(published) + 1
    <3>1. DOMAIN declared = 1..Len(declared)
      BY DEF TraceInv, TraceTypes
    <3> QED BY <1>1, <1>2, <2>2, <3>1 DEF Among
  <2> QED BY <1>2, <2>1, <2>2
<1>7. PlansSeeStreams'
  <2> SUFFICES ASSUME NEW n \in 1..Len(schedules) PROVE SeesItsStreams(schedules[n])'
    BY <1>1 DEF PlansSeeStreams
  <2> DEFINE p == schedules[n]
  <2>1. SeesItsStreams(p) /\ p \in PlanRecord
    BY DEF TraceInv, PlansSeeStreams, TraceTypes
  <2>2. p.streamPrefix \in Nat /\ p.prefix \in Nat
    BY <2>1 DEF PlanRecord
  <2>3. \A i \in 1..p.prefix : published'[i] = published[i]
    BY <1>2, <2>1, <2>2 DEF SeesItsStreams
  <2>4. p.prefix <= Len(published')
    BY <1>2, <2>1, <2>2 DEF SeesItsStreams
  <2>5. {published'[i] : i \in 1..p.prefix} = {published[i] : i \in 1..p.prefix}
    BY <2>3
  <2> QED BY <1>1, <2>1, <2>3, <2>4, <2>5 DEF SeesItsStreams
<1> QED BY <1>3, <1>4, <1>5, <1>6, <1>7 DEF TraceInv

LEMMA ScheduleKeepsTrace ==
  ASSUME TraceInv, NEW s \in Schedule, V!AcceptSchedule(s)
  PROVE  TraceInv'
<1> DEFINE p == [schedule |-> s, streamPrefix |-> Len(declared), prefix |-> Len(published)]
<1>1. /\ records # 0 /\ records' = records + 1
      /\ s.targets \subseteq Ids(Among(published))
      /\ schedules' = Append(schedules, p)
      /\ identityBytes' = identityBytes + s.bytes
      /\ UNCHANGED <<header, declared, published>>
  BY KindsDiffer
     DEF V!AcceptSchedule, V!AdmitsSchedule, V!Positioned, V!Among, Among, V!Ids, Ids
<1>2. Len(declared) \in Nat /\ Len(published) \in Nat
  BY DEF TraceInv, TraceTypes
<1>3. p \in PlanRecord
  BY <1>2 DEF PlanRecord
<1>4. /\ schedules' \in Seq(PlanRecord)
      /\ Len(schedules) \in Nat /\ Len(schedules') = Len(schedules) + 1
      /\ \A i \in 1..Len(schedules) : schedules'[i] = schedules[i]
      /\ schedules'[Len(schedules) + 1] = p
  BY <1>1, <1>3, AppendFacts DEF TraceInv, TraceTypes
<1>5. TraceTypes'
  <2>1. s.bytes \in Nat
    BY KindsDiffer DEF Record
  <2>2. identityBytes' \in Nat /\ records' \in Nat
    BY <1>1, <2>1 DEF TraceInv, TraceTypes
  <2> QED BY <1>1, <1>4, <2>2 DEF TraceInv, TraceTypes
<1>6. HeaderFirst' /\ DeclaredOnce' /\ EnvelopesBelong'
  BY <1>1 DEF TraceInv, HeaderFirst, TraceTypes, DeclaredOnce, EnvelopesBelong
<1>7. SeesItsStreams(p)
  <2>1. Among(published) = {published[i] : i \in 1..Len(published)}
    BY DEF TraceInv, TraceTypes, Among
  <2>2. \A i \in 1..Len(published) : \E j \in 1..Len(declared) :
          declared[j].id = published[i].stream
    BY DEF TraceInv, EnvelopesBelong
  <2> QED BY <1>1, <1>2, <2>1, <2>2 DEF SeesItsStreams
<1>8. PlansSeeStreams'
  <2> SUFFICES ASSUME NEW n \in 1..Len(schedules') PROVE SeesItsStreams(schedules'[n])
    BY <1>1 DEF PlansSeeStreams, SeesItsStreams
  <2>1. CASE n \in 1..Len(schedules)
    BY <1>4, <2>1 DEF TraceInv, PlansSeeStreams
  <2>2. CASE n = Len(schedules) + 1
    BY <1>4, <1>7, <2>2
  <2> QED BY <1>4, <2>1, <2>2
<1> QED BY <1>5, <1>6, <1>8 DEF TraceInv

LEMMA TraceKept ==
  ASSUME TraceInv, UNCHANGED <<header, declared, published, schedules, records, identityBytes>>
  PROVE  TraceInv'
<1>1. TraceTypes' /\ HeaderFirst'
  BY DEF TraceInv, TraceTypes, HeaderFirst
<1>2. DeclaredOnce' /\ EnvelopesBelong'
  BY DEF TraceInv, DeclaredOnce, EnvelopesBelong
<1>3. PlansSeeStreams'
  BY DEF TraceInv, PlansSeeStreams, SeesItsStreams
<1> QED BY <1>1, <1>2, <1>3 DEF TraceInv
-----------------------------------------------------------------------------
(* The two layers together.                                                *)

(* What ends the assembler without sealing it.                             *)
LEMMA FailureIsFinal ==
  ASSUME outcome' \notin {"open", "sealed", "broken"}
  PROVE  SessionWithinTrace' /\ BlueprintsMirror' /\ SealedTraceExecutes'
BY DEF SessionWithinTrace, BlueprintsMirror, SealedTraceExecutes, SchedulesSeeStreams,
       SourcesKeepContracts, Open

(* A record that only the validator keeps.                                 *)
LEMMA OnlyValidated ==
  ASSUME AssemblyInv, TraceInv', Open,
         UNCHANGED <<normalizerVars, assemblerVars, declared, published>>,
         identityBytes' >= identityBytes
  PROVE  AssemblyInv'
<1>1. SessionInv'
  BY SessionKept DEF AssemblyInv, normalizerVars
<1>2. Open' /\ Declarations' = Declarations
  BY DEF Open, assemblerVars, normalizerVars, Declarations
<1>3. SessionWithinTrace'
  <2>1. sessionBytes \in Nat /\ identityBytes \in Nat /\ identityBytes' \in Nat
    BY DEF AssemblyInv, TraceInv, TraceTypes, SessionInv, SessionTypes
  <2>2. Among(declared)' = Among(declared) /\ Among(published)' = Among(published)
    BY DEF Among
  <2> QED BY <1>2, <2>1, <2>2 DEF AssemblyInv, SessionWithinTrace, normalizerVars
<1>4. BlueprintsMirror'
  BY <1>2 DEF AssemblyInv, BlueprintsMirror, assemblerVars
<1>5. SealedTraceExecutes'
  BY <1>2 DEF SealedTraceExecutes, SchedulesSeeStreams, SourcesKeepContracts, Open
<1> QED BY <1>1, <1>3, <1>4, <1>5 DEF AssemblyInv

LEMMA PushStreamStep ==
  ASSUME AssemblyInv, NEW d \in StreamDecl, NEW a \in Authority, PushStream(d, a)
  PROVE  AssemblyInv'
<1> DEFINE c == N!Contract(d, a)
<1>1. TraceInv'
  BY StreamKeepsTrace DEF AssemblyInv, PushStream
<1>2. N!RegisterStream(d, a) /\ Open
  BY DEF PushStream
<1>3. SessionInv'
  BY <1>2, SessionStep DEF AssemblyInv, N!NormalizerNext, N!Authority, Authority
<1>4. /\ declared' = Append(declared, d)
      /\ identityBytes' = identityBytes + d.bytes
      /\ \A x \in Among(declared) : d.id # x.id
      /\ published' = published
  BY DEF PushStream, V!AcceptStream, V!AdmitsStream, V!Among, Among
<1>5. c \in ContractRecord /\ c.declaration = d
  BY DEF N!Contract, ContractRecord
<1>6. CASE contracts' = contracts
  <2>1. d \notin Declarations
    BY <1>2, <1>4 DEF AssemblyInv, SessionWithinTrace
  <2>2. c \notin contracts'
    BY <1>5, <1>6, <2>1 DEF Declarations
  <2>3. outcome' = "failed"
    BY <2>2 DEF PushStream, Fails
  <2> QED BY <1>1, <1>3, <2>3, FailureIsFinal DEF AssemblyInv
<1>7. CASE N!Register(d, a)
  <2>1. /\ Declarations' = Declarations \cup {d}
        /\ contracts' = contracts \cup {c}
        /\ Cardinality(contracts') = Cardinality(contracts) + 1
    BY <1>7, RegisterFacts DEF AssemblyInv
  <2>2. /\ sessionBytes' = sessionBytes + d.bytes
        /\ session' = session /\ prepared' = prepared
    BY <1>7 DEF N!Register
  <2>3. /\ blueprints' = Append(blueprints, c)
        /\ UNCHANGED <<sources, sourceStreams, outcome>>
    BY <2>1 DEF PushStream
  <2>4. /\ session = "open" /\ Declarations \subseteq Among(declared)
        /\ Cardinality(contracts) <= Len(declared)
        /\ prepared \subseteq Among(published) /\ Cardinality(prepared) <= Len(published)
        /\ sessionBytes <= identityBytes
    BY <1>2 DEF AssemblyInv, SessionWithinTrace
  <2>5. /\ blueprints \in Seq(ContractRecord) /\ Len(blueprints) = Len(declared)
        /\ \A i \in 1..Len(declared) : blueprints[i].declaration = declared[i]
        /\ sources = published
    BY <1>2 DEF AssemblyInv, BlueprintsMirror
  <2>6. /\ Len(declared) \in Nat /\ Len(declared') = Len(declared) + 1
        /\ \A i \in 1..Len(declared) : declared'[i] = declared[i]
        /\ declared'[Len(declared) + 1] = d
        /\ Among(declared') = Among(declared) \cup {d}
    BY <1>4, AppendFacts DEF AssemblyInv, TraceInv, TraceTypes
  <2>7. /\ blueprints' \in Seq(ContractRecord) /\ Len(blueprints') = Len(blueprints) + 1
        /\ \A i \in 1..Len(blueprints) : blueprints'[i] = blueprints[i]
        /\ blueprints'[Len(blueprints) + 1] = c
    BY <1>5, <2>3, <2>5, AppendFacts
  <2>8. SessionWithinTrace'
    <3>1. /\ sessionBytes \in Nat /\ identityBytes \in Nat
          /\ Cardinality(contracts) \in Nat /\ d.bytes \in Nat
      BY FS_CardinalityType, KindsDiffer
         DEF AssemblyInv, TraceInv, TraceTypes, SessionInv, SessionTypes, Record
    <3>2. sessionBytes' <= identityBytes' /\ Cardinality(contracts') <= Len(declared')
      BY <1>4, <2>1, <2>2, <2>4, <2>6, <3>1
    <3>3. Among(declared)' = Among(declared') /\ Among(published)' = Among(published)
      BY <1>4 DEF Among
    <3> QED BY <1>4, <2>1, <2>2, <2>4, <2>6, <3>2, <3>3 DEF SessionWithinTrace
  <2>9. BlueprintsMirror'
    <3> SUFFICES ASSUME NEW i \in 1..Len(declared')
                 PROVE  blueprints'[i].declaration = declared'[i]
      BY <1>4, <2>3, <2>5, <2>6, <2>7 DEF BlueprintsMirror
    <3>1. CASE i \in 1..Len(declared)
      BY <2>5, <2>6, <2>7, <3>1
    <3>2. CASE i = Len(declared) + 1
      BY <1>5, <2>5, <2>6, <2>7, <3>2
    <3> QED BY <2>6, <3>1, <3>2
  <2>10. SealedTraceExecutes'
    BY <1>2, <2>3 DEF SealedTraceExecutes, SchedulesSeeStreams, SourcesKeepContracts, Open
  <2> QED BY <1>1, <1>3, <2>8, <2>9, <2>10 DEF AssemblyInv
<1> QED BY <1>2, <1>6, <1>7
        DEF N!RegisterStream, N!RegisterAgain, N!RefuseAuthority, N!FailRegistration, N!Fail,
            N!normalizerVars

LEMMA PushEnvelopeStep ==
  ASSUME AssemblyInv, NEW e \in Envelope, PushEnvelope(e)
  PROVE  AssemblyInv'
<1>1. TraceInv'
  BY EnvelopeKeepsTrace DEF AssemblyInv, PushEnvelope
<1>2. N!PrepareEnvelope(e) /\ Open
  BY DEF PushEnvelope
<1>3. SessionInv'
  BY <1>2, SessionStep DEF AssemblyInv, N!NormalizerNext
<1>4. /\ published' = Append(published, e)
      /\ identityBytes' = identityBytes + e.bytes
      /\ declared' = declared
  BY DEF PushEnvelope, V!AcceptEnvelope
<1>5. CASE N!FailPreparation(e)
  <2>1. outcome' = "failed"
    BY <1>5 DEF PushEnvelope, Fails, N!FailPreparation, N!Fail
  <2> QED BY <1>1, <1>3, <2>1, FailureIsFinal DEF AssemblyInv
<1>6. CASE N!Prepare(e)
  <2>1. /\ prepared' = prepared \cup {e}
        /\ Cardinality(prepared') = Cardinality(prepared) + 1
    BY <1>6, PrepareFacts DEF AssemblyInv
  <2>2. /\ sessionBytes' = sessionBytes + e.bytes
        /\ session' = session /\ contracts' = contracts
    BY <1>6 DEF N!Prepare
  <2>3. /\ session = "open" /\ Declarations \subseteq Among(declared)
        /\ Cardinality(contracts) <= Len(declared)
        /\ prepared \subseteq Among(published) /\ Cardinality(prepared) <= Len(published)
        /\ sessionBytes <= identityBytes
    BY <1>2 DEF AssemblyInv, SessionWithinTrace
  <2>4. /\ sources' = Append(sources, e)
        /\ UNCHANGED <<blueprints, sourceStreams, outcome>>
    BY <2>2, <2>3 DEF PushEnvelope
  <2>5. /\ Len(published) \in Nat /\ Len(published') = Len(published) + 1
        /\ Among(published') = Among(published) \cup {e}
    BY <1>4, AppendFacts DEF AssemblyInv, TraceInv, TraceTypes
  <2>6. Declarations' = Declarations
    BY <2>2 DEF Declarations
  <2>7. SessionWithinTrace'
    <3>1. /\ sessionBytes \in Nat /\ identityBytes \in Nat
          /\ Cardinality(prepared) \in Nat /\ e.bytes \in Nat
      BY FS_CardinalityType, KindsDiffer
         DEF AssemblyInv, TraceInv, TraceTypes, SessionInv, SessionTypes, Record
    <3>2. sessionBytes' <= identityBytes' /\ Cardinality(prepared') <= Len(published')
      BY <1>4, <2>1, <2>2, <2>3, <2>5, <3>1
    <3>3. Among(published)' = Among(published') /\ Among(declared)' = Among(declared)
      BY <1>4 DEF Among
    <3> QED BY <1>4, <2>1, <2>2, <2>3, <2>5, <2>6, <3>2, <3>3 DEF SessionWithinTrace
  <2>8. BlueprintsMirror'
    BY <1>2, <1>4, <2>4 DEF AssemblyInv, BlueprintsMirror
  <2>9. SealedTraceExecutes'
    BY <1>2, <2>4 DEF SealedTraceExecutes, SchedulesSeeStreams, SourcesKeepContracts, Open
  <2> QED BY <1>1, <1>3, <2>7, <2>8, <2>9 DEF AssemblyInv
<1> QED BY <1>2, <1>5, <1>6 DEF N!PrepareEnvelope

(* What the assembler paired record by record binds, and every schedule    *)
(* sees the streams it delivers to.                                        *)
LEMMA FinishStep ==
  ASSUME AssemblyInv, Finish
  PROVE  AssemblyInv'
<1>1. /\ Open /\ records > 0
      /\ UNCHANGED <<validatorVars, blueprints, sources, contracts, prepared,
                     fingerprintBytes, sessionBytes>>
  BY DEF Finish, N!Seal
<1>2. TraceInv' /\ SessionInv'
  BY <1>1, TraceKept, SessionKept DEF AssemblyInv, validatorVars
<1>3. /\ blueprints \in Seq(ContractRecord) /\ Len(blueprints) = Len(declared)
      /\ \A i \in 1..Len(declared) : blueprints[i].declaration = declared[i]
      /\ sources = published
  BY <1>1 DEF AssemblyInv, BlueprintsMirror
<1>4. /\ published \in Seq(Envelope) /\ declared \in Seq(StreamDecl)
      /\ Len(published) \in Nat /\ Len(declared) \in Nat
      /\ DOMAIN published = 1..Len(published) /\ DOMAIN blueprints = 1..Len(declared)
  BY <1>3 DEF AssemblyInv, TraceInv, TraceTypes
<1>5. ASSUME NEW i \in 1..Len(sources)
      PROVE  /\ RouteOf(sources[i]) \in 1..Len(declared)
             /\ IsStreamOf(RouteOf(sources[i]), sources[i])
             /\ \A j \in 1..Len(declared) :
                  declared[j].id = sources[i].stream => RouteOf(sources[i]) = j
  <2>1. PICK j \in 1..Len(declared) : declared[j].id = published[i].stream
    BY <1>3 DEF AssemblyInv, TraceInv, EnvelopesBelong
  <2>2. j \in DOMAIN blueprints /\ IsStreamOf(j, sources[i])
    BY <1>3, <1>4, <2>1 DEF IsStreamOf
  <2>3. /\ RouteOf(sources[i]) \in DOMAIN blueprints
        /\ IsStreamOf(RouteOf(sources[i]), sources[i])
    BY <2>2 DEF RouteOf
  <2>4. declared[RouteOf(sources[i])].id = sources[i].stream
    BY <1>3, <1>4, <2>3 DEF IsStreamOf
  <2> QED BY <1>4, <2>3, <2>4 DEF AssemblyInv, TraceInv, DeclaredOnce
<1>6. Paired
  BY <1>3, <1>4 DEF Paired
<1>7. Routable
  <2> SUFFICES ASSUME NEW i \in 1..Len(sources)
               PROVE  \E k \in DOMAIN blueprints : IsStreamOf(k, sources[i])
    BY <1>3, <1>4 DEF Routable, Among
  <2> QED BY <1>4, <1>5
<1>8. /\ outcome' = "sealed"
      /\ sourceStreams' = [i \in DOMAIN sources |-> RouteOf(sources[i])]
  BY <1>6, <1>7 DEF Finish
<1>9. SessionWithinTrace' /\ BlueprintsMirror'
  BY <1>8 DEF SessionWithinTrace, BlueprintsMirror, Open
<1>10. \A i \in 1..Len(sources) : /\ sourceStreams'[i] = RouteOf(sources[i])
                                  /\ IsStreamOf(sourceStreams'[i], sources[i])
  BY <1>3, <1>4, <1>5, <1>8
<1>11. SchedulesSeeStreams'
  <2> SUFFICES ASSUME NEW n \in 1..Len(schedules)
               PROVE  LET p == schedules[n] IN
                      /\ p.streamPrefix <= Len(blueprints)
                      /\ p.prefix <= Len(sources)
                      /\ \A i \in 1..p.prefix :
                           /\ sourceStreams'[i] <= p.streamPrefix
                           /\ blueprints[sourceStreams'[i]].declaration.id = sources[i].stream
                      /\ p.schedule.targets \subseteq Ids({sources[i] : i \in 1..p.prefix})
    <3>1. DOMAIN schedules = 1..Len(schedules)
      BY DEF AssemblyInv, TraceInv, TraceTypes
    <3>2. Among(schedules)' = {schedules[n] : n \in 1..Len(schedules)}
      BY <1>1, <3>1 DEF Among, validatorVars
    <3> QED BY <1>1, <3>2 DEF SchedulesSeeStreams, IsStreamOf, Ids
  <2> DEFINE p == schedules[n]
  <2>1. SeesItsStreams(p) /\ p \in PlanRecord
    BY DEF AssemblyInv, TraceInv, PlansSeeStreams, TraceTypes
  <2>2. p.streamPrefix \in Nat /\ p.prefix \in Nat
    BY <2>1 DEF PlanRecord
  <2>3. p.streamPrefix <= Len(blueprints) /\ p.prefix <= Len(sources)
    BY <1>3, <2>1 DEF SeesItsStreams
  <2>4. ASSUME NEW i \in 1..p.prefix
        PROVE  /\ sourceStreams'[i] <= p.streamPrefix
               /\ blueprints[sourceStreams'[i]].declaration.id = sources[i].stream
    <3>1. i \in 1..Len(sources)
      BY <1>3, <1>4, <2>2, <2>3
    <3>2. PICK j \in 1..p.streamPrefix : declared[j].id = published[i].stream
      BY <2>1 DEF SeesItsStreams
    <3>3. j \in 1..Len(declared)
      BY <1>3, <1>4, <2>2, <2>3
    <3>4. sourceStreams'[i] = j
      BY <1>3, <1>5, <1>10, <3>1, <3>2, <3>3
    <3> QED BY <1>10, <2>2, <3>1, <3>4 DEF IsStreamOf
  <2>5. p.schedule.targets \subseteq Ids({sources[i] : i \in 1..p.prefix})
    BY <1>3, <2>1 DEF SeesItsStreams
  <2> QED BY <2>3, <2>4, <2>5
<1>12. SourcesKeepContracts'
  <2> SUFFICES ASSUME NEW i \in 1..Len(sources)
               PROVE  /\ \E h \in header : sources[i].evidence \subseteq {h.redaction}
                      /\ sources[i].cursor >= blueprints[sourceStreams'[i]].declaration.initial
    BY <1>1, <1>3, <1>4 DEF SourcesKeepContracts, validatorVars
  <2>1. PICK h \in Header : header = {h}
    BY <1>1 DEF AssemblyInv, TraceInv, HeaderFirst
  <2>2. sources[i].evidence \subseteq {h.redaction}
    BY <1>3, <2>1 DEF AssemblyInv, TraceInv, EnvelopesBelong
  <2>3. PICK j \in 1..Len(declared) : /\ declared[j].id = sources[i].stream
                                      /\ declared[j].initial <= sources[i].cursor
    BY <1>3 DEF AssemblyInv, TraceInv, EnvelopesBelong
  <2>4. sourceStreams'[i] = j
    BY <1>5, <1>10, <2>3
  <2>5. blueprints[j].declaration = declared[j] /\ declared[j].initial \in Nat
    BY <1>3, <1>4, RecordAssumption
  <2>6. sources[i].cursor \in Nat
    BY <1>3, <1>4, RecordAssumption
  <2> QED BY <2>1, <2>2, <2>3, <2>4, <2>5, <2>6
<1>13. SealedTraceExecutes'
  BY <1>8, <1>11, <1>12 DEF SealedTraceExecutes
<1> QED BY <1>2, <1>9, <1>13 DEF AssemblyInv

LEMMA InitHolds == Init => AssemblyInv
<1> SUFFICES ASSUME Init PROVE AssemblyInv
  OBVIOUS
<1> USE DEF Init, V!ValidatorInit, V!NoHeader, N!NormalizerInit
<1>1. TraceInv
  BY DEF TraceInv, TraceTypes, HeaderFirst, DeclaredOnce, EnvelopesBelong, PlansSeeStreams
<1>2. contracts = {} /\ prepared = {} /\ Declarations = {}
  BY DEF Declarations
<1>3. IsFiniteSet({}) /\ Cardinality({}) = 0
  BY FS_EmptySet
<1>4. SessionInv
  <2>1. SessionTypes
    BY <1>2, <1>3 DEF SessionTypes
  <2>2. N!OneContract
    BY <1>2 DEF N!OneContract
  <2>3. Charged
    BY <1>2, NoBytes, KindsDiffer DEF Charged
  <2> QED BY <2>1, <2>2, <2>3 DEF SessionInv
<1>5. SessionWithinTrace
  BY <1>2, <1>3 DEF SessionWithinTrace
<1>6. BlueprintsMirror
  BY DEF BlueprintsMirror
<1>7. SealedTraceExecutes
  BY DEF SealedTraceExecutes, SchedulesSeeStreams, SourcesKeepContracts
<1> QED BY <1>1, <1>4, <1>5, <1>6, <1>7 DEF AssemblyInv

LEMMA StepHolds == AssemblyInv /\ [Next]_vars => AssemblyInv'
<1> SUFFICES ASSUME AssemblyInv, [Next]_vars PROVE AssemblyInv'
  OBVIOUS
<1>1. ASSUME NEW h \in Header, PushHeader(h) PROVE AssemblyInv'
  <2>1. TraceInv' /\ identityBytes \in Nat
    BY <1>1, HeaderKeepsTrace DEF AssemblyInv, PushHeader, TraceInv, TraceTypes
  <2>2. identityBytes' = identityBytes /\ UNCHANGED <<declared, published>>
    BY <1>1 DEF PushHeader, V!AcceptHeader
  <2> QED BY <1>1, <2>1, <2>2, OnlyValidated DEF PushHeader
<1>2. ASSUME NEW d \in StreamDecl, NEW a \in Authority, PushStream(d, a) PROVE AssemblyInv'
  BY <1>2, PushStreamStep
<1>3. ASSUME NEW e \in Envelope, PushEnvelope(e) PROVE AssemblyInv'
  BY <1>3, PushEnvelopeStep
<1>4. ASSUME NEW s \in Schedule, PushSchedule(s) PROVE AssemblyInv'
  <2>1. TraceInv' /\ identityBytes \in Nat
    BY <1>4, ScheduleKeepsTrace DEF AssemblyInv, PushSchedule, TraceInv, TraceTypes
  <2>2. identityBytes' = identityBytes + s.bytes /\ UNCHANGED <<declared, published>>
    BY <1>4 DEF PushSchedule, V!AcceptSchedule
  <2>3. s.bytes \in Nat
    BY KindsDiffer DEF Record
  <2> QED BY <1>4, <2>1, <2>2, <2>3, OnlyValidated DEF PushSchedule
<1>5. ASSUME NEW r \in Record, PushRefused(r) PROVE AssemblyInv'
  <2>1. /\ UNCHANGED <<header, declared, published, schedules, records, identityBytes>>
        /\ UNCHANGED <<contracts, prepared, fingerprintBytes, sessionBytes>>
        /\ outcome' = "failed"
    BY <1>5 DEF PushRefused, V!Refuse, Fails, normalizerVars
  <2> QED BY <2>1, TraceKept, SessionKept, FailureIsFinal DEF AssemblyInv
<1>6. CASE PushMisused \/ FinishEmpty
  <2>1. /\ UNCHANGED <<header, declared, published, schedules, records, identityBytes>>
        /\ UNCHANGED <<contracts, prepared, fingerprintBytes, sessionBytes>>
        /\ outcome' = "failed"
    BY <1>6 DEF PushMisused, FinishEmpty, Fails, normalizerVars, validatorVars
  <2> QED BY <2>1, TraceKept, SessionKept, FailureIsFinal DEF AssemblyInv
<1>7. CASE Finish
  BY <1>7, FinishStep
<1>8. CASE CallDirectly
  <2>1. /\ N!NormalizerNext /\ outcome' = "bypassed"
        /\ UNCHANGED <<header, declared, published, schedules, records, identityBytes>>
    BY <1>8 DEF CallDirectly, validatorVars, assemblerVars
  <2> QED BY <2>1, TraceKept, SessionStep, FailureIsFinal DEF AssemblyInv
<1>9. CASE UNCHANGED vars
  <2>1. /\ UNCHANGED <<header, declared, published, schedules, records, identityBytes>>
        /\ UNCHANGED <<contracts, prepared, fingerprintBytes, sessionBytes, session>>
        /\ UNCHANGED <<blueprints, sources, sourceStreams, outcome>>
    BY <1>9 DEF vars, validatorVars, normalizerVars, assemblerVars
  <2>2. TraceInv' /\ SessionInv'
    BY <2>1, TraceKept, SessionKept DEF AssemblyInv
  <2>3. SessionWithinTrace'
    BY <2>1 DEF AssemblyInv, SessionWithinTrace, Declarations, Among, Open
  <2>4. BlueprintsMirror'
    BY <2>1 DEF AssemblyInv, BlueprintsMirror, Open
  <2>5. SealedTraceExecutes'
    BY <2>1 DEF AssemblyInv, SealedTraceExecutes, SchedulesSeeStreams, SourcesKeepContracts,
                IsStreamOf, Among, Ids
  <2> QED BY <2>2, <2>3, <2>4, <2>5 DEF AssemblyInv
<1> QED BY <1>1, <1>2, <1>3, <1>4, <1>5, <1>6, <1>7, <1>8, <1>9 DEF Next

(* The two layers of the assembler hold one trace, whatever is pushed and  *)
(* whenever the normalizer refuses what the validator accepted             *)
(* (TraceAssembler::push, src/scenario.rs).                                *)
THEOREM AssemblyInvariant == Spec => []AssemblyInv
BY InitHolds, StepHolds, PTL DEF Spec
-----------------------------------------------------------------------------
(* What follows.                                                           *)

LEMMA AgreementFollows == AssemblyInv => LayersAgree
<1> SUFFICES ASSUME AssemblyInv, Open
             PROVE  /\ session = "open"
                    /\ \A d \in StreamDecl : V!AdmitsStream(d) => N!New(d) /\ N!Affordable(d)
                    /\ \A e \in Envelope :
                         V!AdmitsEnvelope(e) /\ N!Hashable(e) => N!Preparable(e)
  BY DEF LayersAgree
<1>1. /\ session = "open" /\ Declarations \subseteq Among(declared)
      /\ Cardinality(contracts) <= Len(declared)
      /\ prepared \subseteq Among(published) /\ Cardinality(prepared) <= Len(published)
      /\ sessionBytes <= identityBytes
  BY DEF AssemblyInv, SessionWithinTrace
<1>2. /\ sessionBytes \in Nat /\ identityBytes \in Nat
      /\ Cardinality(contracts) \in Nat /\ Cardinality(prepared) \in Nat
      /\ Len(declared) \in Nat /\ Len(published) \in Nat
  BY FS_CardinalityType DEF AssemblyInv, TraceInv, TraceTypes, SessionInv, SessionTypes
<1>3. ASSUME NEW d \in StreamDecl, V!AdmitsStream(d) PROVE N!New(d) /\ N!Affordable(d)
  <2>1. /\ \A x \in Among(declared) : d.id # x.id /\ d.scope # x.scope
        /\ Len(declared) < MaxStreams
        /\ identityBytes + d.bytes <= MaxIdentityBytes
    BY <1>3 DEF V!AdmitsStream, V!Identified, V!Among, Among
  <2>2. N!New(d)
    BY <1>1, <2>1 DEF N!New, Declarations
  <2>3. d.bytes \in Nat /\ MaxStreams \in Nat /\ MaxIdentityBytes \in Nat
    BY KindsDiffer DEF Record
  <2>4. Cardinality(contracts) < MaxStreams /\ sessionBytes + d.bytes <= MaxIdentityBytes
    BY <1>1, <1>2, <2>1, <2>3
  <2> QED BY <2>2, <2>4, SameCardinality DEF N!Affordable
<1>4. ASSUME NEW e \in Envelope, V!AdmitsEnvelope(e), N!Hashable(e) PROVE N!Preparable(e)
  <2>1. /\ e.valid
        /\ e.id \notin Ids(Among(published))
        /\ Len(published) < MaxEnvelopes
        /\ identityBytes + e.bytes <= MaxIdentityBytes
    BY <1>4 DEF V!AdmitsEnvelope, V!Positioned, V!Identified, V!Among, Among, V!Ids, Ids
  <2>2. e.id \notin Ids(prepared)
    BY <1>1, <2>1 DEF Ids
  <2>3. e.bytes \in Nat /\ MaxEnvelopes \in Nat /\ MaxIdentityBytes \in Nat
    BY KindsDiffer DEF Record
  <2>4. Cardinality(prepared) < MaxEnvelopes /\ sessionBytes + e.bytes <= MaxIdentityBytes
    BY <1>1, <1>2, <2>1, <2>3
  <2>5. e.id \notin N!Ids(prepared)
    BY <2>2 DEF N!Ids, Ids
  <2> QED BY <1>4, <2>1, <2>4, <2>5, SameCardinality DEF N!Preparable
<1> QED BY <1>1, <1>3, <1>4

LEMMA ChargesFollow == AssemblyInv => ContractsChargedOnce
<1> SUFFICES ASSUME AssemblyInv PROVE N!OneContract /\ N!ChargedOnce
  BY DEF ContractsChargedOnce
<1>1. UNION {{x.declaration} \X (1..x.declaration.bytes) : x \in contracts}
        = UNION {{r} \X (1..r.bytes) : r \in Declarations}
  BY DEF Declarations
<1>2. /\ RecordBytes(Declarations)
           = N!Cardinality(UNION {{x.declaration} \X (1..x.declaration.bytes) : x \in contracts})
      /\ RecordBytes(prepared) = N!Cardinality(UNION {{e} \X (1..e.bytes) : e \in prepared})
  BY <1>1, SameCardinality DEF RecordBytes
<1>3. N!ChargedOnce
  BY <1>2 DEF AssemblyInv, SessionInv, Charged, N!ChargedOnce
<1> QED BY <1>3 DEF AssemblyInv, SessionInv

(* While the assembler is open, a record the validator accepts is refused  *)
(* by the normalizer only for its authority or its canonical bytes         *)
(* (src/state.rs:599-651 repeats src/trace.rs).                            *)
THEOREM LayersNeverDrift == Spec => []LayersAgree
BY AssemblyInvariant, AgreementFollows, PTL

(* A trace that reaches its end binds and every schedule of it executes    *)
(* (src/scenario.rs:452-513).                                              *)
THEOREM SealedExecutes == Spec => []SealedTraceExecutes
<1>1. AssemblyInv => SealedTraceExecutes
  BY DEF AssemblyInv
<1> QED BY <1>1, AssemblyInvariant, PTL

(* One contract per stream identity and cache scope, charged once          *)
(* (src/state.rs:522-651), for the assembler and for a direct caller.      *)
THEOREM ContractsAreChargedOnce == Spec => []ContractsChargedOnce
BY AssemblyInvariant, ChargesFollow, PTL
=============================================================================
