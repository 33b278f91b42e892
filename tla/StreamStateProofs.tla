-------------------------- MODULE StreamStateProofs --------------------------
(***************************************************************************)
(* Type correctness, the safety invariants and the history properties of   *)
(* StreamState, for every range of cursors, set of payloads, ceiling and   *)
(* fingerprint window.                                                     *)
(***************************************************************************)
EXTENDS StreamState, FiniteSetTheorems, TLAPS

(* A view loses authority only together with a recorded cause. *)
TrustLostExplained == ~viewAuthoritative => baselineUnknown \/ equivocationCeiling # None

(* Before the first delivery of an untrusted stream nothing is pending. *)
PartialStartsEmpty == AttachesPartial => Retained(pending) = {}

(* finish only ever lowers the certainty. *)
CertaintyJustified ==
  certainty # "Unknown" => certainty = Classify(baselineUnknown, poisonCeiling, pending)

(* The inductive invariant. *)
IInv == /\ TypeOK
        /\ PendingBytesExact
        /\ CertaintyCurrent
        /\ CertaintyJustified
        /\ TrustLostExplained
        /\ UnavailableAhead
        /\ Drained
        /\ PartialStartsEmpty
        /\ ConflictsPoison
        /\ NoBarrierBuffered
-----------------------------------------------------------------------------
(* What a log of mutations holds.                                          *)

(* Logs joined end to end: the second is applied to what the first left.   *)
LEMMA HeldJoin ==
  ASSUME NEW base, NEW first, NEW second,
         \A f \in first, x \in second : Before(f, x) /\ ~Before(x, f)
  PROVE  Held(Held(base, first), second) = Held(base, first \cup second)
<1>1. ASSUME NEW k \in Key
      PROVE  StoredLast(first \cup second, k)
               <=> StoredLast(second, k) \/ (StoredLast(first, k) /\ Untouched(second, k))
  <2>1. StoredLast(second, k) => StoredLast(first \cup second, k)
    BY DEF StoredLast
  <2>2. StoredLast(first, k) /\ Untouched(second, k) => StoredLast(first \cup second, k)
    BY DEF StoredLast, Untouched
  <2>3. ASSUME NEW x \in first \cup second, Stores(x.op, k),
               \A f \in first \cup second : Before(x, f) => ~Touches(f.op, k)
        PROVE  StoredLast(second, k) \/ (StoredLast(first, k) /\ Untouched(second, k))
    <3>1. CASE x \in second
      BY <2>3, <3>1 DEF StoredLast
    <3>2. CASE x \in first
      BY <2>3, <3>2 DEF StoredLast, Untouched
    <3> QED BY <3>1, <3>2
  <2> QED BY <2>1, <2>2, <2>3 DEF StoredLast
<1>2. ASSUME NEW k \in Key
      PROVE  Untouched(first \cup second, k) <=> Untouched(first, k) /\ Untouched(second, k)
  BY DEF Untouched
<1> QED BY <1>1, <1>2 DEF Held

(* A log that starts with a clear says it all, whatever came before it.    *)
LEMMA HeldFromClear ==
  ASSUME NEW base, NEW other, NEW log, NEW whole, log \subseteq whole,
         NEW e \in log, e.op.kind = "clear",
         \A f \in whole \ log : \A x \in log : ~Before(x, f),
         \A f \in whole \ log : Before(f, e)
  PROVE  Held(base, log) = Held(other, whole)
<1>1. ASSUME NEW k \in Key PROVE ~Untouched(log, k) /\ ~Untouched(whole, k)
  BY DEF Untouched, Touches
<1>2. ASSUME NEW k \in Key PROVE StoredLast(log, k) <=> StoredLast(whole, k)
  <2>1. StoredLast(log, k) => StoredLast(whole, k)
    BY DEF StoredLast
  <2>2. ASSUME NEW x \in whole, Stores(x.op, k),
               \A f \in whole : Before(x, f) => ~Touches(f.op, k)
        PROVE  StoredLast(log, k)
    <3>1. ~Before(x, e)
      BY <2>2 DEF Touches
    <3>2. x \in log
      BY <3>1
    <3> QED BY <2>2, <3>2 DEF StoredLast
  <2> QED BY <2>1, <2>2 DEF StoredLast
<1> QED BY <1>1, <1>2 DEF Held
-----------------------------------------------------------------------------
(* Cursors and slots.                                                      *)

LEMMA CursorFacts ==
  /\ Cursor \subseteq Nat
  /\ None \in Int
  /\ IsFiniteSet(Cursor)
  /\ \A n \in Cursor : n > None /\ n # None
<1>1. InitialCursor \in Nat /\ LastCursor \in Nat
  BY StreamAssumption
<1>2. IsFiniteSet(Cursor)
  BY <1>1, FS_Interval DEF Cursor
<1> QED BY <1>1, <1>2 DEF Cursor, None

LEMMA OptionalFacts ==
  /\ OptionalCursor \subseteq Int
  /\ \A m, n \in OptionalCursor : Larger(m, n) \in OptionalCursor
  /\ \A n \in OptionalCursor : n # None => n \in Cursor /\ n > None
BY CursorFacts DEF OptionalCursor, Larger

LEMMA SlotFacts ==
  /\ {} \in Slot
  /\ \A p, q \in Payload : {p, q} \in Slot
  /\ \A p \in Payload : {p} \in Slot /\ IsCandidate({p}) /\ ~IsConflict({p})
  /\ ~IsConflict({}) /\ ~IsCandidate({})
  /\ \A s \in Slot : s # {} => IsCandidate(s) \/ IsConflict(s)
<1>1. \A p \in Payload : {p} = {p, p}
  OBVIOUS
<1> QED BY <1>1 DEF Slot, IsCandidate, IsConflict

(* Fewer cursors retained need no more room. *)
LEMMA FewerRetained ==
  ASSUME NEW before, NEW after, Retained(after) \subseteq Retained(before)
  PROVE  /\ Cardinality(Retained(after)) \in Nat
         /\ Cardinality(Retained(before)) \in Nat
         /\ Cardinality(Retained(after)) <= Cardinality(Retained(before))
<1>1. Retained(before) \subseteq Cursor
  BY DEF Retained
<1>2. IsFiniteSet(Retained(before))
  BY <1>1, CursorFacts, FS_Subset
<1> QED BY <1>2, FS_Subset, FS_CardinalityType

LEMMA ClassifyType ==
  ASSUME NEW u, NEW n, NEW s
  PROVE  Classify(u, n, s) \in Certainties
BY DEF Classify, Certainties
-----------------------------------------------------------------------------
(* Bytes of the pending slots.                                             *)

ByteSet(slots, C) == UNION {{n} \X (1..SlotSize(slots[n])) : n \in C}

LEMMA SlotSizeType ==
  /\ \A slot : SlotSize(slot) \in Nat
  /\ \A slot : ~IsCandidate(slot) => SlotSize(slot) = 0
  /\ \A p \in Payload : SlotSize({p}) = CanonicalBytes[p]
<1>1. CanonicalBytes \in [Payload -> Nat]
  BY StreamAssumption
<1>2. ASSUME NEW slot, IsCandidate(slot)
      PROVE  (CHOOSE p \in Payload : slot = {p}) \in Payload
  BY <1>2 DEF IsCandidate
<1>3. ASSUME NEW p \in Payload
      PROVE  (CHOOSE q \in Payload : {p} = {q}) = p
  OBVIOUS
<1>4. \A p \in Payload : IsCandidate({p})
  BY DEF IsCandidate
<1> QED BY <1>1, <1>2, <1>3, <1>4 DEF SlotSize

LEMMA SlotBytesType ==
  ASSUME NEW slots, NEW C \in SUBSET Cursor
  PROVE  /\ IsFiniteSet(ByteSet(slots, C))
         /\ SlotBytes(slots, C) = Cardinality(ByteSet(slots, C))
         /\ SlotBytes(slots, C) \in Nat
<1> DEFINE f == [n \in C |-> {n} \X (1..SlotSize(slots[n]))]
           T == {{n} \X (1..SlotSize(slots[n])) : n \in C}
<1>1. IsFiniteSet(C)
  BY CursorFacts, FS_Subset
<1>2. f \in Surjection(C, T)
  BY DEF Surjection
<1>3. IsFiniteSet(T)
  BY <1>1, <1>2, FS_Surjection
<1>4. ASSUME NEW n \in C PROVE IsFiniteSet({n} \X (1..SlotSize(slots[n])))
  <2>1. SlotSize(slots[n]) \in Int
    BY SlotSizeType
  <2>2. IsFiniteSet(1..SlotSize(slots[n]))
    BY <2>1, FS_Interval
  <2>3. IsFiniteSet({n})
    BY FS_Singleton
  <2> QED BY <2>2, <2>3, FS_Product
<1>5. IsFiniteSet(UNION T)
  BY <1>3, <1>4, FS_UNION
<1>6. SlotBytes(slots, C) = Cardinality(ByteSet(slots, C))
  BY DEF SlotBytes, ByteSet
<1> QED BY <1>5, <1>6, FS_CardinalityType DEF ByteSet

(* Bytes of disjoint sets of cursors add up. *)
LEMMA SlotBytesUnion ==
  ASSUME NEW slots, NEW C \in SUBSET Cursor, NEW D \in SUBSET Cursor, C \cap D = {}
  PROVE  SlotBytes(slots, C \cup D) = SlotBytes(slots, C) + SlotBytes(slots, D)
<1>1. ByteSet(slots, C \cup D) = ByteSet(slots, C) \cup ByteSet(slots, D)
  BY DEF ByteSet
<1>2. ByteSet(slots, C) \cap ByteSet(slots, D) = {}
  BY DEF ByteSet
<1>3. /\ IsFiniteSet(ByteSet(slots, C)) /\ IsFiniteSet(ByteSet(slots, D))
      /\ SlotBytes(slots, C) = Cardinality(ByteSet(slots, C))
      /\ SlotBytes(slots, D) = Cardinality(ByteSet(slots, D))
      /\ SlotBytes(slots, C \cup D) = Cardinality(ByteSet(slots, C \cup D))
      /\ SlotBytes(slots, C) \in Nat /\ SlotBytes(slots, D) \in Nat
  BY SlotBytesType
<1>4. Cardinality(ByteSet(slots, C) \cup ByteSet(slots, D))
        = Cardinality(ByteSet(slots, C)) + Cardinality(ByteSet(slots, D)) - Cardinality({})
  BY <1>2, <1>3, FS_Union
<1>5. Cardinality({}) = 0
  BY FS_EmptySet
<1>6. SlotBytes(slots, C \cup D) = Cardinality(ByteSet(slots, C) \cup ByteSet(slots, D))
  BY <1>1, <1>3
<1> QED BY <1>3, <1>4, <1>5, <1>6

(* Only the slots at the counted cursors matter. *)
LEMMA SlotBytesAgree ==
  ASSUME NEW s, NEW t, NEW C \in SUBSET Cursor, \A n \in C : s[n] = t[n]
  PROVE  SlotBytes(s, C) = SlotBytes(t, C)
<1>1. ByteSet(s, C) = ByteSet(t, C)
  BY DEF ByteSet
<1> QED BY <1>1, SlotBytesType

LEMMA SlotBytesNone ==
  ASSUME NEW s, NEW C \in SUBSET Cursor, \A n \in C : ~IsCandidate(s[n])
  PROVE  SlotBytes(s, C) = 0
<1>1. \A n \in C : SlotSize(s[n]) = 0
  BY SlotSizeType
<1>2. ByteSet(s, C) = {}
  BY <1>1 DEF ByteSet
<1> QED BY <1>2, SlotBytesType, FS_EmptySet

LEMMA SlotBytesCandidate ==
  ASSUME NEW s, NEW n \in Cursor, NEW p \in Payload, s[n] = {p}
  PROVE  SlotBytes(s, {n}) = CanonicalBytes[p]
<1>1. CanonicalBytes[p] \in Nat /\ SlotSize(s[n]) = CanonicalBytes[p]
  BY SlotSizeType, StreamAssumption
<1>2. ByteSet(s, {n}) = {n} \X (1..CanonicalBytes[p])
  BY <1>1 DEF ByteSet
<1>3. /\ IsFiniteSet(1..CanonicalBytes[p])
      /\ Cardinality(1..CanonicalBytes[p]) = CanonicalBytes[p]
  BY <1>1, FS_Interval
<1>4. IsFiniteSet({n}) /\ Cardinality({n}) = 1
  BY FS_Singleton
<1>5. Cardinality({n} \X (1..CanonicalBytes[p]))
        = Cardinality({n}) * Cardinality(1..CanonicalBytes[p])
  <2>1. \A S, T : IsFiniteSet(S) /\ IsFiniteSet(T)
                  => Cardinality(S \X T) = Cardinality(S) * Cardinality(T)
    BY FS_Product
  <2> QED BY <1>3, <1>4, <2>1
<1>6. Cardinality({n}) * Cardinality(1..CanonicalBytes[p]) = CanonicalBytes[p]
  BY <1>1, <1>3, <1>4
<1>7. SlotBytes(s, {n}) = Cardinality(ByteSet(s, {n}))
  BY SlotBytesType
<1> QED BY <1>2, <1>5, <1>6, <1>7

(* The total is what is counted at C and what is counted elsewhere. *)
LEMMA SlotBytesSplit ==
  ASSUME NEW s, NEW C \in SUBSET Cursor
  PROVE  /\ SlotBytes(s, Cursor) = SlotBytes(s, C) + SlotBytes(s, Cursor \ C)
         /\ SlotBytes(s, C) \in Nat
         /\ SlotBytes(s, Cursor \ C) \in Nat
<1>1. C \cup (Cursor \ C) = Cursor /\ C \cap (Cursor \ C) = {}
  OBVIOUS
<1> QED BY <1>1, SlotBytesUnion, SlotBytesType
-----------------------------------------------------------------------------
(* Where the entries of a log stand.                                       *)

LEMMA EntryAt ==
  ASSUME NEW c, NEW p \in Payload, NEW start \in Nat, start >= 1,
         NEW e \in Entries(c, Mutations[p], start)
  PROVE  e.at[1] = c /\ e.at[2] \in Int /\ e.at[2] >= start
<1>1. Len(Mutations[p]) \in Nat
  BY StreamAssumption
<1>2. PICK i \in start..Len(Mutations[p]) : e = [at |-> <<c, i>>, op |-> Mutations[p][i]]
  BY DEF Entries
<1>3. e.at[1] = c /\ e.at[2] = i
  BY <1>2
<1> QED BY <1>1, <1>2, <1>3

LEMMA EntryFrom ==
  ASSUME NEW c, NEW p \in Payload, NEW start \in Nat, start >= 1,
         NEW e \in Entries(c, Mutations[p], 1), e.at[2] >= start
  PROVE  e \in Entries(c, Mutations[p], start)
<1>1. Len(Mutations[p]) \in Nat
  BY StreamAssumption
<1>2. PICK i \in 1..Len(Mutations[p]) : e = [at |-> <<c, i>>, op |-> Mutations[p][i]]
  BY DEF Entries
<1>3. e.at[2] = i
  BY <1>2
<1>4. i \in start..Len(Mutations[p])
  BY <1>1, <1>2, <1>3
<1> QED BY <1>2, <1>4 DEF Entries

LEMMA ApplicationEntries ==
  ASSUME TypeOK, NEW c \in Cursor, NEW p \in Payload, NEW start, NEW last \in c..LastCursor, NEW e
  PROVE  e \in ApplicationLog(c, p, start, last) <=>
           \/ e \in Entries(c, Mutations[p], start)
           \/ \E m \in Cursor : /\ c < m /\ m <= last
                                /\ \E q \in pending[m] : e \in Entries(m, Mutations[q], 1)
<1>1. \A m : m \in (c + 1)..last <=> m \in Cursor /\ c < m /\ m <= last
  BY StreamAssumption DEF Cursor
<1> QED BY <1>1 DEF ApplicationLog
-----------------------------------------------------------------------------
(* Diagnostics.                                                            *)

LEMMA CountType ==
  ASSUME TypeOK, NEW kind \in Diagnostic, NEW n \in Nat, Count(kind, n)
  PROVE  /\ diagnostics' \in [Diagnostic -> 0..MaxDiagnosticCount]
         /\ truncated' \in BOOLEAN
<1>1. diagnostics[kind] \in 0..MaxDiagnosticCount /\ MaxDiagnosticCount \in Nat
  BY StreamAssumption DEF TypeOK
<1>2. CASE n > MaxDiagnosticCount - diagnostics[kind]
  BY <1>1, <1>2 DEF TypeOK, Count
<1>3. CASE ~(n > MaxDiagnosticCount - diagnostics[kind])
  <2>1. diagnostics[kind] + n \in 0..MaxDiagnosticCount
    BY <1>1, <1>3
  <2> QED BY <1>3, <2>1 DEF TypeOK, Count
<1> QED BY <1>2, <1>3

LEMMA DiagnosticNames ==
  /\ "duplicates" \in Diagnostic /\ "equivocations" \in Diagnostic
  /\ "stale_unverifiable" \in Diagnostic /\ "stale_barriers" \in Diagnostic
  /\ "missing_removes_exact" \in Diagnostic /\ "missing_removes_partial" \in Diagnostic
  /\ "pending_limits" \in Diagnostic /\ "gap_limits" \in Diagnostic
  /\ "unverifiable_gaps" \in Diagnostic /\ "unclosed_gaps" \in Diagnostic
BY DEF Diagnostic
-----------------------------------------------------------------------------
LEMMA InitInvariant == Init => IInv
<1> SUFFICES ASSUME Init PROVE IInv
  OBVIOUS
<1>1. Retained(pending) = {}
  BY DEF Init, Retained
<1>2. TypeOK
  <2>1. pending \in [Cursor -> Slot] /\ recent \in [Cursor -> Slot]
    BY SlotFacts DEF Init
  <2>2. pendingBytes \in 0..MaxPendingBytes
    BY StreamAssumption DEF Init
  <2>3. diagnostics \in [Diagnostic -> 0..MaxDiagnosticCount]
    BY StreamAssumption DEF Init
  <2>4. baselineUnknown \in BOOLEAN /\ viewAuthoritative \in BOOLEAN
    BY StreamAssumption DEF Init
  <2>5. truncated \in BOOLEAN /\ failed \in BOOLEAN /\ finished \in BOOLEAN
    BY DEF Init
  <2>6. certainty \in Certainties /\ view \in SUBSET Key
    BY DEF Init, Certainties
  <2>7. /\ frontier \in OptionalCursor /\ poisonCeiling \in OptionalCursor
        /\ equivocationCeiling \in OptionalCursor
        /\ unavailableFloor \in OptionalCursor /\ unavailableCeiling \in OptionalCursor
    BY DEF Init, OptionalCursor
  <2>8. Cardinality(Retained(pending)) <= MaxPending
    BY <1>1, FS_EmptySet, StreamAssumption
  <2> QED BY <2>1, <2>2, <2>3, <2>4, <2>5, <2>6, <2>7, <2>8 DEF TypeOK
<1>3. PendingBytesExact
  BY SlotBytesNone, SlotFacts DEF Init, PendingBytesExact
<1>4. CertaintyCurrent /\ CertaintyJustified
  BY <1>1 DEF Init, CertaintyCurrent, CertaintyJustified, Classify, Larger
<1>5. TrustLostExplained
  BY DEF Init, TrustLostExplained
<1>6. UnavailableAhead /\ Drained /\ PartialStartsEmpty
  BY <1>1 DEF Init, UnavailableAhead, Drained, PartialStartsEmpty
<1>7. ConflictsPoison
  BY SlotFacts DEF Init, ConflictsPoison, None
<1>8. NoBarrierBuffered
  BY DEF Init, NoBarrierBuffered
<1> QED BY <1>2, <1>3, <1>4, <1>5, <1>6, <1>7, <1>8 DEF IInv

(* A step that changes no more than diagnostics, flags and, at finish, the *)
(* certainty.                                                              *)
LEMMA QuietStep ==
  ASSUME IInv,
         UNCHANGED <<frontier, baselineUnknown, viewAuthoritative, poison, view,
                     pending, pendingBytes, recent>>,
         diagnostics' \in [Diagnostic -> 0..MaxDiagnosticCount],
         truncated' \in BOOLEAN, failed' \in BOOLEAN, finished' \in BOOLEAN,
         \/ certainty' = certainty /\ finished' = finished
         \/ certainty' = certainty /\ finished'
         \/ certainty' = "Unknown" /\ finished'
  PROVE  IInv'
<1>1. certainty' \in Certainties
  BY DEF IInv, TypeOK, Certainties
<1>2. Retained(pending') = Retained(pending)
  BY DEF Retained
<1>3. TypeOK'
  BY <1>1 DEF IInv, TypeOK, poison
<1>4. PendingBytesExact' /\ TrustLostExplained' /\ NoBarrierBuffered'
  BY DEF IInv, PendingBytesExact, TrustLostExplained, NoBarrierBuffered, poison
<1>5. CertaintyCurrent' /\ CertaintyJustified'
  BY <1>2 DEF IInv, CertaintyCurrent, CertaintyJustified, Classify, poison
<1>6. UnavailableAhead' /\ ConflictsPoison'
  BY DEF IInv, UnavailableAhead, ConflictsPoison, poison
<1>7. Drained' /\ PartialStartsEmpty'
  BY <1>2 DEF IInv, Drained, PartialStartsEmpty, AttachesPartial, Expected, poison
<1> QED BY <1>3, <1>4, <1>5, <1>6, <1>7 DEF IInv

LEMMA DuplicateStep ==
  ASSUME IInv, NEW c \in Cursor, NEW p \in Payload,
         PendingDuplicate(c, p) \/ PastDuplicate(c, p) \/ Stale(c, p)
  PROVE  IInv'
<1>1. PICK kind \in Diagnostic : Count(kind, 1)
  BY DiagnosticNames DEF PendingDuplicate, PastDuplicate, Stale
<1>2. /\ diagnostics' \in [Diagnostic -> 0..MaxDiagnosticCount]
      /\ truncated' \in BOOLEAN
  BY <1>1, CountType DEF IInv
<1>3. /\ UNCHANGED <<frontier, baselineUnknown, viewAuthoritative, poison, view,
                     pending, pendingBytes, recent>>
      /\ certainty' = certainty /\ failed' = failed /\ finished' = finished
  BY DEF PendingDuplicate, PastDuplicate, Stale
<1>4. failed' \in BOOLEAN /\ finished' \in BOOLEAN
  BY <1>3 DEF IInv, TypeOK
<1> QED BY <1>2, <1>3, <1>4, QuietStep

LEMMA FailStep == ASSUME IInv, Fail PROVE IInv'
<1>1. /\ UNCHANGED <<frontier, baselineUnknown, viewAuthoritative, poison, view,
                     pending, pendingBytes, recent>>
      /\ certainty' = certainty /\ finished' = finished
      /\ diagnostics' = diagnostics /\ truncated' = truncated
      /\ failed' \in BOOLEAN
  BY DEF Fail
<1>2. /\ finished' \in BOOLEAN /\ truncated' \in BOOLEAN
      /\ diagnostics' \in [Diagnostic -> 0..MaxDiagnosticCount]
  BY <1>1 DEF IInv, TypeOK
<1> QED BY <1>1, <1>2, QuietStep

LEMMA FinishStep == ASSUME IInv, Finish PROVE IInv'
<1>1. /\ UNCHANGED <<frontier, baselineUnknown, viewAuthoritative, poison, view,
                     pending, pendingBytes, recent>>
      /\ failed' = failed /\ finished' = TRUE
      /\ certainty' \in {certainty, "Unknown"}
  BY DEF Finish
<1>2. /\ diagnostics' \in [Diagnostic -> 0..MaxDiagnosticCount]
      /\ truncated' \in BOOLEAN
  <2>1. CASE Retained(pending) # {}
    BY <2>1, CountType, DiagnosticNames DEF IInv, Finish
  <2>2. CASE Retained(pending) = {}
    BY <2>2 DEF IInv, TypeOK, Finish
  <2> QED BY <2>1, <2>2
<1>3. failed' \in BOOLEAN /\ finished' \in BOOLEAN
  BY <1>1 DEF IInv, TypeOK
<1> QED BY <1>1, <1>2, <1>3, QuietStep

LEMMA StutterStep == ASSUME IInv, UNCHANGED vars PROVE IInv'
<1>1. /\ UNCHANGED <<frontier, baselineUnknown, viewAuthoritative, poison, view,
                     pending, pendingBytes, recent>>
      /\ certainty' = certainty /\ finished' = finished /\ failed' = failed
      /\ diagnostics' = diagnostics /\ truncated' = truncated
  BY DEF vars
<1>2. /\ finished' \in BOOLEAN /\ truncated' \in BOOLEAN /\ failed' \in BOOLEAN
      /\ diagnostics' \in [Diagnostic -> 0..MaxDiagnosticCount]
  BY <1>1 DEF IInv, TypeOK
<1> QED BY <1>1, <1>2, QuietStep
-----------------------------------------------------------------------------
(* Conflicts.                                                              *)

LEMMA SetEquivocationFacts ==
  ASSUME TypeOK, NEW c \in Cursor, SetEquivocation(c)
  PROVE  /\ equivocationCeiling' \in {equivocationCeiling, c}
         /\ equivocationCeiling' \in Cursor
         /\ equivocationCeiling' >= c /\ equivocationCeiling' >= equivocationCeiling
         /\ equivocationCeiling' # None
         /\ poisonCeiling' = Larger(equivocationCeiling', unavailableCeiling')
         /\ poisonCeiling' \in OptionalCursor
         /\ unavailableFloor' = unavailableFloor
         /\ unavailableCeiling' = unavailableCeiling
<1>1. equivocationCeiling \in OptionalCursor /\ unavailableCeiling \in OptionalCursor
  BY DEF TypeOK
<1>2. c \in OptionalCursor
  BY DEF OptionalCursor
<1>3. equivocationCeiling' = Larger(equivocationCeiling, c)
  BY DEF SetEquivocation
<1>4. /\ equivocationCeiling' \in {equivocationCeiling, c}
      /\ equivocationCeiling' >= c /\ equivocationCeiling' >= equivocationCeiling
  BY <1>1, <1>2, <1>3, OptionalFacts DEF Larger
<1>5. equivocationCeiling' \in Cursor
  BY <1>1, <1>4, CursorFacts, OptionalFacts
<1>6. equivocationCeiling' \in OptionalCursor
  BY <1>5 DEF OptionalCursor
<1> QED BY <1>1, <1>4, <1>5, <1>6, CursorFacts, OptionalFacts DEF SetEquivocation

(* The parts of the invariant a conflict step shares. *)
LEMMA ConflictStep ==
  ASSUME IInv, NEW c \in Cursor, SetEquivocation(c), Reclassify,
         frontier' = frontier, baselineUnknown' = baselineUnknown, view' = view,
         failed' = failed, finished' = finished,
         viewAuthoritative' \in {viewAuthoritative, FALSE},
         diagnostics' \in [Diagnostic -> 0..MaxDiagnosticCount],
         truncated' \in BOOLEAN,
         pending' \in [Cursor -> Slot], recent' \in [Cursor -> Slot],
         Retained(pending') = Retained(pending),
         pendingBytes' \in 0..MaxPendingBytes,
         PendingBytesExact', ConflictsPoison', NoBarrierBuffered',
         \A n \in Cursor : IsCandidate(pending'[n]) => IsCandidate(pending[n])
  PROVE  IInv'
<1>1. certainty' = Classify(baselineUnknown', poisonCeiling', pending')
  BY DEF Reclassify
<1>2. TypeOK'
  <2>1. certainty' \in Certainties
    BY <1>1, ClassifyType
  <2>2. /\ equivocationCeiling' \in OptionalCursor /\ poisonCeiling' \in OptionalCursor
        /\ unavailableFloor' \in OptionalCursor /\ unavailableCeiling' \in OptionalCursor
    BY SetEquivocationFacts DEF IInv, TypeOK, OptionalCursor
  <2>3. viewAuthoritative' \in BOOLEAN
    BY DEF IInv, TypeOK
  <2> QED BY <2>1, <2>2, <2>3 DEF IInv, TypeOK
<1>3. CertaintyCurrent' /\ CertaintyJustified'
  BY <1>1, SetEquivocationFacts DEF IInv, CertaintyCurrent, CertaintyJustified
<1>4. TrustLostExplained'
  BY SetEquivocationFacts DEF IInv, TrustLostExplained
<1>5. UnavailableAhead'
  BY SetEquivocationFacts DEF IInv, UnavailableAhead
<1>6. Drained'
  <2> SUFFICES ASSUME NEW n \in Retained(pending')
               PROVE  /\ n > frontier
                      /\ n = Expected /\ IsCandidate(pending'[n]) =>
                           unavailableFloor # None /\ n >= unavailableFloor
    BY SetEquivocationFacts DEF IInv, Drained, Expected
  <2>1. n \in Retained(pending) /\ n \in Cursor
    BY DEF Retained
  <2> QED BY <2>1 DEF IInv, Drained
<1>7. PartialStartsEmpty'
  BY DEF IInv, PartialStartsEmpty, AttachesPartial
<1> QED BY <1>2, <1>3, <1>4, <1>5, <1>6, <1>7 DEF IInv

LEMMA ConflictSlot ==
  ASSUME NEW s \in Slot, NEW p \in Payload, IsCandidate(s), p \notin s
  PROVE  /\ s \cup {p} \in Slot
         /\ IsConflict(s \cup {p})
         /\ ~IsCandidate(s \cup {p})
<1>1. PICK q \in Payload : s = {q}
  BY DEF IsCandidate
<1>2. s \cup {p} = {q, p} /\ q # p
  BY <1>1
<1>3. ~IsCandidate(s \cup {p})
  BY <1>2 DEF IsCandidate
<1> QED BY <1>2, <1>3, SlotFacts DEF IsConflict

LEMMA PendingConflictStep ==
  ASSUME IInv, NEW c \in Cursor, NEW p \in Payload, PendingConflict(c, p)
  PROVE  IInv'
<1>1. /\ pending \in [Cursor -> Slot]
      /\ pending' = [pending EXCEPT ![c] = @ \cup {p}]
      /\ recent' = recent
  BY DEF IInv, TypeOK, PendingConflict
<1>2. /\ pending'[c] = pending[c] \cup {p}
      /\ pending'[c] \in Slot
      /\ IsConflict(pending'[c]) /\ ~IsCandidate(pending'[c])
      /\ pending[c] # {}
  BY <1>1, ConflictSlot, SlotFacts DEF PendingConflict
<1>3. /\ pending' \in [Cursor -> Slot]
      /\ \A n \in Cursor : n # c => pending'[n] = pending[n]
  BY <1>1, <1>2
<1>4. Retained(pending') = Retained(pending)
  BY <1>2, <1>3 DEF Retained
<1>5. pendingBytes' \in 0..MaxPendingBytes /\ PendingBytesExact'
  <2>1. /\ pendingBytes = SlotBytes(pending, {c}) + SlotBytes(pending, Cursor \ {c})
        /\ SlotBytes(pending, {c}) \in Nat /\ SlotBytes(pending, Cursor \ {c}) \in Nat
    BY SlotBytesSplit DEF IInv, PendingBytesExact
  <2>2. SlotBytes(pending', Cursor \ {c}) = SlotBytes(pending, Cursor \ {c})
    BY <1>3, SlotBytesAgree
  <2>3. SlotBytes(pending', {c}) = 0
    BY <1>2, SlotBytesNone
  <2>4. SlotBytes(pending', Cursor) = SlotBytes(pending', {c}) + SlotBytes(pending', Cursor \ {c})
    BY SlotBytesSplit
  <2>5. pendingBytes' = pendingBytes - SlotBytes(pending, {c})
    BY DEF PendingConflict
  <2>6. pendingBytes \in 0..MaxPendingBytes /\ MaxPendingBytes \in Nat
    BY StreamAssumption DEF IInv, TypeOK
  <2>7. pendingBytes' = SlotBytes(pending', Cursor)
    BY <2>1, <2>2, <2>3, <2>4, <2>5
  <2>8. pendingBytes' \in 0..MaxPendingBytes
    BY <2>1, <2>5, <2>6
  <2> QED BY <2>7, <2>8 DEF PendingBytesExact
<1>6. /\ equivocationCeiling' \in {equivocationCeiling, c}
      /\ equivocationCeiling' \in Cursor /\ equivocationCeiling' >= c
      /\ equivocationCeiling' >= equivocationCeiling
      /\ equivocationCeiling \in Int
  BY SetEquivocationFacts, OptionalFacts DEF IInv, TypeOK, PendingConflict
<1>7. ConflictsPoison'
  <2>1. ASSUME NEW n \in Cursor, IsConflict(pending'[n]) \/ IsConflict(recent'[n])
        PROVE  n <= equivocationCeiling'
    <3>1. CASE n = c
      BY <3>1, <1>6, CursorFacts
    <3>2. CASE n # c
      <4>1. n <= equivocationCeiling
        BY <2>1, <3>2, <1>1, <1>3 DEF IInv, ConflictsPoison
      <4> QED BY <4>1, <1>6, CursorFacts
    <3> QED BY <3>1, <3>2
  <2>2. ASSUME equivocationCeiling' > frontier'
        PROVE  IsConflict(pending'[equivocationCeiling'])
    <3>1. CASE equivocationCeiling' = c
      BY <3>1, <1>2
    <3>2. CASE equivocationCeiling' # c
      BY <3>2, <2>2, <1>3, <1>6 DEF IInv, ConflictsPoison, PendingConflict
    <3> QED BY <3>1, <3>2
  <2> QED BY <2>1, <2>2 DEF ConflictsPoison
<1>8. NoBarrierBuffered'
  <2> SUFFICES ASSUME NEW n \in Cursor, NEW q \in Payload, pending'[n] = {q}
               PROVE  ~HasClear(q)
    BY DEF NoBarrierBuffered
  <2>1. n # c
    BY <1>2 DEF IsCandidate
  <2> QED BY <2>1, <1>3 DEF IInv, NoBarrierBuffered
<1>9. /\ diagnostics' \in [Diagnostic -> 0..MaxDiagnosticCount]
      /\ truncated' \in BOOLEAN
  BY CountType, DiagnosticNames DEF IInv, PendingConflict
<1>10. \A n \in Cursor : IsCandidate(pending'[n]) => IsCandidate(pending[n])
  BY <1>2, <1>3
<1>11. recent' \in [Cursor -> Slot]
  BY <1>1 DEF IInv, TypeOK
<1> QED BY <1>3, <1>4, <1>5, <1>7, <1>8, <1>9, <1>10, <1>11, ConflictStep
        DEF PendingConflict

LEMMA PendingAdditionalConflictStep ==
  ASSUME IInv, NEW c \in Cursor, NEW p \in Payload, PendingAdditionalConflict(c, p)
  PROVE  IInv'
<1>1. pending' = pending /\ recent' = recent /\ pendingBytes' = pendingBytes
  BY DEF PendingAdditionalConflict
<1>2. equivocationCeiling' = equivocationCeiling
  <2>1. c <= equivocationCeiling
    BY DEF IInv, ConflictsPoison, PendingAdditionalConflict
  <2> QED BY <2>1, SetEquivocationFacts, CursorFacts, OptionalFacts
          DEF IInv, TypeOK, PendingAdditionalConflict
<1>3. ConflictsPoison' /\ NoBarrierBuffered' /\ PendingBytesExact'
  BY <1>1, <1>2 DEF IInv, ConflictsPoison, NoBarrierBuffered, PendingBytesExact,
                    PendingAdditionalConflict
<1>4. /\ diagnostics' \in [Diagnostic -> 0..MaxDiagnosticCount]
      /\ truncated' \in BOOLEAN
  BY CountType, DiagnosticNames DEF IInv, PendingAdditionalConflict
<1>5. /\ pending' \in [Cursor -> Slot] /\ recent' \in [Cursor -> Slot]
      /\ pendingBytes' \in 0..MaxPendingBytes
      /\ Retained(pending') = Retained(pending)
  BY <1>1 DEF IInv, TypeOK
<1> QED BY <1>1, <1>3, <1>4, <1>5, ConflictStep DEF PendingAdditionalConflict

LEMMA PastConflictStep ==
  ASSUME IInv, NEW c \in Cursor, NEW p \in Payload, PastConflict(c, p)
  PROVE  IInv'
<1>1. pending' = pending /\ pendingBytes' = pendingBytes /\ frontier' = frontier
  BY DEF PastConflict
<1>2. recent \in [Cursor -> Slot]
  BY DEF IInv, TypeOK
<1>3. /\ recent' \in [Cursor -> Slot]
      /\ \A n \in Cursor : n # c => recent'[n] = recent[n]
  <2>1. CASE IsCandidate(recent[c])
    BY <2>1, <1>2, ConflictSlot DEF PastConflict
  <2>2. CASE ~IsCandidate(recent[c])
    BY <2>2, <1>2 DEF PastConflict
  <2> QED BY <2>1, <2>2
<1>4. /\ equivocationCeiling' \in {equivocationCeiling, c}
      /\ equivocationCeiling' \in Cursor /\ equivocationCeiling' >= c
      /\ equivocationCeiling' >= equivocationCeiling
      /\ equivocationCeiling \in Int /\ frontier \in Int
  BY SetEquivocationFacts, OptionalFacts DEF IInv, TypeOK, PastConflict
<1>5. ConflictsPoison'
  <2>1. ASSUME NEW n \in Cursor, IsConflict(pending'[n]) \/ IsConflict(recent'[n])
        PROVE  n <= equivocationCeiling'
    <3>1. CASE n = c
      BY <3>1, <1>4, CursorFacts
    <3>2. CASE n # c
      <4>1. n <= equivocationCeiling
        BY <2>1, <3>2, <1>1, <1>3 DEF IInv, ConflictsPoison
      <4> QED BY <4>1, <1>4, CursorFacts
    <3> QED BY <3>1, <3>2
  <2>2. ASSUME equivocationCeiling' > frontier'
        PROVE  IsConflict(pending'[equivocationCeiling'])
    <3>1. c <= frontier
      BY DEF PastConflict, Past
    <3>2. equivocationCeiling' = equivocationCeiling
      BY <3>1, <2>2, <1>1, <1>4, CursorFacts
    <3> QED BY <3>2, <2>2, <1>1 DEF IInv, ConflictsPoison
  <2> QED BY <2>1, <2>2 DEF ConflictsPoison
<1>6. NoBarrierBuffered' /\ PendingBytesExact'
  BY <1>1 DEF IInv, NoBarrierBuffered, PendingBytesExact
<1>7. /\ diagnostics' \in [Diagnostic -> 0..MaxDiagnosticCount]
      /\ truncated' \in BOOLEAN
  BY CountType, DiagnosticNames DEF IInv, PastConflict
<1>8. /\ pending' \in [Cursor -> Slot] /\ pendingBytes' \in 0..MaxPendingBytes
      /\ Retained(pending') = Retained(pending)
  BY <1>1 DEF IInv, TypeOK
<1> QED BY <1>1, <1>3, <1>5, <1>6, <1>7, <1>8, ConflictStep DEF PastConflict
-----------------------------------------------------------------------------
(* Discarded and buffered deliveries.                                      *)

LEMMA SetUnavailableFacts ==
  ASSUME TypeOK, UnavailableAhead, NEW c \in Cursor, c > frontier, SetUnavailable(c)
  PROVE  /\ unavailableFloor' \in Cursor /\ unavailableCeiling' \in Cursor
         /\ unavailableFloor' <= unavailableCeiling'
         /\ unavailableFloor' > frontier
         /\ unavailableFloor # None => unavailableFloor' <= unavailableFloor
         /\ equivocationCeiling' = equivocationCeiling
         /\ poisonCeiling' = Larger(equivocationCeiling', unavailableCeiling')
         /\ poisonCeiling' \in OptionalCursor
<1>1. /\ unavailableFloor \in OptionalCursor /\ unavailableCeiling \in OptionalCursor
      /\ equivocationCeiling \in OptionalCursor /\ frontier \in OptionalCursor
      /\ c \in OptionalCursor
  BY DEF TypeOK, OptionalCursor
<1>2. unavailableFloor' \in {unavailableFloor, c} /\ unavailableCeiling' \in {unavailableCeiling, c}
  BY DEF SetUnavailable, Larger
<1>3. CASE unavailableFloor = None
  <2>1. unavailableCeiling = None
    BY <1>3 DEF UnavailableAhead
  <2>2. unavailableFloor' = c /\ unavailableCeiling' = c
    BY <1>1, <1>3, <2>1, CursorFacts DEF SetUnavailable, Larger
  <2> QED BY <1>1, <1>3, <2>2, CursorFacts, OptionalFacts DEF SetUnavailable
<1>4. CASE unavailableFloor # None
  <2>1. /\ unavailableFloor \in Cursor /\ unavailableCeiling \in Cursor
        /\ frontier < unavailableFloor /\ unavailableFloor <= unavailableCeiling
    BY <1>1, <1>4, OptionalFacts DEF UnavailableAhead
  <2>2. /\ unavailableFloor' <= c /\ unavailableFloor' <= unavailableFloor
        /\ unavailableCeiling' >= unavailableCeiling
    BY <1>1, <1>4, <2>1, CursorFacts DEF SetUnavailable, Larger
  <2>3. unavailableFloor' \in Cursor /\ unavailableCeiling' \in Cursor
    BY <1>2, <2>1
  <2>4. unavailableCeiling' \in OptionalCursor
    BY <2>3 DEF OptionalCursor
  <2>5. /\ equivocationCeiling' = equivocationCeiling
        /\ poisonCeiling' = Larger(equivocationCeiling', unavailableCeiling')
        /\ poisonCeiling' \in OptionalCursor
    BY <1>1, <2>4, OptionalFacts DEF SetUnavailable
  <2>6. unavailableFloor' <= unavailableCeiling' /\ unavailableFloor' > frontier
    BY <1>1, <1>2, <2>1, <2>2, <2>3, CursorFacts, OptionalFacts
  <2> QED BY <2>2, <2>3, <2>5, <2>6
<1> QED BY <1>3, <1>4

LEMMA DiscardStep ==
  ASSUME IInv, NEW c \in Cursor, NEW kind \in Diagnostic, c > frontier,
         Discard(c, kind)
  PROVE  IInv'
<1>1. /\ UNCHANGED <<frontier, baselineUnknown, viewAuthoritative, view, pending,
                     pendingBytes, recent, failed, finished>>
      /\ SetUnavailable(c)
      /\ certainty' = Classify(baselineUnknown', poisonCeiling', pending')
  BY DEF Discard, Reclassify
<1>2. /\ unavailableFloor' \in Cursor /\ unavailableCeiling' \in Cursor
      /\ unavailableFloor' <= unavailableCeiling' /\ unavailableFloor' > frontier
      /\ unavailableFloor # None => unavailableFloor' <= unavailableFloor
      /\ equivocationCeiling' = equivocationCeiling
      /\ poisonCeiling' = Larger(equivocationCeiling', unavailableCeiling')
      /\ poisonCeiling' \in OptionalCursor
  BY <1>1, SetUnavailableFacts DEF IInv
<1>3. /\ diagnostics' \in [Diagnostic -> 0..MaxDiagnosticCount]
      /\ truncated' \in BOOLEAN
  BY CountType DEF IInv, Discard
<1>4. TypeOK'
  <2>1. certainty' \in Certainties
    BY <1>1, ClassifyType
  <2>2. unavailableFloor' \in OptionalCursor /\ unavailableCeiling' \in OptionalCursor
    BY <1>2 DEF OptionalCursor
  <2> QED BY <1>1, <1>2, <1>3, <2>1, <2>2 DEF IInv, TypeOK
<1>5. PendingBytesExact' /\ TrustLostExplained' /\ NoBarrierBuffered'
  BY <1>1, <1>2 DEF IInv, PendingBytesExact, TrustLostExplained, NoBarrierBuffered
<1>6. CertaintyCurrent' /\ CertaintyJustified'
  BY <1>1, <1>2 DEF CertaintyCurrent, CertaintyJustified
<1>7. UnavailableAhead'
  BY <1>1, <1>2, CursorFacts DEF UnavailableAhead
<1>8. Drained'
  <2> SUFFICES ASSUME NEW n \in Retained(pending)
               PROVE  /\ n > frontier
                      /\ n = Expected /\ IsCandidate(pending[n]) =>
                           unavailableFloor' # None /\ n >= unavailableFloor'
    BY <1>1 DEF Drained, Expected
  <2>1. /\ n \in Cursor /\ n > frontier
        /\ n = Expected /\ IsCandidate(pending[n]) =>
             unavailableFloor # None /\ n >= unavailableFloor
    BY DEF IInv, Drained, Retained
  <2>2. unavailableFloor \in OptionalCursor
    BY DEF IInv, TypeOK
  <2> QED BY <1>2, <2>1, <2>2, CursorFacts, OptionalFacts
<1>9. PartialStartsEmpty' /\ ConflictsPoison'
  BY <1>1, <1>2 DEF IInv, PartialStartsEmpty, AttachesPartial, ConflictsPoison
<1> QED BY <1>4, <1>5, <1>6, <1>7, <1>8, <1>9 DEF IInv

LEMMA PostponedStep ==
  ASSUME IInv, NEW c \in Cursor, NEW p \in Payload,
         UnverifiableGap(c, p) \/ GapLimit(c, p) \/ PendingLimit(c, p)
  PROVE  IInv'
<1>1. c > frontier
  BY DEF UnverifiableGap, GapLimit, PendingLimit, Waits, Admissible, Fresh
<1>2. PICK kind \in Diagnostic : Discard(c, kind)
  BY DiagnosticNames DEF UnverifiableGap, GapLimit, PendingLimit, Discard
<1> QED BY <1>1, <1>2, DiscardStep

(* A delivery that waits is no barrier: a clear applies at once unless it  *)
(* is the expected delivery of an Exact stream.                            *)
LEMMA WaitingIsNoBarrier ==
  ASSUME NEW c \in Cursor, NEW p \in Payload, Waits(c, p)
  PROVE  ~HasClear(p) /\ c > Expected /\ ~AttachesPartial /\ pending[c] = {} /\ c > frontier
BY DEF Waits, Admissible, Fresh, EligibleBarrier

LEMMA BufferStep ==
  ASSUME IInv, NEW c \in Cursor, NEW p \in Payload, Buffer(c, p)
  PROVE  IInv'
<1>1. /\ UNCHANGED <<frontier, baselineUnknown, viewAuthoritative, view, recent,
                     diagnostics, truncated, failed, finished>>
      /\ UNCHANGED poison
      /\ pending' = [pending EXCEPT ![c] = {p}]
      /\ pendingBytes' = pendingBytes + CanonicalBytes[p]
      /\ certainty' = Classify(baselineUnknown', poisonCeiling', pending')
      /\ pending \in [Cursor -> Slot]
  BY DEF Buffer, Reclassify, IInv, TypeOK
<1>2. ~HasClear(p) /\ c > Expected /\ ~AttachesPartial /\ pending[c] = {} /\ c > frontier
  BY WaitingIsNoBarrier DEF Buffer
<1>3. /\ pending'[c] = {p} /\ pending' \in [Cursor -> Slot]
      /\ \A n \in Cursor : n # c => pending'[n] = pending[n]
  BY <1>1, SlotFacts
<1>4. pendingBytes' \in 0..MaxPendingBytes /\ PendingBytesExact'
  <2>1. /\ pendingBytes = SlotBytes(pending, {c}) + SlotBytes(pending, Cursor \ {c})
        /\ SlotBytes(pending, {c}) \in Nat /\ SlotBytes(pending, Cursor \ {c}) \in Nat
    BY SlotBytesSplit DEF IInv, PendingBytesExact
  <2>2. SlotBytes(pending', Cursor \ {c}) = SlotBytes(pending, Cursor \ {c})
    BY <1>3, SlotBytesAgree
  <2>3. SlotBytes(pending, {c}) = 0
    BY <1>2, SlotFacts, SlotBytesNone
  <2>4. SlotBytes(pending', {c}) = CanonicalBytes[p]
    BY <1>3, SlotBytesCandidate
  <2>5. SlotBytes(pending', Cursor) = SlotBytes(pending', {c}) + SlotBytes(pending', Cursor \ {c})
    BY SlotBytesSplit
  <2>6. CanonicalBytes[p] \in Nat /\ MaxPendingBytes \in Nat
    BY StreamAssumption
  <2>7. pendingBytes' = SlotBytes(pending', Cursor)
    BY <1>1, <2>1, <2>2, <2>3, <2>4, <2>5, <2>6
  <2>8. ~(pendingBytes + CanonicalBytes[p] > MaxPendingBytes)
    BY DEF Buffer, Full
  <2>9. pendingBytes' \in 0..MaxPendingBytes
    BY <1>1, <2>1, <2>6, <2>8
  <2> QED BY <2>7, <2>9 DEF PendingBytesExact
<1>5. TypeOK'
  <2>1. certainty' \in Certainties
    BY <1>1, ClassifyType
  <2>2. Cardinality(Retained(pending')) <= MaxPending
    <3>1. Retained(pending') \subseteq Retained(pending) \cup {c} /\ c \notin Retained(pending)
      BY <1>2, <1>3 DEF Retained
    <3>2. Retained(pending') = Retained(pending) \cup {c}
      BY <1>2, <1>3, <3>1 DEF Retained
    <3>3. IsFiniteSet(Retained(pending)) /\ Cardinality(Retained(pending)) \in Nat
      BY CursorFacts, FS_Subset, FS_CardinalityType DEF Retained
    <3>4. Cardinality(Retained(pending) \cup {c}) = Cardinality(Retained(pending)) + 1
      BY <3>1, <3>3, FS_AddElement
    <3>5. ~(Cardinality(Retained(pending)) >= MaxPending)
      BY DEF Buffer, Full
    <3> QED BY <3>2, <3>3, <3>4, <3>5, StreamAssumption
  <2> QED BY <1>1, <1>3, <1>4, <2>1, <2>2 DEF IInv, TypeOK, poison
<1>6. CertaintyCurrent' /\ CertaintyJustified'
  BY <1>1 DEF IInv, CertaintyCurrent, CertaintyJustified, poison
<1>7. TrustLostExplained' /\ UnavailableAhead' /\ PartialStartsEmpty'
  BY <1>1, <1>2 DEF IInv, TrustLostExplained, UnavailableAhead, PartialStartsEmpty,
                    AttachesPartial, poison
<1>8. Drained'
  <2> SUFFICES ASSUME NEW n \in Retained(pending')
               PROVE  /\ n > frontier
                      /\ n = Expected /\ IsCandidate(pending'[n]) =>
                           unavailableFloor # None /\ n >= unavailableFloor
    BY <1>1 DEF Drained, Expected, poison
  <2>1. CASE n = c
    <3>1. frontier \in OptionalCursor
      BY DEF IInv, TypeOK
    <3>2. Expected \in Int
      BY <3>1, OptionalFacts, StreamAssumption DEF Expected
    <3> QED BY <2>1, <1>2, <3>2, CursorFacts
  <2>2. CASE n # c
    <3>1. n \in Cursor /\ pending'[n] = pending[n] /\ n \in Retained(pending)
      BY <2>2, <1>3 DEF Retained
    <3> QED BY <3>1 DEF IInv, Drained
  <2> QED BY <2>1, <2>2
<1>9. ConflictsPoison'
  <2>1. ~IsConflict(pending'[c]) /\ ~IsConflict(pending[c])
    BY <1>2, <1>3, SlotFacts
  <2>2. \A n \in Cursor : IsConflict(pending'[n]) <=> IsConflict(pending[n])
    BY <1>3, <2>1
  <2>3. equivocationCeiling \in OptionalCursor /\ frontier \in OptionalCursor
    BY DEF IInv, TypeOK
  <2>4. ASSUME equivocationCeiling > frontier PROVE IsConflict(pending'[equivocationCeiling])
    <3>1. IsConflict(pending[equivocationCeiling])
      BY <2>4 DEF IInv, ConflictsPoison
    <3>2. equivocationCeiling \in Cursor
      <4>1. frontier >= None
        BY <2>3, CursorFacts DEF OptionalCursor
      <4> QED BY <2>3, <2>4, <4>1, OptionalFacts, CursorFacts
    <3> QED BY <3>1, <3>2, <2>2
  <2> QED BY <1>1, <2>2, <2>4 DEF IInv, ConflictsPoison, poison
<1>10. NoBarrierBuffered'
  <2> SUFFICES ASSUME NEW n \in Cursor, NEW q \in Payload, pending'[n] = {q}
               PROVE  ~HasClear(q)
    BY DEF NoBarrierBuffered
  <2>1. CASE n = c
    BY <2>1, <1>2, <1>3
  <2>2. CASE n # c
    BY <2>2, <1>3 DEF IInv, NoBarrierBuffered
  <2> QED BY <2>1, <2>2
<1> QED BY <1>4, <1>5, <1>6, <1>7, <1>8, <1>9, <1>10 DEF IInv
-----------------------------------------------------------------------------
(* Application.                                                            *)

LEMMA EntriesFinite ==
  ASSUME NEW cursor, NEW ops, Len(ops) \in Nat, NEW start \in Nat
  PROVE  IsFiniteSet(Entries(cursor, ops, start))
<1> DEFINE f == [i \in start..Len(ops) |-> [at |-> <<cursor, i>>, op |-> ops[i]]]
<1>1. IsFiniteSet(start..Len(ops))
  BY FS_Interval
<1>2. f \in Surjection(start..Len(ops), Entries(cursor, ops, start))
  BY DEF Surjection, Entries
<1> QED BY <1>1, <1>2, FS_Surjection

LEMMA ApplicationLogFinite ==
  ASSUME TypeOK, NEW c \in Cursor, NEW p \in Payload, NEW start \in Nat,
         NEW last \in c..LastCursor
  PROVE  IsFiniteSet(ApplicationLog(c, p, start, last))
<1>1. \A q \in Payload : Len(Mutations[q]) \in Nat
  BY StreamAssumption
<1> DEFINE D == (c + 1)..last
           L(n) == {Entries(n, Mutations[q], 1) : q \in pending[n]}
           f == [n \in D |-> UNION L(n)]
           T == {UNION L(n) : n \in D}
<1>2. c \in Nat /\ last \in Nat /\ D \subseteq Cursor
  BY StreamAssumption DEF Cursor
<1>3. ASSUME NEW n \in D PROVE IsFiniteSet(UNION L(n))
  <2>1. pending[n] \in Slot
    BY <1>2 DEF TypeOK
  <2>2. pending[n] \subseteq Payload
    BY <2>1 DEF Slot
  <2>3. IsFiniteSet(pending[n])
    BY <2>2, FS_Subset, StreamAssumption
  <2> DEFINE g == [q \in pending[n] |-> Entries(n, Mutations[q], 1)]
  <2>4. g \in Surjection(pending[n], L(n))
    BY DEF Surjection
  <2>5. IsFiniteSet(L(n))
    BY <2>3, <2>4, FS_Surjection
  <2>6. \A S \in L(n) : IsFiniteSet(S)
    BY <1>1, <2>2, EntriesFinite
  <2> QED BY <2>5, <2>6, FS_UNION
<1>4. IsFiniteSet(D)
  BY <1>2, FS_Interval
<1>5. f \in Surjection(D, T)
  BY DEF Surjection
<1>6. IsFiniteSet(T)
  BY <1>4, <1>5, FS_Surjection
<1>7. IsFiniteSet(UNION T)
  BY <1>3, <1>6, FS_UNION
<1>8. IsFiniteSet(Entries(c, Mutations[p], start))
  BY <1>1, EntriesFinite
<1>9. ApplicationLog(c, p, start, last) = Entries(c, Mutations[p], start) \cup UNION T
  BY DEF ApplicationLog
<1> HIDE DEF T
<1>10. IsFiniteSet(Entries(c, Mutations[p], start) \cup UNION T)
  BY <1>7, <1>8, FS_Union
<1> QED BY <1>9, <1>10

LEMMA MissingRemovesType ==
  ASSUME NEW base, NEW log, IsFiniteSet(log)
  PROVE  MissingRemoves(base, log) \in Nat
<1> DEFINE M == {e \in log : /\ e.op.kind = "remove"
                             /\ e.op.key \notin HeldBefore(base, log, e)}
<1>1. IsFiniteSet(M)
  BY FS_Subset
<1> QED BY <1>1, FS_CardinalityType DEF MissingRemoves

(* Every drained slot is a candidate. *)
LEMMA DrainedSlots ==
  ASSUME NEW c \in Cursor, NEW last \in c..LastCursor, NEW s, DrainsTo(c, last, s)
  PROVE  /\ last \in Cursor /\ c <= last
         /\ (c + 1)..last \subseteq Cursor
         /\ \A n \in (c + 1)..last : IsCandidate(pending[n])
         /\ \A n \in Cursor : n > c /\ n \notin (c + 1)..last => n > last
         /\ \A n \in Cursor : n > last => n > c /\ n \notin (c + 1)..last
BY StreamAssumption DEF DrainsTo, Drainable, Cursor

(* What a commit does to the pending slots and their byte counter. *)
LEMMA CommitPending ==
  ASSUME IInv, NEW c \in Cursor, NEW last \in c..LastCursor, NEW log,
         NEW barrier \in BOOLEAN, Commit(log, c, last, barrier)
  PROVE  /\ pending' \in [Cursor -> Slot]
         /\ \A n \in Cursor : pending'[n] =
              IF n \in (c + 1)..last \/ (barrier /\ n <= c) THEN {} ELSE pending[n]
         /\ Cardinality(Retained(pending')) <= MaxPending
         /\ pendingBytes' \in 0..MaxPendingBytes
         /\ PendingBytesExact'
<1> DEFINE A == (c + 1)..last
           B == IF barrier THEN InitialCursor..c ELSE {}
           D == A \cup B
<1>1. pending' = Undrained(c, last, barrier) /\ pending \in [Cursor -> Slot]
  BY DEF Commit, IInv, TypeOK
<1>2. /\ A \in SUBSET Cursor /\ B \in SUBSET Cursor /\ A \cap B = {}
  BY StreamAssumption DEF Cursor
<1>3. \A n \in Cursor : pending'[n] =
         IF n \in (c + 1)..last \/ (barrier /\ n <= c) THEN {} ELSE pending[n]
  BY <1>1 DEF Undrained
<1>4. pending' \in [Cursor -> Slot]
  BY <1>1, SlotFacts DEF Undrained
<1>5. \A n \in Cursor : n \in D <=> n \in (c + 1)..last \/ (barrier /\ n <= c)
  BY StreamAssumption DEF Cursor
<1>6. D \in SUBSET Cursor
  BY <1>2
<1>7. SlotBytes(pending', D) = 0
  <2>1. \A n \in D : ~IsCandidate(pending'[n])
    BY <1>3, <1>5, <1>6, SlotFacts
  <2> QED BY <1>6, <2>1, SlotBytesNone
<1>8. SlotBytes(pending', Cursor \ D) = SlotBytes(pending, Cursor \ D)
  <2>1. \A n \in Cursor \ D : pending'[n] = pending[n]
    BY <1>3, <1>5
  <2>2. Cursor \ D \in SUBSET Cursor
    OBVIOUS
  <2> QED BY <2>1, <2>2, SlotBytesAgree
<1>9. SlotBytes(pending, D) = SlotBytes(pending, A) + SlotBytes(pending, B)
  BY <1>2, SlotBytesUnion
<1>10. SlotBytes(pending, B) = IF barrier THEN SlotBytes(pending, InitialCursor..c) ELSE 0
  <2>1. SlotBytes(pending, {}) = 0
    BY SlotBytesNone
  <2> QED BY <2>1
<1>11. /\ SlotBytes(pending, Cursor) = SlotBytes(pending, D) + SlotBytes(pending, Cursor \ D)
       /\ SlotBytes(pending', Cursor) = SlotBytes(pending', D) + SlotBytes(pending', Cursor \ D)
       /\ SlotBytes(pending, D) \in Nat /\ SlotBytes(pending, Cursor \ D) \in Nat
  BY <1>6, SlotBytesSplit
<1>12. SlotBytes(pending, A) \in Nat /\ SlotBytes(pending, B) \in Nat
  BY <1>2, SlotBytesType
<1>13. pendingBytes' = pendingBytes - SlotBytes(pending, A) - SlotBytes(pending, B)
  BY <1>10 DEF Commit
<1>14. pendingBytes = SlotBytes(pending, Cursor) /\ pendingBytes \in 0..MaxPendingBytes
  BY DEF IInv, TypeOK, PendingBytesExact
<1> HIDE DEF A, B, D
<1>15. pendingBytes' = SlotBytes(pending', Cursor)
  BY <1>7, <1>8, <1>9, <1>11, <1>12, <1>13, <1>14
<1>16. pendingBytes' \in Nat /\ pendingBytes' <= pendingBytes
  BY <1>9, <1>11, <1>12, <1>13, <1>14
<1>17. pendingBytes' \in 0..MaxPendingBytes
  BY <1>14, <1>16, StreamAssumption
<1>18. Cardinality(Retained(pending')) <= MaxPending
  <2>1. Retained(pending') \subseteq Retained(pending)
    BY <1>3 DEF Retained
  <2>2. Cardinality(Retained(pending)) <= MaxPending
    BY DEF IInv, TypeOK
  <2> QED BY <2>1, <2>2, FewerRetained, StreamAssumption
<1> QED BY <1>3, <1>4, <1>15, <1>17, <1>18 DEF PendingBytesExact

(* The window keeps applied slots only: the delivery, drained candidates   *)
(* and what it held before.                                                *)
LEMMA RetainedSlots ==
  ASSUME TypeOK, NEW slots \in [Cursor -> Slot], NEW c \in Cursor, NEW p \in Payload,
         NEW last \in c..LastCursor, NEW s, DrainsTo(c, last, s)
  PROVE  LET kept == RetainFingerprints(slots, c, p, last)
         IN  /\ kept \in [Cursor -> Slot]
             /\ \A n \in Cursor : IsConflict(kept[n]) => IsConflict(slots[n])
<1> DEFINE filled == [n \in Cursor |-> IF n = c THEN {p}
                                       ELSE IF n \in (c + 1)..last THEN pending[n]
                                       ELSE slots[n]]
           kept == RetainFingerprints(slots, c, p, last)
<1>1. \A n \in Cursor : filled[n] \in Slot
  BY SlotFacts DEF TypeOK
<1>2. \A n \in Cursor : IsConflict(filled[n]) => IsConflict(slots[n])
  BY SlotFacts, DrainedSlots DEF IsConflict
<1>3. kept = [n \in Cursor |-> IF Cardinality({m \in Retained(filled) : m > n}) < Window
                               THEN filled[n] ELSE {}]
  BY DEF RetainFingerprints
<1> HIDE DEF filled, kept
<1>4. /\ kept \in [Cursor -> Slot]
      /\ \A n \in Cursor : kept[n] \in {{}, filled[n]}
  BY <1>1, <1>3, SlotFacts
<1>5. \A n \in Cursor : IsConflict(kept[n]) => IsConflict(slots[n])
  BY <1>2, <1>4, SlotFacts
<1> QED BY <1>4, <1>5 DEF kept

(* What both kinds of application share. *)
LEMMA CommitFacts ==
  ASSUME IInv, NEW c \in Cursor, NEW p \in Payload, NEW last \in c..LastCursor,
         NEW start \in Nat, NEW barrier \in BOOLEAN,
         Commit(ApplicationLog(c, p, start, last), c, last, barrier)
  PROVE  /\ frontier' = last /\ failed' = failed /\ finished' = finished
         /\ view' \in SUBSET Key
         /\ diagnostics' \in [Diagnostic -> 0..MaxDiagnosticCount]
         /\ truncated' \in BOOLEAN
<1> DEFINE log == ApplicationLog(c, p, start, last)
<1>1. TypeOK
  BY DEF IInv
<1>2. IsFiniteSet(log)
  BY <1>1, ApplicationLogFinite
<1> HIDE DEF log
<1>3. MissingRemoves(view, log) \in Nat
  BY <1>2, MissingRemovesType
<1>4. PICK kind \in Diagnostic : Count(kind, MissingRemoves(view, log))
  BY DiagnosticNames DEF Commit, log
<1>5. /\ diagnostics' \in [Diagnostic -> 0..MaxDiagnosticCount]
      /\ truncated' \in BOOLEAN
  BY <1>1, <1>3, <1>4, CountType
<1>6. view' \in SUBSET Key
  BY DEF Commit, Held
<1> QED BY <1>5, <1>6 DEF Commit

(* A delivery in order starts at or right after the frontier, with nothing *)
(* pending up to its cursor and no discarded evidence at or before it.     *)
LEMMA InOrderPosition ==
  ASSUME IInv, NEW c \in Cursor, NEW p \in Payload, AppliesInOrder(c, p)
  PROVE  /\ c > frontier
         /\ \A n \in Retained(pending) : n > c
         /\ unavailableFloor # None => c < unavailableFloor
<1>1. /\ c > frontier /\ pending[c] = {} /\ ~finished
      /\ AttachesPartial \/ c = Expected
      /\ ~UnavailableBlocks(c, p) /\ ~EligibleBarrier(c, p)
  BY DEF AppliesInOrder, Admissible, Fresh, Ready
<1>2. \A n \in Retained(pending) : n > c
  <2>1. CASE AttachesPartial
    BY <2>1 DEF IInv, PartialStartsEmpty
  <2>2. CASE c = Expected
    <3> SUFFICES ASSUME NEW n \in Retained(pending) PROVE n > c
      OBVIOUS
    <3>1. n \in Cursor /\ n > frontier /\ n # c
      BY <1>1 DEF IInv, Drained, Retained
    <3>2. frontier \in OptionalCursor
      BY DEF IInv, TypeOK
    <3>3. CASE frontier = None
      BY <2>2, <3>1, <3>3, StreamAssumption DEF Expected, Cursor
    <3>4. CASE frontier # None
      BY <2>2, <3>1, <3>2, <3>4, OptionalFacts, CursorFacts DEF Expected
    <3> QED BY <3>3, <3>4
  <2> QED BY <1>1, <2>1, <2>2
<1>3. ASSUME unavailableFloor # None, c >= unavailableFloor PROVE FALSE
  <2>1. HasClear(p)
    BY <1>1, <1>3 DEF UnavailableBlocks
  <2>2. unavailableCeiling # None
    BY <1>3 DEF IInv, UnavailableAhead
  <2>3. unavailableCeiling \in OptionalCursor /\ equivocationCeiling \in OptionalCursor
    BY DEF IInv, TypeOK
  <2>4. poisonCeiling # None
    BY <2>2, <2>3, OptionalFacts, CursorFacts DEF IInv, CertaintyCurrent, Larger, OptionalCursor
  <2>5. certainty = "Unknown"
    BY <1>1, <2>4 DEF IInv, CertaintyCurrent, Classify
  <2> QED BY <1>1, <2>1, <2>5 DEF EligibleBarrier
<1>4. unavailableFloor \in OptionalCursor
  BY DEF IInv, TypeOK
<1> QED BY <1>1, <1>2, <1>3, <1>4, OptionalFacts, CursorFacts

LEMMA ApplyInOrderStep ==
  ASSUME IInv, NEW c \in Cursor, NEW p \in Payload, NEW last \in c..LastCursor,
         ApplyInOrder(c, p, last)
  PROVE  IInv'
<1>1. /\ AppliesInOrder(c, p)
      /\ DrainsTo(c, last, FALSE)
      /\ Commit(ApplicationLog(c, p, 1, last), c, last, FALSE)
      /\ recent' = RetainFingerprints(recent, c, p, last)
      /\ UNCHANGED <<baselineUnknown, viewAuthoritative, poison>>
      /\ certainty' = Classify(baselineUnknown', poisonCeiling', pending')
  BY DEF ApplyInOrder, Reclassify
<1>2. /\ frontier' = last /\ failed' = failed /\ finished' = finished
      /\ view' \in SUBSET Key
      /\ diagnostics' \in [Diagnostic -> 0..MaxDiagnosticCount]
      /\ truncated' \in BOOLEAN
  BY <1>1, CommitFacts
<1>3. /\ pending' \in [Cursor -> Slot]
      /\ Cardinality(Retained(pending')) <= MaxPending
      /\ pendingBytes' \in 0..MaxPendingBytes
      /\ PendingBytesExact'
      /\ \A n \in Cursor : pending'[n] = IF n \in (c + 1)..last THEN {} ELSE pending[n]
  BY <1>1, CommitPending
<1>4. /\ last \in Cursor /\ c <= last
      /\ \A n \in (c + 1)..last : IsCandidate(pending[n])
      /\ \A n \in Cursor : n > c /\ n \notin (c + 1)..last => n > last
      /\ \A n \in Cursor : n > last => n > c /\ n \notin (c + 1)..last
  BY <1>1, DrainedSlots
<1>5. /\ recent \in [Cursor -> Slot]
      /\ recent' \in [Cursor -> Slot]
      /\ \A n \in Cursor : IsConflict(recent'[n]) => IsConflict(recent[n])
  BY <1>1, RetainedSlots DEF IInv, TypeOK
<1>6. /\ c > frontier
      /\ \A n \in Retained(pending) : n > c
      /\ unavailableFloor # None => c < unavailableFloor
  BY <1>1, InOrderPosition
<1>7. frontier \in OptionalCursor /\ unavailableFloor \in OptionalCursor
      /\ equivocationCeiling \in OptionalCursor
  BY DEF IInv, TypeOK
<1>8. TypeOK'
  <2>1. certainty' \in Certainties
    BY <1>1, ClassifyType
  <2>2. frontier' \in OptionalCursor
    BY <1>2, <1>4 DEF OptionalCursor
  <2> QED BY <1>1, <1>2, <1>3, <1>5, <2>1, <2>2 DEF IInv, TypeOK, poison
<1>9. CertaintyCurrent' /\ CertaintyJustified'
  BY <1>1 DEF IInv, CertaintyCurrent, CertaintyJustified, poison
<1>10. TrustLostExplained'
  BY <1>1 DEF IInv, TrustLostExplained, poison
<1>11. UnavailableAhead'
  <2>1. ASSUME unavailableFloor # None PROVE last < unavailableFloor
    <3>1. CASE last = c
      BY <3>1, <2>1, <1>6
    <3>2. CASE last # c
      <4>1. last \in (c + 1)..last
        BY <3>2, <1>4, CursorFacts
      <4> QED BY <2>1, <4>1, <1>1 DEF DrainsTo, Drainable
    <3> QED BY <3>1, <3>2
  <2> QED BY <2>1, <1>1, <1>2 DEF IInv, UnavailableAhead, poison
<1>12. Drained'
  <2> SUFFICES ASSUME NEW n \in Retained(pending')
               PROVE  /\ n > last
                      /\ n = last + 1 /\ IsCandidate(pending'[n]) =>
                           unavailableFloor # None /\ n >= unavailableFloor
    BY <1>1, <1>2, <1>4, CursorFacts DEF Drained, Expected, poison
  <2>1. n \in Cursor /\ pending'[n] # {}
    BY SlotFacts DEF Retained
  <2>2. n \notin (c + 1)..last /\ pending'[n] = pending[n] /\ n \in Retained(pending)
    BY <2>1, <1>3 DEF Retained
  <2>3. n > c /\ n > last
    BY <2>1, <2>2, <1>4, <1>6
  <2>4. ASSUME n = last + 1, IsCandidate(pending[n])
        PROVE  unavailableFloor # None /\ n >= unavailableFloor
    <3>1. last < LastCursor
      BY <2>1, <2>4, <1>4, StreamAssumption DEF Cursor
    <3>2. ~Drainable(last + 1, FALSE)
      BY <3>1, <1>1 DEF DrainsTo
    <3>3. unavailableFloor # None /\ ~(n < unavailableFloor)
      BY <3>2, <2>4 DEF Drainable
    <3>4. n \in Int /\ unavailableFloor \in Int
      BY <2>1, <1>7, OptionalFacts, CursorFacts
    <3> QED BY <3>3, <3>4
  <2> QED BY <2>2, <2>3, <2>4
<1>13. PartialStartsEmpty'
  BY <1>2, <1>4, CursorFacts DEF PartialStartsEmpty, AttachesPartial
<1>14. ConflictsPoison'
  <2>1. ASSUME NEW n \in Cursor, IsConflict(pending'[n]) \/ IsConflict(recent'[n])
        PROVE  n <= equivocationCeiling
    <3>1. IsConflict(pending[n]) \/ IsConflict(recent[n])
      BY <2>1, <1>3, <1>5, SlotFacts
    <3> QED BY <3>1 DEF IInv, ConflictsPoison
  <2>2. ASSUME equivocationCeiling > last PROVE IsConflict(pending'[equivocationCeiling])
    <3>1. equivocationCeiling \in Cursor
      BY <2>2, <1>4, <1>7, CursorFacts, OptionalFacts
    <3>2. equivocationCeiling > frontier
      BY <2>2, <3>1, <1>4, <1>6, <1>7, CursorFacts, OptionalFacts
    <3>3. IsConflict(pending[equivocationCeiling])
      BY <3>2 DEF IInv, ConflictsPoison
    <3>4. equivocationCeiling \notin (c + 1)..last
      BY <3>1, <2>2, <1>4
    <3> QED BY <3>1, <3>3, <3>4, <1>3
  <2> QED BY <2>1, <2>2, <1>1, <1>2 DEF ConflictsPoison, poison
<1>15. NoBarrierBuffered'
  <2> SUFFICES ASSUME NEW n \in Cursor, NEW q \in Payload, pending'[n] = {q}
               PROVE  ~HasClear(q)
    BY DEF NoBarrierBuffered
  <2>1. pending[n] = {q}
    BY <1>3
  <2> QED BY <2>1 DEF IInv, NoBarrierBuffered
<1> QED BY <1>3, <1>8, <1>9, <1>10, <1>11, <1>12, <1>13, <1>14, <1>15 DEF IInv

(* A barrier either passes all discarded evidence or stays below it. *)
LEMMA BarrierPosition ==
  ASSUME IInv, NEW c \in Cursor, NEW p \in Payload, NEW last \in c..LastCursor,
         AppliesAsBarrier(c, p), DrainsTo(c, last, Supersedes(c))
  PROVE  /\ c > frontier
         /\ ~(unavailableCeiling < c) =>
              /\ unavailableFloor # None /\ ~Supersedes(c) /\ last < unavailableFloor
<1>1. c > frontier /\ ~UnavailableBlocks(c, p) /\ HasClear(p)
  BY DEF AppliesAsBarrier, Admissible, Fresh, EligibleBarrier
<1>2. unavailableFloor \in OptionalCursor /\ unavailableCeiling \in OptionalCursor
  BY DEF IInv, TypeOK
<1>3. ASSUME ~(unavailableCeiling < c)
      PROVE  unavailableFloor # None /\ ~Supersedes(c) /\ last < unavailableFloor
  <2>1. unavailableCeiling # None /\ c <= unavailableCeiling
    BY <1>2, <1>3, OptionalFacts, CursorFacts
  <2>2. unavailableFloor # None
    BY <2>1 DEF IInv, UnavailableAhead
  <2>3. ~(c >= unavailableFloor)
    BY <1>1, <2>1, <2>2 DEF UnavailableBlocks
  <2>4. ~Supersedes(c)
    BY <1>2, <1>3, <2>1, OptionalFacts, CursorFacts DEF Supersedes
  <2>5. last < unavailableFloor
    <3>1. CASE last = c
      BY <3>1, <2>2, <2>3, <1>2, OptionalFacts, CursorFacts
    <3>2. CASE last # c
      <4>1. last \in (c + 1)..last
        BY <3>2, DrainedSlots, CursorFacts
      <4> QED BY <2>2, <2>4, <4>1 DEF DrainsTo, Drainable
    <3> QED BY <3>1, <3>2
  <2> QED BY <2>2, <2>4, <2>5
<1> QED BY <1>1, <1>3

LEMMA ApplyBarrierStep ==
  ASSUME IInv, NEW c \in Cursor, NEW p \in Payload, NEW last \in c..LastCursor,
         NEW start \in Clears(p), ApplyBarrier(c, p, last, start)
  PROVE  IInv'
<1>1. /\ AppliesAsBarrier(c, p)
      /\ DrainsTo(c, last, Supersedes(c))
      /\ Commit(ApplicationLog(c, p, start, last), c, last, TRUE)
      /\ recent' = RetainFingerprints([n \in Cursor |-> {}], c, p, last)
      /\ baselineUnknown' = FALSE /\ viewAuthoritative' = TRUE
      /\ equivocationCeiling' = IF equivocationCeiling < c THEN None ELSE equivocationCeiling
      /\ IF unavailableCeiling < c
           THEN unavailableFloor' = None /\ unavailableCeiling' = None
           ELSE UNCHANGED <<unavailableFloor, unavailableCeiling>>
      /\ poisonCeiling' = Larger(equivocationCeiling', unavailableCeiling')
      /\ certainty' = Classify(baselineUnknown', poisonCeiling', pending')
  BY DEF ApplyBarrier, SupersedePoison, Reclassify
<1>2. start \in Nat
  BY DEF Clears
<1>3. /\ frontier' = last /\ failed' = failed /\ finished' = finished
      /\ view' \in SUBSET Key
      /\ diagnostics' \in [Diagnostic -> 0..MaxDiagnosticCount]
      /\ truncated' \in BOOLEAN
  BY <1>1, <1>2, CommitFacts
<1>4. /\ pending' \in [Cursor -> Slot]
      /\ Cardinality(Retained(pending')) <= MaxPending
      /\ pendingBytes' \in 0..MaxPendingBytes
      /\ PendingBytesExact'
      /\ \A n \in Cursor : pending'[n] =
           IF n \in (c + 1)..last \/ n <= c THEN {} ELSE pending[n]
  BY <1>1, CommitPending
<1>5. /\ last \in Cursor /\ c <= last
      /\ \A n \in (c + 1)..last : IsCandidate(pending[n])
      /\ \A n \in Cursor : n > c /\ n \notin (c + 1)..last => n > last
      /\ \A n \in Cursor : n > last => n > c /\ n \notin (c + 1)..last
  BY <1>1, DrainedSlots
<1>6. /\ recent' \in [Cursor -> Slot]
      /\ \A n \in Cursor : ~IsConflict(recent'[n])
  <2> DEFINE none == [n \in Cursor |-> {}]
  <2>1. none \in [Cursor -> Slot] /\ \A n \in Cursor : ~IsConflict(none[n])
    BY SlotFacts
  <2>2. TypeOK
    BY DEF IInv
  <2> HIDE DEF none
  <2>3. recent' = RetainFingerprints(none, c, p, last)
    BY <1>1 DEF none
  <2>4. DrainsTo(c, last, Supersedes(c))
    BY <1>1
  <2>5. /\ RetainFingerprints(none, c, p, last) \in [Cursor -> Slot]
        /\ \A n \in Cursor : IsConflict(RetainFingerprints(none, c, p, last)[n])
                               => IsConflict(none[n])
    BY <2>1, <2>2, <2>4, RetainedSlots
  <2> QED BY <2>1, <2>3, <2>5
<1>7. /\ c > frontier
      /\ ~(unavailableCeiling < c) =>
           /\ unavailableFloor # None /\ ~Supersedes(c) /\ last < unavailableFloor
  BY <1>1, BarrierPosition
<1>8. /\ frontier \in OptionalCursor /\ unavailableFloor \in OptionalCursor
      /\ unavailableCeiling \in OptionalCursor /\ equivocationCeiling \in OptionalCursor
      /\ None \in OptionalCursor
  BY DEF IInv, TypeOK, OptionalCursor
<1>9. /\ unavailableFloor' \in OptionalCursor /\ unavailableCeiling' \in OptionalCursor
      /\ equivocationCeiling' \in OptionalCursor
  BY <1>1, <1>8
<1>10. TypeOK'
  <2>1. certainty' \in Certainties
    BY <1>1, ClassifyType
  <2>2. frontier' \in OptionalCursor
    BY <1>3, <1>5 DEF OptionalCursor
  <2>3. poisonCeiling' \in OptionalCursor
    BY <1>1, <1>9, OptionalFacts
  <2>4. baselineUnknown' \in BOOLEAN /\ viewAuthoritative' \in BOOLEAN
    BY <1>1
  <2>5. failed' \in BOOLEAN /\ finished' \in BOOLEAN
    BY <1>3 DEF IInv, TypeOK
  <2> QED BY <1>3, <1>4, <1>6, <1>9, <2>1, <2>2, <2>3, <2>4, <2>5 DEF TypeOK
<1>11. CertaintyCurrent' /\ CertaintyJustified'
  BY <1>1 DEF CertaintyCurrent, CertaintyJustified
<1>12. TrustLostExplained'
  BY <1>1 DEF TrustLostExplained
<1>13. UnavailableAhead'
  <2>1. CASE unavailableCeiling < c
    BY <2>1, <1>1 DEF UnavailableAhead
  <2>2. CASE ~(unavailableCeiling < c)
    BY <2>2, <1>1, <1>3, <1>7 DEF IInv, UnavailableAhead
  <2> QED BY <2>1, <2>2
<1>14. Drained'
  <2> SUFFICES ASSUME NEW n \in Retained(pending')
               PROVE  /\ n > last
                      /\ n = last + 1 /\ IsCandidate(pending'[n]) =>
                           unavailableFloor' # None /\ n >= unavailableFloor'
    BY <1>3, <1>5, CursorFacts DEF Drained, Expected
  <2>1. n \in Cursor /\ pending'[n] # {}
    BY DEF Retained
  <2>2. n \notin (c + 1)..last /\ ~(n <= c) /\ pending'[n] = pending[n]
    BY <2>1, <1>4
  <2>3. n > last
    BY <2>1, <2>2, <1>5, CursorFacts
  <2>4. ASSUME n = last + 1, IsCandidate(pending[n])
        PROVE  unavailableFloor' # None /\ n >= unavailableFloor'
    <3>1. last < LastCursor
      BY <2>1, <2>4, <1>5, StreamAssumption DEF Cursor
    <3>2. ~Drainable(last + 1, Supersedes(c))
      BY <3>1, <1>1 DEF DrainsTo
    <3>3. ~Supersedes(c) /\ unavailableFloor # None /\ ~(n < unavailableFloor)
      BY <3>2, <2>4 DEF Drainable
    <3>4. ~(unavailableCeiling < c)
      <4>1. unavailableCeiling # None
        BY <3>3 DEF IInv, UnavailableAhead
      <4> QED BY <3>3, <4>1, <1>8, OptionalFacts, CursorFacts DEF Supersedes
    <3>5. unavailableFloor' = unavailableFloor
      BY <3>4, <1>1
    <3> QED BY <3>3, <3>5, <2>1, <1>8, OptionalFacts, CursorFacts
  <2> QED BY <2>2, <2>3, <2>4
<1>15. PartialStartsEmpty'
  BY <1>3, <1>5, CursorFacts DEF PartialStartsEmpty, AttachesPartial
<1>16. ConflictsPoison'
  <2>1. ASSUME NEW n \in Cursor, IsConflict(pending'[n])
        PROVE  n <= equivocationCeiling'
    <3>1. ~(n <= c) /\ IsConflict(pending[n])
      BY <2>1, <1>4, SlotFacts
    <3>2. n <= equivocationCeiling
      BY <3>1 DEF IInv, ConflictsPoison
    <3>3. ~(equivocationCeiling < c)
      BY <3>1, <3>2, <1>8, OptionalFacts, CursorFacts
    <3> QED BY <3>2, <3>3, <1>1
  <2>2. ASSUME equivocationCeiling' > last PROVE IsConflict(pending'[equivocationCeiling'])
    <3>1. equivocationCeiling' \in Cursor
      BY <2>2, <1>5, <1>9, CursorFacts, OptionalFacts
    <3>2. equivocationCeiling' = equivocationCeiling
      BY <3>1, <1>1, CursorFacts
    <3>3. equivocationCeiling > frontier
      BY <2>2, <3>1, <3>2, <1>5, <1>7, <1>8, CursorFacts, OptionalFacts
    <3>4. IsConflict(pending[equivocationCeiling])
      BY <3>3 DEF IInv, ConflictsPoison
    <3>5. equivocationCeiling \notin (c + 1)..last /\ ~(equivocationCeiling <= c)
      BY <3>1, <3>2, <2>2, <1>5, CursorFacts
    <3> QED BY <3>1, <3>2, <3>4, <3>5, <1>4
  <2> QED BY <2>1, <2>2, <1>3, <1>6 DEF ConflictsPoison
<1>17. NoBarrierBuffered'
  <2> SUFFICES ASSUME NEW n \in Cursor, NEW q \in Payload, pending'[n] = {q}
               PROVE  ~HasClear(q)
    BY DEF NoBarrierBuffered
  <2>1. pending[n] = {q}
    BY <1>4
  <2> QED BY <2>1 DEF IInv, NoBarrierBuffered
<1> QED BY <1>4, <1>10, <1>11, <1>12, <1>13, <1>14, <1>15, <1>16, <1>17 DEF IInv
-----------------------------------------------------------------------------
(* Theorems.                                                               *)

LEMMA NextInvariant == IInv /\ [Next]_vars => IInv'
<1> SUFFICES ASSUME IInv, [Next]_vars PROVE IInv'
  OBVIOUS
<1>1. ASSUME NEW c \in Cursor, NEW p \in Payload, Admit(c, p)
      PROVE  IInv'
  <2>1. CASE Redeliver(c, p)
    BY <2>1, DuplicateStep, PendingConflictStep, PendingAdditionalConflictStep,
       PastConflictStep DEF Redeliver
  <2>2. CASE Postpone(c, p)
    BY <2>2, PostponedStep, BufferStep DEF Postpone
  <2>3. ASSUME NEW last \in c..LastCursor, Apply(c, p, last)
        PROVE  IInv'
    BY <2>3, ApplyInOrderStep, ApplyBarrierStep DEF Apply
  <2>4. ASSUME NEW last \in c..LastCursor, RejectOverflow(c, p, last)
        PROVE  IInv'
    BY <2>4, FailStep DEF RejectOverflow
  <2> QED BY <1>1, <2>1, <2>2, <2>3, <2>4 DEF Admit
<1>2. CASE RejectOutOfScope
  BY <1>2, FailStep DEF RejectOutOfScope
<1>3. CASE Finish
  BY <1>3, FinishStep
<1>4. CASE UNCHANGED vars
  BY <1>4, StutterStep
<1> QED BY <1>1, <1>2, <1>3, <1>4 DEF Next

(* The strengthening every theorem below follows from holds throughout the *)
(* fold, for every ceiling and every sequence of deliveries.               *)
THEOREM StreamInvariant == Spec => []IInv
<1>1. Init => IInv
  BY InitInvariant
<1>2. IInv /\ [Next]_vars => IInv'
  BY NextInvariant
<1> QED BY <1>1, <1>2, PTL DEF Spec

(* The fold keeps its types: in particular pending_bytes stays within the  *)
(* configured ceiling and every diagnostic within max_diagnostic_count.    *)
THEOREM StreamTypes == Spec => []TypeOK
<1>1. IInv => TypeOK
  BY DEF IInv
<1> QED BY <1>1, StreamInvariant, PTL

(* The certainty a caller reads before finish is the one the poison, the   *)
(* baseline and the pending slots determine: no handler forgets to call    *)
(* recompute_certainty or recompute_poison.                                *)
THEOREM CertaintyIsCurrent == Spec => []CertaintyCurrent
<1>1. IInv => CertaintyCurrent
  BY DEF IInv
<1> QED BY <1>1, StreamInvariant, PTL

(* A stream reported Exact or Recovering has an authoritative view.        *)
THEOREM CertainViewIsAuthoritative == Spec => []CertainIsAuthoritative
<1>1. ASSUME IInv, certainty # "Unknown" PROVE viewAuthoritative
  <2>1. ~baselineUnknown /\ poisonCeiling = None
    BY <1>1 DEF IInv, CertaintyJustified, Classify
  <2>2. equivocationCeiling \in OptionalCursor /\ unavailableCeiling \in OptionalCursor
    BY <1>1 DEF IInv, TypeOK
  <2>3. equivocationCeiling = None
    BY <1>1, <2>1, <2>2, CursorFacts, OptionalFacts
       DEF IInv, CertaintyCurrent, Larger, OptionalCursor
  <2> QED BY <1>1, <2>1, <2>3 DEF IInv, TrustLostExplained
<1>2. IInv => CertainIsAuthoritative
  BY <1>1 DEF CertainIsAuthoritative
<1> QED BY <1>2, StreamInvariant, PTL

(* Discarded evidence is an interval beyond the frontier: neither a drain  *)
(* nor a barrier applies a cursor inside it and keeps it.                  *)
THEOREM DiscardedEvidenceIsAhead == Spec => []UnavailableAhead
<1>1. IInv => UnavailableAhead
  BY DEF IInv
<1> QED BY <1>1, StreamInvariant, PTL

(* Every contiguous clean candidate has been applied, unless discarded     *)
(* evidence lies at or before it.                                          *)
THEOREM ContiguousIsDrained == Spec => []Drained
<1>1. IInv => Drained
  BY DEF IInv
<1> QED BY <1>1, StreamInvariant, PTL

(* A retained conflict poisons the stream, and a poison beyond the         *)
(* frontier is a retained conflict.                                        *)
THEOREM RetainedConflictsPoison == Spec => []ConflictsPoison
<1>1. IInv => ConflictsPoison
  BY DEF IInv
<1> QED BY <1>1, StreamInvariant, PTL

(* No clear waits in a clean pending slot, so drains apply no barrier.     *)
THEOREM BarriersNeverWait == Spec => []NoBarrierBuffered
<1>1. IInv => NoBarrierBuffered
  BY DEF IInv
<1> QED BY <1>1, StreamInvariant, PTL

(* What waits has a reason to wait, whatever the ceilings: the two facts   *)
(* above together.                                                         *)
THEOREM WaitingIsJustified == Spec => []WaitsWithReason
<1>1. Drained /\ NoBarrierBuffered => WaitsWithReason
  BY DEF WaitsWithReason
<1> QED BY <1>1, ContiguousIsDrained, BarriersNeverWait, PTL

(* pending_bytes is the total of the pending candidates, so subtracting    *)
(* the bytes of a slot or of a drained range never underflows.             *)
THEOREM PendingBytesAreExact == Spec => []PendingBytesExact
<1>1. IInv => PendingBytesExact
  BY DEF IInv
<1> QED BY <1>1, StreamInvariant, PTL
-----------------------------------------------------------------------------
(* What the fold keeps of its past: poison until a barrier passes it, and  *)
(* the fingerprints of the newest cursors.                                 *)

(* What is wrong with a stream that is not finished and yet Unknown.       *)
Blamed == baselineUnknown \/ poisonCeiling # None

LEMMA UnknownIsBlamed == ASSUME IInv, Ready, certainty = "Unknown" PROVE Blamed
<1>1. certainty = Classify(baselineUnknown, poisonCeiling, pending)
  BY DEF IInv, CertaintyCurrent, Ready
<1> QED BY <1>1 DEF Classify, Blamed

LEMMA BlameKeepsUnknown ==
  ASSUME Blamed', Reclassify
  PROVE  certainty' = "Unknown"
BY DEF Blamed, Reclassify, Classify

LEMMA AccusedIsBlamed ==
  ASSUME TypeOK, NEW c \in Cursor, SetEquivocation(c)
  PROVE  Blamed'
<1>1. /\ equivocationCeiling' \in Cursor
      /\ unavailableCeiling' \in OptionalCursor
      /\ poisonCeiling' = Larger(equivocationCeiling', unavailableCeiling')
  BY SetEquivocationFacts DEF TypeOK
<1> QED BY <1>1, CursorFacts, OptionalFacts DEF Larger, Blamed

LEMMA DiscardedIsBlamed ==
  ASSUME IInv, NEW c \in Cursor, c > frontier, SetUnavailable(c)
  PROVE  Blamed'
<1>1. /\ unavailableCeiling' \in Cursor
      /\ equivocationCeiling' \in OptionalCursor
      /\ poisonCeiling' = Larger(equivocationCeiling', unavailableCeiling')
  BY SetUnavailableFacts DEF IInv, TypeOK
<1> QED BY <1>1, CursorFacts, OptionalFacts DEF Larger, Blamed

(* Only an application as a barrier can lift what is blamed.               *)
LEMMA PostponedStaysUnknown ==
  ASSUME IInv, certainty = "Unknown", NEW c \in Cursor, NEW p \in Payload,
         Redeliver(c, p) \/ Postpone(c, p)
  PROVE  certainty' = "Unknown"
<1>1. Ready => Blamed
  BY UnknownIsBlamed
<1>2. TypeOK
  BY DEF IInv
<1>3. CASE PendingDuplicate(c, p) \/ PastDuplicate(c, p) \/ Stale(c, p)
  BY <1>3 DEF PendingDuplicate, PastDuplicate, Stale
<1>4. CASE PendingConflict(c, p)
  BY <1>2, <1>4, AccusedIsBlamed, BlameKeepsUnknown DEF PendingConflict
<1>5. CASE PendingAdditionalConflict(c, p)
  BY <1>2, <1>5, AccusedIsBlamed, BlameKeepsUnknown DEF PendingAdditionalConflict
<1>6. CASE PastConflict(c, p)
  BY <1>2, <1>6, AccusedIsBlamed, BlameKeepsUnknown DEF PastConflict
<1>7. CASE UnverifiableGap(c, p)
  BY <1>7, DiscardedIsBlamed, BlameKeepsUnknown DEF UnverifiableGap, Fresh
<1>8. CASE Buffer(c, p)
  <2>1. Blamed' /\ Reclassify
    BY <1>1, <1>8 DEF Buffer, Waits, Admissible, Blamed, poison
  <2> QED BY <2>1, BlameKeepsUnknown
<1>9. CASE GapLimit(c, p) \/ PendingLimit(c, p)
  <2>1. c > frontier /\ SetUnavailable(c) /\ Reclassify
    BY <1>9 DEF GapLimit, PendingLimit, Discard, Waits, Admissible, Fresh
  <2> QED BY <2>1, DiscardedIsBlamed, BlameKeepsUnknown
<1> QED BY <1>3, <1>4, <1>5, <1>6, <1>7, <1>8, <1>9 DEF Redeliver, Postpone

LEMMA InOrderStaysUnknown ==
  ASSUME IInv, certainty = "Unknown", NEW c \in Cursor, NEW p \in Payload,
         NEW last, ApplyInOrder(c, p, last)
  PROVE  certainty' = "Unknown"
<1>1. Blamed
  BY UnknownIsBlamed DEF ApplyInOrder, AppliesInOrder, Admissible
<1>2. Blamed' /\ Reclassify
  BY <1>1 DEF ApplyInOrder, Blamed, poison
<1> QED BY <1>2, BlameKeepsUnknown

(* A barrier moves the frontier to its cursor at least, and what is left   *)
(* of the poison keeps the stream Unknown.                                 *)
LEMMA BarrierPassesPoison ==
  ASSUME IInv, NEW c \in Cursor, NEW p \in Payload, NEW last \in c..LastCursor,
         NEW start \in Clears(p), ApplyBarrier(c, p, last, start), certainty' # "Unknown"
  PROVE  viewAuthoritative' /\ frontier' > frontier /\ frontier' > poisonCeiling
<1>1. /\ c > frontier /\ frontier' = last /\ viewAuthoritative'
      /\ SupersedePoison(c) /\ Reclassify
  BY DEF ApplyBarrier, AppliesAsBarrier, Admissible, Fresh, Commit
<1>2. /\ equivocationCeiling \in OptionalCursor /\ unavailableCeiling \in OptionalCursor
      /\ frontier \in OptionalCursor
      /\ poisonCeiling = Larger(equivocationCeiling, unavailableCeiling)
  BY DEF IInv, TypeOK, CertaintyCurrent
<1>3. poisonCeiling' = None
  BY <1>1 DEF Reclassify, Classify
<1>4. equivocationCeiling < c /\ unavailableCeiling < c
  BY <1>1, <1>2, <1>3, CursorFacts, OptionalFacts DEF SupersedePoison, Larger
<1>5. last \in Int /\ last >= c
  BY CursorFacts, StreamAssumption
<1> QED BY <1>1, <1>2, <1>4, <1>5, CursorFacts, OptionalFacts DEF Larger

(* Neither a late delivery that closes the gap nor a drain clears poison:  *)
(* a stream leaves Unknown only as a barrier beyond all of it is applied.  *)
THEOREM UnknownNeedsBarrier == Spec => UnknownIsSticky
<1> DEFINE Sticky == certainty = "Unknown" /\ certainty' # "Unknown" =>
                       viewAuthoritative' /\ frontier' > frontier /\ frontier' > poisonCeiling
<1>1. ASSUME IInv, [Next]_vars PROVE Sticky
  <2> SUFFICES ASSUME certainty = "Unknown", certainty' # "Unknown"
               PROVE  viewAuthoritative' /\ frontier' > frontier /\ frontier' > poisonCeiling
    OBVIOUS
  <2>1. PICK c \in Cursor, p \in Payload : Admit(c, p)
    BY <1>1 DEF Next, RejectOutOfScope, Fail, Finish, vars
  <2>2. PICK last \in c..LastCursor : Apply(c, p, last)
    BY <1>1, <2>1, PostponedStaysUnknown DEF Admit, RejectOverflow, Fail
  <2> QED BY <1>1, <2>2, InOrderStaysUnknown, BarrierPassesPoison DEF Apply
<1>2. ASSUME IInv, [Next]_vars PROVE [Sticky]_vars
  BY <1>1, <1>2
<1>3. [][Sticky]_vars => UnknownIsSticky
  BY PTL DEF UnknownIsSticky
<1> QED BY <1>2, <1>3, StreamInvariant, PTL DEF Spec
-----------------------------------------------------------------------------
(* The window after an application.  Before it, the window is dense up to  *)
(* the cursor applied; after it, dense up to the last one drained.         *)
LEMMA WindowIsSuffix ==
  ASSUME TypeOK, NEW c \in Cursor, NEW p \in Payload, NEW last \in c..LastCursor,
         NEW s, DrainsTo(c, last, s), NEW slots \in [Cursor -> Slot],
         \A n \in Retained(slots) : n < c /\ n..(c - 1) \subseteq Retained(slots)
  PROVE  LET covered == Retained(RetainFingerprints(slots, c, p, last))
         IN  /\ Cardinality(covered) <= Window
             /\ \A n \in covered : n <= last /\ n..last \subseteq covered
             /\ Window > 0 => last \in covered
<1> DEFINE filled == [n \in Cursor |-> IF n = c THEN {p}
                                       ELSE IF n \in (c + 1)..last THEN pending[n]
                                       ELSE slots[n]]
           F == Retained(filled)
           kept == RetainFingerprints(slots, c, p, last)
           covered == Retained(kept)
<1>1. /\ last \in Cursor /\ c <= last /\ Cursor \subseteq Nat
      /\ c..last \subseteq Cursor /\ Window \in Nat
      /\ \A m, n \in Cursor : m..n \subseteq Cursor
  BY DrainedSlots, CursorFacts, StreamAssumption DEF Cursor
<1>2. \A n \in (c + 1)..last : pending[n] # {}
  BY DrainedSlots DEF IsCandidate
<1>3. \A n \in Cursor : n \in F <=> n \in c..last \/ n \in Retained(slots)
  BY <1>1, <1>2 DEF Retained
<1>4. F \subseteq Cursor /\ Retained(slots) \subseteq Cursor
  BY DEF Retained
<1>5. \A n \in F : n <= last /\ n..last \subseteq F
  <2> SUFFICES ASSUME NEW n \in F PROVE n <= last /\ n..last \subseteq F
    OBVIOUS
  <2>1. CASE n \in c..last
    BY <1>1, <1>3, <2>1
  <2>2. CASE n \in Retained(slots)
    <3>1. n < c /\ n..(c - 1) \subseteq Retained(slots) /\ n \in Cursor
      BY <1>4, <2>2
    <3>2. ASSUME NEW m \in n..last PROVE m \in F
      <4>1. m \in n..(c - 1) \/ m \in c..last
        BY <1>1, <3>1
      <4> QED BY <1>1, <1>3, <1>4, <3>1, <4>1
    <3> QED BY <1>1, <3>1, <3>2
  <2> QED BY <1>3, <1>4, <2>1, <2>2
<1>6. kept = [n \in Cursor |-> IF Cardinality({m \in F : m > n}) < Window
                               THEN filled[n] ELSE {}]
  BY DEF RetainFingerprints
<1>7. \A n \in F : Cardinality({m \in F : m > n}) = last - n
  <2> SUFFICES ASSUME NEW n \in F PROVE Cardinality({m \in F : m > n}) = last - n
    OBVIOUS
  <2>1. n \in Nat /\ n <= last /\ last \in Nat /\ F \subseteq Nat
    BY <1>1, <1>4, <1>5
  <2>2. {m \in F : m > n} = (n + 1)..last
    <3>1. \A m \in F : m > n => m \in (n + 1)..last
      BY <1>5, <2>1
    <3>2. \A m \in (n + 1)..last : m \in n..last /\ m > n
      BY <2>1
    <3> QED BY <1>5, <3>1, <3>2
  <2>3. Cardinality((n + 1)..last) = IF n + 1 > last THEN 0 ELSE last - (n + 1) + 1
    BY <2>1, FS_Interval
  <2>4. Cardinality((n + 1)..last) = last - n
    BY <2>1, <2>3
  <2> QED BY <2>2, <2>4
<1>8. \A n \in Cursor : n \in F <=> filled[n] # {}
  BY DEF Retained
<1>9. last \in F
  BY <1>1, <1>3
<1> HIDE DEF filled, F, kept
<1>10. \A n \in Cursor : n \in covered <=> n \in F /\ last - n < Window
  BY <1>6, <1>7, <1>8 DEF Retained
<1>11. covered \subseteq Cursor
  BY DEF Retained
<1> HIDE DEF covered
<1>12. covered \subseteq (last - Window + 1)..last
  BY <1>1, <1>5, <1>10, <1>11
<1>13. Cardinality(covered) <= Window
  <2> DEFINE I == (last - Window + 1)..last
  <2>1. /\ IsFiniteSet(I)
        /\ Cardinality(I) = IF last - Window + 1 > last THEN 0 ELSE last - (last - Window + 1) + 1
    BY <1>1, FS_Interval
  <2>2. Cardinality(I) = Window
    BY <1>1, <2>1
  <2> HIDE DEF I
  <2>3. Cardinality(covered) <= Cardinality(I)
    BY <1>12, <2>1, FS_Subset DEF I
  <2> QED BY <2>2, <2>3
<1>14. ASSUME NEW n \in covered PROVE n <= last /\ n..last \subseteq covered
  <2>1. n \in F /\ last - n < Window /\ n \in Cursor
    BY <1>10, <1>11
  <2>2. \A m \in n..last : m \in F /\ m \in Cursor /\ last - m < Window
    BY <1>1, <1>5, <2>1
  <2> QED BY <1>5, <1>10, <2>1, <2>2
<1>15. Window > 0 => last \in covered
  BY <1>1, <1>9, <1>10
<1> QED BY <1>13, <1>14, <1>15 DEF covered, kept

LEMMA SameWindow ==
  ASSUME RecentSuffix, frontier' = frontier, Retained(recent)' = Retained(recent)
  PROVE  RecentSuffix'
BY DEF RecentSuffix

LEMMA RedeliveryKeepsWindow ==
  ASSUME IInv, RecentSuffix, NEW c \in Cursor, NEW p \in Payload,
         Redeliver(c, p) \/ Postpone(c, p)
  PROVE  RecentSuffix'
<1>1. CASE UNCHANGED <<frontier, recent>>
  <2>1. Retained(recent)' = Retained(recent)
    BY <1>1 DEF Retained
  <2> QED BY <1>1, <2>1, SameWindow
<1>2. CASE PastConflict(c, p)
  <2>1. /\ frontier' = frontier /\ recent[c] # {}
        /\ recent' = recent \/ recent' = [recent EXCEPT ![c] = @ \cup {p}]
    BY <1>2 DEF PastConflict
  <2>2. recent \in [Cursor -> Slot]
    BY DEF IInv, TypeOK
  <2>3. Retained(recent)' = Retained(recent)
    BY <2>1, <2>2 DEF Retained
  <2> QED BY <2>1, <2>3, SameWindow
<1>3. CASE PendingDuplicate(c, p) \/ PendingConflict(c, p) \/ PendingAdditionalConflict(c, p)
  BY <1>1, <1>3 DEF PendingDuplicate, PendingConflict, PendingAdditionalConflict
<1>4. CASE PastDuplicate(c, p) \/ Stale(c, p)
  BY <1>1, <1>4 DEF PastDuplicate, Stale
<1>5. CASE Postpone(c, p)
  BY <1>1, <1>5 DEF Postpone, UnverifiableGap, Buffer, GapLimit, PendingLimit, Discard
<1> QED BY <1>2, <1>3, <1>4, <1>5 DEF Redeliver

LEMMA ApplicationMovesWindow ==
  ASSUME IInv, RecentSuffix, NEW c \in Cursor, NEW p \in Payload,
         NEW last \in c..LastCursor, Apply(c, p, last)
  PROVE  RecentSuffix'
<1>1. TypeOK
  BY DEF IInv
<1>2. recent \in [Cursor -> Slot] /\ frontier \in OptionalCursor
  BY <1>1 DEF TypeOK
<1>3. ASSUME NEW slots \in [Cursor -> Slot], NEW s, DrainsTo(c, last, s),
             frontier' = last, recent' = RetainFingerprints(slots, c, p, last),
             \A n \in Retained(slots) : n < c /\ n..(c - 1) \subseteq Retained(slots)
      PROVE  RecentSuffix'
  BY <1>1, <1>3, WindowIsSuffix DEF RecentSuffix
<1>4. CASE ApplyInOrder(c, p, last)
  <2>1. /\ DrainsTo(c, last, FALSE) /\ frontier' = last
        /\ recent' = RetainFingerprints(recent, c, p, last)
        /\ frontier = None \/ c = frontier + 1
    BY <1>4 DEF ApplyInOrder, AppliesInOrder, Commit, AttachesPartial, Expected
  <2>2. Retained(recent) \subseteq Cursor
    BY DEF Retained
  <2>3. CASE frontier = None
    <3>1. Retained(recent) = {}
      BY <2>2, <2>3, CursorFacts DEF RecentSuffix
    <3> QED BY <1>2, <1>3, <2>1, <3>1
  <2>4. CASE frontier # None /\ c = frontier + 1
    <3>1. frontier \in Int /\ c - 1 = frontier
      BY <1>2, <2>4, OptionalFacts
    <3>2. \A n \in Retained(recent) : n <= frontier /\ n..frontier \subseteq Retained(recent)
      BY DEF RecentSuffix
    <3>3. ASSUME NEW n \in Retained(recent) PROVE n < c
      <4>1. n <= frontier
        BY <3>2
      <4>2. n \in Cursor
        BY <2>2
      <4>3. n \in Int
        BY <4>2, CursorFacts
      <4> QED BY <2>4, <3>1, <4>1, <4>3
    <3>4. \A n \in Retained(recent) : n < c /\ n..(c - 1) \subseteq Retained(recent)
      BY <3>1, <3>2, <3>3
    <3> QED BY <1>2, <1>3, <2>1, <3>4
  <2> QED BY <2>1, <2>3, <2>4
<1>5. CASE \E start \in Clears(p) : ApplyBarrier(c, p, last, start)
  <2> DEFINE none == [n \in Cursor |-> {}]
  <2>1. /\ DrainsTo(c, last, Supersedes(c)) /\ frontier' = last
        /\ recent' = RetainFingerprints(none, c, p, last)
    BY <1>5 DEF ApplyBarrier, Commit
  <2>2. none \in [Cursor -> Slot] /\ Retained(none) = {}
    BY SlotFacts DEF Retained
  <2> QED BY <1>3, <2>1, <2>2
<1> QED BY <1>4, <1>5 DEF Apply

(* The fingerprints retained are those of the newest applied cursors,      *)
(* without a hole, for every size of the window: what a redelivery can no  *)
(* longer be verified against is older than all that is kept.              *)
THEOREM WindowIsNewest == Spec => []RecentSuffix
<1>1. Init => RecentSuffix
  <2> SUFFICES ASSUME Init PROVE RecentSuffix
    OBVIOUS
  <2>1. frontier = None /\ Retained(recent) = {}
    BY DEF Init, Retained
  <2>2. Cardinality({}) = 0 /\ Window \in Nat
    BY FS_EmptySet, StreamAssumption
  <2> QED BY <2>1, <2>2 DEF RecentSuffix
<1>2. IInv /\ RecentSuffix /\ [Next]_vars => RecentSuffix'
  <2> SUFFICES ASSUME IInv, RecentSuffix, [Next]_vars PROVE RecentSuffix'
    OBVIOUS
  <2>1. CASE UNCHANGED <<frontier, recent>>
    <3>1. Retained(recent)' = Retained(recent)
      BY <2>1 DEF Retained
    <3> QED BY <2>1, <3>1, SameWindow
  <2>2. CASE UNCHANGED vars \/ RejectOutOfScope \/ Finish
    BY <2>1, <2>2 DEF vars, RejectOutOfScope, Fail, Finish
  <2>3. ASSUME NEW c \in Cursor, NEW p \in Payload, Admit(c, p) PROVE RecentSuffix'
    BY <2>1, <2>3, RedeliveryKeepsWindow, ApplicationMovesWindow DEF Admit, RejectOverflow, Fail
  <2> QED BY <2>2, <2>3 DEF Next
<1> QED BY <1>1, <1>2, StreamInvariant, PTL DEF Spec
=============================================================================
