----------------------- MODULE CacheTransactionProofs ------------------------
(***************************************************************************)
(* The overlay of CacheTransaction is correct for every set of keys, every *)
(* ceiling and every list of mutations, and implements the atomic update.  *)
(***************************************************************************)
EXTENDS CacheTransaction, FiniteSetTheorems, TLAPS

(* The inductive invariant: what Contains sees is what CommitPlan would write, *)
(* which only holds while the overlay is disjoint from the base.           *)
IInv == TransactionTypeOK /\ OverlayDisjoint /\ CountsExact /\ ProjectsLog

Entry(op) == [at |-> <<0, Len(ops) + 1>>, op |-> op]

(* e comes after everything in log. *)
Newest(log, e) == /\ ~Before(e, e)
                  /\ \A f \in log : Before(f, e) /\ ~Before(e, f)

KeyBytesOf(k) == {k} \X (1..KeyBytes[k])
-----------------------------------------------------------------------------
(* What a log of mutations holds.                                         *)

(* One more mutation: the key it stores is held, and of the others those   *)
(* it does not touch.                                                      *)
LEMMA HeldExtend ==
  ASSUME NEW first, NEW log, NEW e, Newest(log, e)
  PROVE  Held(first, log \cup {e}) =
           {k \in Key : \/ Stores(e.op, k)
                        \/ k \in Held(first, log) /\ ~Touches(e.op, k)}
<1>1. ASSUME NEW k \in Key
      PROVE  StoredLast(log \cup {e}, k)
               <=> \/ Stores(e.op, k)
                   \/ StoredLast(log, k) /\ ~Touches(e.op, k)
  <2>1. Stores(e.op, k) => StoredLast(log \cup {e}, k)
    BY DEF StoredLast, Newest
  <2>2. StoredLast(log, k) /\ ~Touches(e.op, k) => StoredLast(log \cup {e}, k)
    BY DEF StoredLast, Newest
  <2>3. ASSUME StoredLast(log \cup {e}, k), ~Stores(e.op, k)
        PROVE  StoredLast(log, k) /\ ~Touches(e.op, k)
    <3>1. PICK x \in log \cup {e} :
            /\ Stores(x.op, k)
            /\ \A f \in log \cup {e} : Before(x, f) => ~Touches(f.op, k)
      BY <2>3 DEF StoredLast
    <3>2. x \in log
      BY <3>1, <2>3
    <3>3. Before(x, e)
      BY <3>2 DEF Newest
    <3> QED BY <3>1, <3>2, <3>3 DEF StoredLast
  <2> QED BY <2>1, <2>2, <2>3
<1>2. ASSUME NEW k \in Key
      PROVE  Untouched(log \cup {e}, k) <=> Untouched(log, k) /\ ~Touches(e.op, k)
  BY DEF Untouched
<1> QED BY <1>1, <1>2 DEF Held

(* What is held before an entry that is newer than the whole log. *)
LEMMA HeldBeforeNewest ==
  ASSUME NEW first, NEW log, NEW e, Newest(log, e)
  PROVE  HeldBefore(first, log \cup {e}, e) = Held(first, log)
<1>1. Preceding(log \cup {e}, e) = log
  BY DEF Preceding, Newest
<1> QED BY <1>1 DEF HeldBefore

LEMMA HeldNothing ==
  ASSUME NEW first \in SUBSET Key
  PROVE  Held(first, {}) = first
BY DEF Held, StoredLast, Untouched
-----------------------------------------------------------------------------
(* How many bytes a set of keys takes.                                     *)

LEMMA KeyBytesOfFinite ==
  ASSUME NEW k \in Key
  PROVE  /\ IsFiniteSet(KeyBytesOf(k))
         /\ Cardinality(KeyBytesOf(k)) = KeyBytes[k]
<1>1. KeyBytes[k] \in Nat
  BY KeyAssumption
<1>2. ASSUME NEW n \in Nat PROVE IsFiniteSet(1..n) /\ Cardinality(1..n) = n
  BY FS_Interval
<1>3. IsFiniteSet({k}) /\ Cardinality({k}) = 1
  BY FS_Singleton
<1>4. /\ IsFiniteSet({k} \X (1..KeyBytes[k]))
      /\ Cardinality({k} \X (1..KeyBytes[k]))
           = Cardinality({k}) * Cardinality(1..KeyBytes[k])
  BY <1>1, <1>2, <1>3, FS_Product
<1>5. Cardinality({k}) * Cardinality(1..KeyBytes[k]) = KeyBytes[k]
  BY <1>1, <1>2, <1>3
<1> QED BY <1>4, <1>5 DEF KeyBytesOf

LEMMA IdentityBytesFinite ==
  ASSUME NEW keys \in SUBSET Key
  PROVE  /\ IsFiniteSet(UNION {KeyBytesOf(k) : k \in keys})
         /\ IdentityBytes(keys) = Cardinality(UNION {KeyBytesOf(k) : k \in keys})
         /\ IdentityBytes(keys) \in Nat
<1> DEFINE f == [k \in keys |-> KeyBytesOf(k)]
           T == {KeyBytesOf(k) : k \in keys}
<1>1. IsFiniteSet(keys)
  BY KeyAssumption, FS_Subset
<1>2. f \in Surjection(keys, T)
  BY DEF Surjection
<1>3. IsFiniteSet(T)
  BY <1>1, <1>2, FS_Surjection
<1>4. \A S \in T : IsFiniteSet(S)
  BY KeyBytesOfFinite
<1>5. IsFiniteSet(UNION T)
  BY <1>3, <1>4, FS_UNION
<1>6. IdentityBytes(keys) = Cardinality(UNION T)
  BY DEF IdentityBytes, KeyBytesOf
<1> QED BY <1>5, <1>6, FS_CardinalityType

(* A key that was not held adds its own bytes. *)
LEMMA IdentityBytesAdd ==
  ASSUME NEW keys \in SUBSET Key, NEW k \in Key, k \notin keys
  PROVE  IdentityBytes(keys \cup {k}) = IdentityBytes(keys) + KeyBytes[k]
<1> DEFINE B(ks) == UNION {KeyBytesOf(x) : x \in ks}
<1>1. B(keys \cup {k}) = B(keys) \cup KeyBytesOf(k)
  OBVIOUS
<1>2. B(keys) \cap KeyBytesOf(k) = {}
  BY DEF KeyBytesOf
<1>3. IsFiniteSet(B(keys)) /\ IsFiniteSet(KeyBytesOf(k))
  BY IdentityBytesFinite, KeyBytesOfFinite
<1>4. Cardinality(B(keys) \cup KeyBytesOf(k))
        = Cardinality(B(keys)) + Cardinality(KeyBytesOf(k)) - Cardinality({})
  BY <1>2, <1>3, FS_Union
<1>5. Cardinality({}) = 0
  BY FS_EmptySet
<1>6. /\ IdentityBytes(keys) = Cardinality(B(keys))
      /\ IdentityBytes(keys) \in Nat
      /\ IdentityBytes(keys \cup {k}) = Cardinality(B(keys \cup {k}))
  BY IdentityBytesFinite
<1>7. Cardinality(KeyBytesOf(k)) = KeyBytes[k] /\ KeyBytes[k] \in Nat
  BY KeyBytesOfFinite, KeyAssumption
<1>8. IdentityBytes(keys \cup {k}) = Cardinality(B(keys) \cup KeyBytesOf(k))
  BY <1>1, <1>6
<1> HIDE DEF B
<1>9. IdentityBytes(keys \cup {k}) = IdentityBytes(keys) + KeyBytes[k] - 0
  BY <1>4, <1>5, <1>6, <1>7, <1>8
<1> QED BY <1>6, <1>7, <1>9

LEMMA IdentityBytesRemove ==
  ASSUME NEW keys \in SUBSET Key, NEW k \in keys
  PROVE  IdentityBytes(keys \ {k}) = IdentityBytes(keys) - KeyBytes[k]
<1>1. (keys \ {k}) \cup {k} = keys
  OBVIOUS
<1>2. IdentityBytes((keys \ {k}) \cup {k}) = IdentityBytes(keys \ {k}) + KeyBytes[k]
  BY IdentityBytesAdd
<1>3. IdentityBytes(keys \ {k}) \in Nat /\ KeyBytes[k] \in Nat
  BY IdentityBytesFinite, KeyAssumption
<1>4. IdentityBytes(keys) = IdentityBytes(keys \ {k}) + KeyBytes[k]
  BY <1>1, <1>2
<1> QED BY <1>3, <1>4

LEMMA IdentityBytesNone == IdentityBytes({}) = 0
<1>1. UNION {{k} \X (1..KeyBytes[k]) : k \in {}} = {}
  OBVIOUS
<1> QED BY <1>1, FS_EmptySet DEF IdentityBytes
-----------------------------------------------------------------------------
(* The overlay.                                                            *)

LEMMA ContainsCommitted ==
  ASSUME TransactionTypeOK, OverlayDisjoint, NEW k \in Key
  PROVE  Contains(k) <=> k \in Committed
BY DEF TransactionTypeOK, OverlayDisjoint, Contains, Committed

(* Taking a mutation appends one entry, newer than the rest. *)
LEMMA LogAppend ==
  ASSUME TransactionTypeOK, NEW op \in Mutation, ops' = Append(ops, op)
  PROVE  Log' = Log \cup {Entry(op)} /\ Newest(Log, Entry(op))
<1>1. ops \in Seq(Mutation) /\ Len(ops) \in Nat
  BY DEF TransactionTypeOK
<1>2. /\ Len(ops') = Len(ops) + 1
      /\ \A i \in 1..Len(ops) : ops'[i] = ops[i]
      /\ ops'[Len(ops) + 1] = op
  BY <1>1
<1>3. 1..Len(ops') = (1..Len(ops)) \cup {Len(ops) + 1}
  BY <1>1, <1>2
<1>4. Log' = Log \cup {Entry(op)}
  BY <1>2, <1>3 DEF Log, Entries, Entry
<1>5. Newest(Log, Entry(op))
  BY <1>1 DEF Newest, Log, Entries, Entry, Before
<1> QED BY <1>4, <1>5

LEMMA OpsAppend ==
  ASSUME TransactionTypeOK, Open, NEW op \in Mutation, ops' = Append(ops, op)
  PROVE  /\ ops' \in Seq(Mutation)
         /\ Len(ops') = Len(ops) + 1
         /\ Len(ops) \in Nat
<1>1. ops \in Seq(Mutation) /\ Len(ops) \in Nat
  BY DEF TransactionTypeOK
<1>2. ops' \in Seq(Mutation) /\ Len(ops') = Len(ops) + 1
  BY <1>1
<1> QED BY <1>1, <1>2, LimitAssumption DEF Open

LEMMA NoOps == <<>> \in Seq(Mutation) /\ Len(<<>>) = 0
OBVIOUS

LEMMA CommittedCount ==
  ASSUME TransactionTypeOK
  PROVE  /\ Committed \in SUBSET Key
         /\ IsFiniteSet(Committed)
         /\ Cardinality(Committed) \in Nat
BY KeyAssumption, FS_Subset, FS_CardinalityType DEF TransactionTypeOK, Committed

LEMMA InitInvariant == TransactionInit => IInv
<1> SUFFICES ASSUME TransactionInit PROVE IInv
  OBVIOUS
<1>1. base \in SUBSET Key /\ Committed = base
  BY DEF TransactionInit, Committed
<1>2. /\ Cardinality(base) \in 0..MaxCacheKeys
      /\ IdentityBytes(base) \in 0..MaxCacheIdentityBytes
  <2>1. IsFiniteSet(base)
    BY <1>1, KeyAssumption, FS_Subset
  <2>2. Cardinality(base) \in Nat /\ IdentityBytes(base) \in Nat
    BY <1>1, <2>1, FS_CardinalityType, IdentityBytesFinite
  <2>3. Cardinality(base) <= MaxCacheKeys /\ IdentityBytes(base) <= MaxCacheIdentityBytes
    BY DEF TransactionInit
  <2> QED BY <2>2, <2>3, LimitAssumption
<1>3. TransactionTypeOK
  <2>1. ops \in Seq(Mutation)
    BY NoOps, LimitAssumption DEF TransactionInit
  <2>2. missingRemoves \in Nat
    BY LimitAssumption DEF TransactionInit
  <2>3. cleared \in BOOLEAN /\ rejected \in BOOLEAN
    BY DEF TransactionInit
  <2>4. added \in SUBSET Key /\ removed \in SUBSET Key
    BY DEF TransactionInit
  <2>5. /\ keyCount \in 0..MaxCacheKeys
        /\ identityBytes \in 0..MaxCacheIdentityBytes
        /\ viewBytes \in Nat
    BY <1>2, LimitAssumption DEF TransactionInit
  <2> QED BY <1>1, <2>1, <2>2, <2>3, <2>4, <2>5 DEF TransactionTypeOK
<1>4. OverlayDisjoint /\ CountsExact
  BY <1>1 DEF TransactionInit, OverlayDisjoint, CountsExact
<1>5. Log = {}
  BY DEF TransactionInit, Log, Entries
<1>6. ProjectsLog
  BY <1>1, <1>5, HeldNothing DEF ProjectsLog
<1> QED BY <1>3, <1>4, <1>6 DEF IInv

(* What a taken mutation does to the projection. *)
LEMMA ProjectionExtend ==
  ASSUME IInv, NEW op \in Mutation, ops' = Append(ops, op), base' = base
  PROVE  Held(base', Log') =
           {k \in Key : Stores(op, k) \/ (k \in Committed /\ ~Touches(op, k))}
<1>1. Log' = Log \cup {Entry(op)} /\ Newest(Log, Entry(op))
  BY LogAppend DEF IInv
<1>2. Entry(op).op = op
  BY DEF Entry
<1> QED BY <1>1, <1>2, HeldExtend DEF IInv, ProjectsLog

LEMMA StoreHeldStep ==
  ASSUME IInv, NEW k \in Key, StoreHeld(k)
  PROVE  IInv'
<1> DEFINE op == [kind |-> "store", key |-> k]
<1>1. op \in Mutation /\ ops' = Append(ops, op) /\ base' = base
  BY DEF StoreHeld, Takes, Mutation
<1>1a. /\ TransactionTypeOK
       /\ Open
       /\ ops' \in Seq(Mutation)
       /\ Len(ops') = Len(ops) + 1
       /\ Len(ops) \in Nat
  BY <1>1, OpsAppend DEF IInv, StoreHeld
<1>2. k \in Committed /\ Committed' = Committed /\ Committed \in SUBSET Key
  BY ContainsCommitted, CommittedCount DEF IInv, StoreHeld, Takes, overlay, Committed
<1>3. ProjectsLog'
  BY <1>1, <1>2, ProjectionExtend DEF ProjectsLog, Stores, Touches
<1>4. TransactionTypeOK'
  BY <1>1a, LimitAssumption DEF IInv, TransactionTypeOK, StoreHeld, Takes, overlay, Open
<1>5. OverlayDisjoint' /\ CountsExact'
  BY <1>2 DEF IInv, OverlayDisjoint, CountsExact, StoreHeld, Takes, overlay
<1> QED BY <1>3, <1>4, <1>5 DEF IInv

LEMMA StoreAbsentStep ==
  ASSUME IInv, NEW k \in Key, StoreAbsent(k)
  PROVE  IInv'
<1> DEFINE op == [kind |-> "store", key |-> k]
<1>1. op \in Mutation /\ ops' = Append(ops, op) /\ base' = base
  BY DEF StoreAbsent, Takes, Mutation
<1>1a. /\ TransactionTypeOK
       /\ Open
       /\ ops' \in Seq(Mutation)
       /\ Len(ops') = Len(ops) + 1
       /\ Len(ops) \in Nat
  BY <1>1, OpsAppend DEF IInv, StoreAbsent
<1>2. k \notin Committed /\ Committed \in SUBSET Key
  BY ContainsCommitted, CommittedCount DEF IInv, StoreAbsent
<1>3. Committed' = Committed \cup {k}
  BY <1>2 DEF IInv, TransactionTypeOK, OverlayDisjoint, StoreAbsent, Takes, Committed
<1>4. ProjectsLog'
  BY <1>1, <1>2, <1>3, ProjectionExtend DEF ProjectsLog, Stores, Touches
<1>5. KeyBytes[k] \in Nat
  BY KeyAssumption
<1>6. TransactionTypeOK'
  BY <1>1a, LimitAssumption, <1>5 DEF IInv, TransactionTypeOK, StoreAbsent, Takes, Fits, Open
<1>7. OverlayDisjoint'
  BY DEF IInv, TransactionTypeOK, OverlayDisjoint, StoreAbsent, Takes
<1>8. Cardinality(Committed') = Cardinality(Committed) + 1
  BY <1>2, <1>3, CommittedCount, FS_AddElement DEF IInv
<1>9. IdentityBytes(Committed') = IdentityBytes(Committed) + KeyBytes[k]
  BY <1>2, <1>3, IdentityBytesAdd
<1>10. CountsExact'
  BY <1>8, <1>9 DEF IInv, CountsExact, StoreAbsent, Takes
<1> QED BY <1>4, <1>6, <1>7, <1>10 DEF IInv

LEMMA RemoveHeldStep ==
  ASSUME IInv, NEW k \in Key, RemoveHeld(k)
  PROVE  IInv'
<1> DEFINE op == [kind |-> "remove", key |-> k]
<1>1. op \in Mutation /\ ops' = Append(ops, op) /\ base' = base
  BY DEF RemoveHeld, Takes, Mutation
<1>1a. /\ TransactionTypeOK
       /\ Open
       /\ ops' \in Seq(Mutation)
       /\ Len(ops') = Len(ops) + 1
       /\ Len(ops) \in Nat
  BY <1>1, OpsAppend DEF IInv, RemoveHeld
<1>2. k \in Committed /\ Committed \in SUBSET Key
  BY ContainsCommitted, CommittedCount DEF IInv, RemoveHeld
<1>3. Committed' = Committed \ {k}
  BY <1>2 DEF IInv, TransactionTypeOK, OverlayDisjoint, RemoveHeld, Contains, Takes, Committed
<1>4. ProjectsLog'
  BY <1>1, <1>2, <1>3, ProjectionExtend DEF ProjectsLog, Stores, Touches
<1>5. KeyBytes[k] \in Nat
  BY KeyAssumption
<1>6. /\ IsFiniteSet(Committed')
      /\ Cardinality(Committed') = Cardinality(Committed) - 1
  BY <1>2, <1>3, CommittedCount, FS_RemoveElement DEF IInv
<1>7. IdentityBytes(Committed') = IdentityBytes(Committed) - KeyBytes[k]
  BY <1>2, <1>3, IdentityBytesRemove
<1>8. Cardinality(Committed') \in Nat /\ IdentityBytes(Committed') \in Nat
  BY <1>2, <1>3, <1>6, FS_CardinalityType, IdentityBytesFinite
<1>9. CountsExact'
  BY <1>6, <1>7 DEF IInv, CountsExact, RemoveHeld, Takes
<1>10. TransactionTypeOK'
  <2>1. keyCount' \in 0..MaxCacheKeys /\ identityBytes' \in 0..MaxCacheIdentityBytes
    <3>1. keyCount' \in Nat /\ identityBytes' \in Nat
      BY <1>8, <1>9 DEF CountsExact
    <3>2. keyCount' <= keyCount /\ identityBytes' <= identityBytes
      BY <1>1a, <1>5 DEF TransactionTypeOK, RemoveHeld
    <3> QED BY <1>1a, <3>1, <3>2, LimitAssumption DEF TransactionTypeOK
  <2> QED BY <1>1a, <2>1 DEF TransactionTypeOK, RemoveHeld, Takes
<1>11. OverlayDisjoint'
  BY DEF IInv, TransactionTypeOK, OverlayDisjoint, RemoveHeld, Contains, Takes
<1> QED BY <1>4, <1>9, <1>10, <1>11 DEF IInv

LEMMA RemoveMissingStep ==
  ASSUME IInv, NEW k \in Key, RemoveMissing(k)
  PROVE  IInv'
<1> DEFINE op == [kind |-> "remove", key |-> k]
<1>1. op \in Mutation /\ ops' = Append(ops, op) /\ base' = base
  BY DEF RemoveMissing, Takes, Mutation
<1>1a. /\ TransactionTypeOK
       /\ Open
       /\ ops' \in Seq(Mutation)
       /\ Len(ops') = Len(ops) + 1
       /\ Len(ops) \in Nat
  BY <1>1, OpsAppend DEF IInv, RemoveMissing
<1>2. k \notin Committed /\ Committed' = Committed /\ Committed \in SUBSET Key
  BY ContainsCommitted, CommittedCount DEF IInv, RemoveMissing, Takes, Committed
<1>3. ProjectsLog'
  BY <1>1, <1>2, ProjectionExtend DEF ProjectsLog, Stores, Touches
<1>4. TransactionTypeOK'
  <2>1. missingRemoves' \in Nat
    BY <1>1a, LimitAssumption DEF IInv, TransactionTypeOK, RemoveMissing
  <2> QED BY <1>1a, <2>1 DEF TransactionTypeOK, RemoveMissing, Takes
<1>5. OverlayDisjoint' /\ CountsExact'
  BY <1>2 DEF IInv, OverlayDisjoint, CountsExact, RemoveMissing, Takes
<1> QED BY <1>3, <1>4, <1>5 DEF IInv

LEMMA ClearStep ==
  ASSUME IInv, Clear
  PROVE  IInv'
<1> DEFINE op == [kind |-> "clear"]
<1>1. op \in Mutation /\ ops' = Append(ops, op) /\ base' = base
  BY DEF Clear, Takes, Mutation
<1>1a. /\ TransactionTypeOK
       /\ Open
       /\ ops' \in Seq(Mutation)
       /\ Len(ops') = Len(ops) + 1
       /\ Len(ops) \in Nat
  BY <1>1, OpsAppend DEF IInv, Clear
<1>2. Committed' = {}
  BY DEF Clear, Takes, Committed
<1>3. ProjectsLog'
  BY <1>1, <1>2, ProjectionExtend DEF ProjectsLog, Stores, Touches
<1>4. TransactionTypeOK'
  BY <1>1a, LimitAssumption DEF IInv, TransactionTypeOK, Clear, Takes, Open
<1>5. OverlayDisjoint'
  BY DEF OverlayDisjoint, Clear, Takes
<1>6. CountsExact'
  BY <1>2, IdentityBytesNone, FS_EmptySet DEF IInv, CountsExact, Clear, Takes
<1> QED BY <1>3, <1>4, <1>5, <1>6 DEF IInv

LEMMA CommitStep ==
  ASSUME IInv, CommitPlan
  PROVE  IInv'
<1>1. Committed \in SUBSET Key /\ Cardinality(Committed) = keyCount
  BY CommittedCount DEF IInv, CountsExact
<1>2. base' = Committed /\ Committed' = Committed
  BY DEF CommitPlan, Begin, Committed
<1>3. TransactionTypeOK'
  <2>1. ops' \in Seq(Mutation)
    BY NoOps, LimitAssumption DEF CommitPlan, Begin
  <2>2. missingRemoves' \in Nat
    BY LimitAssumption DEF CommitPlan, Begin
  <2>3. keyCount' = keyCount /\ identityBytes' = identityBytes /\ viewBytes' = identityBytes
    BY <1>1 DEF CommitPlan, Begin
  <2>4. cleared' \in BOOLEAN /\ rejected' \in BOOLEAN
    BY DEF IInv, TransactionTypeOK, CommitPlan, Begin
  <2>5. added' \in SUBSET Key /\ removed' \in SUBSET Key
    BY DEF CommitPlan, Begin
  <2>6. /\ keyCount' \in 0..MaxCacheKeys
        /\ identityBytes' \in 0..MaxCacheIdentityBytes
        /\ viewBytes' \in Nat
    BY <2>3, LimitAssumption DEF IInv, TransactionTypeOK
  <2> QED BY <1>1, <1>2, <2>1, <2>2, <2>4, <2>5, <2>6 DEF TransactionTypeOK
<1>4. OverlayDisjoint'
  BY <1>1 DEF OverlayDisjoint, CommitPlan, Begin
<1>5. CountsExact'
  BY <1>1, <1>2 DEF IInv, CountsExact, CommitPlan, Begin
<1>6. Log' = {}
  BY DEF CommitPlan, Begin, Log, Entries
<1>7. ProjectsLog'
  BY <1>1, <1>2, <1>6, HeldNothing DEF ProjectsLog
<1> QED BY <1>3, <1>4, <1>5, <1>7 DEF IInv

(* A store refused at a ceiling changes nothing of the projection. *)
LEMMA RefusedStep ==
  ASSUME IInv, NEW k \in Key, StoreOverLimit(k)
  PROVE  IInv'
<1>1. UNCHANGED <<base, viewBytes, overlay, ops>> /\ rejected' \in BOOLEAN
  BY DEF StoreOverLimit
<1>2. Committed' = Committed /\ Log' = Log
  BY <1>1 DEF overlay, Committed, Log
<1> QED BY <1>1, <1>2 DEF IInv, TransactionTypeOK, OverlayDisjoint, CountsExact, ProjectsLog,
                          overlay

LEMMA StutterStep ==
  ASSUME IInv, UNCHANGED transactionVars
  PROVE  IInv'
<1>1. UNCHANGED <<base, viewBytes, overlay, ops>> /\ rejected' = rejected
  BY DEF transactionVars
<1>2. Committed' = Committed /\ Log' = Log
  BY <1>1 DEF overlay, Committed, Log
<1> QED BY <1>1, <1>2 DEF IInv, TransactionTypeOK, OverlayDisjoint, CountsExact, ProjectsLog,
                          overlay

(* The strengthened invariant holds in every reachable state: the overlay  *)
(* of store, remove, clear and commit (src/state.rs:780-945) always        *)
(* projects the mutations taken so far.                                    *)
THEOREM OverlayInvariant == TransactionSpec => []IInv
<1>1. TransactionInit => IInv
  BY InitInvariant
<1>2. IInv /\ [TransactionNext]_transactionVars => IInv'
  <2> SUFFICES ASSUME IInv, [TransactionNext]_transactionVars PROVE IInv'
    OBVIOUS
  <2>1. CASE CommitPlan
    BY <2>1, CommitStep
  <2>2. CASE Clear
    BY <2>2, ClearStep
  <2>3. CASE \E k \in Key : StoreHeld(k)
    BY <2>3, StoreHeldStep
  <2>4. CASE \E k \in Key : StoreAbsent(k)
    BY <2>4, StoreAbsentStep
  <2>5. CASE \E k \in Key : StoreOverLimit(k)
    BY <2>5, RefusedStep
  <2>6. CASE \E k \in Key : RemoveHeld(k)
    BY <2>6, RemoveHeldStep
  <2>7. CASE \E k \in Key : RemoveMissing(k)
    BY <2>7, RemoveMissingStep
  <2>8. CASE UNCHANGED transactionVars
    BY <2>8, StutterStep
  <2> QED BY <2>1, <2>2, <2>3, <2>4, <2>5, <2>6, <2>7, <2>8 DEF TransactionNext
<1> QED BY <1>1, <1>2, PTL DEF TransactionSpec

(* The overlay of CacheTransaction never records a key twice, so the debug *)
(* assertions of store, remove and commit hold.                            *)
THEOREM OverlayIsDisjoint == TransactionSpec => []OverlayDisjoint
<1>1. IInv => OverlayDisjoint
  BY DEF IInv
<1> QED BY <1>1, OverlayInvariant, PTL

(* key_count and identity_bytes are exact at every mutation.               *)
THEOREM CountersAreExact == TransactionSpec => []CountsExact
<1>1. IInv => CountsExact
  BY DEF IInv
<1> QED BY <1>1, OverlayInvariant, PTL

(* The overlay holds what the last mutation of each key says, for every    *)
(* list of mutations.                                                      *)
THEOREM OverlayProjectsLog == TransactionSpec => []ProjectsLog
<1>1. IInv => ProjectsLog
  BY DEF IInv
<1> QED BY <1>1, OverlayInvariant, PTL
-----------------------------------------------------------------------------
(* Refinement: each step of the overlay is a step of the atomic update.    *)

(* The instance carries its own copies of the operators of CacheProjection. *)
LEMMA SameMutation == Atomic!Mutation = Mutation
BY DEF Atomic!Mutation, Mutation

LEMMA SameLog == Atomic!Log = Log
BY DEF Atomic!Log, Log, Atomic!Entries, Entries

LEMMA SameHeld ==
  ASSUME NEW first, NEW log
  PROVE  Atomic!Held(first, log) = Held(first, log)
<1>1. ASSUME NEW k PROVE Atomic!StoredLast(log, k) <=> StoredLast(log, k)
  BY DEF Atomic!StoredLast, StoredLast, Atomic!Stores, Stores, Atomic!Touches,
         Touches, Atomic!Before, Before
<1>2. ASSUME NEW k PROVE Atomic!Untouched(log, k) <=> Untouched(log, k)
  BY DEF Atomic!Untouched, Untouched, Atomic!Touches, Touches
<1> QED BY <1>1, <1>2 DEF Atomic!Held, Held

LEMMA SameCardinality ==
  ASSUME NEW S
  PROVE  Atomic!Cardinality(S) = Cardinality(S)
BY Zenon DEF Atomic!Cardinality, Cardinality

LEMMA SameIdentityBytes ==
  ASSUME NEW keys
  PROVE  Atomic!IdentityBytes(keys) = IdentityBytes(keys)
BY SameCardinality DEF Atomic!IdentityBytes, IdentityBytes

LEMMA SameOverflows ==
  ASSUME NEW first, NEW log, NEW e, NEW m, NEW n
  PROVE  Atomic!Overflows(first, log, e, m, n) <=> Overflows(first, log, e, m, n)
<1>1. Atomic!Preceding(log, e) = Preceding(log, e)
  BY DEF Atomic!Preceding, Preceding, Atomic!Before, Before
<1>2. Atomic!HeldBefore(first, log, e) = HeldBefore(first, log, e)
  BY <1>1, SameHeld DEF Atomic!HeldBefore, HeldBefore
<1>3. Atomic!IdentityBytes(HeldBefore(first, log, e)) = IdentityBytes(HeldBefore(first, log, e))
  BY SameIdentityBytes
<1> QED BY <1>2, <1>3, SameCardinality DEF Atomic!Overflows, Overflows

(* The ceilings a store is checked against are those of the whole list.    *)
LEMMA OverflowIsOverlay ==
  ASSUME IInv, NEW k \in Key
  PROVE  Atomic!WouldOverflow([kind |-> "store", key |-> k])
           <=> ~Contains(k) /\ ~Fits(k)
<1> DEFINE op == [kind |-> "store", key |-> k]
<1>1. Newest(Log, Entry(op))
  BY DEF IInv, TransactionTypeOK, Newest, Log, Entries, Entry, Before
<1>2. HeldBefore(base, Log \cup {Entry(op)}, Entry(op)) = Committed
  BY <1>1, HeldBeforeNewest DEF IInv, ProjectsLog
<1>3. Atomic!WouldOverflow(op)
        <=> Overflows(base, Log \cup {Entry(op)}, Entry(op),
                      MaxCacheKeys, MaxCacheIdentityBytes)
  BY SameLog, SameOverflows DEF Atomic!WouldOverflow, Atomic!Next1, Entry
<1>4. Contains(k) <=> k \in Committed
  BY ContainsCommitted DEF IInv
<1>5. /\ Cardinality(Committed) = keyCount
      /\ IdentityBytes(Committed) = identityBytes
  BY DEF IInv, CountsExact
<1>6. keyCount \in Nat /\ identityBytes \in Nat /\ KeyBytes[k] \in Nat
  BY KeyAssumption, LimitAssumption DEF IInv, TransactionTypeOK
<1> QED BY <1>2, <1>3, <1>4, <1>5, <1>6, LimitAssumption DEF Overflows, Fits, Entry

(* Only a store can pass a ceiling. *)
LEMMA OnlyStoresOverflow ==
  ASSUME NEW op, op.kind # "store"
  PROVE  ~Atomic!WouldOverflow(op)
BY DEF Atomic!WouldOverflow, Atomic!Next1, Atomic!Overflows

LEMMA TakeStep ==
  ASSUME IInv, NEW op \in Mutation, Open, Takes(op),
         ~Atomic!WouldOverflow(op),
         missingRemoves' = missingRemoves + IF Atomic!WouldMiss(op) THEN 1 ELSE 0
  PROVE  Atomic!Take(op)
BY DEF Open, Takes, Atomic!Take

LEMMA MissIsOverlay ==
  ASSUME IInv, NEW k \in Key
  PROVE  Atomic!WouldMiss([kind |-> "remove", key |-> k]) <=> ~Contains(k)
<1>1. Contains(k) <=> k \in Held(base, Log)
  BY ContainsCommitted DEF IInv, ProjectsLog
<1>2. Atomic!Held(base, Atomic!Log) = Held(base, Log)
  BY SameLog, SameHeld
<1> QED BY <1>1, <1>2 DEF Atomic!WouldMiss

LEMMA MissesTyped == ASSUME IInv PROVE missingRemoves \in Nat
BY LimitAssumption DEF IInv, TransactionTypeOK

(* The overlay of src/state.rs implements the atomic update: nothing of an *)
(* application is visible before commit, commit writes what the whole list *)
(* of mutations holds, and an application is refused exactly when one of   *)
(* its stores passes a ceiling.                                            *)
THEOREM OverlayRefinesAtomic == TransactionSpec => AtomicSpec
<1>1. TransactionInit => Atomic!Init
  BY SameCardinality, SameIdentityBytes DEF TransactionInit, Atomic!Init
<1>2. IInv /\ [TransactionNext]_transactionVars => [Atomic!Next]_(Atomic!vars)
  <2> SUFFICES ASSUME IInv, [TransactionNext]_transactionVars
               PROVE  Atomic!Next \/ UNCHANGED Atomic!vars
    OBVIOUS
  <2>1. CASE CommitPlan
    <3>1. Committed = Atomic!Held(base, Atomic!Log)
      BY SameLog, SameHeld DEF IInv, ProjectsLog
    <3>2. Atomic!Commit
      BY <2>1, <3>1 DEF CommitPlan, Begin, Atomic!Commit
    <3> QED BY <3>2 DEF Atomic!Next
  <2>2. CASE Clear
    <3> DEFINE op == [kind |-> "clear"]
    <3>1. op \in Mutation /\ Open /\ Takes(op)
      BY <2>2 DEF Clear, Mutation
    <3>2. ~Atomic!WouldOverflow(op) /\ ~Atomic!WouldMiss(op)
      BY OnlyStoresOverflow DEF Atomic!WouldMiss
    <3>3. missingRemoves' = missingRemoves + 0
      BY <2>2, MissesTyped DEF Clear
    <3>4. Atomic!Take(op)
      BY <3>1, <3>2, <3>3, TakeStep
    <3> QED BY <3>1, <3>4, SameMutation DEF Atomic!Next
  <2>3. ASSUME NEW k \in Key, StoreHeld(k) \/ StoreAbsent(k)
        PROVE  Atomic!Next
    <3> DEFINE op == [kind |-> "store", key |-> k]
    <3>1. op \in Mutation /\ Open /\ Takes(op)
      BY <2>3 DEF StoreHeld, StoreAbsent, Mutation
    <3>2. ~Atomic!WouldOverflow(op)
      BY <2>3, OverflowIsOverlay DEF StoreHeld, StoreAbsent
    <3>3. ~Atomic!WouldMiss(op)
      BY DEF Atomic!WouldMiss
    <3>4. missingRemoves' = missingRemoves + 0
      BY <2>3, MissesTyped DEF StoreHeld, StoreAbsent, overlay
    <3>5. Atomic!Take(op)
      BY <3>1, <3>2, <3>3, <3>4, TakeStep
    <3> QED BY <3>1, <3>5, SameMutation DEF Atomic!Next
  <2>4. ASSUME NEW k \in Key, StoreOverLimit(k)
        PROVE  Atomic!Next
    <3> DEFINE op == [kind |-> "store", key |-> k]
    <3>1. op \in Mutation /\ Atomic!WouldOverflow(op)
      BY <2>4, OverflowIsOverlay DEF StoreOverLimit, Mutation
    <3>2. Atomic!Refuse(op)
      BY <2>4, <3>1 DEF StoreOverLimit, Open, overlay, Atomic!Refuse
    <3> QED BY <3>1, <3>2, SameMutation DEF Atomic!Next
  <2>5. ASSUME NEW k \in Key, RemoveHeld(k) \/ RemoveMissing(k)
        PROVE  Atomic!Next
    <3> DEFINE op == [kind |-> "remove", key |-> k]
    <3>1. op \in Mutation /\ Open /\ Takes(op)
      BY <2>5 DEF RemoveHeld, RemoveMissing, Mutation
    <3>2. ~Atomic!WouldOverflow(op)
      BY OnlyStoresOverflow
    <3>3. missingRemoves' = missingRemoves + IF Atomic!WouldMiss(op) THEN 1 ELSE 0
      <4>1. CASE RemoveHeld(k)
        BY <4>1, MissIsOverlay, MissesTyped DEF RemoveHeld
      <4>2. CASE RemoveMissing(k)
        BY <4>2, MissIsOverlay DEF RemoveMissing
      <4> QED BY <2>5, <4>1, <4>2
    <3>4. Atomic!Take(op)
      BY <3>1, <3>2, <3>3, TakeStep
    <3> QED BY <3>1, <3>4, SameMutation DEF Atomic!Next
  <2>6. CASE UNCHANGED transactionVars
    BY <2>6 DEF transactionVars, overlay, Atomic!vars
  <2> QED BY <2>1, <2>2, <2>3, <2>4, <2>5, <2>6 DEF TransactionNext
<1> QED BY <1>1, <1>2, OverlayInvariant, PTL DEF TransactionSpec, AtomicSpec, Atomic!Spec
=============================================================================
