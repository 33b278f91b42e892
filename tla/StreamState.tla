----------------------------- MODULE StreamState -----------------------------
(***************************************************************************)
(* The delivered-stream fold of one publisher stream and epoch:            *)
(* StreamState::admit and StreamState::finish of src/state.rs.             *)
(*                                                                         *)
(* A delivery is a cursor and a payload.  A payload is what two envelopes  *)
(* share when their semantic fingerprints are equal, so equality of        *)
(* payloads is equality of fingerprints (SHA-256 is taken as injective).   *)
(* A slot is the set of fingerprints retained for a cursor: empty, one (a  *)
(* Candidate) or two (a Conflict).                                         *)
(***************************************************************************)
EXTENDS CacheProjection

CONSTANTS InitialCursor,         \* first cursor the stream declares
          LastCursor,            \* u64::MAX, the last cursor there is
          Payload,               \* semantic fingerprints
          Mutations,             \* mutation list of a payload
          CanonicalBytes,        \* canonical mutation bytes of a payload
          MaxGapSpan,            \* max_gap_span_per_stream
          MaxPending,            \* max_pending_envelopes_per_stream
          MaxPendingBytes,       \* max_pending_canonical_bytes_per_stream
          Window,                \* max_recent_fingerprints_per_stream
          MaxDiagnosticCount     \* max_diagnostic_count

Cursor == InitialCursor..LastCursor

ASSUME StreamAssumption ==
  /\ InitialCursor \in Nat
  /\ LastCursor \in Nat
  /\ InitialCursor <= LastCursor
  /\ IsFiniteSet(Payload)
  /\ Mutations \in [Payload -> Seq(Mutation)]
  /\ CanonicalBytes \in [Payload -> Nat]
  /\ MaxGapSpan \in Nat
  /\ MaxPending \in Nat
  /\ MaxPendingBytes \in Nat
  /\ Window \in Nat
  /\ MaxDiagnosticCount \in Nat

None == -1   \* Option::None of a cursor; smaller than every cursor

VARIABLES certainty,           \* "Exact", "Recovering" or "Unknown"
          frontier,            \* last applied cursor
          baselineUnknown,
          viewAuthoritative,
          poisonCeiling, equivocationCeiling,
          unavailableFloor, unavailableCeiling,
          view,                \* keys of the CacheView
          pending,             \* slot of each cursor beyond the frontier
          pendingBytes,
          recent,              \* slot of each cursor still fingerprinted
          diagnostics, truncated,
          failed,              \* an earlier admit returned an error
          finished             \* consumed by finish

poison == <<poisonCeiling, equivocationCeiling, unavailableFloor, unavailableCeiling>>
vars == <<certainty, frontier, baselineUnknown, viewAuthoritative, poison, view,
          pending, pendingBytes, recent, diagnostics, truncated, failed, finished>>
-----------------------------------------------------------------------------
(* Payloads and slots.                                                     *)

Clears(p) == {i \in 1..Len(Mutations[p]) : Mutations[p][i].kind = "clear"}

HasClear(p) == Clears(p) # {}

IsFirstClear(p, i) == i \in Clears(p) /\ \A j \in Clears(p) : i <= j

Slot == {{}} \cup {{p, q} : p, q \in Payload}

IsCandidate(slot) == \E p \in Payload : slot = {p}

IsConflict(slot) == slot # {} /\ ~IsCandidate(slot)

Retained(slots) == {n \in Cursor : slots[n] # {}}

(* PendingSlot::canonical_bytes: only candidates count. *)
SlotSize(slot) ==
  IF IsCandidate(slot) THEN CanonicalBytes[CHOOSE p \in Payload : slot = {p}] ELSE 0

(* Their total over the cursors of C, each byte labelled by its cursor. *)
SlotBytes(slots, C) ==
  Cardinality(UNION {{n} \X (1..SlotSize(slots[n])) : n \in C})

Larger(m, n) == IF m >= n THEN m ELSE n

(* Slip: the pending slots ignored. *)
ClassifyIgnoringPending(unknownBaseline, ceiling, slots) ==
  IF unknownBaseline \/ ceiling # None THEN "Unknown" ELSE "Exact"

(* recompute_certainty *)
Classify(unknownBaseline, ceiling, slots) ==
  IF unknownBaseline \/ ceiling # None THEN "Unknown"
  ELSE IF Retained(slots) = {} THEN "Exact"
  ELSE "Recovering"
-----------------------------------------------------------------------------
(* Diagnostics.                                                            *)

Diagnostic == {"duplicates", "equivocations", "stale_unverifiable",
               "stale_barriers", "missing_removes_exact",
               "missing_removes_partial", "pending_limits", "gap_limits",
               "unverifiable_gaps", "unclosed_gaps"}

Count(kind, n) ==
  IF n > MaxDiagnosticCount - diagnostics[kind]
  THEN /\ diagnostics' = [diagnostics EXCEPT ![kind] = MaxDiagnosticCount]
       /\ truncated' = TRUE
  ELSE /\ diagnostics' = [diagnostics EXCEPT ![kind] = @ + n]
       /\ UNCHANGED truncated
-----------------------------------------------------------------------------
(* BaselineAuthority::TrustDeclaredEmpty or ::Untrusted. *)
Init ==
  /\ baselineUnknown \in BOOLEAN
  /\ certainty = IF baselineUnknown THEN "Unknown" ELSE "Exact"
  /\ viewAuthoritative = ~baselineUnknown
  /\ frontier = None
  /\ poisonCeiling = None
  /\ equivocationCeiling = None
  /\ unavailableFloor = None
  /\ unavailableCeiling = None
  /\ view = {}
  /\ pending = [n \in Cursor |-> {}]
  /\ pendingBytes = 0
  /\ recent = [n \in Cursor |-> {}]
  /\ diagnostics = [kind \in Diagnostic |-> 0]
  /\ truncated = FALSE
  /\ failed = FALSE
  /\ finished = FALSE

Ready == ~failed /\ ~finished

Expected == IF frontier = None THEN InitialCursor ELSE frontier + 1

(* Slip: the latest conflict replaces the ceiling. *)
SetLatestEquivocation(c) ==
  /\ equivocationCeiling' = c
  /\ poisonCeiling' = Larger(equivocationCeiling', unavailableCeiling)
  /\ UNCHANGED <<unavailableFloor, unavailableCeiling>>

SetEquivocation(c) ==
  /\ equivocationCeiling' = Larger(equivocationCeiling, c)
  /\ poisonCeiling' = Larger(equivocationCeiling', unavailableCeiling)
  /\ UNCHANGED <<unavailableFloor, unavailableCeiling>>

(* Slip: recompute_poison forgotten. *)
SetUnavailableOnly(c) ==
  /\ unavailableFloor' = IF unavailableFloor = None \/ c < unavailableFloor
                         THEN c ELSE unavailableFloor
  /\ unavailableCeiling' = Larger(unavailableCeiling, c)
  /\ UNCHANGED <<equivocationCeiling, poisonCeiling>>

SetUnavailable(c) ==
  /\ unavailableFloor' = IF unavailableFloor = None \/ c < unavailableFloor
                         THEN c ELSE unavailableFloor
  /\ unavailableCeiling' = Larger(unavailableCeiling, c)
  /\ poisonCeiling' = Larger(equivocationCeiling, unavailableCeiling')
  /\ UNCHANGED equivocationCeiling

Reclassify == certainty' = Classify(baselineUnknown', poisonCeiling', pending')
-----------------------------------------------------------------------------
(* A cursor whose slot is pending: handle_pending_redelivery.              *)

PendingDuplicate(c, p) ==
  /\ Ready
  /\ p \in pending[c]
  /\ Count("duplicates", 1)
  /\ UNCHANGED <<certainty, frontier, baselineUnknown, viewAuthoritative, poison,
                 view, pending, pendingBytes, recent, failed, finished>>

PendingConflict(c, p) ==
  /\ Ready
  /\ IsCandidate(pending[c])
  /\ p \notin pending[c]
  /\ pending' = [pending EXCEPT ![c] = @ \cup {p}]
  /\ pendingBytes' = pendingBytes - SlotBytes(pending, {c})
  /\ Count("equivocations", 1)
  /\ SetEquivocation(c)
  /\ UNCHANGED <<frontier, baselineUnknown, viewAuthoritative, view, recent,
                 failed, finished>>
  /\ Reclassify

PendingAdditionalConflict(c, p) ==
  /\ Ready
  /\ IsConflict(pending[c])
  /\ p \notin pending[c]
  /\ Count("equivocations", 1)
  /\ SetEquivocation(c)
  /\ UNCHANGED <<frontier, baselineUnknown, viewAuthoritative, view, pending,
                 pendingBytes, recent, failed, finished>>
  /\ Reclassify
-----------------------------------------------------------------------------
(* A cursor at or below the frontier: handle_past_delivery.                *)

Past(c) == pending[c] = {} /\ c <= frontier

PastDuplicate(c, p) ==
  /\ Ready
  /\ Past(c)
  /\ p \in recent[c]
  /\ Count("duplicates", 1)
  /\ UNCHANGED <<certainty, frontier, baselineUnknown, viewAuthoritative, poison,
                 view, pending, pendingBytes, recent, failed, finished>>

(* The payload differs from the retained ones: a candidate becomes a      *)
(* conflict, a conflict keeps its two fingerprints.                        *)
PastConflict(c, p) ==
  /\ Ready
  /\ Past(c)
  /\ recent[c] # {}
  /\ p \notin recent[c]
  /\ recent' = IF IsCandidate(recent[c])
               THEN [recent EXCEPT ![c] = @ \cup {p}]
               ELSE recent
  /\ Count("equivocations", 1)
  /\ SetEquivocation(c)
  /\ viewAuthoritative' = FALSE
  /\ UNCHANGED <<frontier, baselineUnknown, view, pending, pendingBytes, failed,
                 finished>>
  /\ Reclassify

Stale(c, p) ==
  /\ Ready
  /\ Past(c)
  /\ recent[c] = {}
  /\ Count(IF HasClear(p) THEN "stale_barriers" ELSE "stale_unverifiable", 1)
  /\ UNCHANGED <<certainty, frontier, baselineUnknown, viewAuthoritative, poison,
                 view, pending, pendingBytes, recent, failed, finished>>
-----------------------------------------------------------------------------
(* A cursor beyond the frontier without a slot.                            *)

Fresh(c) == pending[c] = {} /\ c > frontier

UnavailableBlocks(c, p) ==
  /\ unavailableFloor # None
  /\ c >= unavailableFloor
  /\ HasClear(p) => unavailableCeiling = None \/ c <= unavailableCeiling

EligibleBarrier(c, p) ==
  /\ HasClear(p)
  /\ certainty = "Exact" => c > Expected

AttachesPartial == baselineUnknown /\ frontier = None

Admissible(c, p) == Ready /\ Fresh(c) /\ ~UnavailableBlocks(c, p)

AppliesAsBarrier(c, p) == Admissible(c, p) /\ EligibleBarrier(c, p)

AppliesInOrder(c, p) == /\ Admissible(c, p)
                        /\ ~EligibleBarrier(c, p)
                        /\ AttachesPartial \/ c = Expected

Waits(c, p) == /\ Admissible(c, p)
               /\ ~EligibleBarrier(c, p)
               /\ ~AttachesPartial
               /\ c > Expected

UnverifiableGap(c, p) ==
  /\ Ready
  /\ Fresh(c)
  /\ UnavailableBlocks(c, p)
  /\ SetUnavailable(c)
  /\ Count("unverifiable_gaps", 1)
  /\ UNCHANGED <<frontier, baselineUnknown, viewAuthoritative, view, pending,
                 pendingBytes, recent, failed, finished>>
  /\ Reclassify

TooFar(c) == c - Expected > MaxGapSpan

(* Slips: either ceiling forgotten. *)
FullByBytes(p) == pendingBytes + CanonicalBytes[p] > MaxPendingBytes

FullByCount(p) == Cardinality(Retained(pending)) >= MaxPending

Full(p) == \/ Cardinality(Retained(pending)) >= MaxPending
           \/ pendingBytes + CanonicalBytes[p] > MaxPendingBytes

Buffer(c, p) ==
  /\ Waits(c, p)
  /\ ~TooFar(c)
  /\ ~Full(p)
  /\ pending' = [pending EXCEPT ![c] = {p}]
  /\ pendingBytes' = pendingBytes + CanonicalBytes[p]
  /\ UNCHANGED <<frontier, baselineUnknown, viewAuthoritative, poison, view,
                 recent, diagnostics, truncated, failed, finished>>
  /\ Reclassify

Discard(c, limit) ==
  /\ Count(limit, 1)
  /\ SetUnavailable(c)
  /\ UNCHANGED <<frontier, baselineUnknown, viewAuthoritative, view, pending,
                 pendingBytes, recent, failed, finished>>
  /\ Reclassify

GapLimit(c, p) == Waits(c, p) /\ TooFar(c) /\ Discard(c, "gap_limits")

PendingLimit(c, p) ==
  Waits(c, p) /\ ~TooFar(c) /\ Full(p) /\ Discard(c, "pending_limits")
-----------------------------------------------------------------------------
(* Application: a delivery and the pending candidates it makes contiguous. *)

(* Slip: a barrier that supersedes the discarded evidence still stops at it. *)
DrainableBelowFloor(n, supersedes) ==
  /\ IsCandidate(pending[n])
  /\ unavailableFloor = None \/ n < unavailableFloor

(* The drain reaches n when its slot is a candidate below the discarded    *)
(* evidence, or anywhere when the barrier supersedes that evidence.        *)
Drainable(n, supersedes) ==
  /\ IsCandidate(pending[n])
  /\ supersedes \/ unavailableFloor = None \/ n < unavailableFloor

(* Slip: nothing is drained. *)
DrainsNothing(c, last, supersedes) == last = c

DrainsTo(c, last, supersedes) ==
  /\ \A n \in (c + 1)..last : Drainable(n, supersedes)
  /\ last < LastCursor => ~Drainable(last + 1, supersedes)

Supersedes(c) == unavailableCeiling # None /\ c > unavailableCeiling

(* Slip: a drain skips the first mutation of an envelope. *)
ApplicationLogSkipping(c, p, start, last) ==
  Entries(c, Mutations[p], start)
    \cup UNION {UNION {Entries(n, Mutations[q], 2) : q \in pending[n]} :
                  n \in (c + 1)..last}

ApplicationLog(c, p, start, last) ==
  Entries(c, Mutations[p], start)
    \cup UNION {UNION {Entries(n, Mutations[q], 1) : q \in pending[n]} :
                  n \in (c + 1)..last}

ViewOverflows(log) ==
  \E e \in log : Overflows(view, log, e, MaxCacheKeys, MaxCacheIdentityBytes)

(* Slips: one fingerprint too many is held; a drained cursor is recorded    *)
(* with the fingerprint of the delivery that drained it.                    *)
RetainOneMore(slots, c, p, last) ==
  LET filled == [n \in Cursor |-> IF n = c THEN {p}
                                  ELSE IF n \in (c + 1)..last THEN pending[n]
                                  ELSE slots[n]]
  IN  [n \in Cursor |-> IF Cardinality({m \in Retained(filled) : m > n}) <= Window
                        THEN filled[n] ELSE {}]

RetainDelivered(slots, c, p, last) ==
  LET filled == [n \in Cursor |-> IF n \in c..last THEN {p} ELSE slots[n]]
  IN  [n \in Cursor |-> IF Cardinality({m \in Retained(filled) : m > n}) < Window
                        THEN filled[n] ELSE {}]

(* The slots kept while each cursor of c..last is inserted in order and    *)
(* the lowest is popped whenever more than Window are held.                *)
RetainFingerprints(slots, c, p, last) ==
  LET filled == [n \in Cursor |-> IF n = c THEN {p}
                                  ELSE IF n \in (c + 1)..last THEN pending[n]
                                  ELSE slots[n]]
  IN  [n \in Cursor |-> IF Cardinality({m \in Retained(filled) : m > n}) < Window
                        THEN filled[n] ELSE {}]

(* Slip: a barrier leaves the slots it passes. *)
UndrainedBehind(c, last, barrier) ==
  [n \in Cursor |-> IF n \in (c + 1)..last THEN {} ELSE pending[n]]

(* pending after the drain; a barrier drops every slot up to its cursor.   *)
Undrained(c, last, barrier) ==
  [n \in Cursor |-> IF n \in (c + 1)..last \/ (barrier /\ n <= c)
                    THEN {} ELSE pending[n]]

(* Slip: every barrier clears all poison. *)
SupersedeAllPoison(c) ==
  /\ equivocationCeiling' = None
  /\ unavailableFloor' = None
  /\ unavailableCeiling' = None
  /\ poisonCeiling' = None

(* A barrier at c clears the poison whose ceiling lies before it. *)
SupersedePoison(c) ==
  /\ equivocationCeiling' = IF equivocationCeiling < c THEN None ELSE equivocationCeiling
  /\ IF unavailableCeiling < c
       THEN unavailableFloor' = None /\ unavailableCeiling' = None
       ELSE UNCHANGED <<unavailableFloor, unavailableCeiling>>
  /\ poisonCeiling' = Larger(equivocationCeiling', unavailableCeiling')

Commit(log, c, last, barrier) ==
  /\ view' = Held(view, log)
  /\ frontier' = last
  /\ pending' = Undrained(c, last, barrier)
  /\ pendingBytes' = pendingBytes
       - SlotBytes(pending, (c + 1)..last)
       - IF barrier THEN SlotBytes(pending, InitialCursor..c) ELSE 0
  /\ Count(IF barrier \/ viewAuthoritative
           THEN "missing_removes_exact" ELSE "missing_removes_partial",
           MissingRemoves(view, log))
  /\ UNCHANGED <<failed, finished>>

ApplyInOrder(c, p, last) ==
  LET log == ApplicationLog(c, p, 1, last)
  IN  /\ AppliesInOrder(c, p)
      /\ DrainsTo(c, last, FALSE)
      /\ ~ViewOverflows(log)
      /\ Commit(log, c, last, FALSE)
      /\ recent' = RetainFingerprints(recent, c, p, last)
      /\ UNCHANGED <<baselineUnknown, viewAuthoritative, poison>>
      /\ Reclassify

ApplyBarrier(c, p, last, start) ==
  LET log == ApplicationLog(c, p, start, last)
  IN  /\ AppliesAsBarrier(c, p)
      /\ IsFirstClear(p, start)
      /\ DrainsTo(c, last, Supersedes(c))
      /\ ~ViewOverflows(log)
      /\ Commit(log, c, last, TRUE)
      /\ recent' = RetainFingerprints([n \in Cursor |-> {}], c, p, last)
      /\ baselineUnknown' = FALSE
      /\ viewAuthoritative' = TRUE
      /\ SupersedePoison(c)
      /\ Reclassify
-----------------------------------------------------------------------------
(* Hard errors: admit returns Err, sets failed and changes nothing else.   *)

Fail == /\ failed' = TRUE
        /\ UNCHANGED <<certainty, frontier, baselineUnknown, viewAuthoritative,
                       poison, view, pending, pendingBytes, recent, diagnostics,
                       truncated, finished>>

(* A foreign session or stream, or a cursor before the declared start.     *)
RejectOutOfScope == Ready /\ Fail

RejectOverflow(c, p, last) ==
  /\ \/ /\ AppliesInOrder(c, p)
        /\ DrainsTo(c, last, FALSE)
        /\ ViewOverflows(ApplicationLog(c, p, 1, last))
     \/ /\ AppliesAsBarrier(c, p)
        /\ DrainsTo(c, last, Supersedes(c))
        /\ \E start \in Clears(p) :
             IsFirstClear(p, start) /\ ViewOverflows(ApplicationLog(c, p, start, last))
  /\ Fail
-----------------------------------------------------------------------------
(* finish closes the delivered evidence and consumes the state.            *)
Finish ==
  /\ Ready
  /\ finished' = TRUE
  /\ IF Retained(pending) # {}
       THEN Count("unclosed_gaps", 1) /\ certainty' = "Unknown"
       ELSE UNCHANGED <<diagnostics, truncated, certainty>>
  /\ UNCHANGED <<frontier, baselineUnknown, viewAuthoritative, poison, view,
                 pending, pendingBytes, recent, failed>>

(* unknown_reasons of the state, and of the summary once finished.         *)
UnknownReasons ==
  {r \in {"baseline", "equivocation", "unavailable", "unclosed_gap"} :
     \/ r = "baseline" /\ baselineUnknown
     \/ r = "equivocation" /\ equivocationCeiling # None
     \/ r = "unavailable" /\ unavailableFloor # None
     \/ r = "unclosed_gap" /\ finished /\ Retained(pending) # {}}

Redeliver(c, p) == \/ PendingDuplicate(c, p)
                   \/ PendingConflict(c, p)
                   \/ PendingAdditionalConflict(c, p)
                   \/ PastDuplicate(c, p)
                   \/ PastConflict(c, p)
                   \/ Stale(c, p)

Postpone(c, p) == \/ UnverifiableGap(c, p)
                  \/ Buffer(c, p)
                  \/ GapLimit(c, p)
                  \/ PendingLimit(c, p)

Apply(c, p, last) == \/ ApplyInOrder(c, p, last)
                     \/ \E start \in Clears(p) : ApplyBarrier(c, p, last, start)

(* One call of admit with an envelope of this stream. *)
Admit(c, p) == \/ Redeliver(c, p)
               \/ Postpone(c, p)
               \/ \E last \in c..LastCursor :
                    Apply(c, p, last) \/ RejectOverflow(c, p, last)

Next == \/ \E c \in Cursor, p \in Payload : Admit(c, p)
        \/ RejectOutOfScope
        \/ Finish

Spec == Init /\ [][Next]_vars
-----------------------------------------------------------------------------
Certainties == {"Exact", "Recovering", "Unknown"}

OptionalCursor == Cursor \cup {None}

(* The buffer keeps to both of its ceilings, in slots and in bytes: a       *)
(* conflict takes the slot of its candidate (src/state.rs:1298-1311) and    *)
(* every other slot is charged when it is filled (src/state.rs:1417-1434).  *)
TypeOK ==
  /\ certainty \in Certainties
  /\ frontier \in OptionalCursor
  /\ baselineUnknown \in BOOLEAN
  /\ viewAuthoritative \in BOOLEAN
  /\ poisonCeiling \in OptionalCursor
  /\ equivocationCeiling \in OptionalCursor
  /\ unavailableFloor \in OptionalCursor
  /\ unavailableCeiling \in OptionalCursor
  /\ view \in SUBSET Key
  /\ pending \in [Cursor -> Slot]
  /\ Cardinality(Retained(pending)) <= MaxPending
  /\ pendingBytes \in 0..MaxPendingBytes
  /\ recent \in [Cursor -> Slot]
  /\ diagnostics \in [Diagnostic -> 0..MaxDiagnosticCount]
  /\ truncated \in BOOLEAN
  /\ failed \in BOOLEAN
  /\ finished \in BOOLEAN

(* certainty and poison_ceiling are cached; every handler of               *)
(* src/state.rs:1274-1646 that changes what they depend on recomputes      *)
(* them, so the classification a caller reads is never stale.              *)
CertaintyCurrent ==
  /\ poisonCeiling = Larger(equivocationCeiling, unavailableCeiling)
  /\ ~finished => certainty = Classify(baselineUnknown, poisonCeiling, pending)

(* A stream reported Exact or Recovering has an authoritative view: no     *)
(* order of conflicts, barriers and drains leaves the certainty above the  *)
(* view it is about.                                                       *)
CertainIsAuthoritative == certainty # "Unknown" => viewAuthoritative

(* Discarded evidence is an interval of cursors beyond the frontier: a     *)
(* drain never runs into it and a barrier that passes it removes it.       *)
UnavailableAhead ==
  /\ unavailableFloor = None <=> unavailableCeiling = None
  /\ unavailableFloor # None => /\ frontier < unavailableFloor
                                /\ unavailableFloor <= unavailableCeiling

(* No clean candidate is left waiting once the cursor before it is         *)
(* applied, unless discarded evidence lies at or before it; and no slot is *)
(* left at or below the frontier.                                          *)
Drained ==
  \A n \in Retained(pending) :
    /\ n > frontier
    /\ n = Expected /\ IsCandidate(pending[n]) =>
         unavailableFloor # None /\ n >= unavailableFloor

(* Every conflict that is still retained poisons the stream at or beyond   *)
(* its cursor, and a poison beyond the frontier is a conflict that is      *)
(* still retained: evidence of an equivocation is neither lost by a later  *)
(* barrier nor invented.                                                   *)
ConflictsPoison ==
  /\ \A n \in Cursor : IsConflict(pending[n]) \/ IsConflict(recent[n]) =>
                         n <= equivocationCeiling
  /\ equivocationCeiling > frontier => IsConflict(pending[equivocationCeiling])

(* A clear is applied or discarded, never buffered as a clean candidate:   *)
(* a barrier cannot be applied later by a drain, after deliveries it       *)
(* should have superseded.                                                 *)
NoBarrierBuffered ==
  \A n \in Cursor, p \in Payload : pending[n] = {p} => ~HasClear(p)

(* What waits has a reason to wait: every pending candidate lies beyond a  *)
(* hole, a conflict or discarded evidence, and none is a barrier.          *)
WaitsWithReason == Drained /\ NoBarrierBuffered

(* pending_bytes, kept by addition and subtraction in five places, is the  *)
(* total of the clean candidates and so the checked_sub calls of           *)
(* src/state.rs:1305, 1525 and 1554 never panic.                           *)
PendingBytesExact == pendingBytes = SlotBytes(pending, Cursor)

(* The fingerprint window covers the newest applied cursors without a hole *)
(* and ends at the frontier, so a redelivery it does not cover is older    *)
(* than all it covers.                                                     *)
RecentSuffix ==
  LET covered == Retained(recent)
  IN  /\ Cardinality(covered) <= Window
      /\ \A n \in covered : n <= frontier /\ n..frontier \subseteq covered
      /\ Window > 0 /\ frontier # None => frontier \in covered

(* A stream leaves Unknown only by a step that moves the frontier past     *)
(* everything that poisoned it and makes the view authoritative: neither a *)
(* late delivery that closes the gap nor a drain clears the poison.        *)
UnknownIsSticky ==
  [][certainty = "Unknown" /\ certainty' # "Unknown" =>
       /\ viewAuthoritative'
       /\ frontier' > frontier
       /\ frontier' > poisonCeiling]_vars
=============================================================================
