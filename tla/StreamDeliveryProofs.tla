------------------------- MODULE StreamDeliveryProofs -------------------------
(***************************************************************************)
(* Proofs about the two systems that feed the fold of StreamState.         *)
(*                                                                         *)
(* FaithfulStream, for every publisher and every limit: a trace of it is   *)
(* fed to the fold and to nothing else, so the theorems of                 *)
(* StreamStateProofs hold of it; evidence of an equivocation is never made *)
(* up from an honest publisher's deliveries; what the fold calls           *)
(* authoritative is the cache of the engine; and an exact fold of an       *)
(* honest publisher has missed nothing.                                    *)
(*                                                                         *)
(* ScheduleComparison, for every list of sources, every schedule over them *)
(* and all limits: what a verdict of Diverged means, and that reordering   *)
(* converges.  A fold forgets most of what it admitted.  The invariant     *)
(* says that an authoritative view is nevertheless explained by one        *)
(* payload per cursor, from some first cursor on, and how far the          *)
(* deliveries of the run fix these payloads; two executions are compared   *)
(* by their explanations.                                                  *)
(***************************************************************************)
EXTENDS FaithfulStream, ScheduleComparison, StreamStateProofs

PublishedType == published \in [Cursor -> SUBSET Payload]

(* Every fingerprint the fold holds was put at the cursor it is held for.  *)
EvidencePublished ==
  \A n \in Cursor : pending[n] \subseteq published[n] /\ recent[n] \subseteq published[n]

HonestEvidence == Honest => EvidencePublished /\ equivocationCeiling = None
-----------------------------------------------------------------------------
LEMMA HonestSlots ==
  ASSUME Honest, NEW c \in Cursor, NEW slot, slot \subseteq published[c]
  PROVE  /\ ~IsConflict(slot)
         /\ \A p \in published[c] : slot # {} => p \in slot
<1>1. PICK q \in Payload : published[c] = {q}
  BY DEF Honest, IsCandidate
<1>2. slot = {} \/ slot = {q}
  BY <1>1
<1> QED BY <1>1, <1>2 DEF IsConflict, IsCandidate

(* What an honest publisher delivers again is what was kept of it.         *)
LEMMA HonestRedelivery ==
  ASSUME HonestEvidence, Honest, NEW c \in Cursor, NEW p \in published[c], Redeliver(c, p)
  PROVE  UNCHANGED <<pending, recent, equivocationCeiling>>
<1>1. pending[c] \subseteq published[c] /\ recent[c] \subseteq published[c]
  BY DEF HonestEvidence, EvidencePublished
<1>2. CASE PendingDuplicate(c, p) \/ PastDuplicate(c, p) \/ Stale(c, p)
  BY <1>2 DEF PendingDuplicate, PastDuplicate, Stale, poison
<1>3. CASE PendingConflict(c, p)
  <2>1. pending[c] # {}
    BY <1>3 DEF PendingConflict, IsCandidate
  <2> QED BY <1>1, <1>3, <2>1, HonestSlots DEF PendingConflict
<1>4. CASE PendingAdditionalConflict(c, p)
  BY <1>1, <1>4, HonestSlots DEF PendingAdditionalConflict
<1>5. CASE PastConflict(c, p)
  BY <1>1, <1>5, HonestSlots DEF PastConflict
<1> QED BY <1>2, <1>3, <1>4, <1>5 DEF Redeliver

LEMMA HonestPostponement ==
  ASSUME HonestEvidence, Honest, TypeOK, NEW c \in Cursor, NEW p \in published[c],
         Postpone(c, p)
  PROVE  /\ \A n \in Cursor : pending'[n] \subseteq pending[n] \cup published[n]
         /\ UNCHANGED <<recent, equivocationCeiling>>
<1>1. CASE UnverifiableGap(c, p)
  BY <1>1 DEF UnverifiableGap, SetUnavailable
<1>2. CASE Buffer(c, p)
  BY <1>2 DEF Buffer, TypeOK, poison
<1>3. CASE GapLimit(c, p) \/ PendingLimit(c, p)
  BY <1>3 DEF GapLimit, PendingLimit, Discard, SetUnavailable
<1> QED BY <1>1, <1>2, <1>3 DEF Postpone

LEMMA HonestWindow ==
  ASSUME EvidencePublished, NEW c \in Cursor, NEW p \in published[c], NEW last,
         NEW slots, \A n \in Cursor : slots[n] \subseteq published[n]
  PROVE  \A n \in Cursor : RetainFingerprints(slots, c, p, last)[n] \subseteq published[n]
<1> DEFINE filled == [n \in Cursor |-> IF n = c THEN {p}
                                       ELSE IF n \in (c + 1)..last THEN pending[n]
                                       ELSE slots[n]]
           kept(n) == Cardinality({m \in Retained(filled) : m > n}) < Window
<1>1. \A n \in Cursor : filled[n] \subseteq published[n]
  BY DEF EvidencePublished
<1>2. RetainFingerprints(slots, c, p, last) = [n \in Cursor |-> IF kept(n) THEN filled[n] ELSE {}]
  BY DEF RetainFingerprints
<1> HIDE DEF filled, kept
<1> QED BY <1>1, <1>2

LEMMA HonestApplication ==
  ASSUME HonestEvidence, Honest, NEW c \in Cursor, NEW p \in published[c], NEW last,
         Apply(c, p, last)
  PROVE  /\ \A n \in Cursor : /\ pending'[n] \subseteq pending[n]
                              /\ recent'[n] \subseteq published[n]
         /\ equivocationCeiling' = None
<1>1. EvidencePublished /\ equivocationCeiling = None
  BY DEF HonestEvidence
<1>2. CASE ApplyInOrder(c, p, last)
  <2>1. /\ pending' = Undrained(c, last, FALSE)
        /\ recent' = RetainFingerprints(recent, c, p, last)
        /\ equivocationCeiling' = equivocationCeiling
    BY <1>2 DEF ApplyInOrder, Commit, poison
  <2> QED BY <1>1, <2>1, HonestWindow DEF Undrained, EvidencePublished
<1>3. CASE \E start \in Clears(p) : ApplyBarrier(c, p, last, start)
  <2>1. /\ pending' = Undrained(c, last, TRUE)
        /\ recent' = RetainFingerprints([n \in Cursor |-> {}], c, p, last)
        /\ SupersedePoison(c)
    BY <1>3 DEF ApplyBarrier, Commit
  <2>2. equivocationCeiling' = None
    BY <1>1, <2>1 DEF SupersedePoison
  <2>3. \A n \in Cursor : [m \in Cursor |-> {}][n] \subseteq published[n]
    OBVIOUS
  <2>4. \A n \in Cursor : recent'[n] \subseteq published[n]
    BY <1>1, <2>1, <2>3, HonestWindow
  <2> QED BY <2>1, <2>2, <2>4 DEF Undrained
<1> QED BY <1>2, <1>3 DEF Apply
-----------------------------------------------------------------------------
LEMMA PublishedTypeInit == FaithfulInit => PublishedType
<1> SUFFICES ASSUME FaithfulInit PROVE PublishedType
  OBVIOUS
<1>1. CASE published = [c \in Cursor |-> Payload]
  BY <1>1 DEF PublishedType
<1>2. CASE \E truth \in [Cursor -> Payload] : published = [c \in Cursor |-> {truth[c]}]
  BY <1>2 DEF PublishedType
<1> QED BY <1>1, <1>2 DEF FaithfulInit

LEMMA PublishedUnchanged == [FaithfulNext]_faithfulVars => published' = published
BY DEF FaithfulNext, faithfulVars, Deliver, Stray, Close

(* A step of the trace is a step of the fold.                              *)
LEMMA FaithfulStep == PublishedType /\ [FaithfulNext]_faithfulVars => [Next]_vars
<1> SUFFICES ASSUME PublishedType, [FaithfulNext]_faithfulVars PROVE [Next]_vars
  OBVIOUS
<1>1. CASE \E c \in Cursor : \E p \in published[c] : Deliver(c, p)
  <2>0. PICK c \in Cursor : \E p \in published[c] : Deliver(c, p)
    BY <1>1
  <2>1. PICK p \in published[c] : Deliver(c, p)
    BY <2>0
  <2>2. p \in Payload
    BY DEF PublishedType
  <2> QED BY <2>1, <2>2 DEF Deliver, Next
<1>2. CASE Stray \/ Close
  BY <1>2 DEF Stray, Close, Next
<1>3. CASE UNCHANGED faithfulVars
  BY <1>3 DEF faithfulVars
<1> QED BY <1>1, <1>2, <1>3 DEF FaithfulNext

LEMMA PublishedIsTyped == FaithfulSpec => []PublishedType
<1>1. PublishedType /\ [FaithfulNext]_faithfulVars => PublishedType'
  BY PublishedUnchanged DEF PublishedType
<1> QED BY <1>1, PublishedTypeInit, PTL DEF FaithfulSpec

(* Whatever a publisher puts and a trace delivers, its fold behaves as     *)
(* StreamState says: what is proved of the fold alone holds of every trace.*)
THEOREM TraceIsFolded == FaithfulSpec => Spec
<1>1. FaithfulInit => Init
  BY DEF FaithfulInit
<1> QED BY <1>1, FaithfulStep, PublishedIsTyped, PTL DEF FaithfulSpec, Spec
-----------------------------------------------------------------------------
LEMMA EvidenceInit == FaithfulInit => HonestEvidence
BY DEF FaithfulInit, Init, HonestEvidence, EvidencePublished

LEMMA EvidenceStep ==
  TypeOK /\ HonestEvidence /\ [FaithfulNext]_faithfulVars => HonestEvidence'
<1> SUFFICES ASSUME TypeOK, HonestEvidence, [FaithfulNext]_faithfulVars, Honest'
             PROVE  (EvidencePublished /\ equivocationCeiling = None)'
  BY DEF HonestEvidence
<1>1. published' = published /\ Honest
  BY PublishedUnchanged DEF Honest
<1>2. EvidencePublished /\ equivocationCeiling = None
  BY <1>1 DEF HonestEvidence
<1>3. CASE UNCHANGED <<pending, recent, equivocationCeiling>>
  BY <1>1, <1>2, <1>3 DEF EvidencePublished
<1>4. CASE \E c \in Cursor : \E p \in published[c] : Deliver(c, p)
  <2>0. PICK c \in Cursor : \E p \in published[c] : Deliver(c, p)
    BY <1>4
  <2>1. PICK p \in published[c] : Admit(c, p)
    BY <2>0 DEF Deliver
  <2>2. CASE Redeliver(c, p)
    BY <1>1, <1>3, <2>2, HonestRedelivery
  <2>3. CASE Postpone(c, p)
    BY <1>1, <1>2, <2>3, HonestPostponement DEF EvidencePublished
  <2>4. CASE \E last \in c..LastCursor : Apply(c, p, last)
    BY <1>1, <1>2, <2>4, HonestApplication DEF EvidencePublished
  <2>5. CASE \E last \in c..LastCursor : RejectOverflow(c, p, last)
    BY <1>3, <2>5 DEF RejectOverflow, Fail, poison
  <2> QED BY <2>1, <2>2, <2>3, <2>4, <2>5 DEF Admit
<1>5. CASE Stray \/ Close
  BY <1>3, <1>5 DEF Stray, Close, RejectOutOfScope, Fail, Finish, poison
<1>6. CASE UNCHANGED faithfulVars
  BY <1>3, <1>6 DEF faithfulVars, vars, poison
<1> QED BY <1>4, <1>5, <1>6 DEF FaithfulNext

LEMMA EvidenceIsHonest == FaithfulSpec => []HonestEvidence
<1> QED BY EvidenceInit, EvidenceStep, TraceIsFolded, StreamTypes, PTL DEF FaithfulSpec

(* A publisher of one payload per cursor is never accused of equivocation, *)
(* by no trace and under no limits: each fingerprint stays under the       *)
(* cursor it was delivered at, through buffering, drains and barriers.     *)
THEOREM HonestIsNeverAccused == FaithfulSpec => []NoFalseEquivocation
<1>1. HonestEvidence => NoFalseEquivocation
  BY HonestSlots DEF HonestEvidence, EvidencePublished, NoFalseEquivocation
<1> QED BY <1>1, EvidenceIsHonest, PTL
-----------------------------------------------------------------------------
(* Where the published entries stand.                                      *)

LEMMA PublishedEntryAt ==
  ASSUME PublishedType, NEW m \in Cursor, NEW e,
         \E q \in published[m] : e \in Entries(m, Mutations[q], 1)
  PROVE  e.at[1] = m /\ e.at[2] \in Int
<1>1. PICK q \in published[m] : e \in Entries(m, Mutations[q], 1)
  OBVIOUS
<1>2. q \in Payload
  BY DEF PublishedType
<1>3. e \in Entries(m, Mutations[q], 1) /\ 1 \in Nat /\ 1 >= 1
  BY <1>1
<1>4. e.at[1] = m /\ e.at[2] \in Int
  BY <1>2, <1>3, EntryAt
<1> QED BY <1>4

(* What is published up to a cursor, entry by entry.                       *)
LEMMA PublishedEntries ==
  ASSUME PublishedType, NEW last \in OptionalCursor, NEW e
  PROVE  e \in Published(last) <=>
           \E m \in Cursor : m <= last /\ \E p \in published[m] : e \in Entries(m, Mutations[p], 1)
<1>1. \A m : m \in InitialCursor..last <=> m \in Cursor /\ m <= last
  BY StreamAssumption, OptionalFacts DEF Cursor, OptionalCursor, None
<1> QED BY <1>1 DEF Published

(* An honest publisher's entries are those the application takes from its  *)
(* buffer: the slot of a drained cursor holds all that was put there.      *)
LEMMA AppliedIsPublished ==
  ASSUME PublishedType, TypeOK, HonestEvidence, Honest,
         NEW c \in Cursor, NEW p \in published[c], NEW last \in c..LastCursor,
         NEW supersedes, DrainsTo(c, last, supersedes)
  PROVE  /\ p \in Payload /\ published[c] = {p}
         /\ \A m \in Cursor : c < m /\ m <= last => pending[m] = published[m]
<1>1. p \in Payload /\ published[c] = {p}
  BY DEF PublishedType, Honest, IsCandidate
<1>2. ASSUME NEW m \in Cursor, c < m, m <= last PROVE pending[m] = published[m]
  <2>1. m \in (c + 1)..last
    BY <1>2, CursorFacts
  <2>2. IsCandidate(pending[m])
    BY <2>1 DEF DrainsTo, Drainable
  <2>3. pending[m] \subseteq published[m] /\ IsCandidate(published[m])
    BY DEF HonestEvidence, EvidencePublished, Honest
  <2> QED BY <2>2, <2>3 DEF IsCandidate
<1> QED BY <1>1, <1>2

(* An application at the expected cursor adds what was published from      *)
(* there on, all of it after what was published before.                    *)
LEMMA InOrderLog ==
  ASSUME PublishedType, TypeOK, HonestEvidence, Honest,
         NEW c \in Cursor, NEW p \in published[c], NEW last \in c..LastCursor,
         DrainsTo(c, last, FALSE), c = Expected
  PROVE  /\ Published(last) = Published(frontier) \cup ApplicationLog(c, p, 1, last)
         /\ \A f \in Published(frontier), x \in ApplicationLog(c, p, 1, last) :
              Before(f, x) /\ ~Before(x, f)
<1> DEFINE log == ApplicationLog(c, p, 1, last)
<1>0. /\ p \in Payload /\ published[c] = {p}
      /\ \A m \in Cursor : c < m /\ m <= last => pending[m] = published[m]
  BY AppliedIsPublished
<1>1. /\ last \in Cursor /\ last \in OptionalCursor /\ frontier \in OptionalCursor
      /\ c \in Int /\ last \in Int /\ c <= last
  BY StreamAssumption, CursorFacts DEF Cursor, OptionalCursor, TypeOK
<1>2. \A m \in Cursor : m <= frontier <=> m < c
  <2>1. CASE frontier = None
    BY <2>1, StreamAssumption, CursorFacts DEF Expected, Cursor
  <2>2. CASE frontier # None
    BY <1>1, <2>2, OptionalFacts, CursorFacts DEF Expected
  <2> QED BY <2>1, <2>2
<1>3. \A e : e \in log <=>
        \E m \in Cursor : c <= m /\ m <= last /\ \E q \in published[m] : e \in Entries(m, Mutations[q], 1)
  <2> SUFFICES ASSUME NEW e
               PROVE  e \in log <=> \E m \in Cursor : /\ c <= m /\ m <= last
                                                      /\ \E q \in published[m] :
                                                           e \in Entries(m, Mutations[q], 1)
    OBVIOUS
  <2>1. e \in log <=>
           \/ e \in Entries(c, Mutations[p], 1)
           \/ \E m \in Cursor : /\ c < m /\ m <= last
                                /\ \E q \in pending[m] : e \in Entries(m, Mutations[q], 1)
    BY <1>0, ApplicationEntries
  <2>2. \A m \in Cursor : c <= m <=> m = c \/ c < m
    BY <1>1, CursorFacts
  <2> HIDE DEF log
  <2> QED BY <1>0, <1>1, <2>1, <2>2
<1>4. \A e : e \in Published(frontier) <=>
        \E m \in Cursor : m < c /\ \E q \in published[m] : e \in Entries(m, Mutations[q], 1)
  BY <1>1, <1>2, PublishedEntries
<1>5. \A e : e \in Published(last) <=>
        \E m \in Cursor : m <= last /\ \E q \in published[m] : e \in Entries(m, Mutations[q], 1)
  BY <1>1, PublishedEntries
<1> HIDE DEF log
<1>6. \A m \in Cursor : m <= last <=> m < c \/ (c <= m /\ m <= last)
  BY <1>1, CursorFacts
<1>7. Published(last) = Published(frontier) \cup log
  BY <1>3, <1>4, <1>5, <1>6
<1>8. ASSUME NEW f \in Published(frontier), NEW x \in log
      PROVE  Before(f, x) /\ ~Before(x, f)
  <2>1. PICK m \in Cursor : m < c /\ \E q \in published[m] : f \in Entries(m, Mutations[q], 1)
    BY <1>4
  <2>2. PICK n \in Cursor : c <= n /\ \E q \in published[n] : x \in Entries(n, Mutations[q], 1)
    BY <1>3
  <2>3. f.at[1] = m /\ x.at[1] = n
    BY <2>1, <2>2, PublishedEntryAt
  <2>4. m < n /\ ~(n < m) /\ n # m
    BY <1>1, <2>1, <2>2, CursorFacts
  <2> QED BY <2>3, <2>4 DEF Before
<1> QED BY <1>7, <1>8 DEF log

(* An application from a first clear takes everything published from that  *)
(* clear on; what was published earlier comes before the clear.            *)
LEMMA BarrierLog ==
  ASSUME PublishedType, TypeOK, HonestEvidence, Honest,
         NEW c \in Cursor, NEW p \in published[c], NEW last \in c..LastCursor,
         NEW supersedes, DrainsTo(c, last, supersedes),
         NEW start \in Clears(p), NEW base, NEW other
  PROVE  Held(base, ApplicationLog(c, p, start, last)) = Held(other, Published(last))
<1> DEFINE log == ApplicationLog(c, p, start, last)
           e == [at |-> <<c, start>>, op |-> Mutations[p][start]]
<1>0. /\ p \in Payload /\ published[c] = {p}
      /\ \A m \in Cursor : c < m /\ m <= last => pending[m] = published[m]
  BY AppliedIsPublished
<1>1. /\ last \in Cursor /\ last \in OptionalCursor
      /\ c \in Int /\ last \in Int /\ c <= last
  BY StreamAssumption, CursorFacts DEF Cursor, OptionalCursor, TypeOK
<1>2. /\ start \in 1..Len(Mutations[p]) /\ Mutations[p][start].kind = "clear"
      /\ Len(Mutations[p]) \in Nat
  BY <1>0, StreamAssumption DEF Clears
<1>3. start \in Nat /\ start >= 1
  BY <1>2
<1>4. e \in Entries(c, Mutations[p], start) /\ e.op.kind = "clear"
  BY <1>2 DEF Entries
<1>5. \A x : x \in log <=>
           \/ x \in Entries(c, Mutations[p], start)
           \/ \E m \in Cursor : /\ c < m /\ m <= last
                                /\ \E q \in pending[m] : x \in Entries(m, Mutations[q], 1)
  BY <1>0, ApplicationEntries
<1>6. \A x : x \in Published(last) <=>
        \E m \in Cursor : m <= last /\ \E q \in published[m] : x \in Entries(m, Mutations[q], 1)
  BY <1>1, PublishedEntries
<1>7. Entries(c, Mutations[p], start) \subseteq Entries(c, Mutations[p], 1)
  BY <1>2 DEF Entries
<1> HIDE DEF log, e
<1>8. log \subseteq Published(last) /\ e \in log
  BY <1>0, <1>1, <1>4, <1>5, <1>6, <1>7
<1>9. ASSUME NEW f \in Published(last) \ log
      PROVE  f.at[1] < c \/ (f.at[1] = c /\ f.at[2] < start)
  <2>1. PICK m \in Cursor : m <= last /\ \E q \in published[m] : f \in Entries(m, Mutations[q], 1)
    BY <1>6
  <2>2. PICK q \in published[m] : f \in Entries(m, Mutations[q], 1)
    BY <2>1
  <2>3. q \in Payload
    BY DEF PublishedType
  <2>4. f.at[1] = m /\ f.at[2] \in Int
    BY <2>1, PublishedEntryAt
  <2>5. ~(c < m)
    BY <1>0, <1>5, <2>1, <2>2
  <2>6. CASE m = c
    <3>1. q = p
      BY <1>0, <2>6
    <3>2. f \notin Entries(c, Mutations[p], start)
      BY <1>5
    <3>3. ~(f.at[2] >= start)
      BY <1>0, <1>3, <2>2, <2>6, <3>1, <3>2, EntryFrom
    <3> QED BY <1>3, <2>4, <2>6, <3>3
  <2> QED BY <1>1, <2>4, <2>5, <2>6, CursorFacts
<1>10. ASSUME NEW x \in log
       PROVE  x.at[1] \in Int /\ x.at[2] \in Int /\ (x.at[1] > c \/ (x.at[1] = c /\ x.at[2] >= start))
  <2>1. CASE x \in Entries(c, Mutations[p], start)
    BY <1>0, <1>1, <1>3, <2>1, EntryAt
  <2>2. CASE \E m \in Cursor : /\ c < m /\ m <= last
                               /\ \E q \in pending[m] : x \in Entries(m, Mutations[q], 1)
    <3>1. PICK m \in Cursor : /\ c < m /\ m <= last
                              /\ \E q \in pending[m] : x \in Entries(m, Mutations[q], 1)
      BY <2>2
    <3>2. \E q \in published[m] : x \in Entries(m, Mutations[q], 1)
      BY <1>0, <3>1
    <3>3. x.at[1] = m /\ x.at[2] \in Int
      BY <3>2, PublishedEntryAt
    <3>4. c \in Nat /\ m \in Nat /\ m > c
      BY <3>1, CursorFacts
    <3> QED BY <3>3, <3>4
  <2> QED BY <1>5, <2>1, <2>2
<1>11. \A f \in Published(last) \ log : f.at[1] \in Int /\ f.at[2] \in Int
  <2> SUFFICES ASSUME NEW f \in Published(last) PROVE f.at[1] \in Int /\ f.at[2] \in Int
    OBVIOUS
  <2>1. PICK m \in Cursor : \E q \in published[m] : f \in Entries(m, Mutations[q], 1)
    BY <1>6
  <2>2. f.at[1] = m /\ f.at[2] \in Int
    BY <2>1, PublishedEntryAt
  <2> QED BY <2>2, CursorFacts
<1>12. \A f \in Published(last) \ log : \A x \in log : ~Before(x, f)
  <2> SUFFICES ASSUME NEW f \in Published(last) \ log, NEW x \in log PROVE ~Before(x, f)
    OBVIOUS
  <2> QED BY <1>1, <1>3, <1>9, <1>10, <1>11 DEF Before
<1>13. \A f \in Published(last) \ log : Before(f, e)
  BY <1>9 DEF Before, e
<1>14. e.op.kind = "clear"
  BY <1>4
<1>15. Held(base, log) = Held(other, Published(last))
  BY <1>8, <1>12, <1>13, <1>14, HeldFromClear
<1> QED BY <1>15 DEF log
-----------------------------------------------------------------------------
(* An authoritative view is never about an unknown baseline, and it is the *)
(* engine's cache.                                                         *)
ViewIsTruth ==
  Honest /\ viewAuthoritative =>
    /\ ~baselineUnknown
    /\ \A start \in StartingViews : view = Held(start, Published(frontier))

LEMMA ViewTruthInit == FaithfulInit => ViewIsTruth
<1> SUFFICES ASSUME FaithfulInit, viewAuthoritative
             PROVE  ~baselineUnknown /\ \A start \in StartingViews :
                      view = Held(start, Published(frontier))
  BY DEF ViewIsTruth
<1>1. trustedStart /\ ~baselineUnknown /\ view = {} /\ frontier = None
  BY DEF FaithfulInit, Init
<1>2. InitialCursor..None = {}
  BY StreamAssumption DEF None
<1>3. Published(frontier) = {}
  BY <1>1, <1>2 DEF Published
<1>4. Held({}, {}) = {}
  BY DEF Held, StoredLast, Untouched
<1> QED BY <1>1, <1>3, <1>4 DEF StartingViews

LEMMA ViewTruthStep ==
  PublishedType /\ TypeOK /\ HonestEvidence /\ ViewIsTruth /\ [FaithfulNext]_faithfulVars
    => ViewIsTruth'
<1> SUFFICES ASSUME PublishedType, TypeOK, HonestEvidence, ViewIsTruth,
                    [FaithfulNext]_faithfulVars, Honest', viewAuthoritative'
             PROVE  (/\ ~baselineUnknown
                     /\ \A start \in StartingViews : view = Held(start, Published(frontier)))'
  BY DEF ViewIsTruth
<1>1. published' = published /\ Honest /\ trustedStart' = trustedStart
  BY PublishedUnchanged DEF Honest, FaithfulNext, faithfulVars, Deliver, Stray, Close
<1>2. StartingViews' = StartingViews /\ Published(frontier)' = Published(frontier')
  BY <1>1 DEF StartingViews, Published
<1>3. CASE UNCHANGED <<view, frontier, baselineUnknown, viewAuthoritative>>
  <2>1. Published(frontier') = Published(frontier)
    BY <1>3
  <2> QED BY <1>1, <1>2, <1>3, <2>1 DEF ViewIsTruth
<1>4. CASE \E c \in Cursor : \E p \in published[c] : Deliver(c, p)
  <2>0. PICK c \in Cursor : \E p \in published[c] : Deliver(c, p)
    BY <1>4
  <2>1. PICK p \in published[c] : Admit(c, p)
    BY <2>0 DEF Deliver
  <2>2. CASE Redeliver(c, p)
    BY <1>3, <2>2 DEF Redeliver, PendingDuplicate, PendingConflict,
         PendingAdditionalConflict, PastDuplicate, PastConflict, Stale
  <2>3. CASE Postpone(c, p)
    BY <1>3, <2>3 DEF Postpone, UnverifiableGap, Buffer, GapLimit, PendingLimit, Discard
  <2>4. ASSUME NEW last \in c..LastCursor, ApplyInOrder(c, p, last)
        PROVE  (/\ ~baselineUnknown
                /\ \A start \in StartingViews : view = Held(start, Published(frontier)))'
    <3>1. /\ AppliesInOrder(c, p) /\ DrainsTo(c, last, FALSE)
          /\ view' = Held(view, ApplicationLog(c, p, 1, last)) /\ frontier' = last
          /\ baselineUnknown' = baselineUnknown /\ viewAuthoritative' = viewAuthoritative
      BY <2>4 DEF ApplyInOrder, Commit
    <3>2. /\ ~baselineUnknown
          /\ \A start \in StartingViews : view = Held(start, Published(frontier))
      BY <1>1, <3>1 DEF ViewIsTruth
    <3>3. c = Expected
      BY <3>1, <3>2 DEF AppliesInOrder, AttachesPartial
    <3>4. /\ Published(last) = Published(frontier) \cup ApplicationLog(c, p, 1, last)
          /\ \A f \in Published(frontier), x \in ApplicationLog(c, p, 1, last) :
               Before(f, x) /\ ~Before(x, f)
      BY <1>1, <3>1, <3>3, InOrderLog
    <3>5. \A start : Held(Held(start, Published(frontier)), ApplicationLog(c, p, 1, last))
                       = Held(start, Published(last))
      BY <3>4, HeldJoin
    <3>6. \A start \in StartingViews : view' = Held(start, Published(last))
      BY <3>1, <3>2, <3>5
    <3> QED BY <1>2, <3>1, <3>2, <3>6
  <2>5. ASSUME NEW last \in c..LastCursor, NEW start \in Clears(p),
               ApplyBarrier(c, p, last, start)
        PROVE  (/\ ~baselineUnknown
                /\ \A first \in StartingViews : view = Held(first, Published(frontier)))'
    <3>1. /\ DrainsTo(c, last, Supersedes(c))
          /\ view' = Held(view, ApplicationLog(c, p, start, last)) /\ frontier' = last
          /\ baselineUnknown' = FALSE
      BY <2>5 DEF ApplyBarrier, Commit
    <3>2. \A first : view' = Held(first, Published(last))
      BY <1>1, <3>1, BarrierLog
    <3> QED BY <1>2, <3>1, <3>2
  <2>6. CASE \E last \in c..LastCursor : RejectOverflow(c, p, last)
    BY <1>3, <2>6 DEF RejectOverflow, Fail
  <2> QED BY <2>1, <2>2, <2>3, <2>4, <2>5, <2>6 DEF Admit, Apply
<1>5. CASE Stray \/ Close
  BY <1>3, <1>5 DEF Stray, Close, RejectOutOfScope, Fail, Finish
<1>6. CASE UNCHANGED faithfulVars
  BY <1>3, <1>6 DEF faithfulVars, vars
<1> QED BY <1>4, <1>5, <1>6 DEF FaithfulNext

(* Whatever was lost, repeated, reordered or discarded, and whatever an    *)
(* untrusted engine held before the start, an authoritative view is what   *)
(* the mutations published up to the frontier leave, applied in order.     *)
THEOREM ViewIsTheEnginesCache == FaithfulSpec => []AuthoritativeViewIsTruth
<1>1. ViewIsTruth => AuthoritativeViewIsTruth
  BY DEF ViewIsTruth, AuthoritativeViewIsTruth
<1> QED BY <1>1, ViewTruthInit, ViewTruthStep, PublishedIsTyped, EvidenceIsHonest,
           TraceIsFolded, StreamTypes, PTL DEF FaithfulSpec
-----------------------------------------------------------------------------
(* What was delivered, and where the fold keeps it.                        *)

EvidenceDelivered ==
  /\ delivered \subseteq Cursor
  /\ Honest => frontier \in delivered \cup {None} /\ Retained(pending) \subseteq delivered

(* A cursor delivered so far is applied, waits, or was discarded. *)
Accounted(c) == \/ c <= frontier
                \/ pending[c] # {}
                \/ unavailableFloor # None /\ unavailableFloor <= c /\ c <= unavailableCeiling

DeliveredAccounted == Honest /\ ~failed => \A c \in delivered : Accounted(c)

(* Even after finish, a stream without waiting slots is classified by what *)
(* is recorded against it.                                                 *)
ClosedIsClassified ==
  Retained(pending) = {} => certainty = Classify(baselineUnknown, poisonCeiling, pending)

TrustedIsKnown == trustedStart => ~baselineUnknown

NothingDiscarded == Honest /\ ~limited => unavailableFloor = None

AccountInv == /\ EvidenceDelivered
              /\ DeliveredAccounted
              /\ ClosedIsClassified
              /\ TrustedIsKnown
              /\ NothingDiscarded

LEMMA AccountInit == FaithfulInit => AccountInv
<1> SUFFICES ASSUME FaithfulInit PROVE AccountInv
  OBVIOUS
<1>1. /\ delivered = {} /\ frontier = None /\ unavailableFloor = None /\ poisonCeiling = None
      /\ \A n \in Cursor : pending[n] = {}
      /\ trustedStart = viewAuthoritative /\ viewAuthoritative = ~baselineUnknown
      /\ certainty = IF baselineUnknown THEN "Unknown" ELSE "Exact"
  BY DEF FaithfulInit, Init
<1>2. Retained(pending) = {}
  BY <1>1 DEF Retained
<1>3. certainty = Classify(baselineUnknown, poisonCeiling, pending)
  BY <1>1, <1>2 DEF Classify
<1> QED BY <1>1, <1>2, <1>3 DEF AccountInv, EvidenceDelivered, DeliveredAccounted,
           ClosedIsClassified, TrustedIsKnown, NothingDiscarded

(* A delivery after which what was accounted for still is, and c as well.  *)
LEMMA AccountDelivery ==
  ASSUME PublishedType, AccountInv, IInv', Ready, ~finished',
         NEW c \in Cursor, NEW p \in published[c], Deliver(c, p),
         baselineUnknown' => baselineUnknown,
         Honest => /\ frontier' \in delivered \cup {frontier, c, None}
                   /\ Retained(pending') \subseteq delivered \cup {c}
                   /\ ~failed' => /\ Accounted(c)'
                                  /\ \A n \in delivered : Accounted(n) => Accounted(n)'
                   /\ ~limited' /\ unavailableFloor = None => unavailableFloor' = None
  PROVE  AccountInv'
<1>1. published' = published /\ trustedStart' = trustedStart /\ Honest' = Honest
  BY DEF Deliver, Honest
<1>2. Honest => delivered' = delivered \cup {c} /\ (limited => limited')
  BY DEF Deliver
<1>3. ~Honest => delivered' = delivered
  BY DEF Deliver
<1>4. EvidenceDelivered'
  BY <1>1, <1>2, <1>3 DEF AccountInv, EvidenceDelivered, Retained
<1>5. DeliveredAccounted'
  BY <1>1, <1>2 DEF AccountInv, DeliveredAccounted, Ready
<1>6. ClosedIsClassified'
  BY DEF IInv, CertaintyCurrent, ClosedIsClassified
<1>7. TrustedIsKnown'
  BY <1>1 DEF AccountInv, TrustedIsKnown
<1>8. NothingDiscarded'
  BY <1>1, <1>2 DEF AccountInv, NothingDiscarded
<1> QED BY <1>4, <1>5, <1>6, <1>7, <1>8 DEF AccountInv

LEMMA AccountRedelivery ==
  ASSUME PublishedType, TypeOK, HonestEvidence, AccountInv, IInv',
         NEW c \in Cursor, NEW p \in published[c], Deliver(c, p), Redeliver(c, p)
  PROVE  AccountInv'
<1>1. /\ Ready /\ UNCHANGED <<frontier, baselineUnknown, unavailableFloor, unavailableCeiling,
                              failed, finished>>
      /\ c <= frontier \/ pending[c] # {}
  BY SlotFacts DEF Redeliver, PendingDuplicate, PendingConflict, PendingAdditionalConflict,
       PastDuplicate, PastConflict, Stale, Past, SetEquivocation, poison, IsConflict, IsCandidate
<1>2. Honest => pending' = pending
  BY HonestRedelivery
<1>3. ~finished'
  BY <1>1 DEF Ready
<1>4. Honest => Retained(pending') \subseteq delivered \cup {c}
  BY <1>2 DEF AccountInv, EvidenceDelivered
<1>5. Honest => Accounted(c)' /\ \A n \in delivered : Accounted(n) => Accounted(n)'
  BY <1>1, <1>2 DEF Accounted
<1> QED BY <1>1, <1>3, <1>4, <1>5, AccountDelivery

LEMMA AccountPostponement ==
  ASSUME PublishedType, TypeOK, HonestEvidence, AccountInv, IInv, IInv',
         NEW c \in Cursor, NEW p \in published[c], Deliver(c, p), Postpone(c, p)
  PROVE  AccountInv'
<1>0. /\ unavailableFloor \in OptionalCursor /\ unavailableCeiling \in OptionalCursor
      /\ delivered \subseteq Cursor
  BY DEF TypeOK, AccountInv, EvidenceDelivered
<1>1. Ready /\ UNCHANGED <<frontier, baselineUnknown, failed, finished>>
  BY DEF Postpone, UnverifiableGap, Buffer, GapLimit, PendingLimit, Discard, Waits, Admissible
<1>2. CASE Buffer(c, p)
  <2>1. /\ pending' = [pending EXCEPT ![c] = {p}]
        /\ UNCHANGED <<unavailableFloor, unavailableCeiling>>
    BY <1>2 DEF Buffer, poison
  <2>2. \A n \in Cursor : pending'[n] # {} <=> pending[n] # {} \/ n = c
    BY <2>1 DEF TypeOK
  <2>3. Honest => Retained(pending') \subseteq delivered \cup {c}
    BY <2>2 DEF AccountInv, EvidenceDelivered, Retained
  <2>4. Accounted(c)' /\ \A n \in delivered : Accounted(n) => Accounted(n)'
    BY <1>0, <1>1, <2>1, <2>2 DEF Accounted
  <2>5. ~finished'
    BY <1>1 DEF Ready
  <2> QED BY <1>1, <2>1, <2>3, <2>4, <2>5, AccountDelivery
<1>3. ASSUME SetUnavailable(c), pending' = pending,
             unavailableFloor # None \/ (Honest => limited')
      PROVE  AccountInv'
  <2>1. /\ unavailableFloor' # None /\ unavailableFloor' <= c /\ c <= unavailableCeiling'
        /\ unavailableFloor # None => unavailableFloor' <= unavailableFloor
        /\ unavailableCeiling <= unavailableCeiling'
        /\ unavailableFloor' \in Cursor /\ unavailableCeiling' \in Cursor
    BY <1>0, <1>3, CursorFacts, OptionalFacts DEF SetUnavailable, Larger, OptionalCursor
  <2>2. ASSUME NEW n \in delivered, Accounted(n) PROVE Accounted(n)'
    <3>1. n \in Int /\ unavailableFloor \in Int /\ unavailableCeiling \in Int
          /\ unavailableFloor' \in Int /\ unavailableCeiling' \in Int
      BY <1>0, <2>1, CursorFacts, OptionalFacts
    <3> QED BY <1>1, <1>3, <2>1, <2>2, <3>1 DEF Accounted
  <2>3. Accounted(c)'
    BY <2>1 DEF Accounted
  <2>4. Honest => Retained(pending') \subseteq delivered \cup {c}
    BY <1>3 DEF AccountInv, EvidenceDelivered
  <2>5. ~finished'
    BY <1>1 DEF Ready
  <2> QED BY <1>1, <1>3, <2>2, <2>3, <2>4, <2>5, AccountDelivery
<1>4. CASE UnverifiableGap(c, p)
  BY <1>3, <1>4 DEF UnverifiableGap, UnavailableBlocks
<1>5. CASE GapLimit(c, p) \/ PendingLimit(c, p)
  BY <1>3, <1>5 DEF GapLimit, PendingLimit, Discard, Deliver
<1> QED BY <1>2, <1>4, <1>5 DEF Postpone

LEMMA AccountApplication ==
  ASSUME PublishedType, TypeOK, AccountInv, IInv, IInv',
         NEW c \in Cursor, NEW p \in published[c], Deliver(c, p),
         NEW last \in c..LastCursor, Apply(c, p, last)
  PROVE  AccountInv'
<1>0. p \in Payload /\ delivered \subseteq Cursor /\ c \in Int /\ last \in Int /\ c <= last
  BY CursorFacts DEF PublishedType, AccountInv, EvidenceDelivered, Cursor
<1>1. PICK barrier \in BOOLEAN :
        /\ Ready /\ frontier' = last /\ c > frontier
        /\ baselineUnknown' => baselineUnknown
        /\ pending' = Undrained(c, last, barrier)
        /\ UNCHANGED <<failed, finished>>
        /\ \E supersedes : DrainsTo(c, last, supersedes)
        /\ \/ UNCHANGED <<unavailableFloor, unavailableCeiling>>
           \/ unavailableFloor' = None /\ unavailableCeiling < c
  <2>1. CASE ApplyInOrder(c, p, last)
    BY <2>1 DEF ApplyInOrder, Commit, AppliesInOrder, Admissible, Fresh, poison
  <2>2. CASE \E start \in Clears(p) : ApplyBarrier(c, p, last, start)
    BY <2>2 DEF ApplyBarrier, Commit, AppliesAsBarrier, Admissible, Fresh, SupersedePoison
  <2> QED BY <2>1, <2>2 DEF Apply
<1>2. \A n \in Cursor : c < n /\ n <= last => pending[n] # {}
  <2> SUFFICES ASSUME NEW n \in Cursor, c < n, n <= last PROVE pending[n] # {}
    OBVIOUS
  <2>0. n \in Int
    BY CursorFacts
  <2>1. n \in (c + 1)..last
    BY <1>0, <2>0
  <2> QED BY <1>1, <2>1 DEF DrainsTo, Drainable, IsCandidate
<1>3. last \in Cursor /\ (last = c \/ c < last)
  BY <1>0, StreamAssumption DEF Cursor
<1>4. Honest => frontier' \in delivered \cup {frontier, c, None}
  BY <1>1, <1>2, <1>3 DEF AccountInv, EvidenceDelivered, Retained
<1>5. \A n \in Cursor : /\ pending'[n] # {} => pending[n] # {}
                        /\ pending[n] # {} /\ ~(n <= last) => pending'[n] # {}
  <2> SUFFICES ASSUME NEW n \in Cursor
               PROVE  /\ pending'[n] # {} => pending[n] # {}
                      /\ pending[n] # {} /\ ~(n <= last) => pending'[n] # {}
    OBVIOUS
  <2>0. c \in Nat /\ n \in Nat /\ last \in Nat /\ c <= last
    <3>1. c \in Nat /\ n \in Nat
      BY CursorFacts
    <3>2. last >= c
      BY <1>0
    <3>3. last \in Nat
      BY <1>0, <3>1, <3>2
    <3> QED BY <3>1, <3>3, <1>0
  <2>1. ~(n <= last) => n \notin (c + 1)..last /\ ~(n <= c)
    BY <2>0
  <2> QED BY <1>1, <2>1 DEF Undrained
<1>6. Honest => Retained(pending') \subseteq delivered \cup {c}
  BY <1>5 DEF AccountInv, EvidenceDelivered, Retained
<1>7. ASSUME NEW n \in delivered, Accounted(n) PROVE Accounted(n)'
  <2>1. /\ n \in Int /\ frontier \in Int /\ unavailableFloor \in Int
        /\ unavailableCeiling \in Int
    BY <1>0, CursorFacts, OptionalFacts DEF TypeOK
  <2>2. CASE n <= last
    BY <1>1, <2>2 DEF Accounted
  <2>3. CASE ~(n <= last)
    <3>1. ~(n <= frontier) /\ ~(n <= c)
      BY <1>0, <1>1, <2>1, <2>3
    <3>2. CASE pending[n] # {}
      BY <1>0, <1>5, <2>3, <3>2 DEF Accounted
    <3>3. CASE unavailableFloor # None /\ unavailableFloor <= n /\ n <= unavailableCeiling
      <4>1. ~(unavailableCeiling < c)
        BY <1>0, <2>1, <3>1, <3>3
      <4> QED BY <1>1, <3>3, <4>1 DEF Accounted
    <3> QED BY <1>7, <3>1, <3>2, <3>3 DEF Accounted
  <2> QED BY <2>2, <2>3
<1>8. Accounted(c)'
  BY <1>0, <1>1 DEF Accounted
<1>9. unavailableFloor = None => unavailableFloor' = None
  BY <1>1
<1>10. ~finished'
  BY <1>1 DEF Ready
<1> QED BY <1>1, <1>4, <1>6, <1>7, <1>8, <1>9, <1>10, AccountDelivery

LEMMA AccountStep ==
  /\ PublishedType /\ TypeOK /\ IInv /\ IInv' /\ HonestEvidence /\ AccountInv
  /\ [FaithfulNext]_faithfulVars
  => AccountInv'
<1> SUFFICES ASSUME PublishedType, TypeOK, IInv, IInv', HonestEvidence, AccountInv,
                    [FaithfulNext]_faithfulVars
             PROVE  AccountInv'
  OBVIOUS
<1>1. CASE \E c \in Cursor : \E p \in published[c] : Deliver(c, p)
  <2>0. PICK c \in Cursor : \E p \in published[c] : Deliver(c, p)
    BY <1>1
  <2>1. PICK p \in published[c] : Deliver(c, p)
    BY <2>0
  <2>2. ASSUME NEW last \in c..LastCursor, RejectOverflow(c, p, last) PROVE AccountInv'
    <3>1. /\ Ready /\ failed'
          /\ UNCHANGED <<frontier, baselineUnknown, unavailableFloor, pending, finished>>
      BY <2>2 DEF RejectOverflow, Fail, AppliesInOrder, AppliesAsBarrier, Admissible, poison
    <3>2. Honest => Retained(pending') \subseteq delivered \cup {c}
      BY <3>1 DEF AccountInv, EvidenceDelivered
    <3>3. ~finished'
      BY <3>1 DEF Ready
    <3> QED BY <2>1, <3>1, <3>2, <3>3, AccountDelivery
  <2> QED BY <2>1, <2>2, AccountRedelivery, AccountPostponement, AccountApplication
          DEF Deliver, Admit
<1>2. CASE Stray
  BY <1>2 DEF Stray, RejectOutOfScope, Fail, poison, AccountInv, EvidenceDelivered,
       DeliveredAccounted, ClosedIsClassified, TrustedIsKnown, NothingDiscarded, Honest,
       Retained, Classify
<1>3. CASE Close
  <2>1. /\ UNCHANGED <<frontier, baselineUnknown, poison, pending, failed>>
        /\ UNCHANGED <<published, trustedStart, delivered, limited>>
        /\ Retained(pending) = {} => certainty' = certainty
    BY <1>3 DEF Close, Finish
  <2> QED BY <2>1 DEF AccountInv, EvidenceDelivered, poison, Accounted,
       DeliveredAccounted, ClosedIsClassified, TrustedIsKnown, NothingDiscarded, Honest,
       Retained, Classify
<1>4. CASE UNCHANGED faithfulVars
  BY <1>4 DEF faithfulVars, vars, poison, AccountInv, EvidenceDelivered, Accounted,
       DeliveredAccounted, ClosedIsClassified, TrustedIsKnown, NothingDiscarded, Honest,
       Retained, Classify
<1> QED BY <1>1, <1>2, <1>3, <1>4 DEF FaithfulNext

LEMMA EveryDeliveryIsAccountedFor == FaithfulSpec => []AccountInv
<1> QED BY AccountInit, AccountStep, PublishedIsTyped, EvidenceIsHonest, TraceIsFolded,
           StreamTypes, StreamInvariant, PTL DEF FaithfulSpec

(* An honest publisher leaves nothing to poison a stream but discards.     *)
LEMMA HonestPoison ==
  ASSUME IInv, HonestEvidence, Honest
  PROVE  /\ unavailableFloor = None <=> poisonCeiling = None
         /\ \A n \in Retained(pending) : IsCandidate(pending[n])
<1>1. /\ unavailableFloor = None <=> unavailableCeiling = None
      /\ poisonCeiling = Larger(None, unavailableCeiling)
  BY DEF IInv, UnavailableAhead, CertaintyCurrent, HonestEvidence
<1>2. unavailableCeiling \in OptionalCursor
  BY DEF IInv, TypeOK
<1>3. unavailableFloor = None <=> poisonCeiling = None
  <2>1. unavailableCeiling \in Int /\ None \in Int
    BY <1>2, OptionalFacts, CursorFacts
  <2>2. unavailableCeiling # None => unavailableCeiling > None
    BY <1>2, OptionalFacts
  <2>3. Larger(None, unavailableCeiling) = unavailableCeiling
    BY <2>1, <2>2 DEF Larger
  <2> QED BY <1>1, <2>3
<1>4. ASSUME NEW n \in Retained(pending) PROVE IsCandidate(pending[n])
  <2>1. n \in Cursor /\ pending[n] # {} /\ pending[n] \subseteq published[n]
    BY DEF Retained, HonestEvidence, EvidencePublished
  <2> QED BY <2>1, HonestSlots DEF IsConflict
<1> QED BY <1>3, <1>4

LEMMA ExactAccounts == IInv /\ HonestEvidence /\ AccountInv => ExactAccountsForAll
<1> SUFFICES ASSUME IInv, HonestEvidence, AccountInv, Honest, ~failed, certainty = "Exact",
                    NEW c \in delivered
             PROVE  c <= frontier
  BY DEF ExactAccountsForAll
<1>1. poisonCeiling = None /\ Retained(pending) = {}
  BY DEF IInv, CertaintyJustified, Classify
<1>2. unavailableFloor = None
  BY <1>1, HonestPoison
<1>3. c \in Cursor /\ Accounted(c)
  BY DEF AccountInv, EvidenceDelivered, DeliveredAccounted
<1>4. pending[c] = {}
  BY <1>1, <1>3 DEF Retained
<1> QED BY <1>2, <1>3, <1>4 DEF Accounted

LEMMA DenseCompletes == IInv /\ HonestEvidence /\ AccountInv => DenseCompletion
<1> SUFFICES ASSUME IInv, HonestEvidence, AccountInv, Honest, trustedStart, ~limited, ~failed,
                    NEW n \in Cursor, delivered = InitialCursor..n
             PROVE  certainty = "Exact" /\ frontier = n
  BY DEF DenseCompletion
<1>1. unavailableFloor = None /\ poisonCeiling = None /\ ~baselineUnknown
  BY HonestPoison DEF AccountInv, NothingDiscarded, TrustedIsKnown
<1>2. /\ frontier \in delivered \cup {None} /\ Retained(pending) \subseteq delivered
      /\ \A c \in delivered : c <= frontier \/ pending[c] # {}
  BY <1>1 DEF AccountInv, EvidenceDelivered, DeliveredAccounted, Accounted
<1>3. /\ n \in Int /\ InitialCursor \in Nat /\ InitialCursor <= n
      /\ \A c \in Int : c \in delivered <=> InitialCursor <= c /\ c <= n
  BY StreamAssumption DEF Cursor
<1>4. Expected \notin Retained(pending)
  BY <1>1, HonestPoison DEF IInv, Drained
<1>5. frontier = n
  <2>1. ASSUME frontier # n PROVE FALSE
    <3>1. /\ Expected \in Int /\ InitialCursor <= Expected /\ Expected <= n
          /\ ~(Expected <= frontier)
      <4>1. CASE frontier = None
        BY <1>3, <4>1 DEF Expected, None
      <4>2. CASE frontier # None
        <5>1. frontier \in Int /\ InitialCursor <= frontier /\ frontier <= n
          BY <1>2, <1>3, <4>2 DEF None
        <5> QED BY <1>3, <2>1, <4>2, <5>1 DEF Expected
      <4> QED BY <4>1, <4>2
    <3>2. Expected \in delivered /\ Expected \in Cursor
      BY <1>3, <3>1, StreamAssumption DEF Cursor
    <3> QED BY <1>2, <1>4, <3>1, <3>2 DEF Retained
  <2> QED BY <2>1
<1>6. Retained(pending) = {}
  <2>1. ASSUME NEW m \in Retained(pending) PROVE FALSE
    <3>1. m \in delivered /\ m > frontier
      BY <1>2 DEF IInv, Drained
    <3> QED BY <1>3, <1>5, <3>1
  <2> QED BY <2>1
<1>7. certainty = "Exact"
  BY <1>1, <1>6 DEF AccountInv, ClosedIsClassified, Classify
<1> QED BY <1>5, <1>7

(* Under no limits does a stream turn Exact while something delivered lies *)
(* beyond its frontier, and filling every cursor in any order brings a     *)
(* trusted stream back to Exact when no ceiling was met.                   *)
THEOREM ExactIsComplete == FaithfulSpec => []ExactMeansComplete
<1>1. IInv /\ HonestEvidence /\ AccountInv => ExactMeansComplete
  BY ExactAccounts, DenseCompletes DEF ExactMeansComplete
<1> QED BY <1>1, EveryDeliveryIsAccountedFor, EvidenceIsHonest, TraceIsFolded,
           StreamInvariant, PTL
-----------------------------------------------------------------------------
(* Two executions of one list of sources.                                  *)

(* The deliveries of G put p at cursor n.                                  *)
At(G, n, p) == \E i \in G : sources[i].cursor = n /\ sources[i].payload = p

(* The mutations of one payload per cursor of b..last.                     *)
FoldLog(A, b, last) == UNION {Entries(n, Mutations[A[n]], 1) : n \in b..last}

StartsAt(A, b, last) == b = InitialCursor \/ (b <= last /\ HasClear(A[b]))

(* The payloads of A from b on explain the view.  Each was delivered, and  *)
(* at a cursor without doubt it is all that was delivered.                 *)
Explains(G, A, b) ==
  /\ StartsAt(A, b, frontier)
  /\ view = Held({}, FoldLog(A, b, frontier))
  /\ \A n \in b..frontier :
       /\ At(G, n, A[n])
       /\ recent[n] # {} => A[n] \in recent[n]
       /\ n \notin unverified /\ n > equivocationCeiling =>
            \A p \in Payload : At(G, n, p) => p = A[n]

ViewExplained(G) ==
  viewAuthoritative => /\ ~baselineUnknown
                       /\ \E A \in [Cursor -> Payload], b \in Cursor : Explains(G, A, b)

Discarded(n) ==
  unavailableFloor # None /\ unavailableFloor <= n /\ n <= unavailableCeiling

(* What was delivered beyond the frontier waits, or is known to be lost.   *)
AheadIsKept(G) ==
  \A n \in Cursor, p \in Payload :
    At(G, n, p) /\ n > frontier => p \in pending[n] \/ IsConflict(pending[n]) \/ Discarded(n)

SlotsGiven(G) ==
  /\ \A n \in Cursor, p \in Payload : p \in pending[n] \cup recent[n] => At(G, n, p)
  /\ frontier # None => \E p \in Payload : At(G, frontier, p)

NoLimit == diagnostics["gap_limits"] + diagnostics["pending_limits"] = 0 /\ ~truncated

NothingLost ==
  trusted /\ Consistent /\ NoLimit =>
    ~baselineUnknown /\ equivocationCeiling = None /\ unavailableFloor = None

Folded(G) == /\ ViewExplained(G)
             /\ AheadIsKept(G)
             /\ SlotsGiven(G)
             /\ NothingLost

(* The sources delivered in the execution that runs.                       *)
Given == {i \in DOMAIN sources : IF mode = "pristine" THEN i <= consumed
                                                       ELSE occurrences[i] > 0}

RunIsFolded ==
  mode \in {"pristine", "faulted"} =>
    \E G \in SUBSET DOMAIN sources : G = Given /\ Folded(G)

(* What the summary of the pristine execution retains of all this.         *)
PristineExplained ==
  pristine.eligible =>
    /\ \A i \in DOMAIN sources : sources[i].cursor <= pristine.frontier
    /\ \E A \in [Cursor -> Payload], b \in Cursor :
         /\ StartsAt(A, b, pristine.frontier)
         /\ pristine.view = Held({}, FoldLog(A, b, pristine.frontier))
         /\ \A n \in b..pristine.frontier :
              /\ At(DOMAIN sources, n, A[n])
              /\ n \notin unverified =>
                   \A p \in Payload : At(DOMAIN sources, n, p) => p = A[n]

RunType ==
  /\ sources \in Seq(Envelope) /\ Len(sources) > 0
  /\ mode \in {"pristine", "restart", "faulted", "compared", "aborted"}
  /\ consumed \in 0..Len(sources)
  /\ occurrences \in [1..Len(sources) -> Nat]
  /\ pristine.frontier \in OptionalCursor
  /\ trusted \in BOOLEAN
  /\ mode # "compared" => verdict = "none"
  /\ mode \in {"pristine", "restart"} => \A i \in DOMAIN sources : occurrences[i] = 0

(* The inductive invariant.                                                *)
ComparisonInv == /\ IInv
                 /\ RunType
                 /\ RunIsFolded
                 /\ PristineExplained
                 /\ DivergenceIsUnverified
                 /\ ReorderingConverges
-----------------------------------------------------------------------------
(* Logs of one payload per cursor.                                         *)

LEMMA FoldRange ==
  ASSUME NEW b \in Cursor, NEW last \in OptionalCursor
  PROVE  \A n : n \in b..last <=> n \in Cursor /\ b <= n /\ n <= last
BY StreamAssumption, OptionalFacts DEF Cursor, OptionalCursor, None

LEMMA FoldEntries ==
  ASSUME NEW A, NEW b \in Cursor, NEW last \in OptionalCursor, NEW e
  PROVE  e \in FoldLog(A, b, last) <=>
           \E n \in Cursor : b <= n /\ n <= last /\ e \in Entries(n, Mutations[A[n]], 1)
BY FoldRange DEF FoldLog

LEMMA FoldEntryAt ==
  ASSUME NEW A \in [Cursor -> Payload], NEW n \in Cursor,
         NEW e \in Entries(n, Mutations[A[n]], 1)
  PROVE  e.at[1] = n /\ e.at[2] \in Int
<1>1. A[n] \in Payload /\ 1 \in Nat /\ 1 >= 1
  OBVIOUS
<1> QED BY <1>1, EntryAt

LEMMA FoldsAgree ==
  ASSUME NEW A, NEW B, NEW b, NEW last, \A n \in b..last : A[n] = B[n]
  PROVE  FoldLog(A, b, last) = FoldLog(B, b, last)
BY DEF FoldLog

(* What precedes a payload that clears has no say.                         *)
LEMMA FoldFromClear ==
  ASSUME NEW A \in [Cursor -> Payload], NEW B \in [Cursor -> Payload],
         NEW b \in Cursor, NEW d \in Cursor, NEW last \in OptionalCursor,
         b <= d, d <= last, HasClear(B[d]),
         \A n \in Cursor : d <= n /\ n <= last => A[n] = B[n]
  PROVE  Held({}, FoldLog(A, b, last)) = Held({}, FoldLog(B, d, last))
<1> DEFINE log == FoldLog(B, d, last)
           whole == FoldLog(A, b, last)
<1>0. /\ b \in Int /\ d \in Int /\ last \in Int /\ \A n \in Cursor : n \in Int
  BY CursorFacts, OptionalFacts
<1>1. \A e : e \in log <=>
        \E n \in Cursor : d <= n /\ n <= last /\ e \in Entries(n, Mutations[B[n]], 1)
  BY FoldEntries
<1>2. \A e : e \in whole <=>
        \E n \in Cursor : b <= n /\ n <= last /\ e \in Entries(n, Mutations[A[n]], 1)
  BY FoldEntries
<1>3. PICK i : i \in Clears(B[d])
  BY DEF HasClear
<1> DEFINE e == [at |-> <<d, i>>, op |-> Mutations[B[d]][i]]
<1>4. e \in Entries(d, Mutations[B[d]], 1) /\ e.op.kind = "clear"
  BY <1>3 DEF Clears, Entries
<1>5. e.at[1] = d
  OBVIOUS
<1> HIDE DEF log, whole, e
<1>6. e \in log
  BY <1>0, <1>1, <1>4
<1>7. log \subseteq whole
  BY <1>0, <1>1, <1>2
<1>8. ASSUME NEW f \in whole \ log PROVE f.at[1] \in Int /\ f.at[1] < d
  <2>1. PICK n \in Cursor : n <= last /\ f \in Entries(n, Mutations[A[n]], 1)
    BY <1>2
  <2>2. ~(d <= n)
    BY <1>1, <2>1
  <2>3. f.at[1] = n
    BY <2>1, FoldEntryAt
  <2> QED BY <1>0, <2>2, <2>3
<1>9. ASSUME NEW x \in log PROVE x.at[1] \in Int /\ x.at[1] >= d
  <2>1. PICK n \in Cursor : d <= n /\ x \in Entries(n, Mutations[B[n]], 1)
    BY <1>1
  <2>2. x.at[1] = n
    BY <2>1, FoldEntryAt
  <2> QED BY <1>0, <2>1, <2>2
<1>10. \A f \in whole \ log : \A x \in log : ~Before(x, f)
  BY <1>0, <1>8, <1>9 DEF Before
<1>11. \A f \in whole \ log : Before(f, e)
  BY <1>5, <1>8 DEF Before
<1>12. Held({}, log) = Held({}, whole)
  BY <1>4, <1>6, <1>7, <1>10, <1>11, HeldFromClear
<1> QED BY <1>12 DEF log, whole

(* Two explanations that agree where they overlap explain the same view.   *)
LEMMA OneView ==
  ASSUME NEW A \in [Cursor -> Payload], NEW B \in [Cursor -> Payload],
         NEW b \in Cursor, NEW d \in Cursor, NEW last \in OptionalCursor,
         StartsAt(A, b, last), StartsAt(B, d, last),
         \A n \in Cursor : b <= n /\ d <= n /\ n <= last => A[n] = B[n]
  PROVE  Held({}, FoldLog(A, b, last)) = Held({}, FoldLog(B, d, last))
<1>0. /\ b \in Int /\ d \in Int /\ last \in Int /\ InitialCursor <= b /\ InitialCursor <= d
      /\ \A n \in Cursor : n \in Int
  BY StreamAssumption, OptionalFacts DEF Cursor
<1>1. CASE b = d
  <2>1. \A n \in b..last : A[n] = B[n]
    <3>1. \A n \in b..last : n \in Cursor /\ b <= n /\ n <= last
      BY FoldRange
    <3> QED BY <1>1, <3>1
  <2> QED BY <1>1, <2>1, FoldsAgree
<1>2. CASE b < d
  <2>1. HasClear(B[d]) /\ d <= last /\ b <= d
    BY <1>0, <1>2, StreamAssumption DEF StartsAt
  <2>2. \A n \in Cursor : d <= n /\ n <= last => A[n] = B[n]
    BY <1>0, <1>2
  <2> QED BY <2>1, <2>2, FoldFromClear
<1>3. CASE d < b
  <2>1. HasClear(A[b]) /\ b <= last /\ d <= b
    BY <1>0, <1>3, StreamAssumption DEF StartsAt
  <2>2. \A n \in Cursor : b <= n /\ n <= last => B[n] = A[n]
    BY <1>0, <1>3
  <2> QED BY <2>1, <2>2, FoldFromClear
<1> QED BY <1>0, <1>1, <1>2, <1>3
-----------------------------------------------------------------------------
(* An application as a log of one payload per cursor.                      *)

Merged(A, c, p, last) ==
  [n \in Cursor |-> IF n = c THEN p
                    ELSE IF c < n /\ n <= last THEN CHOOSE q \in Payload : pending[n] = {q}
                    ELSE A[n]]

LEMMA MergedFacts ==
  ASSUME TypeOK, NEW A \in [Cursor -> Payload], NEW c \in Cursor, NEW p \in Payload,
         NEW last \in c..LastCursor, NEW supersedes, DrainsTo(c, last, supersedes)
  PROVE  LET M == Merged(A, c, p, last)
         IN  /\ M \in [Cursor -> Payload]
             /\ M[c] = p
             /\ \A n \in Cursor : c < n /\ n <= last => pending[n] = {M[n]}
             /\ \A n \in Cursor : n < c => M[n] = A[n]
             /\ last \in Cursor /\ last \in OptionalCursor /\ c <= last
             /\ \A n \in Cursor : n \in Int
<1> DEFINE M == Merged(A, c, p, last)
<1>0. /\ c \in Int /\ last \in Int /\ \A n \in Cursor : n \in Int
  BY CursorFacts DEF Cursor
<1>1. last \in Cursor /\ last \in OptionalCursor /\ c <= last
  BY StreamAssumption DEF Cursor, OptionalCursor
<1>2. ASSUME NEW n \in Cursor, c < n, n <= last PROVE IsCandidate(pending[n])
  <2>1. n \in (c + 1)..last
    BY <1>0, <1>2
  <2> QED BY <2>1 DEF DrainsTo, Drainable
<1>3. \A n \in Cursor : M[n] = IF n = c THEN p
                               ELSE IF c < n /\ n <= last
                                    THEN CHOOSE q \in Payload : pending[n] = {q}
                               ELSE A[n]
  BY DEF Merged
<1>4. ASSUME NEW n \in Cursor, c < n, n <= last PROVE M[n] \in Payload /\ pending[n] = {M[n]}
  <2>1. \E q \in Payload : pending[n] = {q}
    BY <1>2, <1>4 DEF IsCandidate
  <2>2. n # c
    BY <1>0, <1>4
  <2>3. M[n] = CHOOSE q \in Payload : pending[n] = {q}
    BY <1>3, <1>4, <2>2
  <2> QED BY <2>1, <2>3
<1>5. M \in [Cursor -> Payload]
  <2>1. \A n \in Cursor : M[n] \in Payload
    BY <1>3, <1>4
  <2> QED BY <2>1 DEF Merged
<1>6. M[c] = p /\ \A n \in Cursor : n < c => M[n] = A[n]
  BY <1>0, <1>3
<1> QED BY <1>0, <1>1, <1>4, <1>5, <1>6

LEMMA MergedEntries ==
  ASSUME TypeOK, NEW A \in [Cursor -> Payload], NEW c \in Cursor, NEW p \in Payload,
         NEW last \in c..LastCursor, NEW supersedes, DrainsTo(c, last, supersedes),
         NEW start, NEW e
  PROVE  e \in ApplicationLog(c, p, start, last) <=>
           \/ e \in Entries(c, Mutations[p], start)
           \/ \E n \in Cursor : /\ c < n /\ n <= last
                                /\ e \in Entries(n, Mutations[Merged(A, c, p, last)[n]], 1)
<1>1. \A n \in Cursor : c < n /\ n <= last => pending[n] = {Merged(A, c, p, last)[n]}
  BY MergedFacts
<1>2. e \in ApplicationLog(c, p, start, last) <=>
           \/ e \in Entries(c, Mutations[p], start)
           \/ \E m \in Cursor : /\ c < m /\ m <= last
                                /\ \E q \in pending[m] : e \in Entries(m, Mutations[q], 1)
  BY ApplicationEntries
<1> QED BY <1>1, <1>2

LEMMA InOrderFold ==
  ASSUME TypeOK, NEW A \in [Cursor -> Payload], NEW c \in Cursor, NEW p \in Payload,
         NEW last \in c..LastCursor, NEW supersedes, DrainsTo(c, last, supersedes),
         c = Expected, NEW b \in Cursor, StartsAt(A, b, frontier)
  PROVE  LET M == Merged(A, c, p, last)
         IN  /\ StartsAt(M, b, last) /\ b <= c
             /\ Held(Held({}, FoldLog(A, b, frontier)), ApplicationLog(c, p, 1, last))
                  = Held({}, FoldLog(M, b, last))
<1> DEFINE M == Merged(A, c, p, last)
           log == ApplicationLog(c, p, 1, last)
<1>0. /\ M \in [Cursor -> Payload] /\ M[c] = p
      /\ \A n \in Cursor : n < c => M[n] = A[n]
      /\ last \in OptionalCursor /\ c <= last /\ \A n \in Cursor : n \in Int
      /\ c \in Int /\ last \in Int /\ b \in Int
  BY MergedFacts, OptionalFacts
<1> HIDE DEF M
<1>1. frontier \in OptionalCursor /\ InitialCursor \in Nat
  BY StreamAssumption DEF TypeOK
<1>2. \A n \in Cursor : n <= frontier <=> n < c
  <2>1. CASE frontier = None
    <3>1. c = InitialCursor /\ frontier = None
      BY <2>1 DEF Expected
    <3>2. \A n \in Cursor : n >= InitialCursor /\ n > None
      BY <1>1, CursorFacts DEF Cursor
    <3>3. None \in Int
      BY CursorFacts
    <3> QED BY <1>0, <1>1, <3>1, <3>2, <3>3
  <2>2. CASE frontier # None
    BY <1>1, <2>2, OptionalFacts, CursorFacts DEF Expected
  <2> QED BY <2>1, <2>2
<1>3. b <= c /\ StartsAt(M, b, last)
  <2>1. CASE b = InitialCursor
    BY <1>0, <2>1 DEF StartsAt, Cursor
  <2>2. CASE b <= frontier /\ HasClear(A[b])
    <3>1. b < c
      BY <1>2, <2>2
    <3>2. M[b] = A[b]
      BY <1>0, <3>1
    <3> QED BY <1>0, <2>2, <3>1, <3>2 DEF StartsAt
  <2> QED BY <2>1, <2>2 DEF StartsAt
<1>4. \A e : e \in log <=>
        \E n \in Cursor : c <= n /\ n <= last /\ e \in Entries(n, Mutations[M[n]], 1)
  <2> SUFFICES ASSUME NEW e
               PROVE  e \in log <=> \E n \in Cursor : /\ c <= n /\ n <= last
                                                      /\ e \in Entries(n, Mutations[M[n]], 1)
    OBVIOUS
  <2>1. e \in log <=>
          \/ e \in Entries(c, Mutations[p], 1)
          \/ \E n \in Cursor : /\ c < n /\ n <= last
                               /\ e \in Entries(n, Mutations[M[n]], 1)
    BY MergedEntries DEF M
  <2>2. \A n \in Cursor : c <= n <=> n = c \/ c < n
    BY <1>0
  <2> HIDE DEF log
  <2> QED BY <1>0, <2>1, <2>2
<1>5. \A e : e \in FoldLog(A, b, frontier) <=>
        \E n \in Cursor : b <= n /\ n < c /\ e \in Entries(n, Mutations[M[n]], 1)
  <2>1. \A e : e \in FoldLog(A, b, frontier) <=>
          \E n \in Cursor : b <= n /\ n <= frontier /\ e \in Entries(n, Mutations[A[n]], 1)
    BY <1>1, FoldEntries
  <2> QED BY <1>0, <1>2, <2>1
<1>6. \A e : e \in FoldLog(M, b, last) <=>
        \E n \in Cursor : b <= n /\ n <= last /\ e \in Entries(n, Mutations[M[n]], 1)
  BY <1>0, FoldEntries
<1> HIDE DEF log
<1>7. \A n \in Cursor : b <= n /\ n <= last <=> (b <= n /\ n < c) \/ (c <= n /\ n <= last)
  BY <1>0, <1>3
<1>8. FoldLog(M, b, last) = FoldLog(A, b, frontier) \cup log
  BY <1>4, <1>5, <1>6, <1>7
<1>9. ASSUME NEW f \in FoldLog(A, b, frontier), NEW x \in log
      PROVE  Before(f, x) /\ ~Before(x, f)
  <2>1. PICK m \in Cursor : m < c /\ f \in Entries(m, Mutations[M[m]], 1)
    BY <1>5
  <2>2. PICK n \in Cursor : c <= n /\ x \in Entries(n, Mutations[M[n]], 1)
    BY <1>4
  <2>3. f.at[1] = m /\ x.at[1] = n
    BY <1>0, <2>1, <2>2, FoldEntryAt
  <2>4. m < n /\ ~(n < m) /\ n # m
    BY <1>0, <2>1, <2>2
  <2> QED BY <2>3, <2>4 DEF Before
<1>10. Held(Held({}, FoldLog(A, b, frontier)), log) = Held({}, FoldLog(M, b, last))
  BY <1>8, <1>9, HeldJoin
<1> QED BY <1>3, <1>10 DEF M, log

LEMMA BarrierFold ==
  ASSUME TypeOK, NEW A \in [Cursor -> Payload], NEW c \in Cursor, NEW p \in Payload,
         NEW last \in c..LastCursor, NEW supersedes, DrainsTo(c, last, supersedes),
         NEW start \in Clears(p), NEW base
  PROVE  LET M == Merged(A, c, p, last)
         IN  /\ StartsAt(M, c, last)
             /\ Held(base, ApplicationLog(c, p, start, last)) = Held({}, FoldLog(M, c, last))
<1> DEFINE M == Merged(A, c, p, last)
           log == ApplicationLog(c, p, start, last)
           whole == FoldLog(M, c, last)
           e == [at |-> <<c, start>>, op |-> Mutations[p][start]]
<1>0. /\ M \in [Cursor -> Payload] /\ M[c] = p
      /\ last \in OptionalCursor /\ c <= last /\ \A n \in Cursor : n \in Int
      /\ c \in Int /\ last \in Int
  BY MergedFacts, OptionalFacts
<1>1. /\ start \in 1..Len(Mutations[p]) /\ Mutations[p][start].kind = "clear"
      /\ Len(Mutations[p]) \in Nat
  BY StreamAssumption DEF Clears
<1>2. start \in Nat /\ start >= 1
  BY <1>1
<1>3. e \in Entries(c, Mutations[p], start) /\ e.op.kind = "clear"
  BY <1>1 DEF Entries
<1>4. \A x : x \in log <=>
          \/ x \in Entries(c, Mutations[p], start)
          \/ \E n \in Cursor : /\ c < n /\ n <= last
                               /\ x \in Entries(n, Mutations[M[n]], 1)
  BY MergedEntries
<1> HIDE DEF M
<1>5. \A x : x \in whole <=>
        \E n \in Cursor : c <= n /\ n <= last /\ x \in Entries(n, Mutations[M[n]], 1)
  BY <1>0, FoldEntries
<1>6. Entries(c, Mutations[p], start) \subseteq Entries(c, Mutations[p], 1)
  BY <1>1 DEF Entries
<1> HIDE DEF log, whole, e
<1>7. e \in log
  BY <1>3, <1>4
<1>8. log \subseteq whole
  <2>1. Entries(c, Mutations[p], start) \subseteq whole
    BY <1>0, <1>5, <1>6
  <2>2. \A n \in Cursor : c < n => c <= n
    BY <1>0
  <2> QED BY <1>4, <1>5, <2>1, <2>2
<1>9. ASSUME NEW f \in whole \ log
      PROVE  f.at[1] = c /\ f.at[2] \in Int /\ f.at[2] < start
  <2>1. PICK n \in Cursor : c <= n /\ n <= last /\ f \in Entries(n, Mutations[M[n]], 1)
    BY <1>5
  <2>2. f.at[1] = n /\ f.at[2] \in Int
    BY <1>0, <2>1, FoldEntryAt
  <2>3. ~(c < n)
    BY <1>4, <2>1
  <2>4. n = c
    BY <1>0, <2>1, <2>3
  <2>5. f \in Entries(c, Mutations[p], 1) /\ f \notin Entries(c, Mutations[p], start)
    BY <1>0, <1>4, <2>1, <2>4
  <2>6. ~(f.at[2] >= start)
    BY <1>2, <2>5, EntryFrom
  <2> QED BY <1>2, <2>2, <2>4, <2>6
<1>10. ASSUME NEW x \in log
       PROVE  /\ x.at[1] \in Int /\ x.at[2] \in Int
              /\ x.at[1] > c \/ (x.at[1] = c /\ x.at[2] >= start)
  <2>1. CASE x \in Entries(c, Mutations[p], start)
    <3>1. x.at[1] = c /\ x.at[2] \in Int /\ x.at[2] >= start
      BY <1>2, <2>1, EntryAt
    <3> QED BY <1>0, <3>1
  <2>2. CASE \E n \in Cursor : c < n /\ x \in Entries(n, Mutations[M[n]], 1)
    <3>1. PICK n \in Cursor : c < n /\ x \in Entries(n, Mutations[M[n]], 1)
      BY <2>2
    <3>2. x.at[1] = n /\ x.at[2] \in Int
      BY <1>0, <3>1, FoldEntryAt
    <3> QED BY <1>0, <3>1, <3>2
  <2> QED BY <1>4, <2>1, <2>2
<1>11. \A f \in whole \ log : \A x \in log : ~Before(x, f)
  BY <1>0, <1>2, <1>9, <1>10 DEF Before
<1>12. \A f \in whole \ log : Before(f, e)
  BY <1>9 DEF Before, e
<1>13. Held(base, log) = Held({}, whole)
  BY <1>3, <1>7, <1>8, <1>11, <1>12, HeldFromClear
<1>14. StartsAt(M, c, last)
  BY <1>0, <1>1 DEF StartsAt, HasClear, Clears
<1> QED BY <1>13, <1>14 DEF M, log, whole
-----------------------------------------------------------------------------
(* One delivery.                                                           *)

(* Source i is delivered after those of G.                                 *)
Arrives(G, H, i, c, p) ==
  /\ i \in DOMAIN sources /\ H = G \cup {i}
  /\ c = sources[i].cursor /\ p = sources[i].payload
  /\ UNCHANGED <<sources, trusted>>
  /\ Unverifies(c)

LEMMA Arrival ==
  ASSUME NEW G, NEW H, NEW i, NEW c, NEW p, Arrives(G, H, i, c, p)
  PROVE  /\ \A n, q : At(H, n, q)' <=> At(G, n, q) \/ (n = c /\ q = p)
         /\ unverified \subseteq unverified'
         /\ Past(c) /\ recent[c] = {} => c \in unverified'
         /\ trusted' = trusted /\ sources' = sources /\ Consistent' = Consistent
BY DEF Arrives, At, Unverifies, Consistent

LEMMA ArrivalKeepsView ==
  ASSUME TypeOK, NEW G, NEW H, NEW i, NEW c \in Cursor, NEW p \in Payload,
         Arrives(G, H, i, c, p), ViewExplained(G),
         UNCHANGED <<baselineUnknown, view, frontier>>,
         viewAuthoritative' =>
           /\ viewAuthoritative /\ recent' = recent
           /\ equivocationCeiling' \in Int /\ equivocationCeiling' >= equivocationCeiling
           /\ \/ c > frontier \/ c \in unverified' \/ c <= equivocationCeiling'
              \/ recent[c] = {p}
  PROVE  ViewExplained(H)'
<1> SUFFICES ASSUME viewAuthoritative'
             PROVE  (/\ ~baselineUnknown
                     /\ \E A \in [Cursor -> Payload], b \in Cursor : Explains(H, A, b))'
  BY DEF ViewExplained
<1>1. PICK A \in [Cursor -> Payload] : \E b \in Cursor : Explains(G, A, b)
  BY DEF ViewExplained
<1>2. PICK b \in Cursor : Explains(G, A, b)
  BY <1>1
<1>3. /\ \A n, q : At(H, n, q)' <=> At(G, n, q) \/ (n = c /\ q = p)
      /\ unverified \subseteq unverified'
  BY Arrival
<1>4. /\ equivocationCeiling \in Int /\ frontier \in OptionalCursor /\ frontier \in Int
      /\ \A n \in Cursor : n \in Int
  BY CursorFacts, OptionalFacts DEF TypeOK
<1>5. ASSUME NEW n \in b..frontier
      PROVE  /\ At(H, n, A[n])'
             /\ recent'[n] # {} => A[n] \in recent'[n]
             /\ n \notin unverified' /\ n > equivocationCeiling' =>
                  \A q \in Payload : At(H, n, q)' => q = A[n]
  <2>1. n \in Cursor /\ n <= frontier
    BY <1>4, FoldRange
  <2>2. /\ At(G, n, A[n])
        /\ recent[n] # {} => A[n] \in recent[n]
        /\ n \notin unverified /\ n > equivocationCeiling =>
             \A q \in Payload : At(G, n, q) => q = A[n]
    BY <1>2 DEF Explains
  <2>3. n \notin unverified' /\ n > equivocationCeiling' =>
          n \notin unverified /\ n > equivocationCeiling
    BY <1>3, <1>4, <2>1
  <2>4. n = c /\ n \notin unverified' /\ n > equivocationCeiling' => A[n] = p
    BY <1>4, <2>1, <2>2
  <2> QED BY <1>3, <2>2, <2>3, <2>4
<1>6. Explains(H, A, b)'
  BY <1>2, <1>5 DEF Explains, StartsAt, FoldLog
<1> QED BY <1>6 DEF ViewExplained

LEMMA ArrivalKeepsAhead ==
  ASSUME NEW G, NEW H, NEW i, NEW c \in Cursor, NEW p \in Payload,
         Arrives(G, H, i, c, p), AheadIsKept(G), frontier' = frontier,
         \A n \in Cursor : /\ pending[n] \subseteq pending'[n]
                           /\ IsConflict(pending[n]) => IsConflict(pending'[n])
                           /\ Discarded(n) => Discarded(n)',
         c > frontier => p \in pending'[c] \/ IsConflict(pending'[c]) \/ Discarded(c)'
  PROVE  AheadIsKept(H)'
<1> SUFFICES ASSUME NEW n \in Cursor, NEW q \in Payload, At(H, n, q)', n > frontier
             PROVE  q \in pending'[n] \/ IsConflict(pending'[n]) \/ Discarded(n)'
  BY DEF AheadIsKept
<1>1. At(G, n, q) \/ (n = c /\ q = p)
  BY Arrival
<1>2. CASE At(G, n, q)
  BY <1>2 DEF AheadIsKept
<1>3. CASE n = c /\ q = p
  BY <1>3
<1> QED BY <1>1, <1>2, <1>3

LEMMA ArrivalKeepsSlots ==
  ASSUME NEW G, NEW H, NEW i, NEW c \in Cursor, NEW p \in Payload,
         Arrives(G, H, i, c, p), SlotsGiven(G),
         \A n \in Cursor, q \in Payload :
           q \in pending'[n] \cup recent'[n] => q \in pending[n] \cup recent[n] \/ (n = c /\ q = p),
         \/ frontier' = frontier
         \/ frontier' = c
         \/ \E q \in Payload : At(G, frontier', q)
  PROVE  SlotsGiven(H)'
<1>1. \A n, q : At(H, n, q)' <=> At(G, n, q) \/ (n = c /\ q = p)
  BY Arrival
<1>2. \A n \in Cursor, q \in Payload : q \in pending'[n] \cup recent'[n] => At(H, n, q)'
  BY <1>1 DEF SlotsGiven
<1>3. frontier' # None => \E q \in Payload : At(G, frontier', q) \/ (frontier' = c /\ q = p)
  BY DEF SlotsGiven
<1>4. PICK f : f = frontier'
  OBVIOUS
<1>5. f # None => \E q \in Payload : At(H, f, q)'
  BY <1>1, <1>3, <1>4
<1>6. (\E q \in Payload : At(H, frontier, q))' <=> \E q \in Payload : At(H, f, q)'
  BY <1>4 DEF At
<1> QED BY <1>2, <1>4, <1>5, <1>6 DEF SlotsGiven

LEMMA LimitsOnlyGrow ==
  ASSUME TypeOK, NEW kind \in Diagnostic, NEW n \in Nat, Count(kind, n), NoLimit'
  PROVE  NoLimit /\ (kind \in {"gap_limits", "pending_limits"} => n = 0)
<1>1. ~truncated' /\ diagnostics'["gap_limits"] + diagnostics'["pending_limits"] = 0
  BY DEF NoLimit
<1>2. diagnostics' = [diagnostics EXCEPT ![kind] = @ + n] /\ truncated' = truncated
  BY <1>1 DEF Count
<1>3. /\ diagnostics["gap_limits"] \in Nat /\ diagnostics["pending_limits"] \in Nat
      /\ "gap_limits" \in Diagnostic /\ "pending_limits" \in Diagnostic
      /\ DOMAIN diagnostics = Diagnostic
  BY StreamAssumption, DiagnosticNames DEF TypeOK
<1>4. CASE kind = "gap_limits"
  <2>1. /\ diagnostics'["gap_limits"] = diagnostics["gap_limits"] + n
        /\ diagnostics'["pending_limits"] = diagnostics["pending_limits"]
    BY <1>2, <1>3, <1>4
  <2> QED BY <1>1, <1>2, <1>3, <2>1 DEF NoLimit
<1>5. CASE kind = "pending_limits"
  <2>1. /\ diagnostics'["pending_limits"] = diagnostics["pending_limits"] + n
        /\ diagnostics'["gap_limits"] = diagnostics["gap_limits"]
    BY <1>2, <1>3, <1>5
  <2> QED BY <1>1, <1>2, <1>3, <2>1 DEF NoLimit
<1>6. CASE kind \notin {"gap_limits", "pending_limits"}
  <2>1. /\ diagnostics'["pending_limits"] = diagnostics["pending_limits"]
        /\ diagnostics'["gap_limits"] = diagnostics["gap_limits"]
    BY <1>2, <1>3, <1>6
  <2> QED BY <1>1, <1>2, <1>6, <2>1 DEF NoLimit
<1> QED BY <1>4, <1>5, <1>6

(* Among consistent sources nothing contradicts what is held.              *)
LEMMA NoContradiction ==
  ASSUME TypeOK, NEW G \in SUBSET DOMAIN sources, NEW H, NEW i, NEW c \in Cursor,
         NEW p \in Payload, Arrives(G, H, i, c, p), SlotsGiven(G), Consistent,
         NEW slot, slot \in {pending[c], recent[c]}, slot # {}
  PROVE  p \in slot
<1>1. slot \in Slot
  BY DEF TypeOK
<1>2. PICK q \in Payload : q \in slot
  BY <1>1 DEF Slot
<1>3. At(G, c, q)
  BY <1>2 DEF SlotsGiven
<1>4. q = p
  BY <1>3 DEF At, Arrives, Consistent
<1> QED BY <1>2, <1>4

LEMMA ArrivalKeepsTrust ==
  ASSUME NEW G, NEW H, NEW i, NEW c, NEW p, Arrives(G, H, i, c, p),
         NothingLost,
         NoLimit' => NoLimit,
         trusted /\ Consistent /\ NoLimit' =>
           /\ baselineUnknown' => baselineUnknown
           /\ equivocationCeiling' \in {None, equivocationCeiling}
           /\ unavailableFloor' \in {None, unavailableFloor}
  PROVE  NothingLost'
BY Arrival DEF NothingLost

(* The cursor has a slot, or is past: what arrives is compared, not kept.  *)
LEMMA RedeliveryFolds ==
  ASSUME IInv, NEW G \in SUBSET DOMAIN sources, NEW H, NEW i, NEW c \in Cursor,
         NEW p \in Payload, Arrives(G, H, i, c, p), Folded(G), Redeliver(c, p)
  PROVE  Folded(H)'
<1>0. /\ TypeOK /\ c \in Int /\ frontier \in OptionalCursor /\ frontier \in Int
      /\ equivocationCeiling \in OptionalCursor /\ equivocationCeiling \in Int
      /\ pending[c] \in Slot /\ recent[c] \in Slot
      /\ ViewExplained(G) /\ AheadIsKept(G) /\ SlotsGiven(G) /\ NothingLost
  BY CursorFacts, OptionalFacts DEF IInv, TypeOK, Folded
<1>1. /\ UNCHANGED <<baselineUnknown, view, frontier, unavailableFloor, unavailableCeiling>>
      /\ \E kind \in Diagnostic : Count(kind, 1)
      /\ pending[c] # {} => c > frontier
  <2>1. UNCHANGED <<baselineUnknown, view, frontier, unavailableFloor, unavailableCeiling>>
    BY DEF Redeliver, PendingDuplicate, PendingConflict, PendingAdditionalConflict,
         PastDuplicate, PastConflict, Stale, SetEquivocation, poison
  <2>2. \E kind \in Diagnostic : Count(kind, 1)
    BY DiagnosticNames DEF Redeliver, PendingDuplicate, PendingConflict,
         PendingAdditionalConflict, PastDuplicate, PastConflict, Stale
  <2>3. pending[c] # {} => c > frontier
    BY DEF IInv, Drained, Retained
  <2> QED BY <2>1, <2>2, <2>3
<1>2. NoLimit' => NoLimit
  BY <1>0, <1>1, LimitsOnlyGrow
<1>3. \A n \in Cursor : Discarded(n) => Discarded(n)'
  BY <1>1 DEF Discarded
<1>4. CASE PendingDuplicate(c, p)
  <2>1. /\ p \in pending[c] /\ c > frontier
        /\ UNCHANGED <<viewAuthoritative, recent, pending, equivocationCeiling>>
    BY <1>1, <1>4 DEF PendingDuplicate, poison
  <2> QED BY <1>0, <1>1, <1>2, <1>3, <2>1, ArrivalKeepsView, ArrivalKeepsAhead,
             ArrivalKeepsSlots, ArrivalKeepsTrust DEF Folded
<1>5. CASE PendingConflict(c, p)
  <2>1. /\ IsCandidate(pending[c]) /\ p \notin pending[c] /\ SetEquivocation(c)
        /\ pending' = [pending EXCEPT ![c] = @ \cup {p}]
        /\ UNCHANGED <<viewAuthoritative, recent>>
    BY <1>5 DEF PendingConflict
  <2>2. /\ equivocationCeiling' \in Int /\ equivocationCeiling' >= equivocationCeiling
    BY <1>0, <2>1, SetEquivocationFacts, CursorFacts
  <2>3. pending[c] # {} /\ c > frontier
    BY <1>1, <2>1 DEF IsCandidate
  <2>4. ViewExplained(H)'
    BY <1>0, <1>1, <2>1, <2>2, <2>3, ArrivalKeepsView
  <2>5. \A n \in Cursor : pending'[n] = IF n = c THEN pending[c] \cup {p} ELSE pending[n]
    BY <1>0, <2>1 DEF TypeOK
  <2>6. ~IsConflict(pending[c])
    BY <2>1 DEF IsConflict
  <2>7. AheadIsKept(H)'
    BY <1>0, <1>1, <1>3, <2>5, <2>6, ArrivalKeepsAhead
  <2>8. SlotsGiven(H)'
    BY <1>0, <1>1, <2>1, <2>5, ArrivalKeepsSlots
  <2>9. ~Consistent
    BY <1>0, <2>1, <2>3, NoContradiction
  <2> QED BY <1>0, <1>2, <2>4, <2>7, <2>8, <2>9, ArrivalKeepsTrust DEF Folded
<1>6. CASE PendingAdditionalConflict(c, p)
  <2>1. /\ IsConflict(pending[c]) /\ p \notin pending[c] /\ SetEquivocation(c)
        /\ UNCHANGED <<viewAuthoritative, recent, pending>>
    BY <1>6 DEF PendingAdditionalConflict
  <2>2. /\ equivocationCeiling' \in Int /\ equivocationCeiling' >= equivocationCeiling
    BY <1>0, <2>1, SetEquivocationFacts, CursorFacts
  <2>3. pending[c] # {} /\ c > frontier
    BY <1>1, <2>1 DEF IsConflict
  <2>4. ViewExplained(H)' /\ AheadIsKept(H)' /\ SlotsGiven(H)'
    BY <1>0, <1>1, <1>3, <2>1, <2>2, <2>3, ArrivalKeepsView, ArrivalKeepsAhead,
       ArrivalKeepsSlots
  <2>5. ~Consistent
    BY <1>0, <2>1, <2>3, NoContradiction
  <2> QED BY <1>0, <1>2, <2>4, <2>5, ArrivalKeepsTrust DEF Folded
<1>7. CASE PastDuplicate(c, p)
  <2>1. /\ p \in recent[c] /\ c <= frontier
        /\ UNCHANGED <<viewAuthoritative, recent, pending, equivocationCeiling>>
    BY <1>7 DEF PastDuplicate, Past, poison
  <2>2. c <= equivocationCeiling' \/ recent[c] = {p}
    <3>1. CASE IsConflict(recent[c])
      BY <2>1, <3>1 DEF IInv, ConflictsPoison
    <3>2. CASE ~IsConflict(recent[c])
      BY <2>1, <3>2 DEF IsConflict, IsCandidate
    <3> QED BY <3>1, <3>2
  <2>3. ~(c > frontier)
    BY <1>0, <2>1
  <2>4. ViewExplained(H)'
    BY <1>0, <1>1, <2>1, <2>2, ArrivalKeepsView
  <2>5. AheadIsKept(H)' /\ SlotsGiven(H)'
    BY <1>0, <1>1, <1>3, <2>1, <2>3, ArrivalKeepsAhead, ArrivalKeepsSlots
  <2> QED BY <1>0, <1>1, <1>2, <2>1, <2>4, <2>5, ArrivalKeepsTrust DEF Folded
<1>8. CASE PastConflict(c, p)
  <2>1. /\ recent[c] # {} /\ p \notin recent[c] /\ c <= frontier /\ ~viewAuthoritative'
        /\ recent' = IF IsCandidate(recent[c]) THEN [recent EXCEPT ![c] = @ \cup {p}]
                                               ELSE recent
        /\ pending' = pending
    BY <1>8 DEF PastConflict, Past
  <2>2. ViewExplained(H)'
    BY <2>1 DEF ViewExplained
  <2>3. ~(c > frontier)
    BY <1>0, <2>1
  <2>4. AheadIsKept(H)'
    BY <1>0, <1>1, <1>3, <2>1, <2>3, ArrivalKeepsAhead
  <2>5. \A n \in Cursor : recent'[n] \subseteq recent[n] \cup (IF n = c THEN {p} ELSE {})
    BY <1>0, <2>1 DEF TypeOK
  <2>6. SlotsGiven(H)'
    BY <1>0, <1>1, <2>1, <2>5, ArrivalKeepsSlots
  <2>7. ~Consistent
    BY <1>0, <2>1, NoContradiction
  <2> QED BY <1>0, <1>2, <2>2, <2>4, <2>6, <2>7, ArrivalKeepsTrust DEF Folded
<1>9. CASE Stale(c, p)
  <2>1. /\ Past(c) /\ recent[c] = {} /\ c <= frontier
        /\ UNCHANGED <<viewAuthoritative, recent, pending, equivocationCeiling>>
    BY <1>9 DEF Stale, Past, poison
  <2>2. c \in unverified'
    BY <2>1, Arrival
  <2>3. ~(c > frontier)
    BY <1>0, <2>1
  <2>4. ViewExplained(H)'
    BY <1>0, <1>1, <2>1, <2>2, ArrivalKeepsView
  <2>5. AheadIsKept(H)' /\ SlotsGiven(H)'
    BY <1>0, <1>1, <1>3, <2>1, <2>3, ArrivalKeepsAhead, ArrivalKeepsSlots
  <2> QED BY <1>0, <1>1, <1>2, <2>1, <2>4, <2>5, ArrivalKeepsTrust DEF Folded
<1> QED BY <1>4, <1>5, <1>6, <1>7, <1>8, <1>9 DEF Redeliver

LEMMA PostponementFolds ==
  ASSUME IInv, NEW G \in SUBSET DOMAIN sources, NEW H, NEW i, NEW c \in Cursor,
         NEW p \in Payload, Arrives(G, H, i, c, p), Folded(G), Postpone(c, p)
  PROVE  Folded(H)'
<1>0. /\ TypeOK /\ c \in Int /\ frontier \in Int /\ equivocationCeiling \in Int
      /\ unavailableFloor \in OptionalCursor /\ unavailableCeiling \in OptionalCursor
      /\ ViewExplained(G) /\ AheadIsKept(G) /\ SlotsGiven(G) /\ NothingLost
  BY CursorFacts, OptionalFacts DEF IInv, TypeOK, Folded
<1>1. /\ c > frontier /\ pending[c] = {}
      /\ UNCHANGED <<baselineUnknown, view, frontier, viewAuthoritative, recent,
                     equivocationCeiling>>
  BY DEF Postpone, UnverifiableGap, Buffer, GapLimit, PendingLimit, Discard, Waits,
       Admissible, Fresh, SetUnavailable, poison
<1>2. ViewExplained(H)'
  BY <1>0, <1>1, ArrivalKeepsView
<1>3. CASE Buffer(c, p)
  <2>1. /\ pending' = [pending EXCEPT ![c] = {p}]
        /\ UNCHANGED <<unavailableFloor, unavailableCeiling, diagnostics, truncated>>
    BY <1>3 DEF Buffer, poison
  <2>2. \A n \in Cursor : pending'[n] = IF n = c THEN {p} ELSE pending[n]
    BY <1>0, <2>1 DEF TypeOK
  <2>3. ~IsConflict({})
    BY DEF IsConflict
  <2>4. \A n \in Cursor : Discarded(n) => Discarded(n)'
    BY <2>1 DEF Discarded
  <2>5. AheadIsKept(H)'
    BY <1>0, <1>1, <2>2, <2>3, <2>4, ArrivalKeepsAhead
  <2>6. SlotsGiven(H)'
    BY <1>0, <1>1, <2>2, ArrivalKeepsSlots
  <2>7. NoLimit' => NoLimit
    BY <2>1 DEF NoLimit
  <2> QED BY <1>0, <1>1, <1>2, <2>1, <2>5, <2>6, <2>7, ArrivalKeepsTrust DEF Folded
<1>4. ASSUME SetUnavailable(c), pending' = pending,
             trusted /\ Consistent /\ NoLimit' => unavailableFloor # None /\ NoLimit,
             NoLimit' => NoLimit
      PROVE  Folded(H)'
  <2>1. /\ unavailableFloor' # None /\ unavailableFloor' <= c /\ c <= unavailableCeiling'
        /\ unavailableFloor # None => unavailableFloor' <= unavailableFloor
        /\ unavailableCeiling <= unavailableCeiling'
        /\ unavailableFloor' \in Cursor /\ unavailableCeiling' \in Cursor
    BY <1>0, <1>4, CursorFacts, OptionalFacts DEF SetUnavailable, Larger, OptionalCursor
  <2>2. ASSUME NEW n \in Cursor, Discarded(n) PROVE Discarded(n)'
    <3>1. n \in Int /\ unavailableFloor \in Int /\ unavailableCeiling \in Int
          /\ unavailableFloor' \in Int /\ unavailableCeiling' \in Int
      BY <1>0, <2>1, CursorFacts, OptionalFacts
    <3> QED BY <2>1, <2>2, <3>1 DEF Discarded
  <2>3. Discarded(c)'
    BY <2>1 DEF Discarded
  <2>4. AheadIsKept(H)' /\ SlotsGiven(H)'
    BY <1>0, <1>1, <1>4, <2>2, <2>3, ArrivalKeepsAhead, ArrivalKeepsSlots
  <2>5. ~(trusted /\ Consistent /\ NoLimit')
    BY <1>0, <1>4 DEF NothingLost
  <2> QED BY <1>0, <1>2, <1>4, <2>4, <2>5, ArrivalKeepsTrust DEF Folded
<1>5. CASE UnverifiableGap(c, p)
  <2>1. /\ SetUnavailable(c) /\ pending' = pending /\ unavailableFloor # None
        /\ Count("unverifiable_gaps", 1)
    BY <1>5 DEF UnverifiableGap, UnavailableBlocks
  <2>2. NoLimit' => NoLimit
    BY <1>0, <2>1, LimitsOnlyGrow, DiagnosticNames
  <2> QED BY <1>4, <2>1, <2>2
<1>6. CASE GapLimit(c, p) \/ PendingLimit(c, p)
  <2>1. PICK limit \in {"gap_limits", "pending_limits"} :
          Count(limit, 1) /\ SetUnavailable(c) /\ pending' = pending
    BY <1>6 DEF GapLimit, PendingLimit, Discard
  <2>2. ~NoLimit'
    BY <1>0, <2>1, LimitsOnlyGrow, DiagnosticNames
  <2> QED BY <1>4, <2>1, <2>2
<1> QED BY <1>3, <1>5, <1>6 DEF Postpone

(* What an application leaves, whether it drained in order or behind a     *)
(* barrier: a retained slot is the one the application filled.             *)
Applied(c, p, last) ==
  /\ frontier' = last
  /\ \A n \in Cursor :
       /\ recent'[n] # {} => recent'[n] = IF n = c THEN {p}
                                          ELSE IF n \in (c + 1)..last THEN pending[n]
                                          ELSE recent[n]
       /\ pending'[n] \subseteq pending[n]
       /\ n > last => pending'[n] = pending[n]
       /\ n > last /\ Discarded(n) => Discarded(n)'
  /\ pending[c] = {} /\ c > frontier
  /\ \A n \in c..last : ~Discarded(n)

LEMMA AppliedAhead ==
  ASSUME IInv, NEW G, NEW H, NEW i, NEW c \in Cursor, NEW p \in Payload,
         Arrives(G, H, i, c, p), AheadIsKept(G), NEW last \in c..LastCursor,
         Applied(c, p, last)
  PROVE  AheadIsKept(H)'
<1> SUFFICES ASSUME NEW n \in Cursor, NEW q \in Payload, At(H, n, q)', n > last
             PROVE  q \in pending'[n] \/ IsConflict(pending'[n]) \/ Discarded(n)'
  BY DEF AheadIsKept, Applied
<1>1. At(G, n, q) \/ (n = c /\ q = p)
  BY Arrival
<1>2. n \in Int /\ c \in Int /\ last \in Int /\ frontier \in Int /\ c <= last
  BY CursorFacts, OptionalFacts DEF IInv, TypeOK
<1>3. c > frontier
  BY DEF Applied
<1>4. At(G, n, q) /\ n > frontier
  BY <1>1, <1>2, <1>3
<1> QED BY <1>4 DEF AheadIsKept, Applied

LEMMA AppliedSlots ==
  ASSUME IInv, NEW G, NEW H, NEW i, NEW c \in Cursor, NEW p \in Payload,
         Arrives(G, H, i, c, p), SlotsGiven(G), NEW last \in c..LastCursor,
         NEW s, DrainsTo(c, last, s), Applied(c, p, last)
  PROVE  SlotsGiven(H)'
<1>0. /\ \A n \in (c + 1)..last : n \in Cursor /\ IsCandidate(pending[n])
      /\ last \in Cursor /\ c <= last /\ c \in Int /\ last \in Int
  BY DrainedSlots, CursorFacts
<1>1. ASSUME NEW n \in Cursor, NEW q \in Payload, q \in pending'[n] \cup recent'[n]
      PROVE  q \in pending[n] \cup recent[n] \/ (n = c /\ q = p)
  <2>1. CASE q \in pending'[n]
    BY <2>1 DEF Applied
  <2>2. CASE q \in recent'[n]
    <3>1. recent'[n] = IF n = c THEN {p} ELSE IF n \in (c + 1)..last THEN pending[n] ELSE recent[n]
      BY <2>2 DEF Applied
    <3> QED BY <2>2, <3>1
  <2> QED BY <1>1, <2>1, <2>2
<1>2. frontier' = c \/ \E q \in Payload : At(G, last, q)
  <2>1. CASE last = c
    BY <2>1 DEF Applied
  <2>2. CASE last # c
    <3>1. last \in (c + 1)..last
      BY <1>0, <2>2
    <3>2. PICK q \in Payload : pending[last] = {q}
      BY <1>0, <3>1 DEF IsCandidate
    <3>3. At(G, last, q)
      BY <1>0, <3>2 DEF SlotsGiven
    <3> QED BY <3>3
  <2> QED BY <2>1, <2>2
<1>3. \/ frontier' = c
      \/ \E q \in Payload : At(G, frontier', q)
  BY <1>2 DEF Applied
<1> QED BY <1>1, <1>3, ArrivalKeepsSlots

(* The payloads applied are all that was delivered at their cursors.       *)
LEMMA AppliedAlone ==
  ASSUME IInv, NEW G, NEW c \in Cursor, NEW p \in Payload, AheadIsKept(G),
         NEW last \in c..LastCursor, Applied(c, p, last),
         NEW M \in [Cursor -> Payload], M[c] = p,
         \A m \in Cursor : c < m /\ m <= last => pending[m] = {M[m]},
         NEW n \in Cursor, c <= n, n <= last, NEW q \in Payload,
         At(G, n, q) \/ (n = c /\ q = p)
  PROVE  q = M[n]
<1>0. c \in Int /\ last \in Int /\ n \in Int /\ frontier \in Int
  BY CursorFacts, OptionalFacts DEF IInv, TypeOK
<1>1. ~Discarded(n) /\ pending[c] = {} /\ n > frontier
  BY <1>0 DEF Applied
<1>2. At(G, n, q) => q \in pending[n] \/ IsConflict(pending[n])
  BY <1>1 DEF AheadIsKept
<1>3. CASE n = c
  <2>1. ~IsConflict(pending[n]) /\ pending[n] = {}
    BY <1>1, <1>3, SlotFacts
  <2> QED BY <1>2, <1>3, <2>1
<1>4. CASE n # c
  <2>1. pending[n] = {M[n]} /\ M[n] \in Payload
    BY <1>0, <1>4
  <2>2. ~IsConflict(pending[n])
    BY <2>1, SlotFacts
  <2> QED BY <1>2, <1>4, <2>1, <2>2
<1> QED BY <1>3, <1>4

LEMMA AppliedView ==
  ASSUME IInv, NEW G, NEW H, NEW i, NEW c \in Cursor, NEW p \in Payload,
         Arrives(G, H, i, c, p), SlotsGiven(G), NEW last \in c..LastCursor,
         Applied(c, p, last), NEW M \in [Cursor -> Payload], M[c] = p,
         \A m \in Cursor : c < m /\ m <= last => pending[m] = {M[m]},
         NEW n \in Cursor, c <= n, n <= last
  PROVE  /\ At(H, n, M[n])'
         /\ recent'[n] # {} => M[n] \in recent'[n]
<1>0. c \in Int /\ last \in Int /\ n \in Int
  BY CursorFacts
<1>1. \A m, q : At(H, m, q)' <=> At(G, m, q) \/ (m = c /\ q = p)
  BY Arrival
<1>2. recent'[n] # {} =>
        recent'[n] = IF n = c THEN {p} ELSE IF n \in (c + 1)..last THEN pending[n] ELSE recent[n]
  BY DEF Applied
<1>3. CASE n = c
  BY <1>1, <1>2, <1>3
<1>4. CASE n # c
  <2>1. pending[n] = {M[n]} /\ n \in (c + 1)..last /\ M[n] \in Payload
    BY <1>0, <1>4
  <2>2. At(G, n, M[n])
    BY <2>1 DEF SlotsGiven
  <2> QED BY <1>1, <1>2, <1>4, <2>1, <2>2
<1> QED BY <1>3, <1>4

LEMMA AppliedTrust ==
  ASSUME TypeOK, NEW G, NEW H, NEW i, NEW c \in Cursor, NEW p \in Payload,
         Arrives(G, H, i, c, p), NothingLost, NEW last \in c..LastCursor,
         NEW start \in Nat, NEW barrier,
         Commit(ApplicationLog(c, p, start, last), c, last, barrier),
         baselineUnknown' => baselineUnknown,
         equivocationCeiling' \in {None, equivocationCeiling},
         unavailableFloor' \in {None, unavailableFloor}
  PROVE  NothingLost'
<1> DEFINE log == ApplicationLog(c, p, start, last)
           kind == IF barrier \/ viewAuthoritative THEN "missing_removes_exact"
                                                   ELSE "missing_removes_partial"
<1>1. MissingRemoves(view, log) \in Nat
  BY ApplicationLogFinite, MissingRemovesType
<1>2. kind \in Diagnostic /\ Count(kind, MissingRemoves(view, log))
  BY DiagnosticNames DEF Commit
<1>3. NoLimit' => NoLimit
  BY <1>1, <1>2, LimitsOnlyGrow
<1> QED BY <1>3, ArrivalKeepsTrust

LEMMA InOrderFolds ==
  ASSUME IInv, NEW G \in SUBSET DOMAIN sources, NEW H, NEW i, NEW c \in Cursor,
         NEW p \in Payload, Arrives(G, H, i, c, p), Folded(G), NEW last \in c..LastCursor,
         ApplyInOrder(c, p, last)
  PROVE  Folded(H)'
<1>0. /\ TypeOK /\ c \in Int /\ last \in Int /\ c <= last /\ last \in OptionalCursor
      /\ equivocationCeiling \in Int /\ frontier \in OptionalCursor /\ frontier \in Int
      /\ unavailableFloor \in Int /\ \A n \in Cursor : n \in Int
      /\ ViewExplained(G) /\ AheadIsKept(G) /\ SlotsGiven(G) /\ NothingLost
      /\ last \in Cursor
  <2>1. last \in Cursor /\ c <= last
    BY StreamAssumption DEF Cursor
  <2>2. TypeOK
    BY DEF IInv
  <2> QED BY <2>1, <2>2, CursorFacts, OptionalFacts DEF TypeOK, Folded, OptionalCursor
<1>1. /\ AppliesInOrder(c, p) /\ DrainsTo(c, last, FALSE)
      /\ Commit(ApplicationLog(c, p, 1, last), c, last, FALSE)
      /\ recent' = RetainFingerprints(recent, c, p, last)
      /\ UNCHANGED <<baselineUnknown, viewAuthoritative, equivocationCeiling,
                     unavailableFloor, unavailableCeiling>>
  BY DEF ApplyInOrder, poison
<1>2. PICK s : DrainsTo(c, last, s)
  BY <1>1, Zenon
<1>3. Applied(c, p, last)
  <2>1. /\ c > frontier /\ (unavailableFloor # None => c < unavailableFloor)
    BY <1>1, InOrderPosition
  <2>2. pending[c] = {} /\ frontier' = last
    BY <1>1 DEF AppliesInOrder, Admissible, Fresh, Commit
  <2>3. \A n \in Cursor : pending'[n] =
          IF n \in (c + 1)..last \/ (FALSE /\ n <= c) THEN {} ELSE pending[n]
    BY <1>1, CommitPending
  <2>4. \A n \in Cursor : n > last => n \notin (c + 1)..last
    BY <1>0
  <2>5. \A n \in Cursor : Discarded(n) => Discarded(n)'
    BY <1>1 DEF Discarded
  <2>6. ASSUME NEW n \in c..last, unavailableFloor # None PROVE n < unavailableFloor
    <3>1. CASE n = c
      BY <2>1, <2>6, <3>1
    <3>2. CASE n # c
      <4>1. n \in (c + 1)..last
        BY <1>0, <3>2
      <4> QED BY <1>1, <2>6, <4>1 DEF DrainsTo, Drainable
    <3> QED BY <3>1, <3>2
  <2>7. \A n \in c..last : ~Discarded(n)
    BY <1>0, <2>6 DEF Discarded
  <2>8. ASSUME NEW n \in Cursor, recent'[n] # {}
        PROVE  recent'[n] = IF n = c THEN {p} ELSE IF n \in (c + 1)..last THEN pending[n]
                                              ELSE recent[n]
    BY <1>1, <2>8 DEF RetainFingerprints
  <2> QED BY <2>1, <2>2, <2>3, <2>4, <2>5, <2>7, <2>8 DEF Applied
<1>4. AheadIsKept(H)' /\ SlotsGiven(H)'
  BY <1>0, <1>2, <1>3, AppliedAhead, AppliedSlots
<1>5. NothingLost'
  BY <1>0, <1>1, AppliedTrust
<1>6. ViewExplained(H)'
  <2> SUFFICES ASSUME viewAuthoritative'
               PROVE  (/\ ~baselineUnknown
                       /\ \E A \in [Cursor -> Payload], b \in Cursor : Explains(H, A, b))'
    BY DEF ViewExplained
  <2>1. ~baselineUnknown /\ ~baselineUnknown' /\ c = Expected
    BY <1>0, <1>1 DEF ViewExplained, AppliesInOrder, AttachesPartial
  <2>2. PICK A \in [Cursor -> Payload] : \E b \in Cursor : Explains(G, A, b)
    BY <1>0, <1>1 DEF ViewExplained
  <2>3. PICK b \in Cursor : Explains(G, A, b)
    BY <2>2
  <2>4. PICK M : M = Merged(A, c, p, last)
    OBVIOUS
  <2>5. /\ M \in [Cursor -> Payload] /\ M[c] = p
        /\ \A n \in Cursor : c < n /\ n <= last => pending[n] = {M[n]}
        /\ \A n \in Cursor : n < c => M[n] = A[n]
    <3> DEFINE N == Merged(A, c, p, last)
    <3>0. TypeOK
      BY <1>0
    <3>1. /\ N \in [Cursor -> Payload] /\ N[c] = p
          /\ \A n \in Cursor : c < n /\ n <= last => pending[n] = {N[n]}
          /\ \A n \in Cursor : n < c => N[n] = A[n]
      BY <3>0, <1>2, MergedFacts
    <3> QED BY <2>4, <3>1
  <2>6. /\ StartsAt(M, b, last) /\ b <= c
        /\ Held(Held({}, FoldLog(A, b, frontier)), ApplicationLog(c, p, 1, last))
             = Held({}, FoldLog(M, b, last))
    BY <1>0, <1>2, <2>1, <2>3, <2>4, InOrderFold DEF Explains
  <2>7. view' = Held({}, FoldLog(M, b, last)) /\ frontier' = last
    BY <1>1, <2>3, <2>6 DEF Commit, Explains
  <2>8. ASSUME NEW n \in b..last
        PROVE  /\ At(H, n, M[n])'
               /\ recent'[n] # {} => M[n] \in recent'[n]
               /\ n \notin unverified' /\ n > equivocationCeiling' =>
                    \A q \in Payload : At(H, n, q)' => q = M[n]
    <3>1. n \in Cursor /\ n <= last /\ b <= n
      BY <1>0, FoldRange
    <3>2. CASE c <= n
      <4>1. AheadIsKept(G) /\ SlotsGiven(G)
        BY <1>0
      <4>2. At(H, n, M[n])' /\ (recent'[n] # {} => M[n] \in recent'[n])
        BY <1>3, <2>5, <3>1, <3>2, <4>1, AppliedView
      <4>3. \A q \in Payload : At(G, n, q) \/ (n = c /\ q = p) => q = M[n]
        BY <1>3, <2>5, <3>1, <3>2, <4>1, AppliedAlone
      <4> QED BY <4>2, <4>3, Arrival
    <3>3. CASE n < c
      <4>1. n <= frontier
        BY <1>0, <2>1, <3>1, <3>3, CursorFacts DEF Expected, Cursor
      <4>2. n \in b..frontier
        BY <1>0, <3>1, <4>1, FoldRange
      <4>3. /\ At(G, n, A[n])
            /\ recent[n] # {} => A[n] \in recent[n]
            /\ n \notin unverified /\ n > equivocationCeiling =>
                 \A q \in Payload : At(G, n, q) => q = A[n]
        BY <2>3, <4>2 DEF Explains
      <4>4. recent'[n] # {} => recent'[n] = recent[n]
        <5>1. n # c /\ n \notin (c + 1)..last
          BY <1>0, <3>1, <3>3
        <5> QED BY <1>3, <3>1, <5>1 DEF Applied
      <4>5. M[n] = A[n] /\ n # c
        BY <1>0, <2>5, <3>1, <3>3
      <4>6. /\ \A m, q : At(H, m, q)' <=> At(G, m, q) \/ (m = c /\ q = p)
            /\ unverified \subseteq unverified'
        BY Arrival
      <4> QED BY <1>1, <4>3, <4>4, <4>5, <4>6
    <3> QED BY <1>0, <3>1, <3>2, <3>3
  <2>9. Explains(H, M, b)'
    BY <2>6, <2>7, <2>8 DEF Explains, StartsAt, FoldLog
  <2> QED BY <2>1, <2>5, <2>9
<1> QED BY <1>4, <1>5, <1>6 DEF Folded

LEMMA BarrierFolds ==
  ASSUME IInv, NEW G \in SUBSET DOMAIN sources, NEW H, NEW i, NEW c \in Cursor,
         NEW p \in Payload, Arrives(G, H, i, c, p), Folded(G), NEW last \in c..LastCursor,
         NEW start \in Clears(p), ApplyBarrier(c, p, last, start)
  PROVE  Folded(H)'
<1>0. /\ TypeOK /\ c \in Int /\ last \in Int /\ c <= last /\ last \in OptionalCursor
      /\ unavailableFloor \in Int /\ unavailableCeiling \in Int
      /\ \A n \in Cursor : n \in Int
      /\ AheadIsKept(G) /\ SlotsGiven(G) /\ NothingLost
      /\ last \in Cursor /\ start \in Nat
  <2>1. last \in Cursor /\ c <= last
    BY StreamAssumption DEF Cursor
  <2>2. TypeOK
    BY DEF IInv
  <2>3. start \in 1..Len(Mutations[p]) /\ Len(Mutations[p]) \in Nat
    BY StreamAssumption DEF Clears
  <2>4. start \in Nat
    BY <2>3
  <2> QED BY <2>1, <2>2, <2>4, CursorFacts, OptionalFacts DEF TypeOK, Folded, OptionalCursor
<1>1. /\ AppliesAsBarrier(c, p) /\ DrainsTo(c, last, Supersedes(c))
      /\ Commit(ApplicationLog(c, p, start, last), c, last, TRUE)
      /\ recent' = RetainFingerprints([n \in Cursor |-> {}], c, p, last)
      /\ ~baselineUnknown' /\ SupersedePoison(c)
  BY DEF ApplyBarrier
<1>2. PICK s : DrainsTo(c, last, s)
  BY <1>1, Zenon
<1>3. Applied(c, p, last)
  <2>1. /\ c > frontier
        /\ ~(unavailableCeiling < c) =>
             unavailableFloor # None /\ ~Supersedes(c) /\ last < unavailableFloor
    BY <1>1, BarrierPosition
  <2>2. pending[c] = {} /\ frontier' = last
    BY <1>1 DEF AppliesAsBarrier, Admissible, Fresh, Commit
  <2>3. \A n \in Cursor : pending'[n] =
          IF n \in (c + 1)..last \/ (TRUE /\ n <= c) THEN {} ELSE pending[n]
    BY <1>1, CommitPending
  <2>4. \A n \in Cursor : n > last => n \notin (c + 1)..last /\ ~(n <= c)
    BY <1>0
  <2>5. ASSUME NEW n \in Cursor, n > last, Discarded(n) PROVE Discarded(n)'
    <3>1. ~(unavailableCeiling < c)
      BY <1>0, <2>5 DEF Discarded
    <3>2. UNCHANGED <<unavailableFloor, unavailableCeiling>>
      BY <1>1, <3>1 DEF SupersedePoison
    <3> QED BY <2>5, <3>2 DEF Discarded
  <2>6. \A n \in c..last : ~Discarded(n)
    BY <1>0, <2>1 DEF Discarded
  <2>7. ASSUME NEW n \in Cursor, recent'[n] # {}
        PROVE  recent'[n] = IF n = c THEN {p} ELSE IF n \in (c + 1)..last THEN pending[n]
                                              ELSE recent[n]
    BY <1>1, <2>7 DEF RetainFingerprints
  <2> QED BY <2>1, <2>2, <2>3, <2>4, <2>5, <2>6, <2>7 DEF Applied
<1>4. AheadIsKept(H)' /\ SlotsGiven(H)'
  BY <1>0, <1>2, <1>3, AppliedAhead, AppliedSlots
<1>5. NothingLost'
  <2>1. /\ equivocationCeiling' \in {None, equivocationCeiling}
        /\ unavailableFloor' \in {None, unavailableFloor}
    BY <1>1 DEF SupersedePoison
  <2> QED BY <1>0, <1>1, <2>1, AppliedTrust
<1>6. ViewExplained(H)'
  <2>1. PICK A \in [Cursor -> Payload] : A = [n \in Cursor |-> p]
    OBVIOUS
  <2>2. PICK M : M = Merged(A, c, p, last)
    OBVIOUS
  <2>3. /\ M \in [Cursor -> Payload] /\ M[c] = p
        /\ \A n \in Cursor : c < n /\ n <= last => pending[n] = {M[n]}
    <3> DEFINE N == Merged(A, c, p, last)
    <3>0. TypeOK
      BY <1>0
    <3>1. /\ N \in [Cursor -> Payload] /\ N[c] = p
          /\ \A n \in Cursor : c < n /\ n <= last => pending[n] = {N[n]}
      BY <3>0, <1>2, MergedFacts
    <3> QED BY <2>2, <3>1
  <2>4. /\ StartsAt(M, c, last)
        /\ Held(view, ApplicationLog(c, p, start, last)) = Held({}, FoldLog(M, c, last))
    BY <1>0, <1>2, <2>2, BarrierFold
  <2>5. view' = Held({}, FoldLog(M, c, last)) /\ frontier' = last
    BY <1>1, <2>4 DEF Commit
  <2>6. ASSUME NEW n \in c..last
        PROVE  /\ At(H, n, M[n])'
               /\ recent'[n] # {} => M[n] \in recent'[n]
               /\ n \notin unverified' /\ n > equivocationCeiling' =>
                    \A q \in Payload : At(H, n, q)' => q = M[n]
    <3>1. n \in Cursor /\ n <= last /\ c <= n
      BY <1>0, FoldRange
    <3>2. AheadIsKept(G) /\ SlotsGiven(G)
      BY <1>0
    <3>3. At(H, n, M[n])' /\ (recent'[n] # {} => M[n] \in recent'[n])
      BY <1>3, <2>3, <3>1, <3>2, AppliedView
    <3>4. \A q \in Payload : At(G, n, q) \/ (n = c /\ q = p) => q = M[n]
      BY <1>3, <2>3, <3>1, <3>2, AppliedAlone
    <3> QED BY <3>3, <3>4, Arrival
  <2>7. Explains(H, M, c)'
    BY <2>4, <2>5, <2>6 DEF Explains, StartsAt, FoldLog
  <2>8. ~baselineUnknown'
    BY <1>1
  <2> QED BY <2>3, <2>7, <2>8 DEF ViewExplained
<1> QED BY <1>4, <1>5, <1>6 DEF Folded

(* The whole handler: what it admits is kept, or compared with what is.    *)
LEMMA AdmitFolds ==
  ASSUME IInv, NEW G \in SUBSET DOMAIN sources, NEW H, NEW i, NEW c \in Cursor,
         NEW p \in Payload, Arrives(G, H, i, c, p), Folded(G), Admit(c, p), ~failed'
  PROVE  Folded(H)'
<1>1. CASE Redeliver(c, p)
  BY <1>1, RedeliveryFolds
<1>2. CASE Postpone(c, p)
  BY <1>2, PostponementFolds
<1>3. ASSUME NEW last \in c..LastCursor, Apply(c, p, last) \/ RejectOverflow(c, p, last)
      PROVE  Folded(H)'
  <2>1. ~RejectOverflow(c, p, last)
    BY DEF RejectOverflow, Fail
  <2>2. CASE ApplyInOrder(c, p, last)
    BY <2>2, InOrderFolds
  <2>3. CASE \E start \in Clears(p) : ApplyBarrier(c, p, last, start)
    BY <2>3, BarrierFolds
  <2> QED BY <1>3, <2>1, <2>2, <2>3 DEF Apply
<1> QED BY <1>1, <1>2, <1>3 DEF Admit
-----------------------------------------------------------------------------
(* The run.                                                                *)

LEMMA FreshFolds ==
  Init /\ RunType /\ (trusted => ~baselineUnknown) => Folded({})
<1> SUFFICES ASSUME Init, RunType, trusted => ~baselineUnknown
             PROVE  Folded({})
  OBVIOUS
<1>1. \A n, q : ~At({}, n, q)
  BY DEF At
<1>2. ViewExplained({})
  <2>1. PICK A : A = [n \in Cursor |-> sources[1].payload]
    OBVIOUS
  <2>2. sources[1] \in Envelope
    BY DEF RunType
  <2>3. A \in [Cursor -> Payload]
    BY <2>1, <2>2 DEF Envelope
  <2>4. InitialCursor \in Cursor /\ None \in OptionalCursor /\ None \in Int
        /\ \A n \in Cursor : n > None /\ n \in Int
    BY StreamAssumption, CursorFacts DEF Cursor, OptionalCursor
  <2>5. InitialCursor..None = {}
    BY <2>4, FoldRange
  <2>6. FoldLog(A, InitialCursor, None) = {}
    BY <2>5 DEF FoldLog
  <2>7. Held({}, {}) = {}
    BY DEF Held, StoredLast
  <2>8. Explains({}, A, InitialCursor)
    BY <2>5, <2>6, <2>7 DEF Explains, StartsAt, Init
  <2> QED BY <2>3, <2>4, <2>8 DEF ViewExplained, Init
<1>3. AheadIsKept({})
  BY <1>1 DEF AheadIsKept
<1>4. SlotsGiven({})
  BY DEF SlotsGiven, Init
<1>5. NothingLost
  BY DEF NothingLost, Init
<1> QED BY <1>2, <1>3, <1>4, <1>5 DEF Folded

LEMMA PristineKept ==
  ASSUME PristineExplained, UNCHANGED <<pristine, sources>>, unverified \subseteq unverified'
  PROVE  PristineExplained'
<1> SUFFICES ASSUME pristine.eligible PROVE PristineExplained'
  BY DEF PristineExplained
<1>1. PICK A \in [Cursor -> Payload] : \E b \in Cursor :
         /\ StartsAt(A, b, pristine.frontier)
         /\ pristine.view = Held({}, FoldLog(A, b, pristine.frontier))
         /\ \A n \in b..pristine.frontier :
              /\ At(DOMAIN sources, n, A[n])
              /\ n \notin unverified =>
                   \A p \in Payload : At(DOMAIN sources, n, p) => p = A[n]
  BY DEF PristineExplained
<1>2. PICK b \in Cursor :
         /\ StartsAt(A, b, pristine.frontier)
         /\ pristine.view = Held({}, FoldLog(A, b, pristine.frontier))
         /\ \A n \in b..pristine.frontier :
              /\ At(DOMAIN sources, n, A[n])
              /\ n \notin unverified =>
                   \A p \in Payload : At(DOMAIN sources, n, p) => p = A[n]
  BY <1>1
<1>3. \A i \in DOMAIN sources : sources[i].cursor <= pristine.frontier
  BY DEF PristineExplained
<1>4. \A n, q : At(DOMAIN sources, n, q)' <=> At(DOMAIN sources, n, q)
  BY DEF At
<1>5. \A n \in b..pristine.frontier :
         /\ At(DOMAIN sources, n, A[n])'
         /\ n \notin unverified' =>
              \A p \in Payload : At(DOMAIN sources, n, p)' => p = A[n]
  BY <1>2, <1>4
<1> QED BY <1>2, <1>3, <1>5 DEF PristineExplained, StartsAt, FoldLog

(* A delivery of either execution.                                         *)
LEMMA DeliveryStep ==
  ASSUME IInv, RunType, PristineExplained, mode # "compared",
         NEW G \in SUBSET DOMAIN sources, Folded(G), NEW i \in DOMAIN sources,
         Admit(sources[i].cursor, sources[i].payload), Unverifies(sources[i].cursor),
         UNCHANGED <<sources, trusted, pristine, verdict>>
  PROVE  /\ IInv' /\ PristineExplained' /\ DivergenceIsUnverified' /\ ReorderingConverges'
         /\ verdict' = "none"
         /\ ~failed' => \E H \in SUBSET DOMAIN sources : H = G \cup {i} /\ Folded(H)'
<1>1. sources[i] \in Envelope
  BY DEF RunType
<1>2. PICK c \in Cursor : c = sources[i].cursor
  BY <1>1 DEF Envelope
<1>3. PICK p \in Payload : p = sources[i].payload
  BY <1>1 DEF Envelope
<1>4. PICK H : H = G \cup {i}
  OBVIOUS
<1>5. Arrives(G, H, i, c, p) /\ Admit(c, p)
  BY <1>2, <1>3, <1>4 DEF Arrives
<1>6. IInv'
  BY <1>5, NextInvariant DEF Next
<1>7. PristineExplained'
  BY <1>5, Arrival, PristineKept
<1>8. verdict' = "none"
  BY DEF RunType
<1>9. DivergenceIsUnverified' /\ ReorderingConverges'
  BY <1>8 DEF DivergenceIsUnverified, ReorderingConverges
<1>10. ~failed' => Folded(H)'
  BY <1>5, AdmitFolds
<1>11. H \in SUBSET DOMAIN sources
  BY <1>4
<1> QED BY <1>4, <1>6, <1>7, <1>8, <1>9, <1>10, <1>11

LEMMA DeliverPristineStep == ComparisonInv /\ DeliverPristine => ComparisonInv'
<1> SUFFICES ASSUME ComparisonInv, DeliverPristine PROVE ComparisonInv'
  OBVIOUS
<1>0. IInv /\ RunType /\ PristineExplained /\ mode = "pristine" /\ RunIsFolded
  BY DEF ComparisonInv, DeliverPristine
<1>1. PICK G \in SUBSET DOMAIN sources : G = Given /\ Folded(G)
  BY <1>0 DEF RunIsFolded
<1>2. /\ Len(sources) \in Nat /\ DOMAIN sources = 1..Len(sources)
      /\ consumed \in Nat /\ consumed < Len(sources)
  BY <1>0 DEF RunType, DeliverPristine
<1>3. PICK i \in DOMAIN sources : i = consumed + 1
  BY <1>2
<1>4. /\ Admit(sources[i].cursor, sources[i].payload) /\ Unverifies(sources[i].cursor)
      /\ UNCHANGED <<sources, trusted, pristine, verdict, occurrences>>
      /\ consumed' = consumed + 1 /\ mode' = IF failed' THEN "aborted" ELSE "pristine"
  BY <1>0, <1>3 DEF DeliverPristine
<1>5. /\ IInv' /\ PristineExplained' /\ DivergenceIsUnverified' /\ ReorderingConverges'
      /\ verdict' = "none"
      /\ ~failed' => \E H \in SUBSET DOMAIN sources : H = G \cup {i} /\ Folded(H)'
  BY <1>0, <1>1, <1>4, DeliveryStep
<1>6. RunType'
  BY <1>0, <1>2, <1>4, <1>5 DEF RunType
<1>7. RunIsFolded'
  <2> SUFFICES ASSUME mode' \in {"pristine", "faulted"}
               PROVE  (\E H \in SUBSET DOMAIN sources : H = Given /\ Folded(H))'
    BY DEF RunIsFolded
  <2>1. ~failed' /\ mode' = "pristine"
    BY <1>4
  <2>2. PICK H \in SUBSET DOMAIN sources : H = G \cup {i} /\ Folded(H)'
    BY <1>5, <2>1
  <2>3. Given = {j \in DOMAIN sources : j <= consumed}
    BY <1>0 DEF Given
  <2>4. Given' = {j \in DOMAIN sources : j <= consumed + 1}
    BY <1>4, <2>1 DEF Given
  <2>5. \A j \in DOMAIN sources : j <= consumed + 1 <=> j <= consumed \/ j = i
    BY <1>2, <1>3
  <2>6. H = Given'
    BY <1>1, <2>2, <2>3, <2>4, <2>5
  <2> QED BY <1>4, <2>2, <2>6
<1> QED BY <1>5, <1>6, <1>7 DEF ComparisonInv

LEMMA DeliverFaultedStep ==
  ASSUME ComparisonInv, NEW i \in 1..Len(sources), DeliverFaulted(i)
  PROVE  ComparisonInv'
<1>0. IInv /\ RunType /\ PristineExplained /\ mode = "faulted" /\ RunIsFolded
  BY DEF ComparisonInv, DeliverFaulted
<1>1. PICK G \in SUBSET DOMAIN sources : G = Given /\ Folded(G)
  BY <1>0 DEF RunIsFolded
<1>2. /\ DOMAIN sources = 1..Len(sources) /\ occurrences \in [1..Len(sources) -> Nat]
      /\ i \in DOMAIN sources
  BY <1>0 DEF RunType
<1>3. /\ Admit(sources[i].cursor, sources[i].payload) /\ Unverifies(sources[i].cursor)
      /\ UNCHANGED <<sources, trusted, pristine, verdict, consumed>>
      /\ occurrences' = [occurrences EXCEPT ![i] = @ + 1]
      /\ mode' = IF failed' THEN "aborted" ELSE "faulted"
  BY <1>0 DEF DeliverFaulted
<1>4. /\ IInv' /\ PristineExplained' /\ DivergenceIsUnverified' /\ ReorderingConverges'
      /\ verdict' = "none"
      /\ ~failed' => \E H \in SUBSET DOMAIN sources : H = G \cup {i} /\ Folded(H)'
  BY <1>0, <1>1, <1>2, <1>3, DeliveryStep
<1>5. RunType'
  BY <1>0, <1>2, <1>3, <1>4 DEF RunType
<1>6. RunIsFolded'
  <2> SUFFICES ASSUME mode' \in {"pristine", "faulted"}
               PROVE  (\E H \in SUBSET DOMAIN sources : H = Given /\ Folded(H))'
    BY DEF RunIsFolded
  <2>1. ~failed' /\ mode' = "faulted"
    BY <1>3
  <2>2. PICK H \in SUBSET DOMAIN sources : H = G \cup {i} /\ Folded(H)'
    BY <1>4, <2>1
  <2>3. Given = {j \in DOMAIN sources : occurrences[j] > 0}
    BY <1>0 DEF Given
  <2>4. Given' = {j \in DOMAIN sources : occurrences'[j] > 0}
    BY <1>3, <2>1 DEF Given
  <2>5. \A j \in DOMAIN sources : occurrences'[j] > 0 <=> occurrences[j] > 0 \/ j = i
    BY <1>2, <1>3
  <2>6. H = Given'
    BY <1>1, <1>2, <2>2, <2>3, <2>4, <2>5
  <2> QED BY <1>3, <2>2, <2>6
<1> QED BY <1>4, <1>5, <1>6 DEF ComparisonInv

LEMMA EligibleFacts ==
  ASSUME Finish, Eligible
  PROVE  /\ viewAuthoritative /\ ~baselineUnknown /\ equivocationCeiling = None
         /\ unavailableFloor = None /\ Retained(pending) = {}
<1>1. UNCHANGED <<frontier, baselineUnknown, viewAuthoritative, poison, view, pending>>
  BY DEF Finish
<1>2. viewAuthoritative' /\ UnknownReasons' = {} /\ Retained(pending') = {}
  BY DEF Eligible
<1>3. ~baselineUnknown' /\ equivocationCeiling' = None /\ unavailableFloor' = None
  <2>1. \A r : r \notin UnknownReasons'
    BY <1>2
  <2>2. "baseline" \notin UnknownReasons' /\ "equivocation" \notin UnknownReasons'
        /\ "unavailable" \notin UnknownReasons'
    BY <2>1
  <2> QED BY <2>2 DEF UnknownReasons
<1> QED BY <1>1, <1>2, <1>3 DEF poison

LEMMA FinishPristineStep == ComparisonInv /\ FinishPristine => ComparisonInv'
<1> SUFFICES ASSUME ComparisonInv, FinishPristine PROVE ComparisonInv'
  OBVIOUS
<1>0. IInv /\ RunType /\ mode = "pristine" /\ RunIsFolded /\ Finish
  BY DEF ComparisonInv, FinishPristine
<1>1. PICK G \in SUBSET DOMAIN sources : G = Given /\ Folded(G)
  BY <1>0 DEF RunIsFolded
<1>2. /\ UNCHANGED <<sources, consumed, occurrences, verdict, trusted, unverified>>
      /\ pristine' = Summarize /\ mode' = "restart" /\ consumed = Len(sources)
  BY DEF FinishPristine
<1>3. IInv'
  BY <1>0, FinishStep
<1>4. UNCHANGED <<frontier, view>> /\ frontier \in OptionalCursor /\ frontier \in Int
  BY <1>0, OptionalFacts DEF Finish, IInv, TypeOK
<1>5. /\ pristine'.frontier = frontier /\ pristine'.view = view
      /\ pristine'.eligible = Eligible
  BY <1>2, <1>4 DEF Summarize
<1>6. RunType'
  BY <1>0, <1>2, <1>4, <1>5 DEF RunType
<1>7. RunIsFolded'
  BY <1>2 DEF RunIsFolded
<1>8. verdict' = "none"
  BY <1>0, <1>2 DEF RunType
<1>9. DivergenceIsUnverified' /\ ReorderingConverges'
  BY <1>8 DEF DivergenceIsUnverified, ReorderingConverges
<1>10. PristineExplained'
  <2> SUFFICES ASSUME pristine'.eligible PROVE PristineExplained'
    BY DEF PristineExplained
  <2>1. /\ viewAuthoritative /\ ~baselineUnknown /\ equivocationCeiling = None
        /\ unavailableFloor = None /\ Retained(pending) = {}
    BY <1>0, <1>5, EligibleFacts
  <2>2. G = DOMAIN sources
    <3>1. DOMAIN sources = 1..Len(sources) /\ Len(sources) \in Nat
      BY <1>0 DEF RunType
    <3>2. Given = {i \in DOMAIN sources : i <= consumed}
      BY <1>0 DEF Given
    <3> QED BY <1>1, <1>2, <3>1, <3>2
  <2>3. ViewExplained(G) /\ AheadIsKept(G)
    BY <1>1 DEF Folded
  <2>4. ASSUME NEW i \in DOMAIN sources PROVE sources[i].cursor <= frontier
    <3>0. sources[i] \in Envelope
      BY <1>0 DEF RunType
    <3>1. sources[i].cursor \in Cursor /\ sources[i].payload \in Payload
      BY <3>0 DEF Envelope
    <3>2. At(G, sources[i].cursor, sources[i].payload)
      BY <2>2 DEF At
    <3>3. pending[sources[i].cursor] = {} /\ ~Discarded(sources[i].cursor)
      BY <2>1, <3>1 DEF Retained, Discarded
    <3>4. ~(sources[i].cursor > frontier)
      BY <2>3, <3>1, <3>2, <3>3, SlotFacts DEF AheadIsKept
    <3>5. \A n \in Cursor : n \in Int
      BY CursorFacts
    <3> QED BY <1>4, <3>1, <3>4, <3>5
  <2>5. PICK A \in [Cursor -> Payload] : \E b \in Cursor : Explains(G, A, b)
    BY <2>1, <2>3 DEF ViewExplained
  <2>6. PICK b \in Cursor : Explains(G, A, b)
    BY <2>5
  <2>7. \A n, q : At(DOMAIN sources, n, q)' <=> At(G, n, q)
    BY <1>2, <2>2 DEF At
  <2>8. ASSUME NEW n \in b..frontier
        PROVE  /\ At(DOMAIN sources, n, A[n])'
               /\ n \notin unverified' =>
                    \A p \in Payload : At(DOMAIN sources, n, p)' => p = A[n]
    <3>1. n \in Cursor /\ n > equivocationCeiling
      BY <1>4, <2>1, FoldRange, CursorFacts
    <3>2. At(G, n, A[n]) /\ (n \notin unverified => \A p \in Payload : At(G, n, p) => p = A[n])
      BY <2>6, <3>1 DEF Explains
    <3> QED BY <1>2, <2>7, <3>2
  <2>9. StartsAt(A, b, frontier) /\ view = Held({}, FoldLog(A, b, frontier))
    BY <2>6 DEF Explains
  <2>10. \A i \in DOMAIN sources' : sources'[i].cursor <= frontier
    BY <1>2, <2>4
  <2> QED BY <1>5, <2>8, <2>9, <2>10 DEF PristineExplained, StartsAt, FoldLog
<1> QED BY <1>3, <1>6, <1>7, <1>9, <1>10 DEF ComparisonInv

(* The faulted execution starts from the state the pristine one started in. *)
LEMMA StartFaultedStep == ComparisonInv /\ StartFaulted => ComparisonInv'
<1>1. Init' => IInv'
  BY InitInvariant, PTL
<1>2. (Init /\ RunType /\ (trusted => ~baselineUnknown))' => Folded({})'
  BY FreshFolds, PTL
<1> SUFFICES ASSUME ComparisonInv, StartFaulted PROVE ComparisonInv'
  OBVIOUS
<1>3. /\ RunType /\ PristineExplained /\ mode = "restart"
      /\ UNCHANGED <<sources, consumed, occurrences, pristine, verdict, trusted, unverified>>
      /\ mode' = "faulted"
  BY DEF ComparisonInv, StartFaulted
<1>4. Init' /\ (trusted' => ~baselineUnknown')
  <2>1. trusted \in BOOLEAN /\ trusted' = trusted
    BY <1>3 DEF RunType
  <2>2. baselineUnknown' = ~trusted /\ viewAuthoritative' = trusted
    BY DEF StartFaulted
  <2>3. baselineUnknown' \in BOOLEAN /\ viewAuthoritative' = ~baselineUnknown'
    BY <2>1, <2>2
  <2>4. certainty' = IF baselineUnknown' THEN "Unknown" ELSE "Exact"
    BY <2>1, <2>2 DEF StartFaulted
  <2>5. trusted' => ~baselineUnknown'
    BY <2>1, <2>2
  <2> QED BY <2>3, <2>4, <2>5 DEF StartFaulted, Init
<1>5. RunType'
  BY <1>3 DEF RunType
<1>6. IInv'
  BY <1>1, <1>4
<1>7. Folded({})'
  BY <1>2, <1>4, <1>5
<1>8. Given' = {}
  BY <1>3 DEF Given, RunType
<1>9. RunIsFolded'
  <2>1. {} \in SUBSET DOMAIN sources'
    OBVIOUS
  <2> QED BY <1>7, <1>8, <2>1 DEF RunIsFolded
<1>10. PristineExplained'
  BY <1>3, PristineKept
<1>11. verdict' = "none"
  BY <1>3 DEF RunType
<1>12. DivergenceIsUnverified' /\ ReorderingConverges'
  BY <1>11 DEF DivergenceIsUnverified, ReorderingConverges
<1> QED BY <1>5, <1>6, <1>9, <1>10, <1>12 DEF ComparisonInv

(* Two executions that reach one frontier and disagree have been given two *)
(* payloads at a cursor whose redelivery met no fingerprint.               *)
LEMMA SameView ==
  ASSUME IInv, RunType, PristineExplained, pristine.eligible, pristine.frontier = frontier,
         NEW G \in SUBSET DOMAIN sources, ViewExplained(G), viewAuthoritative,
         \A n \in unverified \cap Cursor, p, q \in Payload :
           At(DOMAIN sources, n, p) /\ At(DOMAIN sources, n, q) => p = q
  PROVE  view = pristine.view
<1>1. PICK A \in [Cursor -> Payload] : \E b \in Cursor : Explains(G, A, b)
  BY DEF ViewExplained
<1>2. PICK b \in Cursor : Explains(G, A, b)
  BY <1>1
<1>3. PICK B \in [Cursor -> Payload] : \E d \in Cursor :
         /\ StartsAt(B, d, frontier)
         /\ pristine.view = Held({}, FoldLog(B, d, frontier))
         /\ \A n \in d..frontier :
              /\ At(DOMAIN sources, n, B[n])
              /\ n \notin unverified =>
                   \A p \in Payload : At(DOMAIN sources, n, p) => p = B[n]
  BY DEF PristineExplained
<1>4. PICK d \in Cursor :
         /\ StartsAt(B, d, frontier)
         /\ pristine.view = Held({}, FoldLog(B, d, frontier))
         /\ \A n \in d..frontier :
              /\ At(DOMAIN sources, n, B[n])
              /\ n \notin unverified =>
                   \A p \in Payload : At(DOMAIN sources, n, p) => p = B[n]
  BY <1>3
<1>5. frontier \in OptionalCursor
  BY DEF IInv, TypeOK
<1>6. ASSUME NEW n \in Cursor, b <= n, d <= n, n <= frontier PROVE A[n] = B[n]
  <2>1. n \in b..frontier /\ n \in d..frontier
    BY <1>5, <1>6, FoldRange
  <2>2. At(G, n, A[n])
    BY <1>2, <2>1 DEF Explains
  <2>3. At(DOMAIN sources, n, A[n])
    BY <2>2 DEF At
  <2>4. A[n] \in Payload /\ B[n] \in Payload
    OBVIOUS
  <2>5. CASE n \in unverified
    BY <1>4, <2>1, <2>3, <2>4, <2>5
  <2>6. CASE n \notin unverified
    BY <1>4, <2>1, <2>3, <2>4, <2>6
  <2> QED BY <2>5, <2>6
<1>7. StartsAt(A, b, frontier) /\ view = Held({}, FoldLog(A, b, frontier))
  BY <1>2 DEF Explains
<1> QED BY <1>4, <1>5, <1>6, <1>7, OneView

LEMMA FinishKeepsNoLimit == ASSUME TypeOK, Finish, NoLimit' PROVE NoLimit
<1>1. CASE Retained(pending) # {}
  BY <1>1, LimitsOnlyGrow, DiagnosticNames DEF Finish
<1>2. CASE Retained(pending) = {}
  BY <1>2 DEF Finish, NoLimit
<1> QED BY <1>1, <1>2

(* Everything was delivered and no evidence was lost: the fold has reached *)
(* the frontier of the pristine execution, and nothing waits.              *)
LEMMA AllDelivered ==
  ASSUME IInv, RunType, PristineExplained, pristine.eligible,
         AheadIsKept(DOMAIN sources), SlotsGiven(DOMAIN sources),
         equivocationCeiling = None, unavailableFloor = None
  PROVE  frontier = pristine.frontier /\ Retained(pending) = {}
<1> DEFINE G == DOMAIN sources
           last == pristine.frontier
<1>0. /\ TypeOK /\ frontier \in OptionalCursor /\ last \in OptionalCursor
      /\ frontier \in Int /\ last \in Int /\ None \in Int
      /\ \A n \in Cursor : n \in Int /\ n > None /\ n >= InitialCursor
      /\ InitialCursor \in Cursor
  <2>1. last \in OptionalCursor
    BY DEF RunType
  <2>2. TypeOK /\ frontier \in OptionalCursor
    BY DEF IInv, TypeOK
  <2>3. /\ \A n \in Cursor : n \in Int /\ n > None /\ n >= InitialCursor
        /\ InitialCursor \in Cursor /\ None \in Int
    BY StreamAssumption DEF Cursor, None
  <2> HIDE DEF last
  <2> QED BY <2>1, <2>2, <2>3, OptionalFacts
<1>1. ASSUME NEW n, NEW p, At(G, n, p) PROVE n <= last
  BY <1>1 DEF At, PristineExplained
<1>2. ASSUME NEW n \in Cursor, NEW p \in Payload, At(G, n, p), n > frontier
      PROVE  pending[n] = {p}
  <2>1. ~Discarded(n)
    BY DEF Discarded
  <2>2. ~IsConflict(pending[n])
    BY <1>0 DEF IInv, ConflictsPoison
  <2>3. p \in pending[n]
    BY <1>2, <2>1, <2>2 DEF AheadIsKept
  <2> QED BY <2>2, <2>3 DEF IsConflict, IsCandidate
<1>3. frontier <= last
  <2>1. CASE frontier = None
    BY <1>0, <2>1, OptionalFacts
  <2>2. CASE frontier # None
    <3>1. PICK p \in Payload : At(G, frontier, p)
      BY <2>2 DEF SlotsGiven
    <3> QED BY <1>1, <3>1
  <2> QED BY <2>1, <2>2
<1>4. ~(frontier < last)
  <2> SUFFICES ASSUME frontier < last PROVE FALSE
    OBVIOUS
  <2>1. PICK B \in [Cursor -> Payload] : \E d \in Cursor :
           StartsAt(B, d, last) /\ \A n \in d..last : At(G, n, B[n])
    BY DEF PristineExplained
  <2>2. PICK d \in Cursor : StartsAt(B, d, last) /\ \A n \in d..last : At(G, n, B[n])
    BY <2>1
  <2>3. last \in Cursor /\ InitialCursor \in Int
    BY <1>0, OptionalFacts, StreamAssumption
  <2>4. /\ Expected \in Cursor /\ Expected > frontier /\ Expected <= last
        /\ d <= frontier \/ d = InitialCursor => d <= Expected
    <3>1. CASE frontier = None
      <4>1. Expected = InitialCursor /\ ~(d <= frontier)
        BY <1>0, <3>1 DEF Expected
      <4> QED BY <1>0, <2>3, <3>1, <4>1
    <3>2. CASE frontier # None
      <4>1. frontier \in Cursor /\ Expected = frontier + 1
        BY <1>0, <3>2, OptionalFacts DEF Expected
      <4> QED BY <1>0, <2>3, <4>1, StreamAssumption DEF Cursor
    <3> QED BY <3>1, <3>2
  <2>5. d <= frontier \/ d = InitialCursor
    <3> SUFFICES ASSUME d # InitialCursor, d > frontier PROVE FALSE
      BY <1>0
    <3>1. d <= last /\ HasClear(B[d])
      BY <2>2 DEF StartsAt
    <3>2. At(G, d, B[d])
      BY <1>0, <2>2, <3>1
    <3>3. pending[d] = {B[d]}
      BY <1>2, <3>2
    <3> QED BY <3>1, <3>3 DEF IInv, NoBarrierBuffered
  <2>6. Expected \in d..last
    BY <1>0, <2>4, <2>5, FoldRange
  <2>7. pending[Expected] = {B[Expected]}
    BY <1>2, <2>2, <2>4, <2>6
  <2>8. Expected \in Retained(pending) /\ IsCandidate(pending[Expected])
    BY <2>4, <2>7 DEF Retained, IsCandidate
  <2> QED BY <2>8 DEF IInv, Drained
<1>5. Retained(pending) = {}
  <2> SUFFICES ASSUME NEW n \in Retained(pending) PROVE FALSE
    OBVIOUS
  <2>1. n \in Cursor /\ pending[n] # {} /\ pending[n] \in Slot
    BY <1>0 DEF Retained, TypeOK
  <2>2. PICK p \in Payload : p \in pending[n]
    BY <2>1 DEF Slot
  <2>3. At(G, n, p)
    BY <2>1, <2>2 DEF SlotsGiven
  <2>4. n > frontier
    BY DEF IInv, Drained
  <2> QED BY <1>0, <1>1, <1>4, <2>1, <2>3, <2>4
<1> QED BY <1>0, <1>3, <1>4, <1>5

LEMMA NothingWaitsIsEligible ==
  ASSUME IInv, Finish, ~baselineUnknown, equivocationCeiling = None,
         unavailableFloor = None, Retained(pending) = {}
  PROVE  Eligible
<1>1. /\ UNCHANGED <<baselineUnknown, viewAuthoritative, equivocationCeiling,
                     unavailableFloor, pending, pendingBytes, certainty>>
      /\ ~finished
  BY DEF Finish, Ready, poison
<1>2. poisonCeiling = None
  BY CursorFacts DEF IInv, CertaintyCurrent, UnavailableAhead, Larger
<1>3. certainty = "Exact"
  BY <1>1, <1>2 DEF IInv, CertaintyCurrent, Classify
<1>4. viewAuthoritative
  BY DEF IInv, TrustLostExplained
<1>5. UnknownReasons' = {}
  <2>1. Retained(pending') = {}
    BY <1>1
  <2>2. Retained(pending)' = {}
    BY <2>1 DEF Retained
  <2> QED BY <1>1, <2>2 DEF UnknownReasons
<1>6. pendingBytes = 0
  <2>1. \A n \in Cursor : ~IsCandidate(pending[n])
    BY DEF Retained, IsCandidate
  <2>2. SlotBytes(pending, Cursor) = 0
    BY <2>1, SlotBytesNone
  <2> QED BY <2>2 DEF IInv, PendingBytesExact
<1> QED BY <1>1, <1>3, <1>4, <1>5, <1>6 DEF Eligible

LEMMA FinishFaultedStep == ComparisonInv /\ FinishFaulted => ComparisonInv'
<1> SUFFICES ASSUME ComparisonInv, FinishFaulted PROVE ComparisonInv'
  OBVIOUS
<1>0. IInv /\ RunType /\ PristineExplained /\ mode = "faulted" /\ RunIsFolded /\ Finish
  BY DEF ComparisonInv, FinishFaulted
<1>1. PICK G \in SUBSET DOMAIN sources : G = Given /\ Folded(G)
  BY <1>0 DEF RunIsFolded
<1>2. /\ UNCHANGED <<sources, consumed, occurrences, pristine, trusted, unverified>>
      /\ verdict' = Compare(pristine, Summarize) /\ mode' = "compared"
      /\ UNCHANGED <<frontier, view>>
  BY <1>0 DEF FinishFaulted, Finish
<1>3. IInv'
  BY <1>0, FinishStep
<1>4. RunType'
  BY <1>0, <1>2 DEF RunType
<1>5. RunIsFolded'
  BY <1>2 DEF RunIsFolded
<1>6. PristineExplained'
  BY <1>0, <1>2, PristineKept
<1>7. ViewExplained(G) /\ AheadIsKept(G) /\ SlotsGiven(G) /\ NothingLost
  BY <1>1 DEF Folded
<1>8. DivergenceIsUnverified'
  <2> SUFFICES ASSUME verdict' = "Diverged",
                      \A i, j \in DOMAIN sources :
                        sources[i].cursor = sources[j].cursor /\ sources[i].cursor \in unverified =>
                          sources[i].payload = sources[j].payload
               PROVE  FALSE
    BY <1>2 DEF DivergenceIsUnverified
  <2>1. pristine.eligible /\ Eligible /\ pristine.frontier = frontier /\ pristine.view # view
    BY <1>2 DEF Compare, Summarize
  <2>2. viewAuthoritative
    BY <1>0, <2>1, EligibleFacts
  <2>3. \A n \in unverified \cap Cursor, p, q \in Payload :
          At(DOMAIN sources, n, p) /\ At(DOMAIN sources, n, q) => p = q
    BY DEF At
  <2> QED BY <1>0, <1>7, <2>1, <2>2, <2>3, SameView
<1>9. ReorderingConverges'
  <2> SUFFICES ASSUME trusted, Consistent, NoLimit', pristine.eligible,
                      \A i \in DOMAIN sources : occurrences[i] > 0
               PROVE  verdict' = "Converged"
    BY <1>2 DEF ReorderingConverges, Consistent, NothingDropped, NoLimit
  <2>1. G = DOMAIN sources
    BY <1>0, <1>1 DEF Given
  <2>2. NoLimit
    BY <1>0, FinishKeepsNoLimit DEF IInv
  <2>3. ~baselineUnknown /\ equivocationCeiling = None /\ unavailableFloor = None
    BY <1>7, <2>2 DEF NothingLost
  <2>4. frontier = pristine.frontier /\ Retained(pending) = {}
    BY <1>0, <1>7, <2>1, <2>3, AllDelivered
  <2>5. Eligible
    BY <1>0, <2>3, <2>4, NothingWaitsIsEligible
  <2>6. viewAuthoritative
    BY <1>0, <2>5, EligibleFacts
  <2>7. \A n \in unverified \cap Cursor, p, q \in Payload :
          At(DOMAIN sources, n, p) /\ At(DOMAIN sources, n, q) => p = q
    BY DEF At, Consistent
  <2>8. view = pristine.view
    BY <1>0, <1>7, <2>4, <2>6, <2>7, SameView
  <2> QED BY <1>2, <2>4, <2>5, <2>8 DEF Compare, Summarize
<1> QED BY <1>3, <1>4, <1>5, <1>6, <1>8, <1>9 DEF ComparisonInv

LEMMA ComparisonStutters == ComparisonInv /\ UNCHANGED comparisonVars => ComparisonInv'
<1> SUFFICES ASSUME ComparisonInv, UNCHANGED comparisonVars PROVE ComparisonInv'
  OBVIOUS
<1>0. /\ UNCHANGED vars
      /\ UNCHANGED <<sources, mode, consumed, occurrences, pristine, verdict, trusted,
                     unverified>>
      /\ UNCHANGED <<view, frontier, baselineUnknown, viewAuthoritative, pending, recent,
                     equivocationCeiling, unavailableFloor, unavailableCeiling,
                     diagnostics, truncated>>
  BY DEF comparisonVars, scheduleVars, vars, poison
<1>1. IInv'
  BY <1>0, StutterStep DEF ComparisonInv
<1>2. RunType'
  BY <1>0 DEF ComparisonInv, RunType
<1>3. RunIsFolded'
  <2> SUFFICES ASSUME mode \in {"pristine", "faulted"}
               PROVE  (\E H \in SUBSET DOMAIN sources : H = Given /\ Folded(H))'
    BY <1>0 DEF RunIsFolded
  <2>1. PICK G \in SUBSET DOMAIN sources : G = Given /\ Folded(G)
    BY DEF ComparisonInv, RunIsFolded
  <2>2. Given' = Given
    BY <1>0 DEF Given
  <2>3. \A n, p : At(G, n, p)' <=> At(G, n, p)
    BY <1>0 DEF At
  <2>4. \A n : Discarded(n)' <=> Discarded(n)
    BY <1>0 DEF Discarded
  <2>5. SlotsGiven(G)' /\ AheadIsKept(G)' /\ NothingLost'
    <3>1. AheadIsKept(G)'
      BY <1>0, <2>1, <2>3, <2>4 DEF Folded, AheadIsKept
    <3>2. SlotsGiven(G)'
      <4>1. \A n \in Cursor, p \in Payload : p \in pending'[n] \cup recent'[n] => At(G, n, p)'
        BY <1>0, <2>1, <2>3 DEF Folded, SlotsGiven
      <4>2. (frontier # None => \E p \in Payload : At(G, frontier, p))'
        BY <1>0, <2>1 DEF Folded, SlotsGiven, At
      <4> QED BY <4>1, <4>2 DEF SlotsGiven
    <3>3. NothingLost'
      BY <1>0, <2>1 DEF Folded, NothingLost, Consistent, NoLimit
    <3> QED BY <3>1, <3>2, <3>3
  <2>6. ViewExplained(G)'
    <3> SUFFICES ASSUME viewAuthoritative
                 PROVE  (/\ ~baselineUnknown
                         /\ \E A \in [Cursor -> Payload], b \in Cursor : Explains(G, A, b))'
      BY <1>0 DEF ViewExplained
    <3>1. PICK A \in [Cursor -> Payload] : \E b \in Cursor : Explains(G, A, b)
      BY <2>1 DEF Folded, ViewExplained
    <3>2. PICK b \in Cursor : Explains(G, A, b)
      BY <3>1
    <3>3. Explains(G, A, b)'
      BY <1>0, <2>3, <3>2 DEF Explains, StartsAt, FoldLog
    <3>4. ~baselineUnknown'
      BY <1>0, <2>1 DEF Folded, ViewExplained
    <3> QED BY <3>3, <3>4
  <2> QED BY <1>0, <2>1, <2>2, <2>5, <2>6 DEF Folded
<1>4. PristineExplained'
  BY <1>0, PristineKept DEF ComparisonInv
<1>5. DivergenceIsUnverified'
  BY <1>0 DEF ComparisonInv, DivergenceIsUnverified
<1>6. ReorderingConverges'
  BY <1>0 DEF ComparisonInv, ReorderingConverges, Consistent, NothingDropped
<1> QED BY <1>1, <1>2, <1>3, <1>4, <1>5, <1>6 DEF ComparisonInv

LEMMA ComparisonStarts == ComparisonInit => ComparisonInv
<1> SUFFICES ASSUME ComparisonInit PROVE ComparisonInv
  OBVIOUS
<1>1. /\ Init /\ mode = "pristine" /\ consumed = 0 /\ verdict = "none"
      /\ occurrences = [i \in 1..Len(sources) |-> 0]
      /\ pristine = NoSummary /\ trusted = viewAuthoritative
  BY DEF ComparisonInit
<1>2. /\ sources \in Seq(Envelope) /\ Len(sources) > 0 /\ Len(sources) \in Nat
      /\ DOMAIN sources = 1..Len(sources)
  <2>1. PICK n \in 1..MaxSources : sources \in [1..n -> Envelope]
    BY DEF ComparisonInit
  <2>2. n \in Nat /\ n > 0
    BY <2>1, ComparisonAssumption
  <2>3. sources \in Seq(Envelope) /\ Len(sources) = n
    BY <2>1, <2>2
  <2> QED BY <2>1, <2>2, <2>3
<1>3. trusted \in BOOLEAN /\ (trusted => ~baselineUnknown)
  BY <1>1 DEF Init
<1>4. ~pristine.eligible /\ pristine.frontier = None
  BY <1>1 DEF NoSummary
<1>5. RunType
  BY <1>1, <1>2, <1>3, <1>4 DEF RunType, OptionalCursor
<1>6. Folded({})
  BY <1>1, <1>3, <1>5, FreshFolds
<1>7. Given = {}
  BY <1>1, <1>2 DEF Given
<1>8. RunIsFolded
  BY <1>6, <1>7 DEF RunIsFolded
<1> QED BY <1>1, <1>4, <1>5, <1>8, InitInvariant
        DEF ComparisonInv, PristineExplained, DivergenceIsUnverified, ReorderingConverges

(* The inductive invariant of the two executions.                          *)
THEOREM ComparisonInvariant == ComparisonSpec => []ComparisonInv
<1>1. ComparisonInv /\ [ComparisonNext]_comparisonVars => ComparisonInv'
  <2> SUFFICES ASSUME ComparisonInv, [ComparisonNext]_comparisonVars
               PROVE  ComparisonInv'
    OBVIOUS
  <2>1. CASE DeliverPristine
    BY <2>1, DeliverPristineStep
  <2>2. CASE FinishPristine
    BY <2>2, FinishPristineStep
  <2>3. CASE StartFaulted
    BY <2>3, StartFaultedStep
  <2>4. CASE FinishFaulted
    BY <2>4, FinishFaultedStep
  <2>5. CASE \E i \in 1..Len(sources) : DeliverFaulted(i)
    BY <2>5, DeliverFaultedStep
  <2>6. CASE UNCHANGED comparisonVars
    BY <2>6, ComparisonStutters
  <2> QED BY <2>1, <2>2, <2>3, <2>4, <2>5, <2>6 DEF ComparisonNext
<1> QED BY <1>1, ComparisonStarts, PTL DEF ComparisonSpec

(* compare_streams (src/scenario.rs:819-843) reports Diverged only when    *)
(* the sources published two payloads at one cursor, and one of its        *)
(* redeliveries came after its fingerprint had left the window.            *)
THEOREM DivergenceIsRightful == ComparisonSpec => []DivergenceIsUnverified
<1>1. ComparisonInv => DivergenceIsUnverified
  BY DEF ComparisonInv
<1> QED BY <1>1, ComparisonInvariant, PTL

(* A schedule that only duplicates and moves deliveries, as compared by    *)
(* compare_schedule (src/scenario.rs:377-396), converges when the stream   *)
(* is trusted, its sources are consistent, the pristine execution is       *)
(* eligible and no ceiling was met.                                        *)
THEOREM ReorderedConverges == ComparisonSpec => []ReorderingConverges
<1>1. ComparisonInv => ReorderingConverges
  BY DEF ComparisonInv
<1> QED BY <1>1, ComparisonInvariant, PTL
=============================================================================
