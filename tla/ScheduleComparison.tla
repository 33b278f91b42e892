-------------------------- MODULE ScheduleComparison -------------------------
(***************************************************************************)
(* SealedTrace::compare_schedule of src/scenario.rs for one stream: the    *)
(* pristine execution folds the sources in trace order, the faulted one    *)
(* folds the deliveries of a schedule over the same sources in a fresh     *)
(* state, and the two summaries are compared.                              *)
(*                                                                         *)
(* A schedule drops deliveries, duplicates them and moves them, so the     *)
(* faulted execution may admit any source next, up to MaxOccurrences times *)
(* each, and may stop at any point: every sequence DeliveryArena can       *)
(* materialize is one of these.                                            *)
(***************************************************************************)
EXTENDS StreamState

CONSTANTS MaxSources,     \* bound: envelopes in the schedule's prefix
          MaxOccurrences  \* bound: the original and its copies

ASSUME ComparisonAssumption == {MaxSources, MaxOccurrences} \subseteq Nat

VARIABLES sources,         \* prepared envelopes of the stream, in trace order
          mode,            \* "pristine", "faulted", "compared" or "aborted"
          consumed,        \* pristine deliveries executed
          occurrences,     \* how often each source was delivered when faulted
          pristine,        \* summary of the pristine execution
          verdict,
          trusted,         \* baseline authority of the stream
          unverified       \* history: cursors whose redelivery met no fingerprint

scheduleVars == <<sources, mode, consumed, occurrences, pristine, verdict, trusted,
                  unverified>>
comparisonVars == <<vars, scheduleVars>>

Envelope == [cursor : Cursor, payload : Payload]

(* eligible_summary of the state that finish consumes. *)
Eligible == /\ certainty' = "Exact"
            /\ viewAuthoritative'
            /\ UnknownReasons' = {}
            /\ Retained(pending') = {}
            /\ pendingBytes' = 0

Summarize == [eligible |-> Eligible, frontier |-> frontier', view |-> view']

(* Slip: views at different frontiers are compared. *)
CompareAnywhere(left, right) ==
  IF ~left.eligible \/ ~right.eligible THEN "Ineligible"
  ELSE IF left.view = right.view THEN "Converged"
  ELSE "Diverged"

(* compare_streams *)
Compare(left, right) ==
  IF ~left.eligible \/ ~right.eligible \/ left.frontier # right.frontier
  THEN "Ineligible"
  ELSE IF left.view = right.view THEN "Converged"
  ELSE "Diverged"

NoSummary == [eligible |-> FALSE, frontier |-> None, view |-> {}]

ComparisonInit ==
  /\ Init
  /\ sources \in UNION {[1..n -> Envelope] : n \in 1..MaxSources}
  /\ mode = "pristine"
  /\ consumed = 0
  /\ occurrences = [i \in 1..Len(sources) |-> 0]
  /\ pristine = NoSummary
  /\ verdict = "none"
  /\ trusted = viewAuthoritative
  /\ unverified = {}

Unverifies(c) ==
  unverified' = unverified \cup IF Past(c) /\ recent[c] = {} THEN {c} ELSE {}

DeliverPristine ==
  /\ mode = "pristine"
  /\ consumed < Len(sources)
  /\ LET e == sources[consumed + 1]
     IN  Admit(e.cursor, e.payload) /\ Unverifies(e.cursor)
  /\ consumed' = consumed + 1
  /\ mode' = IF failed' THEN "aborted" ELSE mode
  /\ UNCHANGED <<sources, occurrences, pristine, verdict, trusted>>

FinishPristine ==
  /\ mode = "pristine"
  /\ consumed = Len(sources)
  /\ Finish
  /\ pristine' = Summarize
  /\ mode' = "restart"
  /\ UNCHANGED <<sources, consumed, occurrences, verdict, trusted, unverified>>

(* execute starts a fresh state of the same blueprint for each execution. *)
StartFaulted ==
  /\ mode = "restart"
  /\ certainty' = IF trusted THEN "Exact" ELSE "Unknown"
  /\ frontier' = None
  /\ baselineUnknown' = ~trusted
  /\ viewAuthoritative' = trusted
  /\ poisonCeiling' = None
  /\ equivocationCeiling' = None
  /\ unavailableFloor' = None
  /\ unavailableCeiling' = None
  /\ view' = {}
  /\ pending' = [n \in Cursor |-> {}]
  /\ pendingBytes' = 0
  /\ recent' = [n \in Cursor |-> {}]
  /\ diagnostics' = [kind \in Diagnostic |-> 0]
  /\ truncated' = FALSE
  /\ failed' = FALSE
  /\ finished' = FALSE
  /\ mode' = "faulted"
  /\ UNCHANGED <<sources, consumed, occurrences, pristine, verdict, trusted, unverified>>

DeliverFaulted(i) ==
  /\ mode = "faulted"
  /\ occurrences[i] < MaxOccurrences
  /\ Admit(sources[i].cursor, sources[i].payload)
  /\ Unverifies(sources[i].cursor)
  /\ occurrences' = [occurrences EXCEPT ![i] = @ + 1]
  /\ mode' = IF failed' THEN "aborted" ELSE mode
  /\ UNCHANGED <<sources, consumed, pristine, verdict, trusted>>

FinishFaulted ==
  /\ mode = "faulted"
  /\ Finish
  /\ verdict' = Compare(pristine, Summarize)
  /\ mode' = "compared"
  /\ UNCHANGED <<sources, consumed, occurrences, pristine, trusted, unverified>>

ComparisonNext == \/ DeliverPristine
                  \/ FinishPristine
                  \/ StartFaulted
                  \/ FinishFaulted
                  \/ \E i \in 1..Len(sources) : DeliverFaulted(i)

ComparisonSpec == ComparisonInit /\ [][ComparisonNext]_comparisonVars
-----------------------------------------------------------------------------

(* The sources never publish two payloads at one cursor.                   *)
Consistent == \A i, j \in DOMAIN sources :
                sources[i].cursor = sources[j].cursor =>
                  sources[i].payload = sources[j].payload

(* Every source was delivered by the schedule. *)
NothingDropped == \A i \in DOMAIN sources : occurrences[i] > 0

(* A divergence accuses the sources rightly: some cursor was published     *)
(* with two payloads, and one of its redeliveries came after its           *)
(* fingerprint had left the window.  Losses, duplicates and reordering     *)
(* alone never diverge, and an equivocation the window still covers makes  *)
(* an execution ineligible instead.                                        *)
DivergenceIsUnverified ==
  verdict = "Diverged" =>
    \E i, j \in DOMAIN sources : /\ sources[i].cursor = sources[j].cursor
                                 /\ sources[i].payload # sources[j].payload
                                 /\ sources[i].cursor \in unverified

(* A schedule that drops nothing converges when the baseline is trusted,   *)
(* the pristine execution is eligible, the sources are consistent and no   *)
(* ceiling was met: duplicates and moves alone cost no certainty.  (With   *)
(* an untrusted baseline they may: a delivery moved before the clear that  *)
(* establishes the view attaches the stream behind it.)                    *)
ReorderingConverges ==
  /\ verdict # "none"
  /\ trusted
  /\ Consistent
  /\ NothingDropped
  /\ pristine.eligible
  /\ diagnostics["gap_limits"] + diagnostics["pending_limits"] = 0
  /\ ~truncated
  => verdict = "Converged"
=============================================================================
