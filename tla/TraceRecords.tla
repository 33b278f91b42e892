----------------------------- MODULE TraceRecords -----------------------------
(***************************************************************************)
(* The records of a trace, as far as the layers of the assembly tell them  *)
(* apart (src/ir.rs), and the limits these layers enforce (src/limits.rs). *)
(*                                                                         *)
(* Header:     redaction.                                                  *)
(* StreamDecl: id, scope (engine, instance, publisher, rank and epoch),    *)
(*             initial cursor, empty (its baseline claims an empty cache). *)
(* Envelope:   id, stream, cursor, evidence (kinds of token evidence),     *)
(*             hashed (canonical bytes of its mutations).                  *)
(* Schedule:   id, targets (envelopes its actions refer to), actions and   *)
(*             copies (how many it has and synthesizes).                   *)
(*                                                                         *)
(* Every record has bytes, the size of its identities, and valid: whether  *)
(* the record-local validation accepts it.  Whether references to dropped  *)
(* or synthesized occurrences resolve is the subject of                    *)
(* ScheduleMaterialization; a schedule that fails there is refused here as *)
(* any other.                                                              *)
(***************************************************************************)
EXTENDS Integers, Sequences, FiniteSets

CONSTANTS Header, StreamDecl, Envelope, Schedule,
          MaxRecords,          \* max_records_per_trace
          MaxStreams,          \* max_streams_per_trace
          MaxEnvelopes,        \* max_envelopes_per_trace
          MaxSchedules,        \* max_fault_schedules_per_trace
          MaxFaultActions,     \* max_fault_actions_per_trace
          MaxIdentityBytes,    \* max_identity_bytes_per_trace
          MaxOccurrences,      \* max_occurrences_per_schedule
          MaxScheduleWork,     \* max_schedule_work_per_trace
          MaxLineBytes,        \* max_line_bytes
          MaxFingerprintBytes  \* max_fingerprint_bytes_per_trace

Record == Header \cup StreamDecl \cup Envelope \cup Schedule

Authority == {"TrustDeclaredEmpty", "TreatAsUnknown"}

ASSUME RecordAssumption ==
  /\ \A r \in Record : r.bytes \in Nat /\ r.valid \in BOOLEAN
  /\ \A d \in StreamDecl : d.initial \in Nat /\ d.empty \in BOOLEAN
  /\ \A e \in Envelope : e.cursor \in Nat /\ e.hashed \in Nat
  /\ \A s \in Schedule : s.actions \in Nat /\ s.copies \in Nat
  /\ \A h \in Header, x \in StreamDecl \cup Envelope \cup Schedule : h.kind # x.kind
  /\ \A d \in StreamDecl, x \in Envelope \cup Schedule : d.kind # x.kind
  /\ \A e \in Envelope, s \in Schedule : e.kind # s.kind
  /\ {MaxRecords, MaxStreams, MaxEnvelopes, MaxSchedules, MaxFaultActions,
      MaxIdentityBytes, MaxOccurrences, MaxScheduleWork, MaxLineBytes,
      MaxFingerprintBytes} \subseteq Nat

Among(sequence) == {sequence[i] : i \in DOMAIN sequence}

Ids(records) == {r.id : r \in records}
=============================================================================
