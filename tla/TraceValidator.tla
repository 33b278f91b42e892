---------------------------- MODULE TraceValidator ----------------------------
(***************************************************************************)
(* The structural validator of a trace: TraceValidator of src/trace.rs.    *)
(* Each record is accepted at the next position or refused, and the first  *)
(* refusal is final.                                                       *)
(***************************************************************************)
EXTENDS TraceRecords

VARIABLES records,        \* records accepted
          header,         \* the header, or NoHeader
          declared,       \* stream declarations in order
          published,      \* envelopes in order
          schedules,      \* schedule plans: schedule and the prefixes it sees
          faultActions, identityBytes, scheduleWork,
          refused         \* TraceValidator.failed

NoHeader == {}

ValidatorInit == /\ records = 0
                 /\ header = NoHeader
                 /\ declared = <<>>
                 /\ published = <<>>
                 /\ schedules = <<>>
                 /\ faultActions = 0
                 /\ identityBytes = 0
                 /\ scheduleWork = 0
                 /\ refused = FALSE

(* The checks push_inner makes for every record. *)
Positioned(r) == /\ ~refused
                 /\ records < MaxRecords
                 /\ r.valid
                 /\ (records = 0) <=> (r \in Header)

Identified(r) == identityBytes + r.bytes <= MaxIdentityBytes

AcceptHeader(h) ==
  /\ Positioned(h)
  /\ header' = {h}
  /\ records' = records + 1
  /\ UNCHANGED <<declared, published, schedules, faultActions, identityBytes,
                 scheduleWork, refused>>

(* push_stream *)
AdmitsStream(d) == /\ Positioned(d)
                   /\ \A x \in Among(declared) : d.id # x.id /\ d.scope # x.scope
                   /\ Len(declared) < MaxStreams
                   /\ Identified(d)

AcceptStream(d) ==
  /\ AdmitsStream(d)
  /\ declared' = Append(declared, d)
  /\ identityBytes' = identityBytes + d.bytes
  /\ records' = records + 1
  /\ UNCHANGED <<header, published, schedules, faultActions, scheduleWork, refused>>

(* push_envelope and validate_redaction *)
EvidenceAllowed(e) == \A h \in header : e.evidence \subseteq {h.redaction}

(* Slip: an undeclared stream is let through.                              *)
AdmitsEnvelopeUndeclared(e) == /\ Positioned(e)
                               /\ e.id \notin Ids(Among(published))
                               /\ Len(published) < MaxEnvelopes
                               /\ \A d \in Among(declared) :
                                    d.id = e.stream => d.initial <= e.cursor
                               /\ EvidenceAllowed(e)
                               /\ Identified(e)

AdmitsEnvelope(e) == /\ Positioned(e)
                     /\ e.id \notin Ids(Among(published))
                     /\ Len(published) < MaxEnvelopes
                     /\ \E d \in Among(declared) :
                          d.id = e.stream /\ d.initial <= e.cursor
                     /\ EvidenceAllowed(e)
                     /\ Identified(e)

AcceptEnvelopeUncharged(e) ==
  /\ AdmitsEnvelope(e)
  /\ published' = Append(published, e)
  /\ records' = records + 1
  /\ UNCHANGED <<header, declared, schedules, faultActions, identityBytes,
                 scheduleWork, refused>>

AcceptEnvelope(e) ==
  /\ AdmitsEnvelope(e)
  /\ published' = Append(published, e)
  /\ identityBytes' = identityBytes + e.bytes
  /\ records' = records + 1
  /\ UNCHANGED <<header, declared, schedules, faultActions, scheduleWork, refused>>

(* push_schedule: its work is the envelopes it sees and the copies it adds. *)
Work(s) == Len(published) + s.copies

AdmitsSchedule(s) == /\ Positioned(s)
                     /\ \A x \in Among(schedules) : s.id # x.schedule.id
                     /\ Len(schedules) < MaxSchedules
                     /\ faultActions + s.actions <= MaxFaultActions
                     /\ Identified(s)
                     /\ s.targets \subseteq Ids(Among(published))
                     /\ Work(s) <= MaxOccurrences
                     /\ scheduleWork + Work(s) <= MaxScheduleWork

AcceptSchedule(s) ==
  /\ AdmitsSchedule(s)
  /\ schedules' = Append(schedules, [schedule |-> s,
                                     streamPrefix |-> Len(declared),
                                     prefix |-> Len(published)])
  /\ faultActions' = faultActions + s.actions
  /\ identityBytes' = identityBytes + s.bytes
  /\ scheduleWork' = scheduleWork + Work(s)
  /\ records' = records + 1
  /\ UNCHANGED <<header, declared, published, refused>>

Admits(r) == \/ r \in Header /\ Positioned(r)
             \/ r \in StreamDecl /\ AdmitsStream(r)
             \/ r \in Envelope /\ AdmitsEnvelope(r)
             \/ r \in Schedule /\ AdmitsSchedule(r)

Refuse(r) ==
  /\ ~refused
  /\ ~Admits(r)
  /\ refused' = TRUE
  /\ UNCHANGED <<records, header, declared, published, schedules, faultActions,
                 identityBytes, scheduleWork>>
=============================================================================
