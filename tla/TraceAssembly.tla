---------------------------- MODULE TraceAssembly ----------------------------
(***************************************************************************)
(* TraceAssembler and SealedTrace::bind_owned of src/scenario.rs: one      *)
(* owned record at a time goes through the validator and then through the  *)
(* normalizer.  There is no rollback: after the normalizer refused what    *)
(* the validator accepted, only the sticky failure of the assembler keeps  *)
(* the two from drifting apart.                                            *)
(***************************************************************************)
EXTENDS TraceRecords

VARIABLES records, header, declared, published, schedules, faultActions,
          identityBytes, scheduleWork, refused
VARIABLES session, contracts, prepared, fingerprintBytes, sessionBytes
VARIABLES blueprints,    \* TraceAssembler.streams
          sources,       \* TraceAssembler.sources
          sourceStreams, \* SealedTrace.source_streams
          outcome        \* "open", "failed", "sealed", "broken" (for
                         \* Error::AssemblyInvariant), or "bypassed": a caller
                         \* that uses the public session without an assembler

V == INSTANCE TraceValidator
N == INSTANCE EnvelopeNormalizer

validatorVars == <<records, header, declared, published, schedules, faultActions,
                   identityBytes, scheduleWork, refused>>
normalizerVars == <<session, contracts, prepared, fingerprintBytes, sessionBytes>>
assemblerVars == <<blueprints, sources, sourceStreams, outcome>>
vars == <<validatorVars, normalizerVars, assemblerVars>>

Init == /\ V!ValidatorInit
        /\ N!NormalizerInit
        /\ blueprints = <<>>
        /\ sources = <<>>
        /\ sourceStreams = <<>>
        /\ outcome \in {"open", "bypassed"}

Open == outcome = "open"

Fails == outcome' = "failed" /\ UNCHANGED <<blueprints, sources, sourceStreams>>

PushHeader(h) == /\ Open
                 /\ V!AcceptHeader(h)
                 /\ UNCHANGED <<normalizerVars, assemblerVars>>

PushStream(d, a) ==
  /\ Open
  /\ V!AcceptStream(d)
  /\ N!RegisterStream(d, a)
  /\ IF N!Contract(d, a) \in contracts'
       THEN /\ blueprints' = Append(blueprints, N!Contract(d, a))
            /\ UNCHANGED <<sources, sourceStreams, outcome>>
       ELSE Fails

PushEnvelope(e) == /\ Open
                   /\ V!AcceptEnvelope(e)
                   /\ N!PrepareEnvelope(e)
                   /\ IF session' = "open"
                        THEN /\ sources' = Append(sources, e)
                             /\ UNCHANGED <<blueprints, sourceStreams, outcome>>
                        ELSE Fails

PushSchedule(s) == /\ Open
                   /\ V!AcceptSchedule(s)
                   /\ UNCHANGED <<normalizerVars, assemblerVars>>

PushRefused(r) == /\ Open
                  /\ V!Refuse(r)
                  /\ Fails
                  /\ UNCHANGED normalizerVars

(* A stream without an authority or another record with one. *)
PushMisused == /\ Open
               /\ Fails
               /\ UNCHANGED <<validatorVars, normalizerVars>>
-----------------------------------------------------------------------------
(* finish: both layers close, then bind_owned pairs what they hold.        *)

Paired == /\ Len(declared) = Len(blueprints)
          /\ \A i \in 1..Len(declared) :
               declared[i].id = blueprints[i].declaration.id
          /\ Len(published) = Len(sources)
          /\ \A i \in 1..Len(published) : published[i].id = sources[i].id

IsStreamOf(i, e) == blueprints[i].declaration.id = e.stream

Routable == \A e \in Among(sources) : \E i \in DOMAIN blueprints : IsStreamOf(i, e)

RouteOf(e) == CHOOSE i \in DOMAIN blueprints : IsStreamOf(i, e)

Finish ==
  /\ Open
  /\ records > 0
  /\ N!Seal
  /\ IF Paired /\ Routable
       THEN /\ sourceStreams' = [i \in DOMAIN sources |-> RouteOf(sources[i])]
            /\ outcome' = "sealed"
       ELSE /\ outcome' = "broken"
            /\ UNCHANGED sourceStreams
  /\ UNCHANGED <<validatorVars, blueprints, sources>>

(* An empty trace has no header. *)
FinishEmpty == /\ Open
               /\ records = 0
               /\ Fails
               /\ UNCHANGED <<validatorVars, normalizerVars>>

(* EnvelopeNormalizer is public: nothing makes its callers use the         *)
(* assembler, which asks less of it than they may.                         *)
CallDirectly == /\ outcome = "bypassed"
                /\ N!NormalizerNext
                /\ UNCHANGED <<validatorVars, assemblerVars>>

Next == \/ \E h \in Header : PushHeader(h)
        \/ \E d \in StreamDecl, a \in Authority : PushStream(d, a)
        \/ \E e \in Envelope : PushEnvelope(e)
        \/ \E s \in Schedule : PushSchedule(s)
        \/ \E r \in Record : PushRefused(r)
        \/ PushMisused
        \/ Finish
        \/ FinishEmpty
        \/ CallDirectly

Spec == Init /\ [][Next]_vars
-----------------------------------------------------------------------------

(* The normalizer repeats most checks of the validator.  They agree: while *)
(* the assembler is open, the normalizer can refuse what the validator     *)
(* would accept only for what the validator does not look at, the baseline *)
(* authority and the canonical bytes.                                      *)
LayersAgree ==
  Open =>
    /\ session = "open"
    /\ \A d \in StreamDecl : V!AdmitsStream(d) => N!New(d) /\ N!Affordable(d)
    /\ \A e \in Envelope : V!AdmitsEnvelope(e) /\ N!Hashable(e) => N!Preparable(e)

(* SealedTrace::execute starts one state per visible stream and routes     *)
(* every delivery of the visible prefix to its own: a source a schedule    *)
(* can deliver always belongs to a stream that schedule can see, so        *)
(* Error::ExecutionInvariant of src/scenario.rs:513 is never returned.     *)
SchedulesSeeStreams ==
  outcome = "sealed" =>
    \A p \in Among(schedules) :
      /\ p.streamPrefix <= Len(blueprints)
      /\ p.prefix <= Len(sources)
      /\ \A i \in 1..p.prefix : /\ sourceStreams[i] <= p.streamPrefix
                                /\ IsStreamOf(sourceStreams[i], sources[i])
      /\ p.schedule.targets \subseteq Ids({sources[i] : i \in 1..p.prefix})

(* Every source that can be executed keeps the promise of the header: its  *)
(* token evidence is of the declared kind only, and its cursor is one its  *)
(* stream contract admits, which StreamState::admit treats as an error.    *)
SourcesKeepContracts ==
  outcome = "sealed" =>
    \A i \in DOMAIN sources :
      /\ \E h \in header : sources[i].evidence \subseteq {h.redaction}
      /\ sources[i].cursor >= blueprints[sourceStreams[i]].declaration.initial

(* A trace that reaches its end binds (Error::AssemblyInvariant of         *)
(* src/scenario.rs:452-475 is never returned, although the validator and   *)
(* the normalizer keep their own copies of every identity), and what is    *)
(* sealed can be executed, by every schedule that was accepted.            *)
SealedTraceExecutes ==
  outcome # "broken" /\ SchedulesSeeStreams /\ SourcesKeepContracts

(* No two contracts of a session share a stream identity or a cache scope, *)
(* whoever calls register_stream (src/state.rs:599-626), and what the      *)
(* session is charged for is what it retains, within its budgets           *)
(* (src/state.rs:522-545, 626-651).                                        *)
ContractsChargedOnce == N!OneContract /\ N!ChargedOnce
=============================================================================
