-------------------------- MODULE ScheduleExecution ---------------------------
(***************************************************************************)
(* SealedTrace::compare_schedule of src/scenario.rs over all the streams a *)
(* schedule can see: once the schedule is materialized, execute feeds the  *)
(* physical sources and then the materialized deliveries, each to fresh    *)
(* states, and ScheduleComparison::new pairs the two sets of summaries.    *)
(*                                                                         *)
(* admit is a function of the state and the source, so a state is known by *)
(* the sources it has admitted, in order; StreamState says what it makes   *)
(* of them and ScheduleComparison what one verdict means.                  *)
(***************************************************************************)
EXTENDS ScheduleMaterialization

CONSTANT MaxStreams   \* bound: streams of the sealed trace

ASSUME StreamsAssumption == MaxStreams \in Nat

VARIABLES mode,          \* "waiting", "pristine", "faulted", "compared", "failed"
                         \* or "broken"
          sourceStreams, \* stream of each source of the trace
          streamPrefix,  \* streams declared before the schedule record
          delivered,     \* deliveries the execution has admitted
          states,        \* per visible stream, the sources its state has admitted
          pristine,      \* summaries of the pristine execution
          compared       \* per stream, what the verdict was made from

executionVars == <<mode, sourceStreams, streamPrefix, delivered, states, pristine,
                   compared>>

ExecutionInit ==
  /\ Init
  /\ mode = "waiting"
  /\ sourceStreams = <<>>
  /\ streamPrefix = 0
  /\ delivered = 0
  /\ states = <<>>
  /\ pristine = <<>>
  /\ compared = <<>>

Fresh(streams) == [s \in 1..streams |-> <<>>]

(* The deliveries of the execution under way. *)
Feed == IF mode = "pristine" THEN [i \in 1..prefix |-> <<i - 1, 0>>] ELSE deliveries

(* The trace is chosen here, where its routes are first read.  A source of *)
(* the prefix belongs to a stream declared before it, hence before the     *)
(* schedule; later streams and sources are anywhere.  Streams are numbered *)
(* by their first source (bound: one of the numberings a trace may have).  *)
BeginPristine ==
  /\ mode = "waiting"
  /\ phase = "done"
  /\ streamPrefix' \in 0..MaxStreams
  /\ sourceStreams' \in [Source -> 1..MaxStreams]
  /\ \A i \in Source : i < prefix => sourceStreams'[i] <= streamPrefix'
  /\ \A i \in Source :
       sourceStreams'[i] <= Cardinality({sourceStreams'[j] : j \in 0..(i - 1)}) + 1
  /\ states' = Fresh(streamPrefix')
  /\ mode' = "pristine"
  /\ UNCHANGED <<vars, delivered, pristine, compared>>

Executing == mode \in {"pristine", "faulted"}

(* The stream of the n-th delivery. *)
Route(n) == sourceStreams[Feed[n][1]]

(* states.get_mut(stream), or Error::ExecutionInvariant. *)
AdmitNext ==
  /\ Executing
  /\ delivered < Len(Feed)
  /\ LET s == Route(delivered + 1)
     IN  IF s \in DOMAIN states
         THEN /\ states' = [states EXCEPT ![s] = Append(@, Feed[delivered + 1][1])]
              /\ delivered' = delivered + 1
              /\ UNCHANGED mode
         ELSE mode' = "broken" /\ UNCHANGED <<states, delivered>>
  /\ UNCHANGED <<vars, sourceStreams, streamPrefix, pristine, compared>>

(* A state refuses the source for good: the comparison is an error.        *)
FailFold ==
  /\ Executing
  /\ delivered < Len(Feed)
  /\ mode' = "failed"
  /\ UNCHANGED <<vars, sourceStreams, streamPrefix, delivered, states, pristine,
                 compared>>

(* Slip: the faulted execution goes on with the states of the pristine one. *)
FinishPristineKeepingStates ==
  /\ mode = "pristine"
  /\ delivered = Len(Feed)
  /\ pristine' = states
  /\ delivered' = 0
  /\ mode' = "faulted"
  /\ UNCHANGED <<vars, sourceStreams, streamPrefix, states, compared>>

FinishPristine ==
  /\ mode = "pristine"
  /\ delivered = Len(Feed)
  /\ pristine' = states
  /\ states' = Fresh(streamPrefix)
  /\ delivered' = 0
  /\ mode' = "faulted"
  /\ UNCHANGED <<vars, sourceStreams, streamPrefix, compared>>

(* compare_streams pairs the summaries by their ordinal. *)
FinishFaulted ==
  /\ mode = "faulted"
  /\ delivered = Len(Feed)
  /\ IF DOMAIN pristine = DOMAIN states
       THEN /\ compared' = [s \in DOMAIN states |->
                              [pristine |-> pristine[s], faulted |-> states[s]]]
            /\ mode' = "compared"
       ELSE mode' = "broken" /\ UNCHANGED compared
  /\ UNCHANGED <<vars, sourceStreams, streamPrefix, delivered, states, pristine>>

ExecutionNext == \/ Next /\ UNCHANGED executionVars
                 \/ BeginPristine
                 \/ AdmitNext
                 \/ FailFold
                 \/ FinishPristine
                 \/ FinishFaulted

ExecutionSpec == ExecutionInit /\ [][ExecutionNext]_<<vars, executionVars>>
-----------------------------------------------------------------------------
(* Streams whose deliveries the plan drops, copies or moves; those that    *)
(* only serve as anchors are not among them.                               *)
Touched == {sourceStreams[plan[i].target[1]] : i \in DOMAIN plan}

(* The faults of one stream stay in it: the state of a stream the schedule *)
(* does not touch admits exactly what it admitted when pristine, in the    *)
(* same order, whatever is dropped, copied or moved around it and even     *)
(* where its deliveries are the anchors of the moves.  Its verdict can     *)
(* never be Diverged.                                                      *)
FaultsStayInTheirStream ==
  mode = "compared" =>
    \A s \in 1..streamPrefix \ Touched :
      compared[s].faulted = compared[s].pristine

(* Every visible stream gets one verdict, about its own sources: those of  *)
(* the prefix in order when pristine, only those when faulted; and no      *)
(* delivery goes to a stream the execution has no state for                *)
(* (src/scenario.rs:508-513, 794-805).                                     *)
VerdictsAreTheirStreams ==
  /\ mode # "broken"
  /\ mode = "compared" =>
       /\ DOMAIN compared = 1..streamPrefix
       /\ \A s \in 1..streamPrefix :
            LET own == {i \in Source : i < prefix /\ sourceStreams[i] = s}
                ran == compared[s].pristine
            IN  /\ \A i \in own : \E n \in DOMAIN ran : ran[n] = i
                /\ \A n \in 2..Len(ran) : ran[n - 1] < ran[n]
                /\ \A n \in DOMAIN compared[s].faulted : compared[s].faulted[n] \in own

(* The two together. *)
StreamsAreIsolated == FaultsStayInTheirStream /\ VerdictsAreTheirStreams
=============================================================================
