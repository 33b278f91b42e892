------------------------- MODULE ProcessCaptureProofs -------------------------
(***************************************************************************)
(* Proofs about ProcessCapture, for every limit, chunk, pipe, deadline and *)
(* amount of output.                                                       *)
(***************************************************************************)
EXTENDS ProcessCapture, TLAPS

Collecting == {"select", "read", "wait"}
CleaningUp == {"terminate", "poll", "grace", "kill", "reap"}

TypeOK ==
    /\ alive \in SUBSET Processes
    /\ holders \in [Streams -> SUBSET Processes]
    /\ doomed \in SUBSET Processes
    /\ written \in [Streams -> Nat]
    /\ collected \in [Streams -> Nat]
    /\ registered \in SUBSET Streams
    /\ events \in SUBSET registered
    /\ clock \in Nat
    /\ phase \in Collecting \union CleaningUp \union {"returned"}

\* Only a running process has a pipe open or a signal under way.
GroupIsAlive ==
    /\ \A s \in Streams : holders[s] \subseteq alive
    /\ doomed \subseteq alive

\* What was collected had been written, and at most one byte is beyond the
\* limit, none while collection goes on.
CollectedIsWritten ==
    \A s \in Streams : /\ collected[s] <= written[s]
                       /\ collected[s] <= OutputLimit + 1
                       /\ phase \in Collecting => collected[s] <= OutputLimit

\* An event stays what it was until it is read, and a stream that ended can
\* never be written again.
EventsLast == \A s \in events : Unread(s) > 0 \/ AtEof(s)
EndedForGood == \A s \in Streams \ registered : AtEof(s)

WaitsForAll == phase = "wait" => registered = {}

\* Clean-up has a reason, which stays the true one.
FailureKnown == phase \in CleaningUp => failure \notin {"none", "exit"}
FailureTrue ==
    /\ failure = "limit" => \E s \in Streams : written[s] > OutputLimit
    /\ failure = "timeout" => Expired

\* A result was taken from a leader that can no longer change it.
ResultHolds ==
    phase = "returned" /\ failure \in {"none", "exit"} =>
        /\ failure = "none" => code = "success"
        /\ reaped
        /\ "leader" \notin alive
        /\ registered = {}
        /\ \A s \in Streams : collected[s] <= OutputLimit

\* After SIGKILL the group can only shrink.
GroupIsDoomed == phase = "reap" => alive = doomed

\* A group that was ended stays so after the call.
FailedGroupIsEnded ==
    phase = "returned" /\ failure \in {"timeout", "limit", "interrupted"} =>
        alive = doomed /\ reaped

CaptureInv ==
    /\ TypeOK
    /\ GroupIsAlive
    /\ CollectedIsWritten
    /\ EventsLast
    /\ EndedForGood
    /\ WaitsForAll
    /\ FailureKnown
    /\ FailureTrue
    /\ ResultHolds
    /\ GroupIsDoomed
    /\ FailedGroupIsEnded
-----------------------------------------------------------------------------
LEMMA SmallestOfThree ==
    ASSUME NEW x \in Int, NEW y \in Int, NEW z \in Int
    PROVE  /\ Smallest({x, y, z}) \in {x, y, z}
           /\ Smallest({x, y, z}) <= x
           /\ Smallest({x, y, z}) <= y
           /\ Smallest({x, y, z}) <= z
<1>1. \E least \in {x, y, z} : \A other \in {x, y, z} : least <= other
    <2>1. CASE x <= y /\ x <= z
        BY <2>1
    <2>2. CASE y <= x /\ y <= z
        BY <2>2
    <2>3. CASE z <= x /\ z <= y
        BY <2>3
    <2> QED BY <2>1, <2>2, <2>3
<1>2. /\ Smallest({x, y, z}) \in {x, y, z}
      /\ \A other \in {x, y, z} : Smallest({x, y, z}) <= other
    BY <1>1 DEF Smallest
<1> QED BY <1>2

\* A read takes what is there and never more than one byte too many; it is
\* empty only when nothing is there.
LEMMA ReadSizeFacts ==
    ASSUME TypeOK, CollectedIsWritten, NEW s \in Streams, phase = "read"
    PROVE  /\ ReadSize(s) \in Nat
           /\ collected[s] + ReadSize(s) <= written[s]
           /\ collected[s] + ReadSize(s) <= OutputLimit + 1
           /\ ReadSize(s) = 0 => Unread(s) = 0
<1>1. /\ collected[s] \in Nat /\ written[s] \in Nat /\ OutputLimit \in Nat
      /\ ChunkBytes \in Nat /\ ChunkBytes > 0
      /\ collected[s] <= written[s] /\ collected[s] <= OutputLimit
    BY CaptureAssumption DEF TypeOK, CollectedIsWritten, Collecting
<1>2. /\ OutputLimit - collected[s] + 1 \in Int /\ OutputLimit - collected[s] + 1 > 0
      /\ Unread(s) \in Int /\ Unread(s) >= 0 /\ Unread(s) = written[s] - collected[s]
      /\ ChunkBytes \in Int
    BY <1>1 DEF Unread
<1>3. /\ ReadSize(s) \in {ChunkBytes, OutputLimit - collected[s] + 1, Unread(s)}
      /\ ReadSize(s) <= OutputLimit - collected[s] + 1
      /\ ReadSize(s) <= Unread(s)
    BY <1>2, SmallestOfThree DEF ReadSize
<1> QED BY <1>1, <1>2, <1>3

LEMMA CaptureInit == Init => CaptureInv
<1> SUFFICES ASSUME Init PROVE CaptureInv
    OBVIOUS
<1>1. TypeOK
    BY DEF Init, TypeOK, Processes, Collecting
<1>2. CollectedIsWritten
    BY CaptureAssumption DEF Init, CollectedIsWritten
<1> QED BY <1>1, <1>2 DEF Init, CaptureInv, GroupIsAlive, EventsLast, EndedForGood,
        WaitsForAll, FailureKnown, FailureTrue, ResultHolds, GroupIsDoomed, FailedGroupIsEnded,
        CleaningUp
-----------------------------------------------------------------------------
\* The command and what it forks.
LEMMA WriteStep ==
    ASSUME CaptureInv, NEW p \in Processes, NEW s \in Streams, Write(p, s)
    PROVE  CaptureInv'
<1>1. /\ p \in holders[s] /\ written' = [written EXCEPT ![s] = @ + 1]
      /\ UNCHANGED <<alive, holders, doomed, code, reaped, collected, registered, events,
                     phase, failure, clock>>
    BY DEF Write, caller
<1>2. /\ written \in [Streams -> Nat] /\ collected \in [Streams -> Nat]
      /\ registered \in SUBSET Streams /\ events \in SUBSET registered
    BY DEF CaptureInv, TypeOK
<1>3. /\ written' \in [Streams -> Nat]
      /\ \A t \in Streams : written'[t] = written[t] + (IF t = s THEN 1 ELSE 0)
    BY <1>1, <1>2
<1>4. TypeOK'
    BY <1>1, <1>3 DEF CaptureInv, TypeOK
<1>5. CollectedIsWritten'
    BY <1>1, <1>2, <1>3 DEF CaptureInv, CollectedIsWritten
<1>6. \A t \in Streams : /\ AtEof(t) => AtEof(t)'
                         /\ Unread(t) > 0 => (Unread(t) > 0)'
    BY <1>1, <1>2, <1>3 DEF AtEof, Unread
<1>7. EventsLast' /\ EndedForGood'
    BY <1>1, <1>2, <1>6 DEF CaptureInv, EventsLast, EndedForGood
<1>8. FailureTrue'
    BY CaptureAssumption, <1>1, <1>2, <1>3 DEF CaptureInv, FailureTrue, Expired
<1>9. /\ GroupIsAlive' /\ WaitsForAll' /\ FailureKnown' /\ ResultHolds' /\ GroupIsDoomed'
      /\ FailedGroupIsEnded'
    BY <1>1 DEF CaptureInv, GroupIsAlive, WaitsForAll, FailureKnown, ResultHolds,
        GroupIsDoomed, FailedGroupIsEnded
<1> QED BY <1>4, <1>5, <1>7, <1>8, <1>9 DEF CaptureInv

\* A step of the group that writes nothing.
LEMMA GroupStep ==
    ASSUME CaptureInv, UNCHANGED <<written, caller, clock>>,
           alive' \in SUBSET Processes, doomed' \in SUBSET Processes,
           holders' \in [Streams -> SUBSET Processes],
           GroupIsAlive',
           \A s \in Streams : holders[s] = {} => holders'[s] = {},
           "leader" \notin alive => "leader" \notin alive' /\ code' = code,
           alive = doomed => alive' = doomed'
    PROVE  CaptureInv'
<1>1. UNCHANGED <<reaped, collected, registered, events, phase, failure, written, clock>>
    BY DEF caller
<1>2. TypeOK' /\ CollectedIsWritten' /\ FailureTrue'
    BY <1>1 DEF CaptureInv, TypeOK, CollectedIsWritten, FailureTrue, Expired
<1>3. registered \in SUBSET Streams /\ events \in SUBSET Streams
    BY DEF CaptureInv, TypeOK
<1>4. \A s \in Streams : AtEof(s) => AtEof(s)'
    BY <1>1 DEF AtEof, Unread
<1>5. EventsLast' /\ EndedForGood'
    BY <1>1, <1>3, <1>4 DEF CaptureInv, EventsLast, EndedForGood, Unread
<1>6. /\ WaitsForAll' /\ FailureKnown' /\ ResultHolds' /\ GroupIsDoomed' /\ FailedGroupIsEnded'
    BY <1>1 DEF CaptureInv, WaitsForAll, FailureKnown, ResultHolds, GroupIsDoomed, FailedGroupIsEnded
<1> QED BY <1>2, <1>5, <1>6 DEF CaptureInv

LEMMA CommandStep == ASSUME CaptureInv, Command PROVE CaptureInv'
<1>0. /\ alive \in SUBSET Processes /\ holders \in [Streams -> SUBSET Processes]
      /\ doomed \in SUBSET Processes
      /\ \A s \in Streams : holders[s] \subseteq alive
      /\ doomed \subseteq alive
    BY DEF CaptureInv, TypeOK, GroupIsAlive
<1>1. ASSUME NEW p \in Processes, NEW s \in Streams, CloseStream(p, s)
      PROVE  CaptureInv'
    <2>1. /\ holders' = [holders EXCEPT ![s] = @ \ {p}]
          /\ UNCHANGED <<alive, doomed, code, written, caller, clock>>
        BY <1>1 DEF CloseStream
    <2> QED BY <1>0, <2>1, GroupStep DEF GroupIsAlive
<1>2. ASSUME NEW ignores \in BOOLEAN, Fork(ignores)
      PROVE  CaptureInv'
    <2>1. /\ "leader" \in alive /\ "leader" \notin doomed
          /\ alive' = alive \union {"forked"}
          /\ holders' = [s \in Streams |->
                           IF "leader" \in holders[s] THEN holders[s] \union {"forked"}
                                                      ELSE holders[s]]
          /\ UNCHANGED <<doomed, code, written, caller, clock>>
        BY <1>2 DEF Fork
    <2>2. GroupIsAlive'
        BY <1>0, <2>1 DEF GroupIsAlive
    <2> QED BY <1>0, <2>1, <2>2, GroupStep DEF Processes
<1>3. ASSUME NEW p \in Processes, NEW how \in {"success", "error", "killed"}, End(p, how)
      PROVE  CaptureInv'
    <2>1. /\ p \in alive
          /\ alive' = alive \ {p} /\ doomed' = doomed \ {p}
          /\ holders' = [s \in Streams |-> holders[s] \ {p}]
          /\ code' = IF p = "leader" THEN how ELSE code
          /\ UNCHANGED <<written, caller, clock>>
        BY <1>3 DEF End
    <2>2. GroupIsAlive'
        BY <1>0, <2>1 DEF GroupIsAlive
    <2> QED BY <1>0, <2>1, <2>2, GroupStep
<1> QED BY <1>1, <1>2, <1>3, WriteStep DEF Command
-----------------------------------------------------------------------------
\* A step of the caller that reads nothing.
LEMMA CallerStep ==
    ASSUME CaptureInv,
           UNCHANGED <<alive, holders, written, collected, clock>>,
           doomed' \subseteq alive, registered' \subseteq registered,
           events' \subseteq registered', EventsLast', EndedForGood',
           phase' \in Collecting \union CleaningUp \union {"returned"},
           phase' \in Collecting => phase \in Collecting,
           WaitsForAll', FailureKnown', FailureTrue', ResultHolds', GroupIsDoomed', FailedGroupIsEnded'
    PROVE  CaptureInv'
<1>1. TypeOK'
    BY DEF CaptureInv, TypeOK, GroupIsAlive
<1>2. GroupIsAlive' /\ CollectedIsWritten'
    BY DEF CaptureInv, GroupIsAlive, CollectedIsWritten
<1> QED BY <1>1, <1>2 DEF CaptureInv

LEMMA AbortStep ==
    ASSUME CaptureInv, NEW why, Abort(why), UNCHANGED <<group, clock>>,
           why \in {"timeout", "interrupted"}, why = "timeout" => Expired
    PROVE  CaptureInv'
<1>1. /\ phase' = "terminate" /\ failure' = why /\ events' = {}
      /\ UNCHANGED <<alive, holders, doomed, written, registered, collected, clock>>
    BY DEF Abort, group
<1>2. EndedForGood' /\ EventsLast'
    BY <1>1 DEF CaptureInv, EndedForGood, EventsLast, AtEof, Unread
<1>3. FailureTrue' /\ FailureKnown'
    BY <1>1 DEF FailureTrue, FailureKnown, Expired
<1>4. /\ phase' \in CleaningUp /\ phase' \notin Collecting
      /\ doomed' \subseteq alive
    BY <1>1 DEF CleaningUp, Collecting, CaptureInv, GroupIsAlive
<1> QED BY <1>1, <1>2, <1>3, <1>4, CallerStep DEF WaitsForAll, ResultHolds, GroupIsDoomed, FailedGroupIsEnded

LEMMA SelectStep == ASSUME CaptureInv, Select PROVE CaptureInv'
<1>1. /\ phase = "select" /\ phase' = "read" /\ events' = Ready
      /\ UNCHANGED <<alive, holders, doomed, written, reaped, registered, collected, failure, clock>>
    BY DEF Select, group
<1>2. EventsLast' /\ EndedForGood' /\ events' \subseteq registered
    BY <1>1 DEF EventsLast, Ready, CaptureInv, EndedForGood, AtEof, Unread
<1>3. FailureTrue' /\ FailureKnown'
    BY <1>1 DEF CaptureInv, FailureTrue, FailureKnown, Expired, CleaningUp
<1>4. phase \in Collecting /\ phase' \in Collecting /\ doomed' \subseteq alive
    BY <1>1 DEF Collecting, CaptureInv, GroupIsAlive
<1> QED BY <1>1, <1>2, <1>3, <1>4, CallerStep DEF WaitsForAll, ResultHolds, GroupIsDoomed, FailedGroupIsEnded

LEMMA ReadStep == ASSUME CaptureInv, NEW s \in Streams, Read(s) PROVE CaptureInv'
<1>1. /\ phase = "read" /\ s \in events /\ ReadSize(s) > 0
      /\ collected' = [collected EXCEPT ![s] = @ + ReadSize(s)]
      /\ events' \subseteq events \ {s}
      /\ UNCHANGED <<alive, holders, doomed, written, reaped, registered, clock>>
    BY DEF Read, group
<1>2. /\ collected \in [Streams -> Nat] /\ written \in [Streams -> Nat]
      /\ OutputLimit \in Nat /\ events \subseteq Streams /\ registered \subseteq Streams
      /\ s \in registered
    BY <1>1, CaptureAssumption DEF CaptureInv, TypeOK
<1>3. /\ ReadSize(s) \in Nat
      /\ collected[s] + ReadSize(s) <= written[s]
      /\ collected[s] + ReadSize(s) <= OutputLimit + 1
    BY <1>1, ReadSizeFacts DEF CaptureInv
<1>4. /\ collected' \in [Streams -> Nat]
      /\ collected'[s] = collected[s] + ReadSize(s)
      /\ \A t \in Streams \ {s} : collected'[t] = collected[t]
    BY <1>1, <1>2, <1>3
<1>5. \/ /\ collected'[s] > OutputLimit /\ phase' = "terminate" /\ failure' = "limit"
      \/ /\ ~(collected'[s] > OutputLimit) /\ phase' \in {"select", "read"} /\ failure' = failure
    BY DEF Read
<1>6. TypeOK'
    <2>1. phase' \in Collecting \union CleaningUp
        BY <1>5 DEF Collecting, CleaningUp
    <2> QED BY <1>1, <1>4, <2>1 DEF CaptureInv, TypeOK
<1>7. CollectedIsWritten'
    <2>1. ASSUME NEW t \in Streams
          PROVE  /\ collected'[t] <= written[t]
                 /\ collected'[t] <= OutputLimit + 1
                 /\ phase' \in Collecting => collected'[t] <= OutputLimit
        <3>1. /\ collected[t] \in Nat /\ collected[t] <= written[t]
              /\ collected[t] <= OutputLimit /\ collected[t] <= OutputLimit + 1
            BY <1>1, <1>2 DEF CaptureInv, CollectedIsWritten, Collecting
        <3>2. CASE t = s
            BY <1>2, <1>3, <1>4, <1>5, <3>2 DEF Collecting
        <3>3. CASE t # s
            BY <1>4, <3>1, <3>3
        <3> QED BY <3>2, <3>3
    <2> QED BY <1>1, <2>1 DEF CollectedIsWritten
<1>8. EventsLast' /\ EndedForGood'
    BY <1>1, <1>2, <1>4 DEF CaptureInv, EventsLast, EndedForGood, AtEof, Unread
<1>9. FailureTrue'
    <2>1. collected'[s] > OutputLimit => written[s] > OutputLimit
        BY <1>2, <1>3, <1>4
    <2> QED BY <1>1, <1>5, <2>1 DEF CaptureInv, FailureTrue, Expired
<1>10. /\ GroupIsAlive' /\ WaitsForAll' /\ FailureKnown' /\ ResultHolds' /\ GroupIsDoomed'
       /\ FailedGroupIsEnded'
    BY <1>1, <1>5 DEF CaptureInv, GroupIsAlive, WaitsForAll, FailureKnown, ResultHolds,
        GroupIsDoomed, FailedGroupIsEnded, CleaningUp
<1> QED BY <1>6, <1>7, <1>8, <1>9, <1>10 DEF CaptureInv

LEMMA ReadEofStep == ASSUME CaptureInv, NEW s \in Streams, ReadEof(s) PROVE CaptureInv'
<1>1. /\ phase = "read" /\ s \in events /\ ReadSize(s) = 0
      /\ registered' = registered \ {s} /\ events' = events \ {s}
      /\ phase' \in {"select", "read"}
      /\ UNCHANGED <<alive, holders, doomed, written, reaped, collected, failure, clock>>
    BY DEF ReadEof, group
<1>2. AtEof(s)
    <2>1. Unread(s) = 0
        BY <1>1, ReadSizeFacts DEF CaptureInv
    <2> QED BY <1>1, <2>1 DEF CaptureInv, EventsLast
<1>3. EventsLast' /\ EndedForGood'
    BY <1>1, <1>2 DEF CaptureInv, EventsLast, EndedForGood, AtEof, Unread
<1>4. FailureTrue' /\ FailureKnown'
    BY <1>1 DEF CaptureInv, FailureTrue, FailureKnown, Expired, CleaningUp
<1>5. /\ phase \in Collecting /\ phase' \in Collecting /\ doomed' \subseteq alive
      /\ events' \subseteq registered'
    BY <1>1 DEF Collecting, CaptureInv, TypeOK, GroupIsAlive
<1> QED BY <1>1, <1>3, <1>4, <1>5, CallerStep DEF WaitsForAll, ResultHolds, GroupIsDoomed, FailedGroupIsEnded

LEMMA AwaitExitStep == ASSUME CaptureInv, AwaitExit PROVE CaptureInv'
<1>1. CASE Expired
    BY <1>1, AbortStep DEF AwaitExit
<1>2. CASE ~Expired
    <2>1. /\ phase = "select" /\ phase' = "wait" /\ registered = {}
          /\ UNCHANGED <<alive, holders, doomed, written, reaped, collected, registered, events,
                         failure, clock>>
        BY <1>2 DEF AwaitExit, group
    <2>2. EventsLast' /\ EndedForGood'
        BY <2>1 DEF CaptureInv, EventsLast, EndedForGood, AtEof, Unread
    <2>3. FailureTrue' /\ FailureKnown'
        BY <2>1 DEF CaptureInv, FailureTrue, FailureKnown, Expired, CleaningUp
    <2>4. /\ phase \in Collecting /\ phase' \in Collecting /\ doomed' \subseteq alive
          /\ events' \subseteq registered'
        BY <2>1 DEF Collecting, CaptureInv, TypeOK, GroupIsAlive
    <2> QED BY <2>1, <2>2, <2>3, <2>4, CallerStep
            DEF WaitsForAll, ResultHolds, GroupIsDoomed, FailedGroupIsEnded
<1> QED BY <1>1, <1>2

LEMMA CollectedStep == ASSUME CaptureInv, Collected PROVE CaptureInv'
<1>1. /\ phase = "wait" /\ phase' = "returned" /\ "leader" \notin alive /\ reaped'
      /\ failure' = IF code = "success" THEN "none" ELSE "exit"
      /\ UNCHANGED <<alive, holders, doomed, code, written, collected, registered, events, clock>>
    BY DEF Collected, group
<1>2. EventsLast' /\ EndedForGood'
    BY <1>1 DEF CaptureInv, EventsLast, EndedForGood, AtEof, Unread
<1>3. FailureTrue' /\ FailureKnown' /\ WaitsForAll' /\ GroupIsDoomed' /\ FailedGroupIsEnded'
    BY <1>1 DEF FailureTrue, FailureKnown, WaitsForAll, GroupIsDoomed, FailedGroupIsEnded, CleaningUp
<1>4. ResultHolds'
    BY <1>1 DEF CaptureInv, WaitsForAll, CollectedIsWritten, ResultHolds, Collecting
<1>5. /\ phase' \notin Collecting /\ doomed' \subseteq alive /\ events' \subseteq registered'
    BY <1>1 DEF Collecting, CaptureInv, TypeOK, GroupIsAlive
<1> QED BY <1>1, <1>2, <1>3, <1>4, <1>5, CallerStep

LEMMA CollectStep == ASSUME CaptureInv, Collect PROVE CaptureInv'
<1>1. CASE TimeOut \/ TimeOutWaiting
    BY <1>1, AbortStep DEF TimeOut, TimeOutWaiting
<1> QED BY <1>1, SelectStep, AwaitExitStep, CollectedStep, ReadStep, ReadEofStep DEF Collect
-----------------------------------------------------------------------------
\* A step of the clean-up, or its failure.
LEMMA CleanUpStep ==
    ASSUME CaptureInv, CleanUp \/ FailCleanup PROVE CaptureInv'
<1>1. /\ phase \in CleaningUp
      /\ UNCHANGED <<alive, holders, code, written, collected, registered, events, clock>>
      /\ doomed' \in {doomed, doomed \union (alive \ stubborn), alive}
    BY DEF CleanUp, FailCleanup, Terminate, PollLeader, GraceEnds, KillGroup, Reap, GiveUp,
        group, CleaningUp
<1>2. /\ phase' \in CleaningUp \union {"returned"} /\ phase' \notin Collecting
      /\ failure' \in {failure, "cleanup"}
    BY DEF CleanUp, FailCleanup, Terminate, PollLeader, GraceEnds, KillGroup, Reap, GiveUp,
        group, CleaningUp, Collecting
<1>3. EventsLast' /\ EndedForGood'
    BY <1>1 DEF CaptureInv, EventsLast, EndedForGood, AtEof, Unread
<1>4. FailureTrue' /\ FailureKnown' /\ WaitsForAll' /\ ResultHolds'
    BY <1>1, <1>2 DEF CaptureInv, FailureTrue, FailureKnown, WaitsForAll, ResultHolds,
        Expired, Collecting
<1>5. GroupIsDoomed'
    BY <1>1 DEF CaptureInv, CleanUp, FailCleanup, Terminate, PollLeader, GraceEnds, KillGroup,
        Reap, GiveUp, GroupIsDoomed
<1>6. FailedGroupIsEnded'
    BY <1>1 DEF CaptureInv, CleanUp, FailCleanup, Terminate, PollLeader, GraceEnds, KillGroup,
        Reap, GiveUp, group, GroupIsDoomed, FailedGroupIsEnded
<1>7. doomed' \subseteq alive /\ events' \subseteq registered'
    BY <1>1 DEF CaptureInv, TypeOK, GroupIsAlive
<1> QED BY <1>1, <1>2, <1>3, <1>4, <1>5, <1>6, <1>7, CallerStep

LEMMA TickStep == ASSUME CaptureInv, Tick PROVE CaptureInv'
<1>1. /\ clock' = clock + 1
      /\ UNCHANGED <<alive, holders, doomed, code, written, reaped, collected, registered,
                     events, phase, failure>>
    BY DEF Tick, group, caller
<1>2. TypeOK'
    BY <1>1 DEF CaptureInv, TypeOK
<1>3. FailureTrue'
    BY <1>1, CaptureAssumption DEF CaptureInv, TypeOK, FailureTrue, Expired
<1> QED BY <1>1, <1>2, <1>3 DEF CaptureInv, GroupIsAlive, CollectedIsWritten, EventsLast,
        EndedForGood, AtEof, Unread, WaitsForAll, FailureKnown, ResultHolds, GroupIsDoomed,
        FailedGroupIsEnded

LEMMA CaptureStep == CaptureInv /\ [Next]_vars => CaptureInv'
<1> SUFFICES ASSUME CaptureInv, [Next]_vars PROVE CaptureInv'
    OBVIOUS
<1>1. CASE Interrupt
    BY <1>1, AbortStep DEF Interrupt
<1>2. CASE UNCHANGED vars
    BY <1>2 DEF vars, group, caller, CaptureInv, TypeOK, GroupIsAlive, CollectedIsWritten,
        EventsLast, EndedForGood, AtEof, Unread, WaitsForAll, FailureKnown, FailureTrue,
        Expired, ResultHolds, GroupIsDoomed, FailedGroupIsEnded
<1> QED BY <1>1, <1>2, CommandStep, TickStep, CollectStep, CleanUpStep DEF Next

\* What was read of the pipes, what waits in them, and which processes of the
\* group may still run fit together at every step of a capture.
THEOREM CaptureInvariant == Spec => []CaptureInv
<1> QED BY CaptureInit, CaptureStep, PTL DEF Spec

\* Whatever the command does, a capture that succeeds is whole, and one that
\* fails says why truly.
THEOREM ResultsAreTrue == Spec => []ResultIsTrue
<1>1. CaptureInv => ResultIsTrue
    <2> SUFFICES ASSUME CaptureInv PROVE ResultIsTrue
        OBVIOUS
    <2>1. OutputIsComplete
        <3> SUFFICES ASSUME phase = "returned", failure = "none", NEW s \in Streams
                     PROVE  /\ code = "success" /\ reaped
                            /\ holders[s] = {} /\ collected[s] = written[s]
                            /\ collected[s] <= OutputLimit
            BY DEF OutputIsComplete, Streams
        <3>1. AtEof(s)
            BY DEF CaptureInv, ResultHolds, EndedForGood
        <3>2. collected[s] \in Nat /\ written[s] \in Nat
            BY DEF CaptureInv, TypeOK
        <3> QED BY <3>1, <3>2 DEF CaptureInv, ResultHolds, AtEof, Unread
    <2>2. ReasonIsTrue
        BY DEF CaptureInv, CollectedIsWritten, FailureTrue, ReasonIsTrue
    <2> QED BY <2>1, <2>2 DEF ResultIsTrue
<1> QED BY <1>1, CaptureInvariant, PTL

\* Whenever a call returns because collection failed, and its clean-up did not,
\* its whole group has ended or cannot outlive the signal it was sent, and
\* nothing can be forked any more; when it returns because the command exited
\* non-zero, nobody was signalled, and what may still run holds neither pipe.
THEOREM GroupsAreEnded == Spec => []GroupIsEnded
<1>1. CaptureInv => GroupIsEnded
    <2> SUFFICES ASSUME CaptureInv PROVE GroupIsEnded
        OBVIOUS
    <2>1. ASSUME phase = "returned", failure = "exit"
          PROVE  "leader" \notin alive /\ reaped /\ \A s \in Streams : holders[s] = {}
        BY <2>1 DEF CaptureInv, ResultHolds, EndedForGood, AtEof
    <2> QED BY <2>1 DEF CaptureInv, FailedGroupIsEnded, GroupIsEnded
<1> QED BY <1>1, CaptureInvariant, PTL
=============================================================================
