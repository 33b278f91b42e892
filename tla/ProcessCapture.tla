---------------------------- MODULE ProcessCapture ----------------------------
(***************************************************************************)
(* One call of run() in tools/render_readme_visuals.py: a command started  *)
(* in a session of its own writes to two pipes while the caller collects   *)
(* both through a selector, under a deadline and a limit per stream, and   *)
(* ends the whole process group when collection fails.  A command that     *)
(* exits, whatever its code, is only waited for: nobody is signalled.      *)
(*                                                                         *)
(* The group is the command itself, the leader, and at most one process it *)
(* forks, which inherits the pipes.  A process that leaves the session is  *)
(* out of reach of the code and of the model.  Output is counted, not      *)
(* kept; a command that cannot be started and output that does not decode  *)
(* are left out.                                                           *)
(***************************************************************************)
EXTENDS Integers, FiniteSets

CONSTANTS
    OutputLimit,   \* output_limit_bytes
    ChunkBytes,    \* READ_CHUNK_BYTES
    PipeBytes,     \* what a pipe holds before its writer blocks
    TimeoutTicks,  \* timeout_seconds
    MaxWritten     \* bound: bytes written to one stream

ASSUME CaptureAssumption ==
    /\ OutputLimit \in Nat \ {0}
    /\ ChunkBytes \in Nat \ {0}
    /\ PipeBytes \in Nat \ {0}
    /\ TimeoutTicks \in Nat \ {0}
    /\ MaxWritten \in Nat

Streams == {"stdout", "stderr"}
Processes == {"leader", "forked"}

VARIABLES
    alive,       \* the processes still running
    holders,     \* for each stream, who has its write end open
    stubborn,    \* the processes that ignore SIGTERM
    doomed,      \* the processes a signal is about to end
    code,        \* how the leader exited; the caller may not know yet
    reaped,      \* the caller has waited for the leader
    written,     \* bytes written, by stream
    collected,   \* len(buffer), by stream
    registered,  \* the streams the selector watches
    events,      \* the streams of this round still to be read
    clock,       \* time since the start
    phase,       \* where the caller is
    failure      \* why collection failed, and in the end the outcome

group == <<alive, holders, stubborn, doomed, code, written>>
caller == <<reaped, collected, registered, events, phase, failure>>
vars == <<group, caller, clock>>

Init ==
    /\ alive = {"leader"}
    /\ holders = [s \in Streams |-> {"leader"}]
    /\ stubborn \in SUBSET {"leader"}
    /\ doomed = {}
    /\ code = "none"
    /\ reaped = FALSE
    /\ written = [s \in Streams |-> 0]
    /\ collected = [s \in Streams |-> 0]
    /\ registered = Streams
    /\ events = {}
    /\ clock = 0
    /\ phase = "select"
    /\ failure = "none"

Unread(s) == written[s] - collected[s]
AtEof(s) == Unread(s) = 0 /\ holders[s] = {}
Ready == {s \in registered : Unread(s) > 0 \/ AtEof(s)}
Expired == clock >= TimeoutTicks

-----------------------------------------------------------------------------
\* The command and what it forks, as unruly as they like.
Write(p, s) ==
    /\ p \in alive \intersect holders[s]
    /\ Unread(s) < PipeBytes
    /\ written[s] < MaxWritten
    /\ written' = [written EXCEPT ![s] = @ + 1]
    /\ UNCHANGED <<alive, holders, stubborn, doomed, code, caller, clock>>

CloseStream(p, s) ==
    /\ p \in alive \intersect holders[s]
    /\ holders' = [holders EXCEPT ![s] = @ \ {p}]
    /\ UNCHANGED <<alive, stubborn, doomed, code, written, caller, clock>>

Fork(ignores) ==
    /\ "leader" \in alive
    /\ "leader" \notin doomed
    /\ "forked" \notin alive
    /\ alive' = alive \union {"forked"}
    /\ holders' = [s \in Streams |->
                     IF "leader" \in holders[s] THEN holders[s] \union {"forked"}
                                                ELSE holders[s]]
    /\ stubborn' = IF ignores THEN stubborn \union {"forked"} ELSE stubborn \ {"forked"}
    /\ UNCHANGED <<doomed, code, written, caller, clock>>

\* A process ends, of itself or by a signal, and its pipes close with it.
End(p, how) ==
    /\ p \in alive
    /\ p \in doomed => how = "killed"
    /\ p \notin doomed => how # "killed"
    /\ alive' = alive \ {p}
    /\ doomed' = doomed \ {p}
    /\ holders' = [s \in Streams |-> holders[s] \ {p}]
    /\ code' = IF p = "leader" THEN how ELSE code
    /\ UNCHANGED <<stubborn, written, caller, clock>>

Tick ==
    /\ ~Expired
    /\ clock' = clock + 1
    /\ UNCHANGED <<group, caller>>

-----------------------------------------------------------------------------
Abort(why) ==
    /\ phase' = "terminate"
    /\ failure' = why
    /\ events' = {}
    /\ UNCHANGED <<reaped, collected, registered>>

\* A slip: select waits for events without a timeout.
TimeOutWhenReady ==
    /\ phase = "select"
    /\ Ready # {}
    /\ Expired
    /\ Abort("timeout")
    /\ UNCHANGED <<group, clock>>

\* The deadline is looked at before each select, and select waits no longer.
TimeOut ==
    /\ phase = "select"
    /\ registered # {}
    /\ Expired
    /\ Abort("timeout")
    /\ UNCHANGED <<group, clock>>

Select ==
    /\ phase = "select"
    /\ ~Expired
    /\ Ready # {}
    /\ events' = Ready
    /\ phase' = "read"
    /\ UNCHANGED <<group, reaped, collected, registered, failure, clock>>

Smallest(S) == CHOOSE x \in S : \A y \in S : x <= y

\* A slip: at the limit the empty read looks like the end of the stream.
ReadSizeToLimit(s) == Smallest({ChunkBytes, OutputLimit - collected[s], Unread(s)})
\* One byte more than the limit leaves room to see it exceeded.
ReadSize(s) == Smallest({ChunkBytes, OutputLimit - collected[s] + 1, Unread(s)})

Read(s) ==
    /\ phase = "read"
    /\ s \in events
    /\ ReadSize(s) > 0
    /\ collected' = [collected EXCEPT ![s] = @ + ReadSize(s)]
    /\ IF collected'[s] > OutputLimit
       THEN /\ phase' = "terminate"
            /\ failure' = "limit"
            /\ events' = {}
       ELSE /\ events' = events \ {s}
            /\ phase' = IF events' = {} THEN "select" ELSE "read"
            /\ UNCHANGED failure
    /\ UNCHANGED <<group, reaped, registered, clock>>

\* An empty chunk is the end of the stream.
ReadEof(s) ==
    /\ phase = "read"
    /\ s \in events
    /\ ReadSize(s) = 0
    /\ registered' = registered \ {s}
    /\ events' = events \ {s}
    /\ phase' = IF events' = {} THEN "select" ELSE "read"
    /\ UNCHANGED <<group, reaped, collected, failure, clock>>

\* Both streams ended: what time is left goes to waiting for the leader.
AwaitExit ==
    /\ phase = "select"
    /\ registered = {}
    /\ IF Expired
       THEN Abort("timeout")
       ELSE /\ phase' = "wait"
            /\ UNCHANGED <<reaped, collected, registered, events, failure>>
    /\ UNCHANGED <<group, clock>>

Collected ==
    /\ phase = "wait"
    /\ "leader" \notin alive
    /\ reaped' = TRUE
    /\ phase' = "returned"
    /\ failure' = IF code = "success" THEN "none" ELSE "exit"
    /\ UNCHANGED <<group, collected, registered, events, clock>>

TimeOutWaiting ==
    /\ phase = "wait"
    /\ "leader" \in alive
    /\ Expired
    /\ Abort("timeout")
    /\ UNCHANGED <<group, clock>>

\* A KeyboardInterrupt, or select and read failing.
Interrupt ==
    /\ phase \in {"select", "read", "wait"}
    /\ Abort("interrupted")
    /\ UNCHANGED <<group, clock>>

-----------------------------------------------------------------------------
\* terminate_process.
Terminate ==
    /\ phase = "terminate"
    /\ doomed' = doomed \union (alive \ stubborn)
    /\ phase' = "poll"
    /\ UNCHANGED <<alive, holders, stubborn, code, written, clock>>
    /\ UNCHANGED <<reaped, collected, registered, events, failure>>

\* The leader gets its grace, if it has not ended already.
PollLeader ==
    /\ phase = "poll"
    /\ phase' = IF "leader" \in alive THEN "grace" ELSE "kill"
    /\ reaped' = ("leader" \notin alive)
    /\ UNCHANGED <<group, collected, registered, events, failure, clock>>

\* The wait ends with the leader, or after PROCESS_TERMINATE_GRACE_SECONDS.
GraceEnds ==
    /\ phase = "grace"
    /\ reaped' = ("leader" \notin alive)
    /\ phase' = "kill"
    /\ UNCHANGED <<group, collected, registered, events, failure, clock>>

\* A slip: the group is killed only when the leader outlived its grace.
KillLeaderOnly ==
    /\ phase = "kill"
    /\ doomed' = IF reaped THEN doomed ELSE alive
    /\ phase' = "reap"
    /\ UNCHANGED <<alive, holders, stubborn, code, written, clock>>
    /\ UNCHANGED <<reaped, collected, registered, events, failure>>

\* Whatever became of the leader, the rest of its group is killed.
KillGroup ==
    /\ phase = "kill"
    /\ doomed' = alive
    /\ phase' = "reap"
    /\ UNCHANGED <<alive, holders, stubborn, code, written, clock>>
    /\ UNCHANGED <<reaped, collected, registered, events, failure>>

Reap ==
    /\ phase = "reap"
    /\ "leader" \notin alive
    /\ reaped' = TRUE
    /\ phase' = "returned"
    /\ UNCHANGED <<group, collected, registered, events, failure, clock>>

\* The leader did not end within five seconds of SIGKILL.
GiveUp ==
    /\ phase = "reap"
    /\ "leader" \in alive
    /\ phase' = "returned"
    /\ failure' = "cleanup"
    /\ UNCHANGED <<group, reaped, collected, registered, events, clock>>

\* A signal cannot be sent, or an interrupt hits the clean-up itself.
FailCleanup ==
    /\ phase \in {"terminate", "poll", "grace", "kill", "reap"}
    /\ phase' = "returned"
    /\ failure' = "cleanup"
    /\ UNCHANGED <<group, reaped, collected, registered, events, clock>>

-----------------------------------------------------------------------------
Command ==
    \/ \E p \in Processes, s \in Streams : Write(p, s) \/ CloseStream(p, s)
    \/ \E ignores \in BOOLEAN : Fork(ignores)
    \/ \E p \in Processes, how \in {"success", "error", "killed"} : End(p, how)

Collect ==
    \/ TimeOut \/ Select \/ AwaitExit \/ Collected \/ TimeOutWaiting
    \/ \E s \in Streams : Read(s) \/ ReadEof(s)

CleanUp == Terminate \/ PollLeader \/ GraceEnds \/ KillGroup \/ Reap \/ GiveUp

Next == Command \/ Tick \/ Collect \/ CleanUp \/ Interrupt \/ FailCleanup

\* Time passes and the caller runs; the command owes nobody anything.
Spec ==
    /\ Init
    /\ [][Next]_vars
    /\ WF_vars(Tick)
    /\ WF_vars(Collect)
    /\ WF_vars(CleanUp)

-----------------------------------------------------------------------------

\* A capture that succeeds returns every byte anyone wrote to either stream,
\* nobody is left who could write more, and the leader, waited for, succeeded.
OutputIsComplete ==
    phase = "returned" /\ failure = "none" =>
        /\ code = "success" /\ reaped
        /\ \A s \in Streams :
             /\ holders[s] = {}
             /\ collected[s] = written[s]
             /\ collected[s] <= OutputLimit

\* When collection fails (deadline, limit or interrupt) and its clean-up does
\* not, every process of the group has ended or has a SIGKILL on its way, even
\* one forked during the grace, one that ignores SIGTERM, and one that outlived
\* the leader; and the leader is no zombie.  A command that exits non-zero fails
\* the call without a signal to anyone: what it forked may run on, but only
\* with both pipes closed, and the leader has been waited for.
GroupIsEnded ==
    /\ phase = "returned" /\ failure \in {"timeout", "limit", "interrupted"} =>
         alive = doomed /\ reaped
    /\ phase = "returned" /\ failure = "exit" =>
         "leader" \notin alive /\ reaped /\ \A s \in Streams : holders[s] = {}

\* The stated reason is the true one: no output within its limit is refused
\* for its size, nothing times out before the deadline, and a buffer holds at
\* most the one byte beyond its limit that shows it exceeded.
ReasonIsTrue ==
    /\ \A s \in Streams : collected[s] <= OutputLimit + 1
    /\ failure = "limit" => \E s \in Streams : written[s] > OutputLimit
    /\ failure = "timeout" => Expired

\* What a call reports is so: the output of one that succeeds is whole, and
\* the reason of one that fails is the true one (collect_process_output).
ResultIsTrue == OutputIsComplete /\ ReasonIsTrue

\* A call always returns: whether the command writes for ever or never, closes
\* its pipes and keeps running, or leaves them open in a process it forked.
AlwaysReturns == <>(phase = "returned")
=============================================================================
