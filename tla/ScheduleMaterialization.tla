----------------------- MODULE ScheduleMaterialization -----------------------
(***************************************************************************)
(* One fault schedule from its record to its deliveries.  First            *)
(* TraceValidator::plan_schedule of src/trace.rs resolves every action     *)
(* against the occurrences that exist at that point of the plan.  Later,   *)
(* after the trace is sealed, materialize_schedule of src/scenario.rs      *)
(* executes the plan on a linked list whose nodes are never freed, and     *)
(* treats every reference it cannot resolve as a broken invariant.         *)
(***************************************************************************)
EXTENDS Integers, Sequences, FiniteSets

CONSTANTS MaxPrefix,       \* bound: envelopes before the schedule record
          MaxOccurrence,   \* u16::MAX
          MaxFaultActions, \* max_fault_actions
          MaxCopies,       \* max_duplicate_copies
          MaxOccurrences,  \* max_occurrences_per_schedule
          WorkLeft         \* max_schedule_work_per_trace less the work so far

ASSUME ScheduleAssumption ==
  {MaxPrefix, MaxOccurrence, MaxFaultActions, MaxCopies, MaxOccurrences, WorkLeft}
    \subseteq Nat

None == 0   \* Option::None of a node index; nodes are numbered from 1

VARIABLES phase,           \* "planning", "building", "done", "rejected", "broken"
          prefix,          \* source envelopes before the schedule
          nextOccurrence,  \* first occurrence of a source not created yet
          removed,         \* deliveries an earlier action dropped
          allocated,       \* occurrences planned; also the work of the schedule
          plan,            \* planned actions
          executed,        \* how many of them the arena has executed
          arena,           \* [nodes, head, tail]
          deliveries       \* the materialized schedule

vars == <<phase, prefix, nextOccurrence, removed, allocated, plan, executed, arena,
          deliveries>>

Source == 0..(MaxPrefix - 1)

(* A reference of the record: MaxPrefix is an envelope not published yet. *)
Delivery == (0..MaxPrefix) \X (0..MaxOccurrence)

EmptyArena == [nodes |-> <<>>, head |-> None, tail |-> None]

Init == /\ phase = "planning"
        /\ prefix \in 0..MaxPrefix
        /\ nextOccurrence = [s \in Source |-> 1]
        /\ removed = {}
        /\ allocated = prefix
        /\ plan = <<>>
        /\ executed = 0
        /\ arena = EmptyArena
        /\ deliveries = <<>>
-----------------------------------------------------------------------------
(* Planning: plan_schedule and the checks of validate_schedule before it.  *)

(* resolve_delivery *)
Resolves(d) == /\ d[1] < prefix
               /\ d[2] < nextOccurrence[d[1]]
               /\ d \notin removed

Planning == /\ phase = "planning"
            /\ prefix <= MaxOccurrences
            /\ Len(plan) < MaxFaultActions

Plans(a) == /\ plan' = Append(plan, a)
            /\ UNCHANGED <<phase, prefix, executed, arena, deliveries>>

(* Slip: the dropped delivery is not recorded. *)
PlanDropUnrecorded(t) == /\ Planning
                         /\ Resolves(t)
                         /\ Plans([kind |-> "drop", target |-> t])
                         /\ UNCHANGED <<nextOccurrence, removed, allocated>>

PlanDrop(t) == /\ Planning
               /\ Resolves(t)
               /\ removed' = removed \cup {t}
               /\ Plans([kind |-> "drop", target |-> t])
               /\ UNCHANGED <<nextOccurrence, allocated>>

Affordable(t, n) == /\ nextOccurrence[t[1]] + n <= MaxOccurrence + 1
                    /\ allocated + n <= MaxOccurrences
                    /\ allocated + n <= WorkLeft

PlanDuplicate(t, n) ==
  /\ Planning
  /\ Resolves(t)
  /\ Affordable(t, n)
  /\ nextOccurrence' = [nextOccurrence EXCEPT ![t[1]] = @ + n]
  /\ allocated' = allocated + n
  /\ Plans([kind |-> "duplicate", target |-> t, first |-> nextOccurrence[t[1]],
            copies |-> n])
  /\ UNCHANGED removed

PlanMove(t, a) == /\ Planning
                  /\ t # a
                  /\ Resolves(t)
                  /\ Resolves(a)
                  /\ Plans([kind |-> "move", target |-> t, anchor |-> a])
                  /\ UNCHANGED <<nextOccurrence, removed, allocated>>

(* The checks of the whole schedule: on its prefix, and on the work it     *)
(* adds to the trace.                                                      *)
Acceptable == prefix <= MaxOccurrences /\ allocated <= WorkLeft

(* A schedule beyond a ceiling, or an action that does not resolve or      *)
(* cannot be afforded, fails the trace.                                    *)
Reject ==
  /\ phase = "planning"
  /\ ~(Acceptable /\ \A t \in Delivery, n \in 1..MaxCopies :
                        Resolves(t) /\ Affordable(t, n))
  /\ phase' = "rejected"
  /\ UNCHANGED <<prefix, nextOccurrence, removed, allocated, plan, executed, arena,
                 deliveries>>
-----------------------------------------------------------------------------
(* The arena: a doubly linked list over an append-only vector of nodes.    *)

(* DeliveryArena::new: one original per source of the prefix. *)
NewArena(n) ==
  [nodes |-> [i \in 1..n |-> [key |-> <<i - 1, 0>>, prev |-> i - 1,
                              next |-> IF i = n THEN None ELSE i + 1, live |-> TRUE]],
   head |-> IF n = 0 THEN None ELSE 1,
   tail |-> n]

Nodes(l) == DOMAIN l.nodes

(* resolve_live: the index of a live delivery, None when there is none. *)
LiveIndex(l, d) ==
  LET found == {i \in Nodes(l) : l.nodes[i].key = d /\ l.nodes[i].live}
  IN  IF found = {} THEN None ELSE CHOOSE i \in found : TRUE

Unlink(l, i) ==
  LET p == l.nodes[i].prev
      n == l.nodes[i].next
  IN  [nodes |-> [j \in Nodes(l) |->
                    [l.nodes[j] EXCEPT
                       !.prev = IF j = i THEN None ELSE IF j = n THEN p ELSE @,
                       !.next = IF j = i THEN None ELSE IF j = p THEN n ELSE @]],
       head |-> IF p = None THEN n ELSE l.head,
       tail |-> IF n = None THEN p ELSE l.tail]

(* Slip: the node after the copy still points back past it. *)
InsertAfterOneWay(l, i, d) ==
  LET new == Len(l.nodes) + 1
      n == l.nodes[i].next
  IN  [nodes |-> Append([l.nodes EXCEPT ![i].next = new],
                        [key |-> d, prev |-> i, next |-> n, live |-> TRUE]),
       head |-> l.head,
       tail |-> IF n = None THEN new ELSE l.tail]

(* Slip: a copy goes to the end of the list. *)
InsertAtTail(l, i, d) ==
  LET new == Len(l.nodes) + 1
  IN  [nodes |-> Append([l.nodes EXCEPT ![l.tail].next = new],
                        [key |-> d, prev |-> l.tail, next |-> None, live |-> TRUE]),
       head |-> l.head,
       tail |-> new]

InsertAfter(l, i, d) ==
  LET new == Len(l.nodes) + 1
      n == l.nodes[i].next
  IN  [nodes |-> Append([j \in Nodes(l) |->
                           [l.nodes[j] EXCEPT
                              !.next = IF j = i THEN new ELSE @,
                              !.prev = IF j = n THEN new ELSE @]],
                        [key |-> d, prev |-> i, next |-> n, live |-> TRUE]),
       head |-> l.head,
       tail |-> IF n = None THEN new ELSE l.tail]

(* A node linked to nothing goes before a. *)
LinkBefore(l, t, a) ==
  LET p == l.nodes[a].prev
  IN  [nodes |-> [j \in Nodes(l) |->
                    [l.nodes[j] EXCEPT
                       !.prev = IF j = t THEN p ELSE IF j = a THEN t ELSE @,
                       !.next = IF j = t THEN a ELSE IF j = p THEN t ELSE @]],
       head |-> IF p = None THEN t ELSE l.head,
       tail |-> l.tail]

MoveBefore(l, t, a) ==
  IF l.nodes[t].next = a THEN l ELSE LinkBefore(Unlink(l, t), t, a)
-----------------------------------------------------------------------------
(* Building: materialize_schedule.                                         *)

Build == /\ phase = "planning"
         /\ Acceptable
         /\ phase' = IF allocated <= MaxOccurrences THEN "building" ELSE "broken"
         /\ arena' = NewArena(prefix)
         /\ UNCHANGED <<prefix, nextOccurrence, removed, allocated, plan, executed,
                        deliveries>>

Executes(kind) == /\ phase = "building"
                  /\ executed < Len(plan)
                  /\ plan[executed + 1].kind = kind

Target == LiveIndex(arena, plan[executed + 1].target)

Anchor == LiveIndex(arena, plan[executed + 1].anchor)

(* The arena after the action, or MaterializationInvariant. *)
Execute(broken, edited) ==
  /\ IF broken THEN phase' = "broken" /\ UNCHANGED <<executed, arena>>
               ELSE executed' = executed + 1 /\ arena' = edited /\ UNCHANGED phase
  /\ UNCHANGED <<prefix, nextOccurrence, removed, allocated, plan, deliveries>>

ExecuteDrop ==
  /\ Executes("drop")
  /\ Execute(Target = None,
             [Unlink(arena, Target) EXCEPT !.nodes[Target].live = FALSE])

CopyKey(a, n) == <<a.target[1], a.first + n - 1>>

(* Each copy goes after the one before it, the first after the target. *)
WithCopies(l, i, a) ==
  LET copied[n \in 0..a.copies] ==
        IF n = 0 THEN l
        ELSE InsertAfter(copied[n - 1],
                         IF n = 1 THEN i ELSE Len(copied[n - 1].nodes), CopyKey(a, n))
  IN  copied[a.copies]

ExecuteDuplicate ==
  LET a == plan[executed + 1]
      taken == \E n \in 1..a.copies, i \in Nodes(arena) :
                 arena.nodes[i].key = CopyKey(a, n)
  IN  /\ Executes("duplicate")
      /\ Execute(Target = None \/ taken, WithCopies(arena, Target, a))

ExecuteMove ==
  /\ Executes("move")
  /\ Execute(Target = None \/ Anchor = None \/ Target = Anchor,
             MoveBefore(arena, Target, Anchor))

(* The nodes reached from the head, one hop at a time; None once past the  *)
(* tail.                                                                   *)
Reached(l) == LET at[n \in Nat] == IF n = 0 THEN l.head
                                   ELSE IF at[n - 1] = None THEN None
                                   ELSE l.nodes[at[n - 1]].next
              IN  [n \in 0..Len(l.nodes) |-> at[n]]

Visited(l) == Cardinality({n \in DOMAIN Reached(l) : Reached(l)[n] # None})

Live(l) == {i \in Nodes(l) : l.nodes[i].live}

(* Not a walk of more hops than there are nodes, no dead node on the way,  *)
(* no live node left out.                                                  *)
Walkable(l) ==
  /\ Visited(l) = Cardinality(Live(l))
  /\ \A n \in DOMAIN Reached(l) : Reached(l)[n] # None => Reached(l)[n] \in Live(l)

Walk(l) == [n \in 1..Visited(l) |-> l.nodes[Reached(l)[n - 1]].key]

Materialize == /\ phase = "building"
               /\ executed = Len(plan)
               /\ IF Walkable(arena)
                  THEN deliveries' = Walk(arena) /\ phase' = "done"
                  ELSE phase' = "broken" /\ UNCHANGED deliveries
               /\ UNCHANGED <<prefix, nextOccurrence, removed, allocated, plan,
                              executed, arena>>

PlanAction == \/ \E t \in Delivery : PlanDrop(t)
              \/ \E t \in Delivery, n \in 1..MaxCopies : PlanDuplicate(t, n)
              \/ \E t, a \in Delivery : PlanMove(t, a)

Next == \/ PlanAction
        \/ Reject
        \/ Build
        \/ ExecuteDrop
        \/ ExecuteDuplicate
        \/ ExecuteMove
        \/ Materialize

Spec == Init /\ [][Next]_vars
-----------------------------------------------------------------------------
TypeOK ==
  /\ phase \in {"planning", "building", "done", "rejected", "broken"}
  /\ prefix \in 0..MaxPrefix
  /\ nextOccurrence \in [Source -> 1..(MaxOccurrence + 1)]
  /\ removed \in SUBSET Delivery
  /\ allocated \in 0..(MaxPrefix + MaxOccurrences)
  /\ Len(plan) <= MaxFaultActions
  /\ executed \in 0..Len(plan)
  /\ \A i \in Nodes(arena) : /\ arena.nodes[i].key \in Delivery
                             /\ arena.nodes[i].prev \in 0..Len(arena.nodes)
                             /\ arena.nodes[i].next \in 0..Len(arena.nodes)
                             /\ arena.nodes[i].live \in BOOLEAN
  /\ arena.head \in 0..Len(arena.nodes) /\ arena.tail \in 0..Len(arena.nodes)

(* The links of the live nodes mirror each other, the head and the tail    *)
(* have no neighbour outside, and a dropped node is linked to nothing.     *)
LinksMirror ==
  /\ \A i \in Nodes(arena) :
       LET x == arena.nodes[i]
       IN  IF ~x.live THEN x.prev = None /\ x.next = None
           ELSE /\ IF x.next = None THEN arena.tail = i
                   ELSE arena.nodes[x.next].prev = i /\ arena.nodes[x.next].live
                /\ IF x.prev = None THEN arena.head = i
                   ELSE arena.nodes[x.prev].next = i /\ arena.nodes[x.prev].live
  /\ arena.head = None <=> Live(arena) = {}
  /\ arena.tail = None <=> Live(arena) = {}

(* The materialized schedule delivers each occurrence that was planned and *)
(* not dropped exactly once.                                               *)
DeliversPlanned ==
  phase = "done" =>
    LET created == {d \in Delivery : d[1] < prefix /\ d[2] < nextOccurrence[d[1]]}
    IN  /\ {deliveries[i] : i \in DOMAIN deliveries} = created \ removed
        /\ Len(deliveries) = Cardinality(created \ removed)

(* The node vector, reserved once for the planned occurrences, never grows *)
(* beyond them, nor the plan beyond max_occurrences_per_schedule.          *)
WithinAllocation == /\ Len(arena.nodes) <= allocated
                    /\ phase \in {"building", "done"} => allocated <= MaxOccurrences

(* A plan the validator accepts never meets a broken invariant of the      *)
(* arena: what resolves while planning is live when it is executed, its    *)
(* copies are new, and the links and the planner's accounts are sound at   *)
(* every step, whatever drops, duplicates and moves came in whatever order. *)
PlansNeverBreak == phase # "broken" /\ TypeOK /\ WithinAllocation /\ LinksMirror

(* The arena implements the edit of a sequence: the order of its list is   *)
(* the order the plan's actions define, executed one after the other.      *)
Order == INSTANCE DeliveryOrder WITH
           order <- IF phase \in {"planning", "rejected"}
                    THEN [i \in 1..prefix |-> <<i - 1, 0>>] ELSE Walk(arena),
           todo <- SubSeq(plan, executed + 1, Len(plan)),
           started <- phase \notin {"planning", "rejected"}
OrderSpec == Order!Spec
=============================================================================
