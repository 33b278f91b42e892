--------------------------- MODULE DeliveryOrder -----------------------------
(***************************************************************************)
(* What a fault schedule means: the deliveries of a trace prefix in order, *)
(* edited by the planned actions one after the other, in the order of the  *)
(* plan and only once the plan is complete.  A dropped delivery            *)
(* disappears, the copies of a duplicated one follow it directly, a moved  *)
(* one stands directly before its anchor, and no other delivery changes    *)
(* its place relative to the rest.                                         *)
(***************************************************************************)
EXTENDS SequencesExt, Integers

CONSTANTS MaxPrefix,      \* bound: envelopes before the schedule record
          MaxOccurrence   \* u16::MAX

VARIABLES order,   \* the deliveries, each <<source, occurrence>>
          todo,    \* planned actions not executed yet
          started  \* the plan is complete

vars == <<order, todo, started>>

Delivery == (0..MaxPrefix) \X (0..MaxOccurrence)

Action == [kind : {"drop"}, target : Delivery]
            \cup [kind : {"duplicate"}, target : Delivery,
                  first : 1..MaxOccurrence, copies : 1..MaxOccurrence]
            \cup [kind : {"move"}, target : Delivery, anchor : Delivery]

Originals(n) == [i \in 1..n |-> <<i - 1, 0>>]

Place(s, d) == CHOOSE i \in DOMAIN s : s[i] = d

Copies(a) == [i \in 1..a.copies |-> <<a.target[1], a.first + i - 1>>]

Dropped(t) == RemoveAt(order, Place(order, t))

Duplicated(a) ==
  LET p == Place(order, a.target)
  IN  SubSeq(order, 1, p) \o Copies(a) \o SubSeq(order, p + 1, Len(order))

Moved(t, anchor) == InsertAt(Dropped(t), Place(Dropped(t), anchor), t)

Effect(a) == CASE a.kind = "drop"      -> Dropped(a.target)
               [] a.kind = "duplicate" -> Duplicated(a)
               [] a.kind = "move"      -> Moved(a.target, a.anchor)

Init == /\ order \in {Originals(n) : n \in 0..MaxPrefix}
        /\ todo = <<>>
        /\ started = FALSE

Plan == /\ ~started
        /\ \E a \in Action : todo' = Append(todo, a)
        /\ UNCHANGED <<order, started>>

Start == ~started /\ started' = TRUE /\ UNCHANGED <<order, todo>>

Execute == /\ started
           /\ todo # <<>>
           /\ Head(todo).target \in Range(order)
           /\ order' = Effect(Head(todo))
           /\ todo' = Tail(todo)
           /\ UNCHANGED started

Next == Plan \/ Start \/ Execute

Spec == Init /\ [][Next]_vars
=============================================================================
