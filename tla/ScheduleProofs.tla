---------------------------- MODULE ScheduleProofs ----------------------------
(***************************************************************************)
(* Proofs about ScheduleMaterialization and ScheduleExecution, for every   *)
(* prefix, plan and limit.                                                 *)
(*                                                                         *)
(* The links of the arena are the neighbourhoods of one sequence, the list *)
(* of its live nodes (Linked).  Each operation of the arena is an edit of  *)
(* this sequence, whatever the operations before it were; the occurrences  *)
(* in the arena are those the executed part of the plan has created.       *)
(***************************************************************************)
EXTENDS ScheduleExecution, FiniteSetTheorems, SequenceTheorems, WellFoundedInduction,
        NaturalsInduction, TLAPS

Node == [key : Delivery, prev : Nat, next : Nat, live : BOOLEAN]

Arena == [nodes : Seq(Node), head : Nat, tail : Nat]

(* The links of l are those of the list s of n nodes; other nodes are      *)
(* linked to nothing.                                                      *)
Linked(l, s, n) ==
  /\ n \in Nat
  /\ s \in [1..n -> Nodes(l)]
  /\ \A i, j \in 1..n : s[i] = s[j] => i = j
  /\ l.head = IF n = 0 THEN None ELSE s[1]
  /\ l.tail = IF n = 0 THEN None ELSE s[n]
  /\ \A k \in 1..n : /\ l.nodes[s[k]].prev = IF k = 1 THEN None ELSE s[k - 1]
                     /\ l.nodes[s[k]].next = IF k = n THEN None ELSE s[k + 1]
  /\ \A i \in Nodes(l) : (\A k \in 1..n : s[k] # i) =>
                           l.nodes[i].prev = None /\ l.nodes[i].next = None

(* The lists without the node at place p, and with x put there.            *)
Less(s, n, p) == [k \in 1..(n - 1) |-> IF k < p THEN s[k] ELSE s[k + 1]]

More(s, n, p, x) ==
  [k \in 1..(n + 1) |-> IF k < p THEN s[k] ELSE IF k = p THEN x ELSE s[k - 1]]

(* l and m have the same nodes, but for their links.                       *)
SameNodes(l, m) ==
  /\ Len(m.nodes) = Len(l.nodes)
  /\ Nodes(m) = Nodes(l)
  /\ \A i \in Nodes(l) : /\ m.nodes[i].key = l.nodes[i].key
                         /\ m.nodes[i].live = l.nodes[i].live
-----------------------------------------------------------------------------
LEMMA NodesAre ==
  ASSUME NEW l \in Arena
  PROVE  /\ Len(l.nodes) \in Nat
         /\ Nodes(l) = 1..Len(l.nodes)
         /\ \A i \in Nodes(l) : l.nodes[i] \in Node
         /\ None \notin Nodes(l)
BY DEF Arena, Nodes, None

LEMMA LinksAre ==
  ASSUME NEW l \in Arena, NEW i \in Nodes(l)
  PROVE  /\ i \in Nat /\ i # None /\ i <= Len(l.nodes)
         /\ l.nodes[i].prev \in Nat /\ l.nodes[i].next \in Nat
         /\ l.head \in Nat /\ l.tail \in Nat /\ None \in Nat
<1>1. l.nodes[i] \in Node /\ i \in 1..Len(l.nodes) /\ Len(l.nodes) \in Nat
  BY NodesAre
<1> QED BY <1>1 DEF Node, Arena, None

LEMMA SequenceOfNodes ==
  ASSUME NEW m \in Nat, NEW f \in [1..m -> Node]
  PROVE  f \in Seq(Node) /\ Len(f) = m /\ DOMAIN f = 1..m
OBVIOUS

(* Unlinking takes one node out of the list.                               *)
LEMMA UnlinkKeeps ==
  ASSUME NEW l \in Arena, NEW i \in Nodes(l)
  PROVE  Unlink(l, i) \in Arena /\ SameNodes(l, Unlink(l, i))
<1> DEFINE p == l.nodes[i].prev
           n == l.nodes[i].next
           f == [j \in Nodes(l) |->
                    [l.nodes[j] EXCEPT
                       !.prev = IF j = i THEN None ELSE IF j = n THEN p ELSE @,
                       !.next = IF j = i THEN None ELSE IF j = p THEN n ELSE @]]
<1>1. p \in Nat /\ n \in Nat /\ None \in Nat /\ l.head \in Nat /\ l.tail \in Nat
  BY NodesAre DEF Node, Arena, None
<1>2. ASSUME NEW j \in Nodes(l)
      PROVE  f[j] \in Node /\ f[j].key = l.nodes[j].key /\ f[j].live = l.nodes[j].live
  <2>1. l.nodes[j] \in Node
    BY NodesAre
  <2>2. f[j] = [l.nodes[j] EXCEPT
                  !.prev = IF j = i THEN None ELSE IF j = n THEN p ELSE @,
                  !.next = IF j = i THEN None ELSE IF j = p THEN n ELSE @]
    OBVIOUS
  <2> HIDE DEF f, p, n
  <2> QED BY <1>1, <2>1, <2>2 DEF Node
<1>3. f \in [1..Len(l.nodes) -> Node]
  <2>1. f = [j \in Nodes(l) |-> f[j]]
    OBVIOUS
  <2> HIDE DEF f
  <2> QED BY <1>2, <2>1, NodesAre
<1> HIDE DEF p, n, f
<1>4. f \in Seq(Node) /\ Len(f) = Len(l.nodes) /\ DOMAIN f = Nodes(l)
  BY <1>3, NodesAre, SequenceOfNodes
<1>5. Unlink(l, i) = [nodes |-> f, head |-> IF p = None THEN n ELSE l.head,
                      tail |-> IF n = None THEN p ELSE l.tail]
  BY DEF Unlink, f, p, n
<1> QED BY <1>1, <1>2, <1>4, <1>5 DEF Arena, SameNodes, Nodes

LEMMA UnlinkTakesOut ==
  ASSUME NEW l \in Arena, NEW s, NEW n, Linked(l, s, n), NEW p \in 1..n
  PROVE  Linked(Unlink(l, s[p]), Less(s, n, p), n - 1)
<1> DEFINE u == Unlink(l, s[p])
           r == Less(s, n, p)
           before == IF p = 1 THEN None ELSE s[p - 1]
           after == IF p = n THEN None ELSE s[p + 1]
<1>1. /\ n \in Nat /\ s \in [1..n -> Nodes(l)] /\ s[p] \in Nodes(l) /\ None \notin Nodes(l)
      /\ \A i, j \in 1..n : s[i] = s[j] => i = j
  BY NodesAre DEF Linked
<1>2. l.nodes[s[p]].prev = before /\ l.nodes[s[p]].next = after
  BY DEF Linked
<1>3. \A j \in Nodes(l) :
        /\ u.nodes[j].prev = IF j = s[p] THEN None
                             ELSE IF j = after THEN before ELSE l.nodes[j].prev
        /\ u.nodes[j].next = IF j = s[p] THEN None
                             ELSE IF j = before THEN after ELSE l.nodes[j].next
  BY <1>1, <1>2, NodesAre DEF Unlink, Node
<1>4. /\ u.head = IF before = None THEN after ELSE l.head
      /\ u.tail = IF after = None THEN before ELSE l.tail
      /\ Nodes(u) = Nodes(l)
  <2>1. Nodes(u) = Nodes(l)
    BY <1>1, UnlinkKeeps DEF SameNodes
  <2> QED BY <1>2, <2>1 DEF Unlink
<1>5. /\ n - 1 \in Nat
      /\ r \in [1..(n - 1) -> Nodes(l)]
      /\ \A k \in 1..(n - 1) : r[k] = IF k < p THEN s[k] ELSE s[k + 1]
  BY <1>1 DEF Less
<1> HIDE DEF u, r
<1>6. \A i, j \in 1..(n - 1) : r[i] = r[j] => i = j
  BY <1>1, <1>5
<1>7. /\ u.head = IF n - 1 = 0 THEN None ELSE r[1]
      /\ u.tail = IF n - 1 = 0 THEN None ELSE r[n - 1]
  <2>1. /\ l.head = s[1] /\ l.tail = s[n]
    BY DEF Linked
  <2> QED BY <1>1, <1>4, <1>5, <2>1
<1>8. ASSUME NEW k \in 1..(n - 1)
      PROVE  /\ u.nodes[r[k]].prev = IF k = 1 THEN None ELSE r[k - 1]
             /\ u.nodes[r[k]].next = IF k = n - 1 THEN None ELSE r[k + 1]
  <2> DEFINE m == IF k < p THEN k ELSE k + 1
  <2>1. m \in 1..n /\ m # p /\ r[k] = s[m]
    BY <1>1, <1>5
  <2>2. /\ l.nodes[s[m]].prev = IF m = 1 THEN None ELSE s[m - 1]
        /\ l.nodes[s[m]].next = IF m = n THEN None ELSE s[m + 1]
    BY <2>1 DEF Linked
  <2>3. s[m] # s[p] /\ (s[m] = after <=> m = p + 1) /\ (s[m] = before <=> m = p - 1)
    BY <1>1, <2>1
  <2>4. /\ u.nodes[r[k]].prev = IF m = p + 1 THEN before ELSE l.nodes[s[m]].prev
        /\ u.nodes[r[k]].next = IF m = p - 1 THEN after ELSE l.nodes[s[m]].next
    BY <1>1, <1>3, <2>1, <2>3
  <2>5. u.nodes[r[k]].prev = IF k = 1 THEN None ELSE r[k - 1]
    <3>1. k # 1 => k - 1 \in 1..(n - 1)
      BY <1>1
    <3>2. k # 1 => r[k - 1] = IF k - 1 < p THEN s[k - 1] ELSE s[k]
      BY <1>1, <1>5, <3>1
    <3>3. CASE k < p
      BY <1>1, <2>2, <2>4, <3>2, <3>3
    <3>4. CASE k = p
      BY <1>1, <2>2, <2>4, <3>2, <3>4
    <3>5. CASE k > p
      BY <1>1, <2>2, <2>4, <3>2, <3>5
    <3> QED BY <1>1, <3>3, <3>4, <3>5
  <2>6. u.nodes[r[k]].next = IF k = n - 1 THEN None ELSE r[k + 1]
    BY <1>1, <1>5, <2>2, <2>4
  <2> QED BY <2>5, <2>6
<1>9. ASSUME NEW i \in Nodes(u), \A k \in 1..(n - 1) : r[k] # i
      PROVE  u.nodes[i].prev = None /\ u.nodes[i].next = None
  <2>1. CASE i = s[p]
    BY <1>3, <1>4, <2>1
  <2>2. CASE i # s[p]
    <3>1. \A k \in 1..n : s[k] # i
      <4> SUFFICES ASSUME NEW k \in 1..n, s[k] = i PROVE FALSE
        OBVIOUS
      <4>1. CASE k < p
        BY <1>1, <1>5, <1>9, <4>1
      <4>2. CASE k > p
        <5>1. k - 1 \in 1..(n - 1) /\ ~(k - 1 < p) /\ k - 1 + 1 = k
          BY <1>1, <4>2
        <5> QED BY <1>5, <1>9, <5>1
      <4> QED BY <1>1, <2>2, <4>1, <4>2
    <3>2. l.nodes[i].prev = None /\ l.nodes[i].next = None
      BY <1>4, <3>1 DEF Linked
    <3>3. i # after /\ i # before
      BY <1>1, <1>4, <3>1
    <3> QED BY <1>3, <1>4, <2>2, <3>2, <3>3
  <2> QED BY <2>1, <2>2
<1> QED BY <1>4, <1>5, <1>6, <1>7, <1>8, <1>9 DEF Linked, u, r

(* A node linked to nothing, put before place q.                           *)
LEMMA LinkKeeps ==
  ASSUME NEW l \in Arena, NEW t \in Nodes(l), NEW a \in Nodes(l)
  PROVE  LET u == LinkBefore(l, t, a)
             p == l.nodes[a].prev
         IN  /\ u \in Arena /\ SameNodes(l, u)
             /\ u.head = IF p = None THEN t ELSE l.head
             /\ u.tail = l.tail
             /\ \A j \in Nodes(l) :
                  /\ u.nodes[j].prev = IF j = t THEN p
                                       ELSE IF j = a THEN t ELSE l.nodes[j].prev
                  /\ u.nodes[j].next = IF j = t THEN a
                                       ELSE IF j = p THEN t ELSE l.nodes[j].next
<1> DEFINE p == l.nodes[a].prev
           f == [j \in Nodes(l) |->
                    [l.nodes[j] EXCEPT
                       !.prev = IF j = t THEN p ELSE IF j = a THEN t ELSE @,
                       !.next = IF j = t THEN a ELSE IF j = p THEN t ELSE @]]
<1>1. p \in Nat /\ t \in Nat /\ a \in Nat /\ l.head \in Nat /\ l.tail \in Nat
  BY LinksAre
<1>2. ASSUME NEW j \in Nodes(l)
      PROVE  /\ f[j] \in Node /\ f[j].key = l.nodes[j].key /\ f[j].live = l.nodes[j].live
             /\ f[j].prev = IF j = t THEN p ELSE IF j = a THEN t ELSE l.nodes[j].prev
             /\ f[j].next = IF j = t THEN a ELSE IF j = p THEN t ELSE l.nodes[j].next
  <2>1. l.nodes[j] \in Node
    BY NodesAre
  <2>2. f[j] = [l.nodes[j] EXCEPT
                  !.prev = IF j = t THEN p ELSE IF j = a THEN t ELSE @,
                  !.next = IF j = t THEN a ELSE IF j = p THEN t ELSE @]
    OBVIOUS
  <2> HIDE DEF f, p
  <2> QED BY <1>1, <2>1, <2>2 DEF Node
<1>3. f \in [1..Len(l.nodes) -> Node]
  <2>1. f = [j \in Nodes(l) |-> f[j]]
    OBVIOUS
  <2> HIDE DEF f
  <2> QED BY <1>2, <2>1, NodesAre
<1> HIDE DEF p, f
<1>4. f \in Seq(Node) /\ Len(f) = Len(l.nodes) /\ DOMAIN f = Nodes(l)
  BY <1>3, NodesAre, SequenceOfNodes
<1>5. LinkBefore(l, t, a) = [nodes |-> f, head |-> IF p = None THEN t ELSE l.head,
                             tail |-> l.tail]
  BY DEF LinkBefore, f, p
<1>6. /\ LinkBefore(l, t, a).nodes = f
      /\ LinkBefore(l, t, a).head = IF p = None THEN t ELSE l.head
      /\ LinkBefore(l, t, a).tail = l.tail
      /\ LinkBefore(l, t, a) \in Arena
  BY <1>1, <1>4, <1>5 DEF Arena
<1>7. SameNodes(l, LinkBefore(l, t, a))
  BY <1>2, <1>4, <1>6 DEF SameNodes, Nodes
<1> QED BY <1>2, <1>6, <1>7 DEF p

LEMMA LinkPutsBefore ==
  ASSUME NEW l \in Arena, NEW s, NEW n, Linked(l, s, n), NEW q \in 1..n,
         NEW t \in Nodes(l), \A k \in 1..n : s[k] # t
  PROVE  Linked(LinkBefore(l, t, s[q]), More(s, n, q, t), n + 1)
<1> DEFINE u == LinkBefore(l, t, s[q])
           r == More(s, n, q, t)
           before == IF q = 1 THEN None ELSE s[q - 1]
<1>1. /\ n \in Nat /\ s \in [1..n -> Nodes(l)] /\ s[q] \in Nodes(l) /\ None \notin Nodes(l)
      /\ \A i, j \in 1..n : s[i] = s[j] => i = j
  BY NodesAre DEF Linked
<1>2. l.nodes[s[q]].prev = before
  BY DEF Linked
<1>3. \A j \in Nodes(l) :
        /\ u.nodes[j].prev = IF j = t THEN before
                             ELSE IF j = s[q] THEN t ELSE l.nodes[j].prev
        /\ u.nodes[j].next = IF j = t THEN s[q]
                             ELSE IF j = before THEN t ELSE l.nodes[j].next
  BY <1>1, <1>2, LinkKeeps
<1>4. /\ u.head = IF before = None THEN t ELSE l.head
      /\ u.tail = l.tail
      /\ Nodes(u) = Nodes(l)
  <2>1. SameNodes(l, u)
    BY <1>1, LinkKeeps
  <2>2. Nodes(u) = Nodes(l)
    BY <2>1 DEF SameNodes
  <2>3. /\ u.head = IF before = None THEN t ELSE l.head
        /\ u.tail = l.tail
    BY <1>2 DEF LinkBefore
  <2> QED BY <2>2, <2>3
<1>5. /\ n + 1 \in Nat
      /\ r \in [1..(n + 1) -> Nodes(l)]
      /\ \A k \in 1..(n + 1) : r[k] = IF k < q THEN s[k] ELSE IF k = q THEN t ELSE s[k - 1]
  BY <1>1 DEF More
<1> HIDE DEF u, r
<1>6. \A i, j \in 1..(n + 1) : r[i] = r[j] => i = j
  <2> SUFFICES ASSUME NEW i \in 1..(n + 1), NEW j \in 1..(n + 1), r[i] = r[j], i < j
               PROVE  FALSE
    BY <1>1
  <2>1. CASE i = q \/ j = q
    BY <1>1, <1>5, <2>1
  <2>2. CASE i # q /\ j # q
    BY <1>1, <1>5, <2>2
  <2> QED BY <2>1, <2>2
<1>7. u.head = r[1] /\ u.tail = r[n + 1]
  <2>1. l.head = s[1] /\ l.tail = s[n]
    BY DEF Linked
  <2> QED BY <1>1, <1>4, <1>5, <2>1
<1>8. ASSUME NEW k \in 1..(n + 1)
      PROVE  /\ u.nodes[r[k]].prev = IF k = 1 THEN None ELSE r[k - 1]
             /\ u.nodes[r[k]].next = IF k = n + 1 THEN None ELSE r[k + 1]
  <2>1. CASE k = q
    BY <1>1, <1>3, <1>5, <2>1
  <2>2. CASE k # q
    <3> DEFINE m == IF k < q THEN k ELSE k - 1
    <3>1. m \in 1..n /\ r[k] = s[m] /\ s[m] # t
      BY <1>1, <1>5, <2>2
    <3>2. /\ l.nodes[s[m]].prev = IF m = 1 THEN None ELSE s[m - 1]
          /\ l.nodes[s[m]].next = IF m = n THEN None ELSE s[m + 1]
      BY <3>1 DEF Linked
    <3>3. (s[m] = s[q] <=> m = q) /\ (s[m] = before <=> m = q - 1)
      BY <1>1, <3>1
    <3>4. /\ u.nodes[r[k]].prev = IF m = q THEN t ELSE l.nodes[s[m]].prev
          /\ u.nodes[r[k]].next = IF m = q - 1 THEN t ELSE l.nodes[s[m]].next
      BY <1>1, <1>3, <3>1, <3>3
    <3>5. u.nodes[r[k]].prev = IF k = 1 THEN None ELSE r[k - 1]
      <4>1. k # 1 => k - 1 \in 1..(n + 1)
        BY <1>1
      <4>2. k # 1 => r[k - 1] = IF k <= q THEN s[k - 1]
                                ELSE IF k = q + 1 THEN t ELSE s[k - 2]
        BY <1>1, <1>5, <4>1
      <4>3. CASE k < q
        BY <1>1, <3>2, <3>4, <4>2, <4>3
      <4>4. CASE k = q + 1
        BY <1>1, <3>4, <4>2, <4>4
      <4>5. CASE k > q + 1
        BY <1>1, <3>2, <3>4, <4>2, <4>5
      <4>6. k < q \/ k = q + 1 \/ k > q + 1
        BY <1>1, <2>2
      <4> QED BY <4>3, <4>4, <4>5, <4>6
    <3>6. u.nodes[r[k]].next = IF k = n + 1 THEN None ELSE r[k + 1]
      BY <1>1, <1>5, <2>2, <3>2, <3>4
    <3> QED BY <3>5, <3>6
  <2> QED BY <2>1, <2>2
<1>9. ASSUME NEW i \in Nodes(u), \A k \in 1..(n + 1) : r[k] # i
      PROVE  u.nodes[i].prev = None /\ u.nodes[i].next = None
  <2>1. i # t
    BY <1>1, <1>5, <1>9
  <2>2. \A k \in 1..n : s[k] # i
    <3> SUFFICES ASSUME NEW k \in 1..n, s[k] = i PROVE FALSE
      OBVIOUS
    <3>1. CASE k < q
      BY <1>1, <1>5, <1>9, <3>1
    <3>2. CASE k >= q
      <4>1. k + 1 \in 1..(n + 1) /\ ~(k + 1 < q) /\ k + 1 # q /\ (k + 1) - 1 = k
        BY <1>1, <3>2
      <4> QED BY <1>5, <1>9, <4>1
    <3> QED BY <1>1, <3>1, <3>2
  <2>3. l.nodes[i].prev = None /\ l.nodes[i].next = None
    BY <1>4, <2>2 DEF Linked
  <2>4. i # s[q] /\ i # before
    BY <1>1, <1>4, <2>2
  <2> QED BY <1>3, <1>4, <2>1, <2>3, <2>4
<1> QED BY <1>1, <1>4, <1>5, <1>6, <1>7, <1>8, <1>9 DEF Linked, u, r
-----------------------------------------------------------------------------
(* A new node, put after place p.                                          *)
NewNode(l, m, d) ==
  /\ m \in Arena
  /\ Len(m.nodes) = Len(l.nodes) + 1
  /\ Nodes(m) = Nodes(l) \cup {Len(l.nodes) + 1}
  /\ \A i \in Nodes(l) : /\ m.nodes[i].key = l.nodes[i].key
                         /\ m.nodes[i].live = l.nodes[i].live
  /\ m.nodes[Len(l.nodes) + 1].key = d
  /\ m.nodes[Len(l.nodes) + 1].live

LEMMA InsertAdds ==
  ASSUME NEW l \in Arena, NEW i \in Nodes(l), NEW d \in Delivery
  PROVE  LET m == InsertAfter(l, i, d)
             n == l.nodes[i].next
             new == Len(l.nodes) + 1
         IN  /\ NewNode(l, m, d)
             /\ m.head = l.head
             /\ m.tail = IF n = None THEN new ELSE l.tail
             /\ m.nodes[new].prev = i
             /\ m.nodes[new].next = n
             /\ \A j \in Nodes(l) :
                  /\ m.nodes[j].prev = IF j = n THEN new ELSE l.nodes[j].prev
                  /\ m.nodes[j].next = IF j = i THEN new ELSE l.nodes[j].next
<1> DEFINE m == InsertAfter(l, i, d)
           n == l.nodes[i].next
           new == Len(l.nodes) + 1
           f == [j \in Nodes(l) |->
                  [l.nodes[j] EXCEPT !.next = IF j = i THEN new ELSE @,
                                     !.prev = IF j = n THEN new ELSE @]]
           x == [key |-> d, prev |-> i, next |-> n, live |-> TRUE]
           g == Append(f, x)
<1>1. n \in Nat /\ i \in Nat /\ new \in Nat /\ l.head \in Nat /\ l.tail \in Nat
      /\ Len(l.nodes) \in Nat
  BY LinksAre, NodesAre
<1>2. ASSUME NEW j \in Nodes(l)
      PROVE  /\ f[j] \in Node /\ f[j].key = l.nodes[j].key /\ f[j].live = l.nodes[j].live
             /\ f[j].prev = IF j = n THEN new ELSE l.nodes[j].prev
             /\ f[j].next = IF j = i THEN new ELSE l.nodes[j].next
  <2>1. l.nodes[j] \in Node
    BY NodesAre
  <2>2. f[j] = [l.nodes[j] EXCEPT !.next = IF j = i THEN new ELSE @,
                                  !.prev = IF j = n THEN new ELSE @]
    OBVIOUS
  <2> HIDE DEF f, n, new
  <2> QED BY <1>1, <2>1, <2>2 DEF Node
<1>3. x \in Node /\ x.key = d /\ x.prev = i /\ x.next = n /\ x.live
  BY <1>1 DEF Node
<1>4. f \in [1..Len(l.nodes) -> Node]
  <2>1. f = [j \in Nodes(l) |-> f[j]]
    OBVIOUS
  <2> HIDE DEF f
  <2> QED BY <1>2, <2>1, NodesAre
<1>5. InsertAfter(l, i, d) = [nodes |-> g, head |-> l.head,
                              tail |-> IF n = None THEN new ELSE l.tail]
  BY DEF InsertAfter
<1> HIDE DEF n, f, x
<1>6. f \in Seq(Node) /\ Len(f) = Len(l.nodes)
  BY <1>1, <1>4, SequenceOfNodes
<1>7. /\ g \in Seq(Node) /\ Len(g) = new /\ g[new] = x
      /\ \A j \in 1..Len(l.nodes) : g[j] = f[j]
  BY <1>3, <1>6
<1> HIDE DEF g
<1>8. DOMAIN g = Nodes(l) \cup {new}
  <2>1. DOMAIN g = 1..new
    BY <1>7
  <2> QED BY <1>1, <2>1, NodesAre
<1>9. \A j \in Nodes(l) : g[j] = f[j]
  BY <1>7, NodesAre
<1>10. m.nodes = g /\ m.head = l.head /\ m.tail = (IF n = None THEN new ELSE l.tail)
       /\ m \in Arena
  BY <1>1, <1>5, <1>7 DEF Arena
<1> HIDE DEF m
<1>11. NewNode(l, m, d)
  BY <1>2, <1>3, <1>7, <1>8, <1>9, <1>10 DEF NewNode, Nodes
<1>12. /\ m.nodes[new].prev = i /\ m.nodes[new].next = n
       /\ \A j \in Nodes(l) : /\ m.nodes[j].prev = IF j = n THEN new ELSE l.nodes[j].prev
                              /\ m.nodes[j].next = IF j = i THEN new ELSE l.nodes[j].next
  BY <1>2, <1>3, <1>7, <1>9, <1>10
<1> QED BY <1>10, <1>11, <1>12 DEF n, m

LEMMA InsertPutsAfter ==
  ASSUME NEW l \in Arena, NEW s, NEW n, Linked(l, s, n), NEW p \in 1..n,
         NEW d \in Delivery
  PROVE  Linked(InsertAfter(l, s[p], d), More(s, n, p + 1, Len(l.nodes) + 1), n + 1)
<1> DEFINE u == InsertAfter(l, s[p], d)
           new == Len(l.nodes) + 1
           r == More(s, n, p + 1, new)
           after == IF p = n THEN None ELSE s[p + 1]
<1>1. /\ n \in Nat /\ s \in [1..n -> Nodes(l)] /\ s[p] \in Nodes(l) /\ None \notin Nodes(l)
      /\ \A i, j \in 1..n : s[i] = s[j] => i = j
      /\ Len(l.nodes) \in Nat /\ Nodes(l) = 1..Len(l.nodes)
  BY NodesAre DEF Linked
<1>2. l.nodes[s[p]].next = after
  BY DEF Linked
<1>3. /\ Nodes(u) = Nodes(l) \cup {new}
      /\ u.head = l.head
      /\ u.tail = IF after = None THEN new ELSE l.tail
      /\ u.nodes[new].prev = s[p] /\ u.nodes[new].next = after
      /\ \A j \in Nodes(l) :
           /\ u.nodes[j].prev = IF j = after THEN new ELSE l.nodes[j].prev
           /\ u.nodes[j].next = IF j = s[p] THEN new ELSE l.nodes[j].next
  <2>1. NewNode(l, u, d)
    BY <1>1, InsertAdds
  <2>2. Nodes(u) = Nodes(l) \cup {new}
    BY <2>1 DEF NewNode
  <2>3. /\ u.head = l.head
        /\ u.tail = IF l.nodes[s[p]].next = None THEN new ELSE l.tail
        /\ u.nodes[new].prev = s[p] /\ u.nodes[new].next = l.nodes[s[p]].next
    BY <1>1, InsertAdds
  <2>4. \A i \in Nodes(l) : \A j \in Nodes(l) :
          LET v == InsertAfter(l, i, d)
          IN  /\ v.nodes[j].prev = IF j = l.nodes[i].next THEN new ELSE l.nodes[j].prev
              /\ v.nodes[j].next = IF j = i THEN new ELSE l.nodes[j].next
    BY InsertAdds
  <2>5. \A j \in Nodes(l) :
          /\ u.nodes[j].prev = IF j = l.nodes[s[p]].next THEN new ELSE l.nodes[j].prev
          /\ u.nodes[j].next = IF j = s[p] THEN new ELSE l.nodes[j].next
    BY <1>1, <2>4
  <2> HIDE DEF u, new, after
  <2> QED BY <1>2, <2>2, <2>3, <2>5
<1>4. new \in Nat /\ new \notin Nodes(l) /\ new # None
  BY <1>1 DEF None
<1>5. /\ n + 1 \in Nat
      /\ r \in [1..(n + 1) -> Nodes(u)]
      /\ \A k \in 1..(n + 1) : r[k] = IF k <= p THEN s[k] ELSE IF k = p + 1 THEN new ELSE s[k - 1]
  <2>1. \A k \in 1..(n + 1) : r[k] = IF k <= p THEN s[k] ELSE IF k = p + 1 THEN new ELSE s[k - 1]
    BY <1>1 DEF More
  <2>2. \A k \in 1..(n + 1) : r[k] \in Nodes(u)
    BY <1>1, <1>3, <2>1
  <2>3. r = [k \in 1..(n + 1) |-> r[k]]
    BY DEF More
  <2> HIDE DEF r
  <2> QED BY <1>1, <2>1, <2>2, <2>3
<1> HIDE DEF u, r, new
<1>6. \A i, j \in 1..(n + 1) : r[i] = r[j] => i = j
  <2> SUFFICES ASSUME NEW i \in 1..(n + 1), NEW j \in 1..(n + 1), r[i] = r[j], i < j
               PROVE  FALSE
    BY <1>1
  <2>1. CASE i = p + 1 \/ j = p + 1
    BY <1>1, <1>4, <1>5, <2>1
  <2>2. CASE i # p + 1 /\ j # p + 1
    BY <1>1, <1>5, <2>2
  <2> QED BY <2>1, <2>2
<1>7. u.head = r[1] /\ u.tail = r[n + 1]
  <2>1. l.head = s[1] /\ l.tail = s[n]
    BY DEF Linked
  <2> QED BY <1>1, <1>3, <1>5, <2>1
<1>8. ASSUME NEW k \in 1..(n + 1)
      PROVE  /\ u.nodes[r[k]].prev = IF k = 1 THEN None ELSE r[k - 1]
             /\ u.nodes[r[k]].next = IF k = n + 1 THEN None ELSE r[k + 1]
  <2>1. CASE k = p + 1
    BY <1>1, <1>3, <1>5, <2>1
  <2>2. CASE k # p + 1
    <3> DEFINE m == IF k <= p THEN k ELSE k - 1
    <3>1. m \in 1..n /\ r[k] = s[m] /\ s[m] \in Nodes(l)
      BY <1>1, <1>5, <2>2
    <3>2. /\ l.nodes[s[m]].prev = IF m = 1 THEN None ELSE s[m - 1]
          /\ l.nodes[s[m]].next = IF m = n THEN None ELSE s[m + 1]
      BY <3>1 DEF Linked
    <3>3. (s[m] = s[p] <=> m = p) /\ (s[m] = after <=> m = p + 1)
      <4> HIDE DEF m
      <4>1. s[m] = s[p] <=> m = p
        BY <1>1, <3>1
      <4>2. p = n => after = None /\ m # p + 1
        BY <1>1, <3>1
      <4>3. p # n => p + 1 \in 1..n /\ after = s[p + 1]
        BY <1>1
      <4> QED BY <1>1, <3>1, <4>1, <4>2, <4>3
    <3>4. /\ u.nodes[r[k]].prev = IF m = p + 1 THEN new ELSE l.nodes[s[m]].prev
          /\ u.nodes[r[k]].next = IF m = p THEN new ELSE l.nodes[s[m]].next
      <4> HIDE DEF m, after
      <4>1. /\ u.nodes[s[m]].prev = IF s[m] = after THEN new ELSE l.nodes[s[m]].prev
            /\ u.nodes[s[m]].next = IF s[m] = s[p] THEN new ELSE l.nodes[s[m]].next
        BY <1>3, <3>1
      <4> QED BY <3>1, <3>3, <4>1
    <3>5. u.nodes[r[k]].prev = IF k = 1 THEN None ELSE r[k - 1]
      <4>1. k # 1 => k - 1 \in 1..(n + 1)
        BY <1>1
      <4>2. k # 1 => r[k - 1] = IF k <= p + 1 THEN s[k - 1]
                                ELSE IF k = p + 2 THEN new ELSE s[k - 2]
        BY <1>1, <1>5, <4>1
      <4>3. CASE k <= p
        BY <1>1, <3>2, <3>4, <4>2, <4>3
      <4>4. CASE k = p + 2
        BY <1>1, <3>4, <4>2, <4>4
      <4>5. CASE k > p + 2
        BY <1>1, <3>2, <3>4, <4>2, <4>5
      <4>6. k <= p \/ k = p + 2 \/ k > p + 2
        BY <1>1, <2>2
      <4> QED BY <4>3, <4>4, <4>5, <4>6
    <3>6. u.nodes[r[k]].next = IF k = n + 1 THEN None ELSE r[k + 1]
      BY <1>1, <1>5, <2>2, <3>2, <3>4
    <3> QED BY <3>5, <3>6
  <2> QED BY <2>1, <2>2
<1>9. ASSUME NEW i \in Nodes(u), \A k \in 1..(n + 1) : r[k] # i
      PROVE  u.nodes[i].prev = None /\ u.nodes[i].next = None
  <2>1. i # new
    <3>1. p + 1 \in 1..(n + 1) /\ ~(p + 1 <= p)
      BY <1>1
    <3> QED BY <1>5, <1>9, <3>1
  <2>2. \A k \in 1..n : s[k] # i
    <3> SUFFICES ASSUME NEW k \in 1..n, s[k] = i PROVE FALSE
      OBVIOUS
    <3>1. CASE k <= p
      BY <1>1, <1>5, <1>9, <3>1
    <3>2. CASE k > p
      <4>1. k + 1 \in 1..(n + 1) /\ ~(k + 1 <= p) /\ k + 1 # p + 1 /\ (k + 1) - 1 = k
        BY <1>1, <3>2
      <4> QED BY <1>5, <1>9, <4>1
    <3> QED BY <1>1, <3>1, <3>2
  <2>3. i \in Nodes(l) /\ l.nodes[i].prev = None /\ l.nodes[i].next = None
    BY <1>3, <2>1, <2>2 DEF Linked
  <2>4. i # s[p] /\ i # after
    <3>1. p = n \/ p + 1 \in 1..n
      BY <1>1
    <3> QED BY <1>1, <2>2, <2>3, <3>1
  <2> QED BY <1>3, <2>3, <2>4
<1>10. n + 1 # 0
  BY <1>1
<1>11. Linked(u, r, n + 1)
  BY <1>5, <1>6, <1>7, <1>8, <1>9, <1>10 DEF Linked
<1> QED BY <1>11 DEF u, r, new

-----------------------------------------------------------------------------
(* The list with the node at place p moved before the one at place q.      *)
Shifted(s, n, p, q) == More(Less(s, n, p), n - 1, IF q < p THEN q ELSE q - 1, s[p])

LEMMA MoveShifts ==
  ASSUME NEW l \in Arena, NEW s, NEW n, Linked(l, s, n),
         NEW p \in 1..n, NEW q \in 1..n, p # q
  PROVE  /\ MoveBefore(l, s[p], s[q]) \in Arena
         /\ SameNodes(l, MoveBefore(l, s[p], s[q]))
         /\ Linked(MoveBefore(l, s[p], s[q]), Shifted(s, n, p, q), n)
<1> DEFINE q2 == IF q < p THEN q ELSE q - 1
           r == Less(s, n, p)
<1>1. /\ n \in Nat /\ s \in [1..n -> Nodes(l)]
      /\ s[p] \in Nodes(l) /\ s[q] \in Nodes(l) /\ None \notin Nodes(l)
      /\ \A i, j \in 1..n : s[i] = s[j] => i = j
      /\ l.nodes[s[p]].next = IF p = n THEN None ELSE s[p + 1]
  BY NodesAre DEF Linked
<1>2. /\ q2 \in 1..(n - 1)
      /\ r \in [1..(n - 1) -> Nodes(l)]
      /\ \A k \in 1..(n - 1) : r[k] = IF k < p THEN s[k] ELSE s[k + 1]
  BY <1>1 DEF Less
<1>3. r[q2] = s[q] /\ \A k \in 1..(n - 1) : r[k] # s[p]
  BY <1>1, <1>2
<1>4. CASE q = p + 1
  <2>1. MoveBefore(l, s[p], s[q]) = l
    BY <1>1, <1>4 DEF MoveBefore
  <2>2. Shifted(s, n, p, q) = [k \in 1..((n - 1) + 1) |-> IF k < p THEN r[k]
                                                          ELSE IF k = p THEN s[p]
                                                          ELSE r[k - 1]]
    BY <1>1, <1>4 DEF Shifted, More
  <2>3. Shifted(s, n, p, q) = [k \in 1..n |-> s[k]]
    <3>1. (n - 1) + 1 = n
      BY <1>1
    <3>2. \A k \in 1..n : s[k] = IF k < p THEN r[k] ELSE IF k = p THEN s[p] ELSE r[k - 1]
      <4> SUFFICES ASSUME NEW k \in 1..n
                   PROVE  s[k] = IF k < p THEN r[k] ELSE IF k = p THEN s[p] ELSE r[k - 1]
        OBVIOUS
      <4>1. CASE k < p
        BY <1>1, <1>2, <4>1
      <4>2. CASE k > p
        <5>1. k - 1 \in 1..(n - 1) /\ ~(k - 1 < p) /\ (k - 1) + 1 = k
          BY <1>1, <4>2
        <5> QED BY <1>1, <1>2, <4>2, <5>1
      <4> QED BY <1>1, <4>1, <4>2
    <3> HIDE DEF r
    <3> QED BY <2>2, <3>1, <3>2
  <2>4. Shifted(s, n, p, q) = s
    BY <1>1, <2>3
  <2>5. SameNodes(l, l)
    BY DEF SameNodes
  <2> QED BY <2>1, <2>4, <2>5
<1>5. CASE q # p + 1
  <2> DEFINE u == Unlink(l, s[p])
             m == LinkBefore(u, s[p], s[q])
  <2>1. MoveBefore(l, s[p], s[q]) = m
    BY <1>1, <1>5 DEF MoveBefore
  <2>2. u \in Arena /\ SameNodes(l, u) /\ Linked(u, r, n - 1)
    BY <1>1, UnlinkKeeps, UnlinkTakesOut
  <2>3. s[p] \in Nodes(u) /\ s[q] \in Nodes(u)
    BY <1>1, <2>2 DEF SameNodes
  <2> HIDE DEF u
  <2>4. m \in Arena /\ SameNodes(u, m)
    BY <2>2, <2>3, LinkKeeps
  <2>5. Linked(m, More(r, n - 1, q2, s[p]), (n - 1) + 1)
    BY <1>2, <1>3, <2>2, <2>3, LinkPutsBefore
  <2>6. (n - 1) + 1 = n
    BY <1>1
  <2>7. SameNodes(l, m)
    BY <2>2, <2>4 DEF SameNodes
  <2> QED BY <2>1, <2>4, <2>5, <2>6, <2>7 DEF Shifted
<1> QED BY <1>4, <1>5
-----------------------------------------------------------------------------
(* A set of naturals has a least one.                                      *)
LEMMA LeastNat ==
  ASSUME NEW T \in SUBSET Nat, T # {}
  PROVE  \E n \in T : \A m \in T : n <= m
<1>1. PICK n \in T : \A m \in T : ~(<<m, n>> \in OpToRel(<, Nat))
  BY NatLessThanWellFounded, WFMin
<1>2. \A m \in T : ~(m < n)
  BY <1>1 DEF OpToRel
<1> QED BY <1>2

(* The walk from the head visits the list and nothing else.                *)
LEMMA WalkReaches ==
  ASSUME NEW l \in Arena, NEW s, NEW n, Linked(l, s, n)
  PROVE  Reached(l) = [k \in 0..Len(l.nodes) |-> IF k < n THEN s[k + 1] ELSE None]
<1> DEFINE at[k \in Nat] == IF k = 0 THEN l.head
                            ELSE IF at[k - 1] = None THEN None
                            ELSE l.nodes[at[k - 1]].next
           g == [k \in Nat |-> IF k < n THEN s[k + 1] ELSE None]
<1>1. /\ n \in Nat /\ s \in [1..n -> Nodes(l)] /\ None \notin Nodes(l)
      /\ l.head = IF n = 0 THEN None ELSE s[1]
      /\ \A k \in 1..n : l.nodes[s[k]].next = IF k = n THEN None ELSE s[k + 1]
  BY NodesAre DEF Linked
<1>2. \A k \in Nat : g[k] = IF k = 0 THEN l.head
                            ELSE IF g[k - 1] = None THEN None
                            ELSE l.nodes[g[k - 1]].next
  <2> SUFFICES ASSUME NEW k \in Nat
               PROVE  g[k] = IF k = 0 THEN l.head
                             ELSE IF g[k - 1] = None THEN None
                             ELSE l.nodes[g[k - 1]].next
    OBVIOUS
  <2>1. CASE k = 0
    BY <1>1, <2>1
  <2>2. CASE k \in 1..n
    <3>1. g[k - 1] = s[k] /\ s[k] # None
      BY <1>1, <2>2
    <3>2. g[k] = IF k = n THEN None ELSE s[k + 1]
      BY <1>1, <2>2
    <3> QED BY <1>1, <2>2, <3>1, <3>2
  <2>3. CASE k > n
    <3>1. k # 0 /\ g[k - 1] = None /\ g[k] = None
      BY <1>1, <2>3
    <3> QED BY <3>1
  <2> QED BY <1>1, <2>1, <2>2, <2>3
<1>3. g = [k \in Nat |-> IF k = 0 THEN l.head
                         ELSE IF g[k - 1] = None THEN None
                         ELSE l.nodes[g[k - 1]].next]
  <2> HIDE DEF g
  <2>1. g = [k \in Nat |-> g[k]]
    BY DEF g
  <2> QED BY <1>2, <2>1, Zenon
<1>4. at = [k \in Nat |-> IF k = 0 THEN l.head
                          ELSE IF at[k - 1] = None THEN None
                          ELSE l.nodes[at[k - 1]].next]
  BY <1>3, Zenon DEF at
<1> HIDE DEF at, g
<1>5. \A k \in Nat : at[k] = g[k]
  <2> DEFINE T == {k \in Nat : at[k] # g[k]}
  <2> SUFFICES ASSUME T # {} PROVE FALSE
    OBVIOUS
  <2>1. PICK k \in T : \A m \in T : k <= m
    BY LeastNat
  <2>2. CASE k = 0
    BY <1>2, <1>4, <2>2
  <2>3. CASE k # 0
    <3>1. k - 1 \in Nat /\ k \in Nat
      BY <2>3
    <3>2. k - 1 \notin T
      BY <2>1, <3>1
    <3>3. at[k - 1] = g[k - 1]
      BY <3>1, <3>2
    <3> QED BY <1>2, <1>4, <2>3, <3>1, <3>3
  <2> QED BY <2>2, <2>3
<1>6. Reached(l) = [k \in 0..Len(l.nodes) |-> at[k]]
  BY DEF Reached, at
<1>7. Len(l.nodes) \in Nat
  BY NodesAre
<1> QED BY <1>5, <1>6, <1>7 DEF g

LEMMA ListCounts ==
  ASSUME NEW S, NEW n \in Nat, NEW f \in [1..n -> S],
         \A i, j \in 1..n : f[i] = f[j] => i = j,
         \A x \in S : \E i \in 1..n : f[i] = x
  PROVE  IsFiniteSet(S) /\ Cardinality(S) = n
<1>1. f \in Bijection(1..n, S)
  BY DEF Bijection, Injection, Surjection, IsInjective
<1>2. IsFiniteSet(1..n) /\ Cardinality(1..n) = n
  BY FS_Interval
<1> QED BY <1>1, <1>2, FS_Bijection DEF ExistsBijection

(* The list is a list of the live nodes, all of them.                      *)
Listed(l, s, n) == Linked(l, s, n) /\ Live(l) = {s[k] : k \in 1..n}

Keys(l, s, n) == [k \in 1..n |-> l.nodes[s[k]].key]

LEMMA WalkIsList ==
  ASSUME NEW l \in Arena, NEW s, NEW n, Listed(l, s, n)
  PROVE  Walkable(l) /\ Walk(l) = Keys(l, s, n) /\ Cardinality(Live(l)) = n
<1>1. /\ n \in Nat /\ s \in [1..n -> Nodes(l)] /\ None \notin Nodes(l)
      /\ \A i, j \in 1..n : s[i] = s[j] => i = j
      /\ Len(l.nodes) \in Nat /\ Nodes(l) = 1..Len(l.nodes)
  BY NodesAre DEF Linked, Listed
<1>2. Reached(l) = [k \in 0..Len(l.nodes) |-> IF k < n THEN s[k + 1] ELSE None]
  BY WalkReaches DEF Listed
<1>3. n <= Len(l.nodes)
  <2>1. s \in Injection(1..n, Nodes(l))
    BY <1>1 DEF Injection, IsInjective
  <2>2. IsFiniteSet(Nodes(l)) /\ Cardinality(Nodes(l)) = Len(l.nodes)
    BY <1>1, FS_Interval
  <2>3. Cardinality(1..n) = n
    BY <1>1, FS_Interval
  <2> QED BY <2>1, <2>2, <2>3, FS_Injection
<1>4. Visited(l) = n
  <2>1. {k \in DOMAIN Reached(l) : Reached(l)[k] # None} = 0..(n - 1)
    <3>1. ASSUME NEW k \in 0..Len(l.nodes)
          PROVE  (IF k < n THEN s[k + 1] ELSE None) # None <=> k < n
      BY <1>1
    <3> QED BY <1>1, <1>2, <1>3, <3>1
  <2>2. Cardinality(0..(n - 1)) = n
    BY <1>1, FS_Interval
  <2> QED BY <2>1, <2>2 DEF Visited
<1>5. s \in [1..n -> Live(l)] /\ \A x \in Live(l) : \E i \in 1..n : s[i] = x
  BY <1>1 DEF Listed
<1>6. Cardinality(Live(l)) = n
  BY <1>1, <1>5, ListCounts
<1>7. \A k \in DOMAIN Reached(l) : Reached(l)[k] # None => Reached(l)[k] \in Live(l)
  <2> SUFFICES ASSUME NEW k \in 0..Len(l.nodes), k < n
               PROVE  s[k + 1] \in Live(l)
    BY <1>2
  <2> QED BY <1>1, <1>5
<1>8. Walk(l) = [k \in 1..n |-> l.nodes[s[k]].key]
  <2>1. ASSUME NEW k \in 1..n
        PROVE  Reached(l)[k - 1] = s[k]
    <3>1. k - 1 \in 0..Len(l.nodes) /\ k - 1 < n /\ (k - 1) + 1 = k
      BY <1>1, <1>3
    <3> QED BY <1>2, <3>1
  <2> QED BY <1>4, <2>1 DEF Walk
<1> QED BY <1>4, <1>6, <1>7, <1>8 DEF Walkable, Keys
-----------------------------------------------------------------------------
(* The arena holds the occurrences C, one node each, those of R dropped.   *)
Holds(l, C, R) ==
  /\ \A i, j \in Nodes(l) : l.nodes[i].key = l.nodes[j].key => i = j
  /\ {l.nodes[i].key : i \in Nodes(l)} = C
  /\ \A i \in Nodes(l) : l.nodes[i].live <=> l.nodes[i].key \notin R

LEMMA LiveIndexFinds ==
  ASSUME NEW l \in Arena, NEW C, NEW R, Holds(l, C, R), NEW d \in C \ R
  PROVE  /\ LiveIndex(l, d) \in Live(l)
         /\ LiveIndex(l, d) # None
         /\ l.nodes[LiveIndex(l, d)].key = d
<1> DEFINE found == {i \in Nodes(l) : l.nodes[i].key = d /\ l.nodes[i].live}
<1>1. PICK i \in Nodes(l) : l.nodes[i].key = d
  BY DEF Holds
<1>2. i \in found
  BY <1>1 DEF Holds
<1>3. LiveIndex(l, d) \in found
  BY <1>2 DEF LiveIndex
<1> QED BY <1>3, NodesAre DEF Live

(* In the order of the list, sources that no action of a targets stay in   *)
(* the order they were published in.                                       *)
Spared(a, source) == \A k \in 1..Len(a) : a[k].target[1] # source

InOrder(a, w, n) ==
  \A i, j \in 1..n : i < j /\ Spared(a, w[i][1]) /\ Spared(a, w[j][1]) =>
                       w[i][1] < w[j][1]

(* Dropping a delivery takes it out of the list.                           *)
Dropped(l, i) == [Unlink(l, i) EXCEPT !.nodes[i].live = FALSE]

Drops(l, C, R, d, s, n) ==
  \E p \in 1..n :
    LET m == Dropped(l, LiveIndex(l, d))
        r == Less(s, n, p)
    IN  /\ l.nodes[s[p]].key = d
        /\ m \in Arena
        /\ Holds(m, C, R \cup {d})
        /\ Listed(m, r, n - 1)
        /\ Keys(m, r, n - 1) = Less(Keys(l, s, n), n, p)

LEMMA DropEdits ==
  ASSUME NEW l \in Arena, NEW C, NEW R, Holds(l, C, R), NEW d \in C \ R,
         NEW s, NEW n, Listed(l, s, n)
  PROVE  Drops(l, C, R, d, s, n)
<1> DEFINE i == LiveIndex(l, d)
<1>1. i \in Live(l) /\ l.nodes[i].key = d /\ i \in Nodes(l)
  BY LiveIndexFinds DEF Live
<1>2. PICK p \in 1..n : s[p] = i
  BY <1>1 DEF Listed
<1> DEFINE u == Unlink(l, i)
           m == Dropped(l, i)
           r == Less(s, n, p)
<1>3. u \in Arena /\ SameNodes(l, u)
  BY <1>1, UnlinkKeeps
<1>4. Linked(u, r, n - 1)
  BY <1>2, UnlinkTakesOut DEF Listed
<1>5. Nodes(u) = Nodes(l) /\ \A j \in Nodes(l) : /\ u.nodes[j] \in Node
                                                 /\ u.nodes[j].key = l.nodes[j].key
                                                 /\ u.nodes[j].live = l.nodes[j].live
  BY <1>3, NodesAre DEF SameNodes
<1> HIDE DEF i, u
<1>6. m = [u EXCEPT !.nodes[i].live = FALSE]
  BY DEF u, m, Dropped
<1>7. /\ m.nodes = [u.nodes EXCEPT ![i].live = FALSE]
      /\ m.head = u.head /\ m.tail = u.tail
  BY <1>3, <1>6 DEF Arena
<1>8. /\ m \in Arena
      /\ Nodes(m) = Nodes(l)
      /\ \A j \in Nodes(l) : /\ m.nodes[j].key = l.nodes[j].key
                             /\ m.nodes[j].live <=> l.nodes[j].live /\ j # i
                             /\ m.nodes[j].prev = u.nodes[j].prev
                             /\ m.nodes[j].next = u.nodes[j].next
  <2> DEFINE f == [u.nodes EXCEPT ![i].live = FALSE]
  <2>1. \A j \in Nodes(l) : /\ f[j] \in Node /\ f[j].key = l.nodes[j].key
                            /\ f[j].live <=> l.nodes[j].live /\ j # i
                            /\ f[j].prev = u.nodes[j].prev
                            /\ f[j].next = u.nodes[j].next
    BY <1>1, <1>5 DEF Node, Nodes
  <2>2. DOMAIN f = Nodes(l)
    BY <1>5 DEF Nodes
  <2>3. f \in [1..Len(l.nodes) -> Node]
    <3>1. f = [j \in DOMAIN f |-> f[j]]
      OBVIOUS
    <3> HIDE DEF f
    <3> QED BY <2>1, <2>2, <3>1, NodesAre
  <2> HIDE DEF f
  <2>4. f \in Seq(Node)
    BY <2>3, NodesAre, SequenceOfNodes
  <2>5. u.head \in Nat /\ u.tail \in Nat
    BY <1>3 DEF Arena
  <2>6. m = [nodes |-> f, head |-> u.head, tail |-> u.tail]
    BY <1>3, <1>6 DEF Arena, f
  <2> QED BY <2>1, <2>2, <2>4, <2>5, <2>6 DEF Arena, Nodes
<1> HIDE DEF m
<1>9. Linked(m, r, n - 1)
  BY <1>4, <1>5, <1>7, <1>8 DEF Linked
<1>10. Holds(m, C, R \cup {d})
  <2>1. \A j \in Nodes(l) : l.nodes[j].key = d <=> j = i
    BY <1>1 DEF Holds, i
  <2> QED BY <1>8, <2>1 DEF Holds
<1>11. /\ n \in Nat /\ s \in [1..n -> Nodes(l)]
       /\ \A k, j \in 1..n : s[k] = s[j] => k = j
       /\ Live(l) = {s[k] : k \in 1..n}
  BY DEF Listed, Linked
<1>12. /\ Live(m) = {r[k] : k \in 1..(n - 1)}
       /\ Keys(m, r, n - 1) = Less(Keys(l, s, n), n, p)
  <2>1. \A k \in 1..(n - 1) : r[k] = IF k < p THEN s[k] ELSE s[k + 1]
    BY DEF Less
  <2>2. Live(m) = Live(l) \ {i}
    BY <1>8 DEF Live
  <2>3. ASSUME NEW k \in 1..(n - 1)
        PROVE  /\ r[k] \in Live(m)
               /\ m.nodes[r[k]].key = IF k < p THEN l.nodes[s[k]].key ELSE l.nodes[s[k + 1]].key
    <3> DEFINE j == IF k < p THEN k ELSE k + 1
    <3>1. j \in 1..n /\ j # p /\ r[k] = s[j]
      BY <1>11, <2>1
    <3>2. s[j] # i /\ s[j] \in Live(l) /\ s[j] \in Nodes(l)
      BY <1>2, <1>11, <3>1
    <3>3. m.nodes[s[j]].key = l.nodes[s[j]].key
      BY <1>8, <3>2
    <3> QED BY <2>2, <3>1, <3>2, <3>3
  <2>4. ASSUME NEW x \in Live(m)
        PROVE  \E k \in 1..(n - 1) : r[k] = x
    <3>1. PICK j \in 1..n : s[j] = x
      BY <1>11, <2>2
    <3>2. j # p
      BY <1>2, <2>2, <3>1
    <3>3. CASE j < p
      BY <1>11, <2>1, <3>1, <3>3
    <3>4. CASE j > p
      <4>1. j - 1 \in 1..(n - 1) /\ ~(j - 1 < p) /\ (j - 1) + 1 = j
        BY <1>11, <3>4
      <4> QED BY <2>1, <3>1, <4>1
    <3> QED BY <1>11, <3>2, <3>3, <3>4
  <2>5. \A k \in 1..n : Keys(l, s, n)[k] = l.nodes[s[k]].key
    BY DEF Keys
  <2>6. \A k \in 1..(n - 1) : m.nodes[r[k]].key = IF k < p THEN Keys(l, s, n)[k]
                                                 ELSE Keys(l, s, n)[k + 1]
    BY <1>11, <2>3, <2>5
  <2>7. Keys(m, r, n - 1) = Less(Keys(l, s, n), n, p)
    BY <2>6 DEF Keys, Less
  <2> QED BY <2>3, <2>4, <2>7
<1> QED BY <1>1, <1>2, <1>8, <1>9, <1>10, <1>12 DEF Drops, Listed, m, i


(* Moving a delivery moves it in the list.                                 *)
AfterShift(s, p, q, k) ==
  IF q < p THEN IF k < q THEN s[k] ELSE IF k = q THEN s[p]
                ELSE IF k <= p THEN s[k - 1] ELSE s[k]
  ELSE IF k < p THEN s[k] ELSE IF k < q - 1 THEN s[k + 1]
       ELSE IF k = q - 1 THEN s[p] ELSE s[k]

Entries(s, n) == {s[k] : k \in 1..n}

LEMMA ShiftedIs ==
  ASSUME NEW n \in Nat, NEW p \in 1..n, NEW q \in 1..n, p # q, NEW s,
         DOMAIN s = 1..n
  PROVE  \A k \in 1..n : Shifted(s, n, p, q)[k] = AfterShift(s, p, q, k)
<1> DEFINE q2 == IF q < p THEN q ELSE q - 1
           r == Less(s, n, p)
<1>1. \A k \in 1..(n - 1) : r[k] = IF k < p THEN s[k] ELSE s[k + 1]
  BY DEF Less
<1>2. \A k \in 1..n : Shifted(s, n, p, q)[k] = IF k < q2 THEN r[k] ELSE IF k = q2 THEN s[p]
                                               ELSE r[k - 1]
  <2>1. (n - 1) + 1 = n
    OBVIOUS
  <2> HIDE DEF r
  <2> QED BY <2>1 DEF Shifted, More, r
<1> HIDE DEF r
<1> SUFFICES ASSUME NEW k \in 1..n
             PROVE  Shifted(s, n, p, q)[k] =
               IF q < p THEN IF k < q THEN s[k] ELSE IF k = q THEN s[p]
                             ELSE IF k <= p THEN s[k - 1] ELSE s[k]
               ELSE IF k < p THEN s[k] ELSE IF k < q - 1 THEN s[k + 1]
                    ELSE IF k = q - 1 THEN s[p] ELSE s[k]
  BY DEF AfterShift
<1>3. k < q2 => k \in 1..(n - 1) /\ r[k] = IF k < p THEN s[k] ELSE s[k + 1]
  BY <1>1
<1>4. k > q2 => k - 1 \in 1..(n - 1) /\ r[k - 1] = IF k - 1 < p THEN s[k - 1] ELSE s[k]
  <2> SUFFICES ASSUME k > q2
               PROVE  k - 1 \in 1..(n - 1) /\ r[k - 1] = IF k - 1 < p THEN s[k - 1] ELSE s[k]
    OBVIOUS
  <2>1. k - 1 \in 1..(n - 1) /\ (k - 1) + 1 = k
    OBVIOUS
  <2> QED BY <1>1, <2>1
<1>5. CASE q < p
  BY <1>2, <1>3, <1>4, <1>5
<1>6. CASE p < q
  <2>1. CASE k < q - 1
    BY <1>2, <1>3, <1>6, <2>1
  <2>2. CASE k = q - 1
    BY <1>2, <1>6, <2>2
  <2>3. CASE k > q - 1
    BY <1>2, <1>4, <1>6, <2>3
  <2> QED BY <2>1, <2>2, <2>3
<1> QED BY <1>5, <1>6

LEMMA ShiftedHas ==
  ASSUME NEW n \in Nat, NEW p \in 1..n, NEW q \in 1..n, p # q, NEW s,
         DOMAIN s = 1..n
  PROVE  Entries(Shifted(s, n, p, q), n) = Entries(s, n)
<1> DEFINE r == Shifted(s, n, p, q)
<1>0. \A k \in 1..n :
        r[k] = IF q < p THEN IF k < q THEN s[k] ELSE IF k = q THEN s[p]
                             ELSE IF k <= p THEN s[k - 1] ELSE s[k]
               ELSE IF k < p THEN s[k] ELSE IF k < q - 1 THEN s[k + 1]
                    ELSE IF k = q - 1 THEN s[p] ELSE s[k]
  BY ShiftedIs DEF AfterShift
<1> HIDE DEF r
<1>1. ASSUME NEW k \in 1..n PROVE \E j \in 1..n : r[k] = s[j]
  <2>1. CASE q < p /\ k > q /\ k <= p
    <3>1. k - 1 \in 1..n
      BY <2>1
    <3> QED BY <2>1, <3>1, <1>0
  <2>2. CASE p < q /\ k >= p /\ k < q - 1
    <3>1. k + 1 \in 1..n
      BY <2>2
    <3> QED BY <2>2, <3>1, <1>0
  <2>3. CASE k = IF q < p THEN q ELSE q - 1
    BY <2>3, <1>0
  <2>4. CASE ~(q < p /\ k > q /\ k <= p) /\ ~(p < q /\ k >= p /\ k < q - 1)
               /\ k # IF q < p THEN q ELSE q - 1
    BY <2>4, <1>0
  <2> QED BY <2>1, <2>2, <2>3, <2>4
<1>2. ASSUME NEW k \in 1..n PROVE \E j \in 1..n : r[j] = s[k]
  <2>1. CASE k = p
    <3>1. CASE q < p
      <4>1. r[q] = s[p]
        BY <3>1, <1>0
      <4> QED BY <2>1, <4>1
    <3>2. CASE p < q
      <4>1. q - 1 \in 1..n /\ ~(q < p) /\ ~(q - 1 < p) /\ ~(q - 1 < q - 1)
        BY <3>2
      <4>2. r[q - 1] = s[p]
        BY <4>1, <1>0
      <4> QED BY <2>1, <4>1, <4>2
    <3> QED BY <3>1, <3>2
  <2>2. CASE q < p /\ q <= k /\ k < p
    <3>1. k + 1 \in 1..n /\ (k + 1) - 1 = k
      BY <2>2
    <3>2. r[k + 1] = s[(k + 1) - 1]
      BY <2>2, <3>1, <1>0
    <3> QED BY <3>1, <3>2
  <2>3. CASE p < q /\ p < k /\ k < q
    <3>1. k - 1 \in 1..n /\ (k - 1) + 1 = k
      BY <2>3
    <3>2. r[k - 1] = s[(k - 1) + 1]
      BY <2>3, <3>1, <1>0
    <3> QED BY <3>1, <3>2
  <2>4. CASE k < p /\ k < q
    BY <2>4, <1>0
  <2>5. CASE k > p /\ k >= q
    BY <2>5, <1>0
  <2> QED BY <2>1, <2>2, <2>3, <2>4, <2>5
<1>3. ASSUME NEW x \in Entries(r, n) PROVE x \in Entries(s, n)
  <2>1. PICK k \in 1..n : x = r[k]
    BY <1>3 DEF Entries
  <2> QED BY <1>1, <2>1 DEF Entries
<1>4. ASSUME NEW x \in Entries(s, n) PROVE x \in Entries(r, n)
  <2>1. PICK k \in 1..n : x = s[k]
    BY <1>4 DEF Entries
  <2> QED BY <1>2, <2>1 DEF Entries
<1> QED BY <1>3, <1>4 DEF r

LEMMA MoveEdits ==
  ASSUME NEW l \in Arena, NEW C, NEW R, Holds(l, C, R), NEW s, NEW n, Listed(l, s, n),
         NEW d \in C \ R, NEW e \in C \ R, d # e
  PROVE  /\ LiveIndex(l, d) # LiveIndex(l, e)
         /\ \E p, q \in 1..n :
              LET m == MoveBefore(l, LiveIndex(l, d), LiveIndex(l, e))
                  r == Shifted(s, n, p, q)
              IN  /\ p # q /\ l.nodes[s[p]].key = d /\ l.nodes[s[q]].key = e
                  /\ m \in Arena
                  /\ Holds(m, C, R)
                  /\ Listed(m, r, n)
                  /\ Keys(m, r, n) = Shifted(Keys(l, s, n), n, p, q)
<1> DEFINE i == LiveIndex(l, d)
           j == LiveIndex(l, e)
           m == MoveBefore(l, i, j)
<1>1. /\ i \in Live(l) /\ l.nodes[i].key = d
      /\ j \in Live(l) /\ l.nodes[j].key = e
  BY LiveIndexFinds
<1>2. /\ n \in Nat /\ s \in [1..n -> Nodes(l)] /\ DOMAIN s = 1..n
      /\ Live(l) = {s[k] : k \in 1..n}
  BY DEF Listed, Linked
<1> HIDE DEF i, j
<1>3. PICK p \in 1..n : s[p] = i
  BY <1>1, <1>2
<1>4. PICK q \in 1..n : s[q] = j
  BY <1>1, <1>2
<1>5. p # q
  BY <1>1, <1>3, <1>4
<1> DEFINE r == Shifted(s, n, p, q)
<1>6. m \in Arena /\ SameNodes(l, m) /\ Linked(m, r, n)
  BY <1>3, <1>4, <1>5, MoveShifts DEF Listed
<1> HIDE DEF m
<1>7. Holds(m, C, R) /\ Live(m) = Live(l)
  BY <1>6 DEF Holds, SameNodes, Live
<1>8. {r[k] : k \in 1..n} = {s[k] : k \in 1..n}
  <2>1. n \in Nat /\ DOMAIN s = 1..n /\ p \in 1..n /\ q \in 1..n
    BY <1>2
  <2>2. Entries(r, n) = Entries(s, n)
    BY <1>5, <2>1, ShiftedHas, Zenon
  <2> QED BY <2>2 DEF Entries
<1>9. Keys(m, r, n) = Shifted(Keys(l, s, n), n, p, q)
  <2> DEFINE w == Keys(l, s, n)
  <2>1. DOMAIN w = 1..n /\ \A k \in 1..n : w[k] = l.nodes[s[k]].key
    BY DEF Keys
  <2>2. ASSUME NEW k \in 1..n PROVE m.nodes[r[k]].key = Shifted(w, n, p, q)[k]
    <3>1. r[k] \in Nodes(l)
      BY <1>2, <1>8
    <3>2. m.nodes[r[k]].key = l.nodes[r[k]].key
      BY <1>6, <3>1 DEF SameNodes
    <3>7. r[k] = AfterShift(s, p, q, k) /\ Shifted(w, n, p, q)[k] = AfterShift(w, p, q, k)
      <4>1. n \in Nat /\ DOMAIN s = 1..n /\ p \in 1..n /\ q \in 1..n /\ DOMAIN w = 1..n
        BY <1>2, <2>1
      <4> HIDE DEF w
      <4>2. \A y \in 1..n : Shifted(s, n, p, q)[y] = AfterShift(s, p, q, y)
        BY <1>5, <4>1, ShiftedIs
      <4>3. \A y \in 1..n : Shifted(w, n, p, q)[y] = AfterShift(w, p, q, y)
        BY <1>5, <4>1, ShiftedIs
      <4> QED BY <4>2, <4>3, Zenon
    <3>0. /\ r[k] = IF q < p THEN IF k < q THEN s[k] ELSE IF k = q THEN s[p]
                                  ELSE IF k <= p THEN s[k - 1] ELSE s[k]
                    ELSE IF k < p THEN s[k] ELSE IF k < q - 1 THEN s[k + 1]
                         ELSE IF k = q - 1 THEN s[p] ELSE s[k]
          /\ Shifted(w, n, p, q)[k] =
               IF q < p THEN IF k < q THEN w[k] ELSE IF k = q THEN w[p]
                             ELSE IF k <= p THEN w[k - 1] ELSE w[k]
               ELSE IF k < p THEN w[k] ELSE IF k < q - 1 THEN w[k + 1]
                    ELSE IF k = q - 1 THEN w[p] ELSE w[k]
      BY <3>7 DEF AfterShift
    <3> HIDE DEF r, w
    <3>3. CASE q < p /\ k > q /\ k <= p
      <4>1. k - 1 \in 1..n
        BY <1>2, <3>3
      <4>2. r[k] = s[k - 1] /\ Shifted(w, n, p, q)[k] = w[k - 1]
        BY <1>2, <3>0, <3>3
      <4> QED BY <2>1, <3>2, <4>1, <4>2
    <3>4. CASE p < q /\ k >= p /\ k < q - 1
      <4>1. k + 1 \in 1..n
        BY <1>2, <3>4
      <4>2. r[k] = s[k + 1] /\ Shifted(w, n, p, q)[k] = w[k + 1]
        BY <1>2, <3>0, <3>4
      <4> QED BY <2>1, <3>2, <4>1, <4>2
    <3>5. CASE k = IF q < p THEN q ELSE q - 1
      <4>1. r[k] = s[p] /\ Shifted(w, n, p, q)[k] = w[p]
        BY <1>2, <1>5, <3>0, <3>5
      <4> QED BY <2>1, <3>2, <4>1
    <3>6. CASE ~(q < p /\ k > q /\ k <= p) /\ ~(p < q /\ k >= p /\ k < q - 1)
                 /\ k # IF q < p THEN q ELSE q - 1
      <4>1. r[k] = s[k] /\ Shifted(w, n, p, q)[k] = w[k]
        BY <1>2, <1>5, <3>0, <3>6
      <4> QED BY <2>1, <3>2, <4>1
    <3> QED BY <3>3, <3>4, <3>5, <3>6
  <2>3. Shifted(w, n, p, q) = [k \in 1..n |-> Shifted(w, n, p, q)[k]]
    <3>1. (n - 1) + 1 = n
      BY <1>2
    <3> QED BY <3>1 DEF Shifted, More
  <2>4. Keys(m, r, n) = [k \in 1..n |-> m.nodes[r[k]].key]
    BY DEF Keys
  <2>5. \A k \in 1..n : m.nodes[r[k]].key = Shifted(w, n, p, q)[k]
    BY <2>2
  <2> HIDE DEF r, w
  <2> QED BY <2>3, <2>4, <2>5, Zenon DEF w
<1> QED BY <1>1, <1>2, <1>3, <1>4, <1>5, <1>6, <1>7, <1>8, <1>9 DEF Listed, m, i, j

-----------------------------------------------------------------------------
(* Inserting one occurrence puts it into the list after place p.           *)
Insertion(l, C, R, s, n, p, d) ==
  LET m == InsertAfter(l, s[p], d)
      new == Len(l.nodes) + 1
      r == More(s, n, p + 1, new)
  IN  /\ m \in Arena
      /\ Len(m.nodes) = new
      /\ Holds(m, C \cup {d}, R)
      /\ Listed(m, r, n + 1)
      /\ r[p + 1] = new
      /\ Keys(m, r, n + 1) = More(Keys(l, s, n), n, p + 1, d)

LEMMA InsertEdits ==
  ASSUME NEW l \in Arena, NEW C, NEW R, Holds(l, C, R), NEW s, NEW n, Listed(l, s, n),
         NEW p \in 1..n, NEW d \in Delivery, d \notin C, d \notin R
  PROVE  Insertion(l, C, R, s, n, p, d)
<1> DEFINE m == InsertAfter(l, s[p], d)
           new == Len(l.nodes) + 1
           r == More(s, n, p + 1, new)
           w == Keys(l, s, n)
<1>1. /\ n \in Nat /\ s \in [1..n -> Nodes(l)] /\ s[p] \in Nodes(l)
      /\ Live(l) = {s[k] : k \in 1..n}
      /\ Len(l.nodes) \in Nat /\ Nodes(l) = 1..Len(l.nodes) /\ new \notin Nodes(l)
  BY NodesAre DEF Listed, Linked
<1>2. NewNode(l, m, d)
  BY <1>1, InsertAdds
<1>3. Linked(m, r, n + 1)
  BY InsertPutsAfter DEF Listed
<1> HIDE DEF m
<1>4. Holds(m, C \cup {d}, R)
  <2>1. /\ Nodes(m) = Nodes(l) \cup {new}
        /\ m.nodes[new].key = d /\ m.nodes[new].live
        /\ \A x \in Nodes(l) : /\ m.nodes[x].key = l.nodes[x].key
                              /\ m.nodes[x].live = l.nodes[x].live
    BY <1>2 DEF NewNode
  <2>2. /\ {l.nodes[j].key : j \in Nodes(l)} = C
        /\ \A x \in Nodes(l) : m.nodes[x].key \in C /\ m.nodes[x].key # d
    BY <2>1 DEF Holds
  <2> HIDE DEF new
  <2>3. {m.nodes[j].key : j \in Nodes(m)} \subseteq C \cup {d}
    BY <2>1, <2>2
  <2>4. C \cup {d} \subseteq {m.nodes[j].key : j \in Nodes(m)}
    BY <2>1, <2>2
  <2>5. \A x, y \in Nodes(m) : m.nodes[x].key = m.nodes[y].key => x = y
    BY <2>1, <2>2 DEF Holds
  <2>6. \A x \in Nodes(m) : m.nodes[x].live <=> m.nodes[x].key \notin R
    BY <2>1 DEF Holds
  <2> QED BY <2>3, <2>4, <2>5, <2>6 DEF Holds
<1>5. \A k \in 1..(n + 1) : r[k] = IF k < p + 1 THEN s[k] ELSE IF k = p + 1 THEN new ELSE s[k - 1]
  BY DEF More
<1>6. Live(m) = Live(l) \cup {new}
  BY <1>1, <1>2 DEF Live, NewNode
<1>7. r[p + 1] = new
  BY <1>1, <1>5
<1>8. {r[k] : k \in 1..(n + 1)} = Live(l) \cup {new}
  <2>1. ASSUME NEW k \in 1..(n + 1) PROVE r[k] \in Live(l) \cup {new}
    <3>1. CASE k > p + 1
      <4>1. k - 1 \in 1..n
        BY <1>1, <3>1
      <4> QED BY <1>1, <1>5, <3>1, <4>1
    <3> QED BY <1>1, <1>5, <3>1
  <2>2. ASSUME NEW x \in Live(l) PROVE \E k \in 1..(n + 1) : r[k] = x
    <3>1. PICK k \in 1..n : s[k] = x
      BY <1>1
    <3>2. CASE k <= p
      BY <1>1, <1>5, <3>1, <3>2
    <3>3. CASE k > p
      <4>1. k + 1 \in 1..(n + 1) /\ ~(k + 1 < p + 1) /\ k + 1 # p + 1 /\ (k + 1) - 1 = k
        BY <1>1, <3>3
      <4> QED BY <1>5, <3>1, <4>1
    <3> QED BY <1>1, <3>2, <3>3
  <2>3. p + 1 \in 1..(n + 1)
    BY <1>1
  <2> HIDE DEF r, new
  <2> QED BY <1>7, <2>1, <2>2, <2>3
<1>9. \A k \in 1..(n + 1) :
        m.nodes[r[k]].key = IF k < p + 1 THEN w[k] ELSE IF k = p + 1 THEN d ELSE w[k - 1]
  <2> SUFFICES ASSUME NEW k \in 1..(n + 1)
               PROVE  m.nodes[r[k]].key =
                        IF k < p + 1 THEN w[k] ELSE IF k = p + 1 THEN d ELSE w[k - 1]
    OBVIOUS
  <2>1. \A j \in 1..n : w[j] = l.nodes[s[j]].key
    BY DEF Keys
  <2>2. \A j \in 1..n : m.nodes[s[j]].key = w[j]
    BY <1>1, <1>2, <2>1 DEF NewNode
  <2>3. m.nodes[new].key = d
    BY <1>2 DEF NewNode
  <2> HIDE DEF r, new, w
  <2>4. CASE k > p + 1
    <3>1. k - 1 \in 1..n
      BY <1>1, <2>4
    <3> QED BY <1>5, <2>2, <2>4, <3>1
  <2> QED BY <1>1, <1>5, <2>2, <2>3, <2>4
<1>10. Keys(m, r, n + 1) = More(w, n, p + 1, d)
  <2> HIDE DEF r, w
  <2> QED BY <1>9 DEF Keys, More
<1>11. Len(m.nodes) = new
  BY <1>2 DEF NewNode
<1> QED BY <1>2, <1>3, <1>4, <1>6, <1>7, <1>8, <1>10, <1>11 DEF Listed, NewNode, Insertion, m

(* The arena x with the k-th copy of the duplication a of node i; the      *)
(* recursion of WithCopies has a value for every number of copies.         *)
CopyInto(x, i, a, k) ==
  InsertAfter(x, IF k = 1 THEN i ELSE Len(x.nodes), CopyKey(a, k))

Copying(f, l, i, a, c) ==
  f = [k \in 0..c |-> IF k = 0 THEN l ELSE CopyInto(f[k - 1], i, a, k)]

LEMMA CopyingExists ==
  ASSUME NEW l, NEW i, NEW a, NEW c \in Nat
  PROVE  \E f : Copying(f, l, i, a, c)
<1> DEFINE T == {m \in Nat : ~ \E f : Copying(f, l, i, a, m)}
<1> SUFFICES ASSUME T # {} PROVE FALSE
  OBVIOUS
<1>1. PICK m \in T : \A k \in T : m <= k
  BY LeastNat
<1>2. CASE m = 0
  <2> DEFINE f == [k \in 0..0 |-> l]
  <2>1. f = [k \in 0..0 |-> IF k = 0 THEN l ELSE CopyInto(f[k - 1], i, a, k)]
    <3>1. \A k \in 0..0 : k = 0
      OBVIOUS
    <3> QED BY <3>1
  <2> QED BY <1>2, <2>1 DEF Copying
<1>3. CASE m # 0
  <2>1. m - 1 \in Nat /\ m - 1 \notin T
    BY <1>1, <1>3
  <2>2. PICK f : Copying(f, l, i, a, m - 1)
    BY <2>1
  <2> DEFINE g == [k \in 0..m |-> IF k = m THEN CopyInto(f[m - 1], i, a, m) ELSE f[k]]
  <2>3. \A k \in 0..(m - 1) : f[k] = IF k = 0 THEN l ELSE CopyInto(f[k - 1], i, a, k)
    BY <2>2 DEF Copying
  <2>4. ASSUME NEW k \in 0..m
        PROVE  g[k] = IF k = 0 THEN l ELSE CopyInto(g[k - 1], i, a, k)
    <3>1. CASE k = m
      <4>1. m - 1 \in 0..m /\ m - 1 # m
        BY <2>1
      <4>2. g[m - 1] = f[m - 1]
        BY <4>1
      <4> QED BY <1>3, <3>1, <4>2
    <3>2. CASE k = 0
      BY <1>3, <2>1, <2>3, <3>2
    <3>3. CASE k # m /\ k # 0
      <4>1. k \in 0..(m - 1) /\ k - 1 \in 0..m /\ k - 1 # m
        BY <2>1, <3>3
      <4>2. g[k] = f[k] /\ g[k - 1] = f[k - 1]
        BY <3>3, <4>1
      <4> QED BY <2>3, <3>3, <4>1, <4>2
    <3> QED BY <3>1, <3>2, <3>3
  <2>5. g = [k \in 0..m |-> g[k]]
    OBVIOUS
  <2> HIDE DEF g
  <2>6. Copying(g, l, i, a, m)
    BY <2>4, <2>5, Zenon DEF Copying
  <2> QED BY <1>1, <2>6
<1> QED BY <1>2, <1>3

LEMMA WithCopiesIs ==
  ASSUME NEW l, NEW i, NEW a, a.copies \in Nat
  PROVE  \E f : Copying(f, l, i, a, a.copies) /\ WithCopies(l, i, a) = f[a.copies]
<1> DEFINE copied[n \in 0..a.copies] ==
             IF n = 0 THEN l
             ELSE InsertAfter(copied[n - 1],
                              IF n = 1 THEN i ELSE Len(copied[n - 1].nodes), CopyKey(a, n))
<1>1. PICK f : Copying(f, l, i, a, a.copies)
  BY CopyingExists
<1>2. f = [n \in 0..a.copies |->
             IF n = 0 THEN l
             ELSE InsertAfter(f[n - 1], IF n = 1 THEN i ELSE Len(f[n - 1].nodes),
                              CopyKey(a, n))]
  BY <1>1, Zenon DEF Copying, CopyInto
<1>3. copied = [n \in 0..a.copies |->
             IF n = 0 THEN l
             ELSE InsertAfter(copied[n - 1],
                              IF n = 1 THEN i ELSE Len(copied[n - 1].nodes), CopyKey(a, n))]
  BY <1>2, Zenon DEF copied
<1>4. WithCopies(l, i, a) = copied[a.copies]
  BY DEF WithCopies, copied
<1> HIDE DEF copied
<1>5. Copying(copied, l, i, a, a.copies)
  BY <1>3, Zenon DEF Copying, CopyInto
<1> QED BY <1>4, <1>5

(* The list after c copies were put after place p.                         *)
Inserted(w, n, p, a, c) ==
  [k \in 1..(n + c) |-> IF k <= p THEN w[k]
                        ELSE IF k <= p + c THEN CopyKey(a, k - p) ELSE w[k - c]]

CopyKeys(a, c) == {CopyKey(a, k) : k \in 1..c}

Duplicates(l, C, R, a, s, n) ==
  \E p \in 1..n : \E r :
    LET m == WithCopies(l, LiveIndex(l, a.target), a)
    IN  /\ l.nodes[s[p]].key = a.target
        /\ m \in Arena
        /\ Len(m.nodes) = Len(l.nodes) + a.copies
        /\ Holds(m, C \cup CopyKeys(a, a.copies), R)
        /\ Listed(m, r, n + a.copies)
        /\ Keys(m, r, n + a.copies) = Inserted(Keys(l, s, n), n, p, a, a.copies)

LEMMA CopyEdits ==
  ASSUME NEW l \in Arena, NEW C, NEW R, Holds(l, C, R), NEW s, NEW n, Listed(l, s, n),
         NEW a, a.copies \in Nat, a.first \in Nat, a.target \in C \ R,
         \A k \in 1..a.copies : /\ CopyKey(a, k) \in Delivery
                                /\ CopyKey(a, k) \notin C /\ CopyKey(a, k) \notin R
  PROVE  Duplicates(l, C, R, a, s, n)
<1> DEFINE i == LiveIndex(l, a.target)
           c == a.copies
           w == Keys(l, s, n)
<1>1. i \in Live(l) /\ l.nodes[i].key = a.target
  BY LiveIndexFinds
<1>2. /\ n \in Nat /\ s \in [1..n -> Nodes(l)] /\ DOMAIN s = 1..n
      /\ Live(l) = {s[k] : k \in 1..n} /\ Len(l.nodes) \in Nat
  BY NodesAre DEF Listed, Linked
<1>3. PICK p \in 1..n : s[p] = i
  BY <1>1, <1>2
<1>4. PICK f : Copying(f, l, i, a, c) /\ WithCopies(l, i, a) = f[c]
  BY WithCopiesIs
<1>5. /\ f[0] = l
      /\ \A k \in 1..c : f[k] = CopyInto(f[k - 1], i, a, k)
  BY <1>4 DEF Copying
<1>6. /\ DOMAIN w = 1..n
      /\ \A k \in 1..n : w[k] = l.nodes[s[k]].key
  BY DEF Keys
<1> HIDE DEF i, c, w
<1>7. c \in Nat /\ a.first \in Nat
  BY DEF c
<1>8. \A j, k \in 1..c : CopyKey(a, j) = CopyKey(a, k) => j = k
  BY <1>7 DEF CopyKey
<1> DEFINE After(j, r) == /\ f[j] \in Arena
                          /\ Len(f[j].nodes) = Len(l.nodes) + j
                          /\ Holds(f[j], C \cup CopyKeys(a, j), R)
                          /\ Listed(f[j], r, n + j)
                          /\ r[p + j] = IF j = 0 THEN i ELSE Len(f[j].nodes)
                          /\ Keys(f[j], r, n + j) = Inserted(w, n, p, a, j)
<1>9. After(0, s)
  <2>1. n + 0 = n /\ p + 0 = p /\ Len(l.nodes) + 0 = Len(l.nodes)
    BY <1>2
  <2>2. CopyKeys(a, 0) = {}
    BY DEF CopyKeys
  <2>3. w = Inserted(w, n, p, a, 0)
    <3>1. w = [k \in 1..n |-> w[k]]
      BY DEF w, Keys
    <3>2. \A k \in 1..n : w[k] = IF k <= p THEN w[k]
                                 ELSE IF k <= p + 0 THEN CopyKey(a, k - p) ELSE w[k - 0]
      OBVIOUS
    <3> QED BY <2>1, <3>1, <3>2 DEF Inserted
  <2>4. C \cup {} = C
    OBVIOUS
  <2> QED BY <1>3, <1>5, <2>1, <2>2, <2>3, <2>4 DEF w
<1>10. ASSUME NEW j \in 1..c, NEW r, After(j - 1, r)
       PROVE  After(j, More(r, n + (j - 1), p + (j - 1) + 1, Len(f[j - 1].nodes) + 1))
  <2> DEFINE b == j - 1
             x == f[b]
             q == p + b
             d == CopyKey(a, j)
             y == InsertAfter(x, r[q], d)
             new == Len(x.nodes) + 1
  <2>1. b \in Nat /\ b + 1 = j /\ q \in 1..(n + b) /\ n + b \in Nat /\ b < c
    BY <1>2, <1>7
  <2>2. f[j] = y
    <3>1. r[q] = IF j = 1 THEN i ELSE Len(x.nodes)
      BY <1>10
    <3> QED BY <1>5, <3>1 DEF CopyInto
  <2>3. d \in Delivery /\ d \notin C /\ d \notin R /\ d \notin CopyKeys(a, b)
    <3>1. \A k \in 1..b : CopyKey(a, k) # d
      BY <1>7, <1>8, <2>1
    <3> QED BY <3>1 DEF CopyKeys, c
  <2>4. /\ x \in Arena /\ Holds(x, C \cup CopyKeys(a, b), R) /\ Listed(x, r, n + b)
        /\ Len(x.nodes) = Len(l.nodes) + b
        /\ Keys(x, r, n + b) = Inserted(w, n, p, a, b)
    BY <1>10
  <2> HIDE DEF b, x, d, q
  <2>5. /\ y \in Arena
        /\ Len(y.nodes) = new
        /\ Holds(y, (C \cup CopyKeys(a, b)) \cup {d}, R)
        /\ Listed(y, More(r, n + b, q + 1, new), (n + b) + 1)
        /\ More(r, n + b, q + 1, new)[q + 1] = new
        /\ Keys(y, More(r, n + b, q + 1, new), (n + b) + 1)
             = More(Inserted(w, n, p, a, b), n + b, q + 1, d)
    <3> DEFINE D == C \cup CopyKeys(a, b)
    <3>1. d \notin D /\ d \in Delivery /\ d \notin R
      BY <2>3
    <3>2. x \in Arena /\ Holds(x, D, R) /\ Listed(x, r, n + b)
      BY <2>4
    <3> HIDE DEF D
    <3>3. Insertion(x, D, R, r, n + b, q, d)
      <4>1. q \in 1..(n + b)
        BY <2>1
      <4> HIDE DEF q
      <4> QED BY <3>1, <3>2, <4>1, InsertEdits
    <3> QED BY <2>4, <3>3 DEF D, Insertion
  <2>6. (n + b) + 1 = n + j /\ q + 1 = p + j /\ new = Len(l.nodes) + j
    <3>1. j \in Nat /\ p \in Nat /\ Len(l.nodes) \in Nat /\ Len(x.nodes) = Len(l.nodes) + b
      BY <1>2, <1>7, <2>4
    <3>2. n \in Nat /\ b \in Nat /\ b + 1 = j /\ new = Len(x.nodes) + 1 /\ q = p + b
      BY <1>2, <2>1 DEF q
    <3> HIDE DEF new
    <3> QED BY <3>1, <3>2
  <2>7. (C \cup CopyKeys(a, b)) \cup {d} = C \cup CopyKeys(a, j)
    <3>1. \A k \in 1..j : k \in 1..b \/ k = j
      BY <2>1
    <3>2. \A k \in 1..b : k \in 1..j
      BY <2>1
    <3> QED BY <3>1, <3>2 DEF CopyKeys, d
  <2>8. More(Inserted(w, n, p, a, b), n + b, q + 1, d) = Inserted(w, n, p, a, j)
    <3> DEFINE u == Inserted(w, n, p, a, b)
    <3>1. \A k \in 1..(n + b) : u[k] = IF k <= p THEN w[k]
                                       ELSE IF k <= p + b THEN CopyKey(a, k - p)
                                       ELSE w[k - b]
      BY DEF Inserted
    <3>2. ASSUME NEW k \in 1..(n + j)
          PROVE  (IF k < q + 1 THEN u[k] ELSE IF k = q + 1 THEN d ELSE u[k - 1])
                   = IF k <= p THEN w[k]
                     ELSE IF k <= p + j THEN CopyKey(a, k - p) ELSE w[k - j]
      <4> HIDE DEF u
      <4>1. CASE k < q + 1
        <5>1. k \in 1..(n + b) /\ k <= p + b /\ k <= p + j
          BY <1>2, <1>7, <2>1, <2>6, <4>1 DEF q
        <5> QED BY <3>1, <4>1, <5>1
      <4>2. CASE k = q + 1
        <5>1. k - p = j /\ ~(k <= p) /\ k <= p + j
          BY <2>1, <2>6, <4>2 DEF q
        <5> QED BY <4>2, <5>1 DEF d
      <4>3. CASE k > q + 1
        <5>1. k - 1 \in 1..(n + b) /\ ~(k - 1 <= p + b) /\ ~(k - 1 <= p)
              /\ (k - 1) - b = k - j /\ ~(k <= p) /\ ~(k <= p + j)
          BY <1>2, <2>1, <2>6, <4>3 DEF q
        <5>2. ~(k < q + 1) /\ k # q + 1
          BY <2>1, <4>3
        <5> QED BY <3>1, <5>1, <5>2
      <4>4. k \in Int /\ q + 1 \in Int
        BY <2>1
      <4> QED BY <4>1, <4>2, <4>3, <4>4
    <3> HIDE DEF u
    <3>3. More(u, n + b, q + 1, d)
            = [k \in 1..(n + j) |-> IF k < q + 1 THEN u[k]
                                    ELSE IF k = q + 1 THEN d ELSE u[k - 1]]
      BY <2>6 DEF More
    <3>4. Inserted(w, n, p, a, j)
            = [k \in 1..(n + j) |-> IF k <= p THEN w[k]
                                    ELSE IF k <= p + j THEN CopyKey(a, k - p) ELSE w[k - j]]
      BY DEF Inserted
    <3> QED BY <3>2, <3>3, <3>4 DEF u
  <2>9. More(r, n + b, q + 1, new)[p + j] = IF j = 0 THEN i ELSE Len(y.nodes)
    BY <2>1, <2>5, <2>6
  <2>10. /\ f[j] \in Arena
         /\ Len(f[j].nodes) = Len(l.nodes) + j
         /\ Holds(f[j], C \cup CopyKeys(a, j), R)
         /\ Listed(f[j], More(r, n + b, q + 1, new), n + j)
         /\ Keys(f[j], More(r, n + b, q + 1, new), n + j) = Inserted(w, n, p, a, j)
    BY <2>2, <2>5, <2>6, <2>7, <2>8
  <2> QED BY <2>2, <2>9, <2>10 DEF b, q, x
<1> DEFINE T == {j \in Nat : j <= c /\ ~ \E r : After(j, r)}
<1> HIDE DEF After
<1>11. T = {}
  <2> SUFFICES ASSUME T # {} PROVE FALSE
    OBVIOUS
  <2>1. PICK j \in T : \A k \in T : j <= k
    BY LeastNat
  <2>2. j # 0
    BY <1>9, <2>1
  <2>3. j - 1 \in Nat /\ j - 1 <= c /\ j - 1 \notin T /\ j \in 1..c
    BY <1>7, <2>1, <2>2
  <2>4. PICK r : After(j - 1, r)
    BY <2>3
  <2> QED BY <1>10, <2>1, <2>3, <2>4
<1>12. PICK r : After(c, r)
  BY <1>7, <1>11
<1>13. /\ f[c] \in Arena
       /\ Len(f[c].nodes) = Len(l.nodes) + c
       /\ Holds(f[c], C \cup CopyKeys(a, c), R)
       /\ Listed(f[c], r, n + c)
       /\ Keys(f[c], r, n + c) = Inserted(w, n, p, a, c)
  BY <1>12, Zenon DEF After
<1>14. l.nodes[s[p]].key = a.target
  BY <1>1, <1>3
<1> QED BY <1>4, <1>13, <1>14 DEF Duplicates, c, i, w

-----------------------------------------------------------------------------
(* The invariant of the schedule.  The occurrences that exist after the    *)
(* first k actions of the plan a of a prefix of n sources, and those of    *)
(* them that were dropped.                                                 *)
Originals(n) == {<<i - 1, 0>> : i \in 1..n}

Copied(a, k) ==
  UNION {CopyKeys(a[j], a[j].copies) : j \in {i \in 1..k : a[i].kind = "duplicate"}}

Created(n, a, k) == Originals(n) \cup Copied(a, k)

Removed(a, k) == {a[j].target : j \in {i \in 1..k : a[i].kind = "drop"}}

PlannedAction ==
  [kind : {"drop"}, target : Delivery]
    \cup [kind : {"duplicate"}, target : Delivery, first : 1..MaxOccurrence,
          copies : 1..MaxOccurrence]
    \cup [kind : {"move"}, target : Delivery, anchor : Delivery]

(* Action j of the plan refers to occurrences that exist when it is        *)
(* executed, and its copies are new then.                                  *)
Resolved(n, a, j) ==
  LET there == Created(n, a, j - 1) \ Removed(a, j - 1)
  IN  /\ a[j].target \in there
      /\ a[j].kind = "duplicate" =>
           /\ CopyKeys(a[j], a[j].copies) \subseteq Delivery
           /\ CopyKeys(a[j], a[j].copies)
                \cap (Created(n, a, j - 1) \cup Removed(a, j - 1)) = {}
      /\ a[j].kind = "move" => a[j].anchor \in there /\ a[j].anchor # a[j].target

PlanSound(n, a) == \A j \in 1..Len(a) : Resolved(n, a, j)

Existing(n, next) == {d \in Delivery : d[1] < n /\ d[2] < next[d[1]]}

PlanInv ==
  /\ phase \in {"planning", "building", "done", "rejected"}
  /\ prefix \in 0..MaxPrefix
  /\ nextOccurrence \in [Source -> 1..(MaxOccurrence + 1)]
  /\ plan \in Seq(PlannedAction)
  /\ Len(plan) <= MaxFaultActions
  /\ executed \in 0..Len(plan)
  /\ PlanSound(prefix, plan)
  /\ Created(prefix, plan, Len(plan)) = Existing(prefix, nextOccurrence)
  /\ Removed(plan, Len(plan)) = removed
  /\ removed \subseteq Existing(prefix, nextOccurrence)
  /\ IsFiniteSet(Existing(prefix, nextOccurrence))
  /\ Cardinality(Existing(prefix, nextOccurrence)) = allocated
  /\ allocated <= MaxOccurrences \/ allocated = prefix

(* The arena after the first k actions: it holds the occurrences these     *)
(* have created, and its list leaves the spared sources in order.          *)
Sound(l, n, a, k) ==
  /\ l \in Arena
  /\ Holds(l, Created(n, a, k), Removed(a, k))
  /\ \E s, m : Listed(l, s, m) /\ InOrder(a, Keys(l, s, m), m)

ArenaInv ==
  /\ phase \in {"planning", "rejected"} => arena = EmptyArena /\ executed = 0
  /\ phase \in {"building", "done"} => /\ allocated <= MaxOccurrences
                                       /\ Sound(arena, prefix, plan, executed)
  /\ phase = "done" => executed = Len(plan) /\ deliveries = Walk(arena)

ScheduleInv == PlanInv /\ ArenaInv

-----------------------------------------------------------------------------
(* Planning.                                                               *)
LEMMA ConstantsAre ==
  /\ MaxPrefix \in Nat /\ MaxOccurrence \in Nat /\ MaxFaultActions \in Nat
  /\ MaxCopies \in Nat /\ MaxOccurrences \in Nat /\ WorkLeft \in Nat
BY ScheduleAssumption

CreatedBy(x) == IF x.kind = "duplicate" THEN CopyKeys(x, x.copies) ELSE {}

RemovedBy(x) == IF x.kind = "drop" THEN {x.target} ELSE {}

ActionAdds(n, a, k) ==
  /\ Created(n, a, k + 1) = Created(n, a, k) \cup CreatedBy(a[k + 1])
  /\ Removed(a, k + 1) = Removed(a, k) \cup RemovedBy(a[k + 1])

LEMMA NextAction ==
  ASSUME NEW n, NEW a, NEW k \in Nat
  PROVE  ActionAdds(n, a, k)
<1>1. \A j : j \in 1..(k + 1) <=> j \in 1..k \/ j = k + 1
  OBVIOUS
<1>2. Copied(a, k + 1)
        = Copied(a, k) \cup IF a[k + 1].kind = "duplicate"
                            THEN CopyKeys(a[k + 1], a[k + 1].copies) ELSE {}
  <2>1. \A d : d \in Copied(a, k + 1) <=>
                 \E j \in 1..(k + 1) : a[j].kind = "duplicate"
                                       /\ d \in CopyKeys(a[j], a[j].copies)
    BY DEF Copied
  <2>2. \A d : d \in Copied(a, k) <=>
                 \E j \in 1..k : a[j].kind = "duplicate"
                                 /\ d \in CopyKeys(a[j], a[j].copies)
    BY DEF Copied
  <2> QED BY <1>1, <2>1, <2>2
<1>3. Removed(a, k + 1)
        = Removed(a, k) \cup IF a[k + 1].kind = "drop" THEN {a[k + 1].target} ELSE {}
  <2>1. \A d : d \in Removed(a, k + 1) <=>
                 \E j \in 1..(k + 1) : a[j].kind = "drop" /\ d = a[j].target
    BY DEF Removed
  <2>2. \A d : d \in Removed(a, k) <=>
                 \E j \in 1..k : a[j].kind = "drop" /\ d = a[j].target
    BY DEF Removed
  <2> QED BY <1>1, <2>1, <2>2
<1> QED BY <1>2, <1>3 DEF Created, CreatedBy, RemovedBy, ActionAdds

LEMMA EarlierActions ==
  ASSUME NEW n, NEW S, NEW a \in Seq(S), NEW x \in S, NEW k \in 0..Len(a)
  PROVE  /\ Created(n, Append(a, x), k) = Created(n, a, k)
         /\ Removed(Append(a, x), k) = Removed(a, k)
<1> DEFINE b == Append(a, x)
<1>1. \A j \in 1..k : b[j] = a[j]
  OBVIOUS
<1> HIDE DEF b
<1>2. Copied(b, k) = Copied(a, k)
  <2>1. {i \in 1..k : b[i].kind = "duplicate"} = {i \in 1..k : a[i].kind = "duplicate"}
    BY <1>1
  <2>2. \A d : d \in Copied(b, k) <=>
                 \E j \in 1..k : b[j].kind = "duplicate" /\ d \in CopyKeys(b[j], b[j].copies)
    BY DEF Copied
  <2>3. \A d : d \in Copied(a, k) <=>
                 \E j \in 1..k : a[j].kind = "duplicate" /\ d \in CopyKeys(a[j], a[j].copies)
    BY DEF Copied
  <2> QED BY <1>1, <2>2, <2>3
<1>3. Removed(b, k) = Removed(a, k)
  BY <1>1 DEF Removed
<1> QED BY <1>2, <1>3 DEF b, Created

LEMMA CreatedGrows ==
  ASSUME NEW n, NEW a, NEW k \in Nat, NEW j \in 0..k
  PROVE  Created(n, a, j) \subseteq Created(n, a, k) /\ Removed(a, j) \subseteq Removed(a, k)
<1>1. 1..j \subseteq 1..k
  OBVIOUS
<1>2. Copied(a, j) \subseteq Copied(a, k)
  BY <1>1 DEF Copied
<1>3. Removed(a, j) \subseteq Removed(a, k)
  BY <1>1 DEF Removed
<1> QED BY <1>2, <1>3 DEF Created

(* A planned action that resolves against the plan so far extends it.      *)
LEMMA PlanExtends ==
  ASSUME NEW n, NEW S, NEW a \in Seq(S), NEW x \in S, PlanSound(n, a),
         LET there == Created(n, a, Len(a)) \ Removed(a, Len(a))
         IN  /\ x.target \in there
             /\ x.kind = "duplicate" =>
                  /\ CopyKeys(x, x.copies) \subseteq Delivery
                  /\ CopyKeys(x, x.copies)
                       \cap (Created(n, a, Len(a)) \cup Removed(a, Len(a))) = {}
             /\ x.kind = "move" => x.anchor \in there /\ x.anchor # x.target
  PROVE  PlanSound(n, Append(a, x))
<1> DEFINE b == Append(a, x)
<1>1. Len(b) = Len(a) + 1 /\ Len(a) \in Nat
  OBVIOUS
<1> SUFFICES ASSUME NEW j \in 1..Len(b) PROVE Resolved(n, b, j)
  BY DEF PlanSound
<1>2. j - 1 \in 0..Len(a)
  BY <1>1
<1>3. Created(n, b, j - 1) = Created(n, a, j - 1) /\ Removed(b, j - 1) = Removed(a, j - 1)
  BY <1>2, EarlierActions
<1>4. CASE j = Len(a) + 1
  <2>1. b[j] = x /\ j - 1 = Len(a)
    BY <1>4
  <2> HIDE DEF b
  <2> QED BY <1>3, <2>1 DEF Resolved
<1>5. CASE j \in 1..Len(a)
  <2>1. b[j] = a[j]
    BY <1>5
  <2>2. Resolved(n, a, j)
    BY <1>5 DEF PlanSound
  <2> HIDE DEF b
  <2> QED BY <1>3, <2>1, <2>2 DEF Resolved
<1> QED BY <1>1, <1>4, <1>5

LEMMA CopiesAre ==
  ASSUME NEW a, a.first \in Nat, NEW c \in Nat
  PROVE  IsFiniteSet(CopyKeys(a, c)) /\ Cardinality(CopyKeys(a, c)) = c
<1> DEFINE f == [k \in 1..c |-> CopyKey(a, k)]
<1>1. f \in [1..c -> CopyKeys(a, c)]
  BY DEF CopyKeys
<1>2. \A i, j \in 1..c : f[i] = f[j] => i = j
  BY DEF CopyKey
<1>3. \A x \in CopyKeys(a, c) : \E i \in 1..c : f[i] = x
  BY DEF CopyKeys
<1> HIDE DEF f
<1> QED BY <1>1, <1>2, <1>3, ListCounts

LEMMA OriginalsAre ==
  ASSUME NEW n \in 0..MaxPrefix
  PROVE  /\ Originals(n) \subseteq Delivery
         /\ IsFiniteSet(Originals(n)) /\ Cardinality(Originals(n)) = n
         /\ Created(n, <<>>, 0) = Originals(n)
         /\ Removed(<<>>, 0) = {}
         /\ Existing(n, [s \in Source |-> 1]) = Originals(n)
<1> DEFINE f == [k \in 1..n |-> <<k - 1, 0>>]
<1>1. f \in [1..n -> Originals(n)] /\ n \in Nat
  BY DEF Originals
<1>2. \A i, j \in 1..n : f[i] = f[j] => i = j
  OBVIOUS
<1>3. \A x \in Originals(n) : \E i \in 1..n : f[i] = x
  BY DEF Originals
<1> HIDE DEF f
<1>4. IsFiniteSet(Originals(n)) /\ Cardinality(Originals(n)) = n
  BY <1>1, <1>2, <1>3, ListCounts
<1>5. Originals(n) \subseteq Delivery
  BY ConstantsAre DEF Originals, Delivery
<1>6. Copied(<<>>, 0) = {} /\ Removed(<<>>, 0) = {}
  BY DEF Copied, Removed
<1>7. Existing(n, [s \in Source |-> 1]) = Originals(n)
  <2> DEFINE next == [s \in Source |-> 1]
  <2>1. ASSUME NEW d \in Existing(n, next) PROVE d \in Originals(n)
    <3>1. /\ d \in Delivery /\ d[1] < n /\ d[2] < next[d[1]]
      BY <2>1 DEF Existing
    <3>2. d[1] \in 0..(n - 1) /\ d[2] \in Nat /\ d = <<d[1], d[2]>>
      BY <3>1, ConstantsAre DEF Delivery
    <3>3. d[1] \in Source
      BY <3>2, ConstantsAre DEF Source
    <3>4. d[2] = 0
      BY <3>1, <3>2, <3>3
    <3>5. d[1] + 1 \in 1..n /\ (d[1] + 1) - 1 = d[1]
      BY <3>2
    <3> QED BY <3>2, <3>4, <3>5 DEF Originals
  <2>2. ASSUME NEW i \in 1..n PROVE <<i - 1, 0>> \in Existing(n, next)
    <3>1. i - 1 \in Source /\ i - 1 \in 0..MaxPrefix /\ i - 1 < n
      BY ConstantsAre DEF Source
    <3> QED BY <3>1, ConstantsAre DEF Existing, Delivery
  <2> HIDE DEF next
  <2>3. Originals(n) \subseteq Existing(n, next)
    BY <2>2 DEF Originals
  <2>4. Existing(n, next) = Originals(n)
    BY <2>1, <2>3
  <2> QED BY <2>4 DEF next
<1> QED BY <1>4, <1>5, <1>6, <1>7 DEF Created

LEMMA InitSchedule == Init => ScheduleInv
<1> SUFFICES ASSUME Init PROVE ScheduleInv
  OBVIOUS
<1> USE DEF Init
<1>1. prefix \in 0..MaxPrefix /\ nextOccurrence = [s \in Source |-> 1]
  OBVIOUS
<1>2. /\ plan = <<>> /\ plan \in Seq(PlannedAction) /\ Len(plan) = 0
      /\ Len(plan) <= MaxFaultActions /\ executed \in 0..Len(plan)
  BY ConstantsAre
<1>3. PlanSound(prefix, plan)
  BY <1>2 DEF PlanSound
<1>4. /\ Created(prefix, plan, Len(plan)) = Existing(prefix, nextOccurrence)
      /\ Removed(plan, Len(plan)) = removed
      /\ IsFiniteSet(Existing(prefix, nextOccurrence))
      /\ Cardinality(Existing(prefix, nextOccurrence)) = allocated
  BY <1>1, <1>2, OriginalsAre
<1>5. nextOccurrence \in [Source -> 1..(MaxOccurrence + 1)]
  BY ConstantsAre
<1> QED BY <1>1, <1>2, <1>3, <1>4, <1>5 DEF ScheduleInv, PlanInv, ArenaInv

LEMMA ResolvesIs ==
  ASSUME PlanInv, NEW d \in Delivery, Resolves(d)
  PROVE  d \in Existing(prefix, nextOccurrence) \ removed
BY DEF Resolves, Existing

LEMMA DropIsPlanned ==
  ASSUME ScheduleInv, NEW t \in Delivery, PlanDrop(t)
  PROVE  ScheduleInv'
<1> DEFINE x == [kind |-> "drop", target |-> t]
<1> USE DEF ScheduleInv
<1>1. /\ plan' = Append(plan, x) /\ removed' = removed \cup {t}
      /\ UNCHANGED <<phase, prefix, executed, arena, deliveries, nextOccurrence, allocated>>
      /\ phase = "planning" /\ Len(plan) < MaxFaultActions /\ Resolves(t)
  BY DEF PlanDrop, Plans, Planning
<1>2. t \in Existing(prefix, nextOccurrence) \ removed
  BY <1>1, ResolvesIs
<1>3. x \in PlannedAction /\ x.kind = "drop" /\ x.target = t
  BY DEF PlannedAction
<1> HIDE DEF x
<1>4. plan \in Seq(PlannedAction) /\ Len(plan) \in Nat
  BY DEF PlanInv
<1>5. /\ plan' \in Seq(PlannedAction) /\ Len(plan') = Len(plan) + 1
      /\ plan'[Len(plan) + 1] = x
  BY <1>1, <1>3, <1>4
<1>6. PlanSound(prefix, plan')
  BY <1>1, <1>2, <1>3, <1>4, PlanExtends DEF PlanInv
<1>7. /\ Created(prefix, plan', Len(plan')) = Existing(prefix, nextOccurrence)
      /\ Removed(plan', Len(plan')) = removed'
  <2>1. /\ Created(prefix, plan', Len(plan)) = Created(prefix, plan, Len(plan))
        /\ Removed(plan', Len(plan)) = Removed(plan, Len(plan))
    BY <1>1, <1>3, <1>4, EarlierActions
  <2>2. /\ Created(prefix, plan', Len(plan) + 1) = Created(prefix, plan', Len(plan)) \cup {}
        /\ Removed(plan', Len(plan) + 1) = Removed(plan', Len(plan)) \cup {t}
    <3> DEFINE b == plan'
               k == Len(plan)
    <3>1. b[k + 1].kind = "drop" /\ b[k + 1].target = t /\ k \in Nat
      BY <1>3, <1>4, <1>5
    <3> HIDE DEF b, k
    <3>2. ActionAdds(prefix, b, k)
      BY <3>1, NextAction
    <3> QED BY <3>1, <3>2 DEF b, k, ActionAdds, CreatedBy, RemovedBy
  <2> QED BY <1>1, <1>5, <2>1, <2>2 DEF PlanInv
<1>8. PlanInv'
  BY <1>1, <1>2, <1>4, <1>5, <1>6, <1>7, ConstantsAre DEF PlanInv
<1> QED BY <1>1, <1>8 DEF ArenaInv

LEMMA MoveIsPlanned ==
  ASSUME ScheduleInv, NEW t \in Delivery, NEW a \in Delivery, PlanMove(t, a)
  PROVE  ScheduleInv'
<1> DEFINE x == [kind |-> "move", target |-> t, anchor |-> a]
<1> USE DEF ScheduleInv
<1>1. /\ plan' = Append(plan, x) /\ removed' = removed
      /\ UNCHANGED <<phase, prefix, executed, arena, deliveries, nextOccurrence, allocated>>
      /\ phase = "planning" /\ Len(plan) < MaxFaultActions
      /\ Resolves(t) /\ Resolves(a) /\ t # a
  BY DEF PlanMove, Plans, Planning
<1>2. /\ t \in Existing(prefix, nextOccurrence) \ removed
      /\ a \in Existing(prefix, nextOccurrence) \ removed
  BY <1>1, ResolvesIs
<1>3. x \in PlannedAction /\ x.kind = "move" /\ x.target = t /\ x.anchor = a
  BY DEF PlannedAction
<1> HIDE DEF x
<1>4. plan \in Seq(PlannedAction) /\ Len(plan) \in Nat
  BY DEF PlanInv
<1>5. /\ plan' \in Seq(PlannedAction) /\ Len(plan') = Len(plan) + 1
      /\ plan'[Len(plan) + 1] = x
  BY <1>1, <1>3, <1>4
<1>6. PlanSound(prefix, plan')
  BY <1>1, <1>2, <1>3, <1>4, PlanExtends DEF PlanInv
<1>7. /\ Created(prefix, plan', Len(plan')) = Existing(prefix, nextOccurrence)
      /\ Removed(plan', Len(plan')) = removed'
  <2>1. /\ Created(prefix, plan', Len(plan)) = Created(prefix, plan, Len(plan))
        /\ Removed(plan', Len(plan)) = Removed(plan, Len(plan))
    BY <1>1, <1>3, <1>4, EarlierActions
  <2>2. /\ Created(prefix, plan', Len(plan) + 1) = Created(prefix, plan', Len(plan)) \cup {}
        /\ Removed(plan', Len(plan) + 1) = Removed(plan', Len(plan)) \cup {}
    <3> DEFINE b == plan'
               k == Len(plan)
    <3>1. b[k + 1].kind = "move" /\ k \in Nat
      BY <1>3, <1>4, <1>5
    <3> HIDE DEF b, k
    <3>2. ActionAdds(prefix, b, k)
      BY <3>1, NextAction
    <3> QED BY <3>1, <3>2 DEF b, k, ActionAdds, CreatedBy, RemovedBy
  <2> QED BY <1>1, <1>5, <2>1, <2>2 DEF PlanInv
<1>8. PlanInv'
  BY <1>1, <1>4, <1>5, <1>6, <1>7, ConstantsAre DEF PlanInv
<1> QED BY <1>1, <1>8 DEF ArenaInv

(* The occurrences of a duplication are new, and consecutive.              *)
CopiesAreNew(x, n, next) ==
  /\ x.first \in 1..MaxOccurrence /\ n \in 1..MaxOccurrence
  /\ next \in [Source -> 1..(MaxOccurrence + 1)]
  /\ CopyKeys(x, n) \subseteq Delivery
  /\ CopyKeys(x, n) \cap Existing(prefix, nextOccurrence) = {}
  /\ Existing(prefix, next) = Existing(prefix, nextOccurrence) \cup CopyKeys(x, n)

LEMMA CopiesExtend ==
  ASSUME PlanInv, NEW t \in Delivery, NEW n \in 1..MaxCopies,
         NEW x, x.target = t, x.first = nextOccurrence[t[1]],
         Resolves(t), Affordable(t, n),
         NEW next, next = [nextOccurrence EXCEPT ![t[1]] = @ + n]
  PROVE  CopiesAreNew(x, n, next)
<1>1. /\ t[1] \in 0..MaxPrefix /\ t[2] \in 0..MaxOccurrence
      /\ prefix \in 0..MaxPrefix /\ t[1] < prefix
      /\ nextOccurrence \in [Source -> 1..(MaxOccurrence + 1)]
  BY DEF PlanInv, Delivery, Resolves
<1>2. t[1] \in Source
  BY <1>1, ConstantsAre DEF Source
<1>3. /\ x.first \in 1..(MaxOccurrence + 1) /\ x.first + n <= MaxOccurrence + 1
      /\ n \in Nat /\ n >= 1
  BY <1>1, <1>2, ConstantsAre DEF Affordable
<1>4. x.first \in 1..MaxOccurrence /\ n \in 1..MaxOccurrence
  BY <1>3, ConstantsAre
<1>5. next \in [Source -> 1..(MaxOccurrence + 1)]
  BY <1>1, <1>2, <1>3, ConstantsAre
<1>6. \A d : d \in CopyKeys(x, n) <=> \E k \in 1..n : d = <<t[1], x.first + k - 1>>
  BY DEF CopyKeys, CopyKey
<1>7. ASSUME NEW d \in CopyKeys(x, n)
      PROVE  /\ d \in Delivery /\ d[1] = t[1] /\ d[2] >= x.first /\ d[2] < x.first + n
  <2>1. PICK k \in 1..n : d = <<t[1], x.first + k - 1>>
    BY <1>6
  <2>2. x.first + k - 1 \in 0..MaxOccurrence
    BY <1>3, ConstantsAre
  <2> QED BY <1>1, <1>3, <2>1, <2>2 DEF Delivery
<1>8. ASSUME NEW d \in Delivery, d[1] = t[1], d[2] >= x.first, d[2] < x.first + n
      PROVE  d \in CopyKeys(x, n)
  <2>1. d = <<t[1], d[2]>> /\ d[2] \in Nat
    BY <1>8, ConstantsAre DEF Delivery
  <2>2. (d[2] - x.first) + 1 \in 1..n /\ x.first + ((d[2] - x.first) + 1) - 1 = d[2]
    BY <1>3, <1>8, <2>1
  <2> QED BY <1>6, <2>1, <2>2
<1>9. CopyKeys(x, n) \cap Existing(prefix, nextOccurrence) = {}
  <2> SUFFICES ASSUME NEW d \in CopyKeys(x, n), d \in Existing(prefix, nextOccurrence)
               PROVE  FALSE
    OBVIOUS
  <2>1. d[2] \in Int /\ d[2] >= x.first /\ d[2] < x.first
    BY <1>7, ConstantsAre DEF Existing, Delivery
  <2> QED BY <1>3, <2>1
<1>10. ASSUME NEW d \in Delivery
       PROVE  d \in Existing(prefix, next) <=>
                d \in Existing(prefix, nextOccurrence) \/ d \in CopyKeys(x, n)
  <2>1. d[1] \in Nat /\ d[2] \in Nat
    BY ConstantsAre DEF Delivery
  <2>2. d \in Existing(prefix, next) <=> d[1] < prefix /\ d[2] < next[d[1]]
    BY DEF Existing
  <2>3. d \in Existing(prefix, nextOccurrence) <=> d[1] < prefix /\ d[2] < nextOccurrence[d[1]]
    BY DEF Existing
  <2>4. CASE d[1] = t[1]
    <3>1. next[d[1]] = x.first + n /\ nextOccurrence[d[1]] = x.first
      BY <1>1, <1>2, <2>4
    <3>2. d \in CopyKeys(x, n) <=> d[2] >= x.first /\ d[2] < x.first + n
      BY <1>7, <1>8, <2>4
    <3> QED BY <1>1, <1>3, <2>1, <2>2, <2>3, <2>4, <3>1, <3>2
  <2>5. CASE d[1] # t[1]
    <3>1. d \notin CopyKeys(x, n)
      BY <1>7, <2>5
    <3>2. d[1] < prefix => d[1] \in Source
      BY <1>1, <2>1, ConstantsAre DEF Source
    <3>3. d[1] < prefix => next[d[1]] = nextOccurrence[d[1]]
      BY <1>1, <2>5, <3>2
    <3> QED BY <2>2, <2>3, <3>1, <3>3
  <2> QED BY <2>4, <2>5
<1>11. Existing(prefix, next) = Existing(prefix, nextOccurrence) \cup CopyKeys(x, n)
  <2>1. Existing(prefix, next) \subseteq Delivery
        /\ Existing(prefix, nextOccurrence) \subseteq Delivery
    BY DEF Existing
  <2> QED BY <1>7, <1>10, <2>1
<1> QED BY <1>4, <1>5, <1>7, <1>9, <1>11 DEF CopiesAreNew

LEMMA DuplicateIsPlanned ==
  ASSUME ScheduleInv, NEW t \in Delivery, NEW n \in 1..MaxCopies, PlanDuplicate(t, n)
  PROVE  ScheduleInv'
<1> DEFINE x == [kind |-> "duplicate", target |-> t, first |-> nextOccurrence[t[1]],
                 copies |-> n]
           E == Existing(prefix, nextOccurrence)
<1> USE DEF ScheduleInv
<1>1. /\ plan' = Append(plan, x) /\ removed' = removed
      /\ nextOccurrence' = [nextOccurrence EXCEPT ![t[1]] = @ + n]
      /\ allocated' = allocated + n
      /\ UNCHANGED <<phase, prefix, executed, arena, deliveries>>
      /\ phase = "planning" /\ Len(plan) < MaxFaultActions
      /\ Resolves(t) /\ Affordable(t, n)
  BY DEF PlanDuplicate, Plans, Planning
<1>2. t \in E \ removed
  BY <1>1, ResolvesIs
<1>3. /\ x.kind = "duplicate" /\ x.target = t /\ x.first = nextOccurrence[t[1]]
      /\ x.copies = n
  OBVIOUS
<1>4. /\ x.first \in 1..MaxOccurrence /\ n \in 1..MaxOccurrence
      /\ nextOccurrence' \in [Source -> 1..(MaxOccurrence + 1)]
      /\ CopyKeys(x, n) \subseteq Delivery
      /\ CopyKeys(x, n) \cap E = {}
      /\ Existing(prefix, nextOccurrence') = E \cup CopyKeys(x, n)
  <2>1. /\ x.kind = "duplicate" /\ x.target = t /\ x.first = nextOccurrence[t[1]]
        /\ x.copies = n /\ Resolves(t) /\ Affordable(t, n)
        /\ nextOccurrence' = [nextOccurrence EXCEPT ![t[1]] = @ + n]
    BY <1>1, <1>3
  <2>2. PlanInv
    OBVIOUS
  <2> HIDE DEF x
  <2>3. ASSUME NEW next, next = [nextOccurrence EXCEPT ![t[1]] = @ + n]
        PROVE  CopiesAreNew(x, n, next)
    BY <2>1, <2>2, <2>3, CopiesExtend
  <2>4. CopiesAreNew(x, n, nextOccurrence')
    BY <2>1, <2>3
  <2> QED BY <2>4 DEF CopiesAreNew
<1>5. x \in PlannedAction
  BY <1>4 DEF PlannedAction
<1>6. /\ plan \in Seq(PlannedAction) /\ Len(plan) \in Nat
      /\ Created(prefix, plan, Len(plan)) = E /\ Removed(plan, Len(plan)) = removed
      /\ removed \subseteq E /\ PlanSound(prefix, plan)
      /\ IsFiniteSet(E) /\ Cardinality(E) = allocated
  BY DEF PlanInv
<1> HIDE DEF x, E
<1>7. /\ plan' \in Seq(PlannedAction) /\ Len(plan') = Len(plan) + 1
      /\ plan'[Len(plan) + 1] = x
  BY <1>1, <1>5, <1>6
<1>8. PlanSound(prefix, plan')
  BY <1>1, <1>2, <1>3, <1>4, <1>5, <1>6, PlanExtends
<1>9. /\ Created(prefix, plan', Len(plan')) = Existing(prefix, nextOccurrence')
      /\ Removed(plan', Len(plan')) = removed'
  <2>1. /\ Created(prefix, plan', Len(plan)) = Created(prefix, plan, Len(plan))
        /\ Removed(plan', Len(plan)) = Removed(plan, Len(plan))
    BY <1>1, <1>5, <1>6, EarlierActions
  <2>2. /\ Created(prefix, plan', Len(plan) + 1)
              = Created(prefix, plan', Len(plan)) \cup CopyKeys(x, n)
        /\ Removed(plan', Len(plan) + 1) = Removed(plan', Len(plan)) \cup {}
    <3> DEFINE b == plan'
               k == Len(plan)
    <3>1. b[k + 1].kind = "duplicate" /\ b[k + 1] = x /\ b[k + 1].copies = n /\ k \in Nat
      BY <1>3, <1>6, <1>7
    <3>0. k \in Nat
      BY <3>1
    <3> HIDE DEF b, k
    <3>2. ActionAdds(prefix, b, k)
      BY <3>0, NextAction
    <3> QED BY <3>1, <3>2 DEF b, k, ActionAdds, CreatedBy, RemovedBy
  <2> QED BY <1>1, <1>4, <1>6, <1>7, <2>1, <2>2
<1>10. /\ IsFiniteSet(Existing(prefix, nextOccurrence'))
       /\ Cardinality(Existing(prefix, nextOccurrence')) = allocated'
  <2>1. IsFiniteSet(CopyKeys(x, n)) /\ Cardinality(CopyKeys(x, n)) = n
    BY <1>4, CopiesAre
  <2>2. /\ IsFiniteSet(E \cup CopyKeys(x, n))
        /\ Cardinality(E \cup CopyKeys(x, n))
             = Cardinality(E) + Cardinality(CopyKeys(x, n)) - Cardinality(E \cap CopyKeys(x, n))
    BY <1>6, <2>1, FS_Union
  <2>3. E \cap CopyKeys(x, n) = {} /\ Cardinality({}) = 0
    BY <1>4, FS_EmptySet
  <2>4. Cardinality(E) \in Nat /\ n \in Nat
    BY <1>6, FS_CardinalityType
  <2>5. Cardinality(E \cap CopyKeys(x, n)) = 0
    BY <2>3
  <2>6. Cardinality(E \cup CopyKeys(x, n)) = allocated + n
    BY <1>6, <2>1, <2>2, <2>4, <2>5
  <2>7. Existing(prefix, nextOccurrence') = E \cup CopyKeys(x, n)
        /\ allocated' = allocated + n
    BY <1>1, <1>4
  <2> QED BY <2>2, <2>6, <2>7
<1>11. allocated' <= MaxOccurrences /\ allocated' \in Nat
  BY <1>1, <1>10, FS_CardinalityType DEF Affordable
<1>12. /\ Len(plan') <= MaxFaultActions /\ executed' \in 0..Len(plan')
       /\ removed' \subseteq Existing(prefix, nextOccurrence')
  <2>1. executed \in 0..Len(plan) /\ Len(plan) < MaxFaultActions
    BY <1>1 DEF PlanInv
  <2>2. Len(plan') <= MaxFaultActions /\ executed' \in 0..Len(plan')
    BY <1>1, <1>6, <1>7, <2>1, ConstantsAre
  <2> QED BY <1>1, <1>4, <1>6, <2>2
<1>13. PlanInv'
  BY <1>1, <1>4, <1>7, <1>8, <1>9, <1>10, <1>11, <1>12 DEF PlanInv
<1> QED BY <1>1, <1>13 DEF ArenaInv

-----------------------------------------------------------------------------
(* Building.                                                               *)
LEMMA NewArenaIs ==
  ASSUME NEW n \in 0..MaxPrefix
  PROVE  LET s == [k \in 1..n |-> k]
         IN  /\ NewArena(n) \in Arena
             /\ Holds(NewArena(n), Originals(n), {})
             /\ Listed(NewArena(n), s, n)
             /\ Keys(NewArena(n), s, n) = [k \in 1..n |-> <<k - 1, 0>>]
<1> DEFINE f == [i \in 1..n |-> [key |-> <<i - 1, 0>>, prev |-> i - 1,
                                 next |-> IF i = n THEN None ELSE i + 1, live |-> TRUE]]
           l == NewArena(n)
           s == [k \in 1..n |-> k]
<1>1. n \in Nat /\ None = 0 /\ n <= MaxPrefix
  BY ConstantsAre DEF None
<1>2. ASSUME NEW i \in 1..n
      PROVE  /\ f[i] \in Node
             /\ f[i].key = <<i - 1, 0>> /\ f[i].prev = i - 1 /\ f[i].live
             /\ f[i].next = IF i = n THEN None ELSE i + 1
  <2>1. <<i - 1, 0>> \in Delivery
    BY <1>1, ConstantsAre DEF Delivery
  <2>2. i - 1 \in Nat /\ (IF i = n THEN None ELSE i + 1) \in Nat
    BY <1>1
  <2> QED BY <2>1, <2>2 DEF Node
<1>3. f \in [1..n -> Node]
  BY <1>2
<1>4. l = [nodes |-> f, head |-> IF n = 0 THEN None ELSE 1, tail |-> n]
  BY DEF NewArena
<1> HIDE DEF f, l
<1>5. f \in Seq(Node) /\ Len(f) = n /\ DOMAIN f = 1..n
  BY <1>1, <1>3, SequenceOfNodes
<1>6. /\ l \in Arena /\ Nodes(l) = 1..n /\ l.nodes = f
      /\ l.head = (IF n = 0 THEN None ELSE 1) /\ l.tail = n
  BY <1>1, <1>4, <1>5 DEF Arena, Nodes
<1>7. Holds(l, Originals(n), {})
  <2>1. \A i, j \in Nodes(l) : l.nodes[i].key = l.nodes[j].key => i = j
    BY <1>2, <1>6
  <2>2. {l.nodes[i].key : i \in Nodes(l)} = Originals(n)
    <3>1. \A i \in Nodes(l) : i \in 1..n /\ l.nodes[i].key = <<i - 1, 0>>
      BY <1>2, <1>6
    <3>2. \A i \in 1..n : i \in Nodes(l)
      BY <1>6
    <3> QED BY <3>1, <3>2 DEF Originals
  <2> QED BY <1>2, <1>6, <2>1, <2>2 DEF Holds
<1>8. \A k \in 1..n : s[k] = k
  OBVIOUS
<1>9. Linked(l, s, n)
  <2>1. s \in [1..n -> Nodes(l)]
    BY <1>6
  <2>2. \A k \in 1..n : /\ l.nodes[s[k]].prev = IF k = 1 THEN None ELSE s[k - 1]
                        /\ l.nodes[s[k]].next = IF k = n THEN None ELSE s[k + 1]
    <3> SUFFICES ASSUME NEW k \in 1..n
                 PROVE  /\ l.nodes[s[k]].prev = IF k = 1 THEN None ELSE s[k - 1]
                        /\ l.nodes[s[k]].next = IF k = n THEN None ELSE s[k + 1]
      OBVIOUS
    <3>1. s[k] = k /\ (k # 1 => s[k - 1] = k - 1) /\ (k # n => s[k + 1] = k + 1)
      BY <1>1
    <3> HIDE DEF s
    <3> QED BY <1>1, <1>2, <1>6, <3>1
  <2>3. l.head = (IF n = 0 THEN None ELSE s[1]) /\ l.tail = IF n = 0 THEN None ELSE s[n]
    BY <1>1, <1>6
  <2>4. \A i \in Nodes(l) : ~ \A k \in 1..n : s[k] # i
    BY <1>6
  <2> HIDE DEF s
  <2> QED BY <1>1, <1>8, <2>1, <2>2, <2>3, <2>4 DEF Linked
<1>10. Live(l) = {s[k] : k \in 1..n}
  BY <1>2, <1>6 DEF Live
<1>11. Keys(l, s, n) = [k \in 1..n |-> <<k - 1, 0>>]
  BY <1>2, <1>6 DEF Keys
<1> QED BY <1>6, <1>7, <1>9, <1>10, <1>11 DEF Listed, l

(* The edits keep the spared sources in order.                             *)
LEMMA LessInOrder ==
  ASSUME NEW a, NEW w, NEW m \in Nat, NEW p \in 1..m, InOrder(a, w, m)
  PROVE  InOrder(a, Less(w, m, p), m - 1)
<1> DEFINE r == Less(w, m, p)
<1>1. \A k \in 1..(m - 1) : r[k] = w[IF k < p THEN k ELSE k + 1]
  BY DEF Less
<1> HIDE DEF r
<1> SUFFICES ASSUME NEW i \in 1..(m - 1), NEW j \in 1..(m - 1), i < j,
                    Spared(a, r[i][1]), Spared(a, r[j][1])
             PROVE  r[i][1] < r[j][1]
  BY DEF InOrder, r
<1> DEFINE i2 == IF i < p THEN i ELSE i + 1
           j2 == IF j < p THEN j ELSE j + 1
<1>2. i2 \in 1..m /\ j2 \in 1..m /\ i2 < j2 /\ r[i] = w[i2] /\ r[j] = w[j2]
  BY <1>1
<1> HIDE DEF i2, j2
<1> QED BY <1>2 DEF InOrder

LEMMA InsertedInOrder ==
  ASSUME NEW a, NEW w, NEW m \in Nat, NEW p \in 1..m, InOrder(a, w, m),
         NEW x, NEW c \in Nat, ~Spared(a, x.target[1])
  PROVE  InOrder(a, Inserted(w, m, p, x, c), m + c)
<1> DEFINE r == Inserted(w, m, p, x, c)
           place(k) == IF k <= p THEN k ELSE k - c
<1>1. \A k \in 1..(m + c) : r[k] = IF k <= p THEN w[k]
                                   ELSE IF k <= p + c THEN CopyKey(x, k - p) ELSE w[k - c]
  BY DEF Inserted
<1> HIDE DEF r
<1>2. ASSUME NEW k \in 1..(m + c), Spared(a, r[k][1])
      PROVE  (k <= p \/ k > p + c) /\ place(k) \in 1..m /\ r[k] = w[place(k)]
  <2>1. k <= p \/ k > p + c
    <3> SUFFICES ASSUME k > p, k <= p + c PROVE FALSE
      OBVIOUS
    <3>1. r[k] = CopyKey(x, k - p)
      BY <1>1
    <3>2. r[k][1] = x.target[1]
      BY <3>1 DEF CopyKey
    <3> QED BY <1>2, <3>2
  <2> QED BY <1>1, <2>1
<1> SUFFICES ASSUME NEW i \in 1..(m + c), NEW j \in 1..(m + c), i < j,
                    Spared(a, r[i][1]), Spared(a, r[j][1])
             PROVE  r[i][1] < r[j][1]
  BY DEF InOrder, r
<1>3. /\ place(i) \in 1..m /\ place(j) \in 1..m
      /\ r[i] = w[place(i)] /\ r[j] = w[place(j)]
  BY <1>2
<1>4. place(i) < place(j)
  <2>1. (i <= p \/ i > p + c) /\ (j <= p \/ j > p + c)
    BY <1>2
  <2> QED BY <2>1
<1> HIDE DEF place
<1> QED BY <1>3, <1>4 DEF InOrder

LEMMA ShiftedInOrder ==
  ASSUME NEW a, NEW w, NEW m \in Nat, NEW p \in 1..m, NEW q \in 1..m, p # q,
         DOMAIN w = 1..m, InOrder(a, w, m), ~Spared(a, w[p][1])
  PROVE  InOrder(a, Shifted(w, m, p, q), m)
<1> DEFINE r == Shifted(w, m, p, q)
           place(k) == IF q < p THEN IF k < q THEN k ELSE IF k = q THEN p
                                     ELSE IF k <= p THEN k - 1 ELSE k
                       ELSE IF k < p THEN k ELSE IF k < q - 1 THEN k + 1
                            ELSE IF k = q - 1 THEN p ELSE k
<1>1. \A k \in 1..m : r[k] = AfterShift(w, p, q, k)
  BY ShiftedIs
<1> HIDE DEF r
<1>2. \A k \in 1..m : place(k) \in 1..m /\ r[k] = w[place(k)]
  BY <1>1 DEF AfterShift
<1> SUFFICES ASSUME NEW i \in 1..m, NEW j \in 1..m, i < j,
                    Spared(a, r[i][1]), Spared(a, r[j][1])
             PROVE  r[i][1] < r[j][1]
  BY DEF InOrder, r
<1>3. /\ place(i) \in 1..m /\ place(j) \in 1..m
      /\ r[i] = w[place(i)] /\ r[j] = w[place(j)]
  BY <1>2
<1>4. place(i) # p /\ place(j) # p
  BY <1>3
<1>5. place(i) < place(j)
  BY <1>4
<1> HIDE DEF place
<1> QED BY <1>3, <1>5 DEF InOrder

-----------------------------------------------------------------------------
(* What the walk of a sound arena is.                                      *)
LEMMA SoundWalk ==
  ASSUME NEW l, NEW n, NEW a, NEW k, Sound(l, n, a, k)
  PROVE  LET w == Walk(l)
             there == Created(n, a, k) \ Removed(a, k)
         IN  /\ Len(w) \in Nat /\ w \in Seq(there) /\ DOMAIN w = 1..Len(w)
             /\ \A i, j \in 1..Len(w) : w[i] = w[j] => i = j
             /\ \A d \in there : \E i \in 1..Len(w) : w[i] = d
             /\ InOrder(a, w, Len(w))
             /\ Walkable(l)
             /\ IsFiniteSet(there) /\ Cardinality(there) = Len(w)
             /\ \E s : Listed(l, s, Len(w)) /\ w = Keys(l, s, Len(w))
<1> DEFINE there == Created(n, a, k) \ Removed(a, k)
<1>1. l \in Arena /\ Holds(l, Created(n, a, k), Removed(a, k))
  BY DEF Sound
<1>2. PICK s, m : Listed(l, s, m) /\ InOrder(a, Keys(l, s, m), m)
  BY DEF Sound
<1>3. Walkable(l) /\ Walk(l) = Keys(l, s, m)
  BY <1>1, <1>2, WalkIsList
<1>4. /\ m \in Nat /\ s \in [1..m -> Nodes(l)]
      /\ \A i, j \in 1..m : s[i] = s[j] => i = j
      /\ Live(l) = {s[i] : i \in 1..m}
  BY <1>2 DEF Listed, Linked
<1> DEFINE w == Keys(l, s, m)
<1>5. /\ w = [i \in 1..m |-> l.nodes[s[i]].key]
      /\ \A i \in 1..m : w[i] = l.nodes[s[i]].key
  BY DEF Keys
<1> HIDE DEF w
<1>6. \A i \in 1..m : w[i] \in there
  BY <1>1, <1>4, <1>5 DEF Holds, Live
<1>7. w \in [1..m -> there]
  BY <1>5, <1>6
<1>8. \A i, j \in 1..m : w[i] = w[j] => i = j
  BY <1>1, <1>4, <1>5 DEF Holds
<1>9. ASSUME NEW d \in there PROVE \E i \in 1..m : w[i] = d
  <2>1. PICK x \in Nodes(l) : l.nodes[x].key = d
    BY <1>1 DEF Holds
  <2>2. x \in Live(l)
    BY <1>1, <2>1 DEF Holds, Live
  <2>3. PICK i \in 1..m : s[i] = x
    BY <1>4, <2>2
  <2> QED BY <1>5, <2>1, <2>3
<1> HIDE DEF there
<1>10. IsFiniteSet(there) /\ Cardinality(there) = m
  BY <1>4, <1>7, <1>8, <1>9, ListCounts
<1>11. Len(w) = m /\ w \in Seq(there) /\ DOMAIN w = 1..m
  BY <1>4, <1>7
<1>12. InOrder(a, w, m) /\ Listed(l, s, m)
  BY <1>2 DEF w
<1>13. Walk(l) = w
  BY <1>3 DEF w
<1>14. Listed(l, s, Len(w)) /\ w = Keys(l, s, Len(w))
  BY <1>11, <1>12 DEF w
<1> QED BY <1>3, <1>4, <1>8, <1>9, <1>10, <1>11, <1>12, <1>13, <1>14 DEF there

LEMMA WalkOfList ==
  ASSUME NEW l \in Arena, NEW s, NEW m, Listed(l, s, m)
  PROVE  Walk(l) = Keys(l, s, m) /\ m \in Nat
<1>1. Walk(l) = Keys(l, s, m)
  BY WalkIsList
<1> QED BY <1>1 DEF Listed, Linked

LEMMA DropStep ==
  ASSUME NEW l, NEW n, NEW a, NEW k \in Nat, Sound(l, n, a, k), k < Len(a), Len(a) \in Nat,
         Resolved(n, a, k + 1), a[k + 1].kind = "drop"
  PROVE  LET i == LiveIndex(l, a[k + 1].target)
             w == Walk(l)
         IN  /\ i # None
             /\ Sound(Dropped(l, i), n, a, k + 1)
             /\ \E p \in 1..Len(w) : /\ w[p] = a[k + 1].target
                                     /\ Walk(Dropped(l, i)) = Less(w, Len(w), p)
<1> DEFINE d == a[k + 1].target
           i == LiveIndex(l, d)
           w == Walk(l)
           C == Created(n, a, k)
           R == Removed(a, k)
           m == Dropped(l, i)
<1>1. d \in C \ R
  <2>1. (k + 1) - 1 = k
    OBVIOUS
  <2> QED BY <2>1 DEF Resolved
<1>2. Created(n, a, k + 1) = C /\ Removed(a, k + 1) = R \cup {d}
  <2>1. /\ Created(n, a, k + 1) = Created(n, a, k) \cup CreatedBy(a[k + 1])
        /\ Removed(a, k + 1) = Removed(a, k) \cup RemovedBy(a[k + 1])
    <3>1. ActionAdds(n, a, k)
      BY NextAction
    <3> QED BY <3>1 DEF ActionAdds
  <2> QED BY <2>1 DEF CreatedBy, RemovedBy
<1>3. l \in Arena /\ Holds(l, C, R)
  BY DEF Sound
<1>4. PICK s : Listed(l, s, Len(w)) /\ w = Keys(l, s, Len(w))
  BY SoundWalk
<1>5. Len(w) \in Nat /\ InOrder(a, w, Len(w))
  BY SoundWalk
<1> HIDE DEF C, R, w, d, i
<1>6. i # None
  BY <1>1, <1>3, LiveIndexFinds DEF i
<1>7. Drops(l, C, R, d, s, Len(w))
  BY <1>1, <1>3, <1>4, DropEdits
<1>12. PICK p \in 1..Len(w) : /\ l.nodes[s[p]].key = d
                              /\ m \in Arena
                              /\ Holds(m, C, R \cup {d})
                              /\ Listed(m, Less(s, Len(w), p), Len(w) - 1)
                              /\ Keys(m, Less(s, Len(w), p), Len(w) - 1) = Less(w, Len(w), p)
  BY <1>4, <1>7 DEF Drops, i
<1>8. w[p] = d
  <2>1. Keys(l, s, Len(w))[p] = l.nodes[s[p]].key
    BY DEF Keys
  <2> QED BY <1>4, <1>12, <2>1
<1>9. Walk(m) = Less(w, Len(w), p)
  BY <1>4, <1>12, WalkOfList
<1>10. InOrder(a, Less(w, Len(w), p), Len(w) - 1)
  BY <1>5, LessInOrder
<1>11. Sound(m, n, a, k + 1)
  <2>1. InOrder(a, Keys(m, Less(s, Len(w), p), Len(w) - 1), Len(w) - 1)
    BY <1>4, <1>12, <1>10
  <2> QED BY <1>2, <1>12, <2>1 DEF Sound
<1> QED BY <1>6, <1>8, <1>9, <1>11 DEF w, d, i

LEMMA CopyStep ==
  ASSUME NEW l, NEW n, NEW a, NEW k \in Nat, Sound(l, n, a, k), k < Len(a), Len(a) \in Nat,
         Resolved(n, a, k + 1), a[k + 1].kind = "duplicate",
         a[k + 1].copies \in Nat, a[k + 1].first \in Nat
  PROVE  LET x == a[k + 1]
             i == LiveIndex(l, x.target)
             m == WithCopies(l, i, x)
             w == Walk(l)
         IN  /\ i # None
             /\ \A j \in 1..x.copies, y \in Nodes(l) : l.nodes[y].key # CopyKey(x, j)
             /\ Sound(m, n, a, k + 1)
             /\ \E p \in 1..Len(w) : /\ w[p] = x.target
                                     /\ Walk(m) = Inserted(w, Len(w), p, x, x.copies)
<1> DEFINE x == a[k + 1]
           i == LiveIndex(l, x.target)
           w == Walk(l)
           C == Created(n, a, k)
           R == Removed(a, k)
           m == WithCopies(l, i, x)
           new == CopyKeys(x, x.copies)
<1>1. x.target \in C \ R /\ new \subseteq Delivery /\ new \cap (C \cup R) = {}
  <2>1. (k + 1) - 1 = k
    OBVIOUS
  <2> QED BY <2>1 DEF Resolved
<1>2. Created(n, a, k + 1) = C \cup new /\ Removed(a, k + 1) = R
  <2>1. /\ Created(n, a, k + 1) = Created(n, a, k) \cup CreatedBy(a[k + 1])
        /\ Removed(a, k + 1) = Removed(a, k) \cup RemovedBy(a[k + 1])
    <3>1. ActionAdds(n, a, k)
      BY NextAction
    <3> QED BY <3>1 DEF ActionAdds
  <2> QED BY <2>1 DEF CreatedBy, RemovedBy
<1>3. l \in Arena /\ Holds(l, C, R)
  BY DEF Sound
<1>4. PICK s : Listed(l, s, Len(w)) /\ w = Keys(l, s, Len(w))
  BY SoundWalk
<1>5. Len(w) \in Nat /\ InOrder(a, w, Len(w))
  BY SoundWalk
<1>6. x.copies \in Nat /\ x.first \in Nat
  OBVIOUS
<1>7. ~Spared(a, x.target[1])
  BY DEF Spared
<1> HIDE DEF C, R, w, x
<1>8. \A j \in 1..x.copies : /\ CopyKey(x, j) \in Delivery
                             /\ CopyKey(x, j) \notin C /\ CopyKey(x, j) \notin R
  BY <1>1 DEF CopyKeys
<1>9. i # None
  BY <1>1, <1>3, LiveIndexFinds
<1>10. \A j \in 1..x.copies, y \in Nodes(l) : l.nodes[y].key # CopyKey(x, j)
  BY <1>3, <1>8 DEF Holds
<1>11. Duplicates(l, C, R, x, s, Len(w))
  BY <1>1, <1>3, <1>4, <1>6, <1>8, CopyEdits
<1>place. PICK p \in 1..Len(w) :
         \E r :
           /\ l.nodes[s[p]].key = x.target
           /\ m \in Arena
           /\ Holds(m, C \cup new, R)
           /\ Listed(m, r, Len(w) + x.copies)
           /\ Keys(m, r, Len(w) + x.copies) = Inserted(w, Len(w), p, x, x.copies)
  BY <1>4, <1>11 DEF Duplicates
<1>12. PICK r :
         /\ l.nodes[s[p]].key = x.target
         /\ m \in Arena
         /\ Holds(m, C \cup new, R)
         /\ Listed(m, r, Len(w) + x.copies)
         /\ Keys(m, r, Len(w) + x.copies) = Inserted(w, Len(w), p, x, x.copies)
  BY <1>place
<1>13. w[p] = x.target
  <2>1. Keys(l, s, Len(w))[p] = l.nodes[s[p]].key
    BY DEF Keys
  <2> QED BY <1>4, <1>12, <2>1
<1>14. Walk(m) = Inserted(w, Len(w), p, x, x.copies)
  BY <1>12, WalkOfList
<1>15. InOrder(a, Inserted(w, Len(w), p, x, x.copies), Len(w) + x.copies)
  BY <1>5, <1>6, <1>7, InsertedInOrder
<1>16. Sound(m, n, a, k + 1)
  BY <1>2, <1>12, <1>15 DEF Sound
<1> QED BY <1>9, <1>10, <1>13, <1>14, <1>16 DEF w, x

LEMMA MoveStep ==
  ASSUME NEW l, NEW n, NEW a, NEW k \in Nat, Sound(l, n, a, k), k < Len(a), Len(a) \in Nat,
         Resolved(n, a, k + 1), a[k + 1].kind = "move"
  PROVE  LET t == LiveIndex(l, a[k + 1].target)
             b == LiveIndex(l, a[k + 1].anchor)
             m == MoveBefore(l, t, b)
             w == Walk(l)
         IN  /\ t # None /\ b # None /\ t # b
             /\ Sound(m, n, a, k + 1)
             /\ \E p, q \in 1..Len(w) :
                  /\ p # q /\ w[p] = a[k + 1].target /\ w[q] = a[k + 1].anchor
                  /\ Walk(m) = Shifted(w, Len(w), p, q)
<1> DEFINE d == a[k + 1].target
           e == a[k + 1].anchor
           t == LiveIndex(l, d)
           b == LiveIndex(l, e)
           m == MoveBefore(l, t, b)
           w == Walk(l)
           C == Created(n, a, k)
           R == Removed(a, k)
<1>1. d \in C \ R /\ e \in C \ R /\ d # e
  <2>1. (k + 1) - 1 = k
    OBVIOUS
  <2> QED BY <2>1 DEF Resolved
<1>2. Created(n, a, k + 1) = C /\ Removed(a, k + 1) = R
  <2>1. /\ Created(n, a, k + 1) = Created(n, a, k) \cup CreatedBy(a[k + 1])
        /\ Removed(a, k + 1) = Removed(a, k) \cup RemovedBy(a[k + 1])
    <3>1. ActionAdds(n, a, k)
      BY NextAction
    <3> QED BY <3>1 DEF ActionAdds
  <2> QED BY <2>1 DEF CreatedBy, RemovedBy
<1>3. l \in Arena /\ Holds(l, C, R)
  BY DEF Sound
<1>4. PICK s : Listed(l, s, Len(w)) /\ w = Keys(l, s, Len(w))
  BY SoundWalk
<1>5. Len(w) \in Nat /\ InOrder(a, w, Len(w)) /\ DOMAIN w = 1..Len(w)
  BY SoundWalk
<1>6. ~Spared(a, d[1])
  BY DEF Spared
<1> HIDE DEF C, R, w, d, e
<1>7. t # None /\ b # None
  BY <1>1, <1>3, LiveIndexFinds
<1>8. /\ t # b
      /\ \E p, q \in 1..Len(w) :
           LET z == MoveBefore(l, LiveIndex(l, d), LiveIndex(l, e))
               r == Shifted(s, Len(w), p, q)
           IN  /\ p # q /\ l.nodes[s[p]].key = d /\ l.nodes[s[q]].key = e
               /\ z \in Arena
               /\ Holds(z, C, R)
               /\ Listed(z, r, Len(w))
               /\ Keys(z, r, Len(w)) = Shifted(Keys(l, s, Len(w)), Len(w), p, q)
  BY <1>1, <1>3, <1>4, MoveEdits
<1>9. PICK p \in 1..Len(w), q \in 1..Len(w) :
        /\ p # q /\ l.nodes[s[p]].key = d /\ l.nodes[s[q]].key = e
        /\ m \in Arena
        /\ Holds(m, C, R)
        /\ Listed(m, Shifted(s, Len(w), p, q), Len(w))
        /\ Keys(m, Shifted(s, Len(w), p, q), Len(w)) = Shifted(w, Len(w), p, q)
  BY <1>4, <1>8
<1>10. w[p] = d /\ w[q] = e
  <2>1. /\ Keys(l, s, Len(w))[p] = l.nodes[s[p]].key
        /\ Keys(l, s, Len(w))[q] = l.nodes[s[q]].key
    BY DEF Keys
  <2> QED BY <1>4, <1>9, <2>1
<1>11. Walk(m) = Shifted(w, Len(w), p, q)
  BY <1>9, WalkOfList
<1>12. InOrder(a, Shifted(w, Len(w), p, q), Len(w))
  BY <1>5, <1>6, <1>9, <1>10, ShiftedInOrder
<1>13. Sound(m, n, a, k + 1)
  BY <1>2, <1>9, <1>12 DEF Sound
<1> QED BY <1>7, <1>8, <1>9, <1>10, <1>11, <1>13 DEF w, d, e

-----------------------------------------------------------------------------
(* The invariant is inductive.                                             *)
LEMMA BuildKeeps ==
  ASSUME ScheduleInv, Build
  PROVE  ScheduleInv'
<1> USE DEF ScheduleInv
<1>1. /\ phase = "planning" /\ prefix <= MaxOccurrences
      /\ phase' = (IF allocated <= MaxOccurrences THEN "building" ELSE "broken")
      /\ arena' = NewArena(prefix)
      /\ UNCHANGED <<prefix, nextOccurrence, removed, allocated, plan, executed, deliveries>>
  BY DEF Build, Acceptable
<1>2. allocated <= MaxOccurrences /\ prefix \in 0..MaxPrefix /\ executed = 0
  BY <1>1 DEF PlanInv, ArenaInv
<1>3. phase' = "building"
  BY <1>1, <1>2
<1>4. Created(prefix, plan, 0) = Originals(prefix) /\ Removed(plan, 0) = {}
  BY DEF Created, Copied, Removed
<1> DEFINE s == [k \in 1..prefix |-> k]
           w == [k \in 1..prefix |-> <<k - 1, 0>>]
<1>5. /\ NewArena(prefix) \in Arena
      /\ Holds(NewArena(prefix), Originals(prefix), {})
      /\ Listed(NewArena(prefix), s, prefix)
      /\ Keys(NewArena(prefix), s, prefix) = w
  BY <1>2, NewArenaIs
<1>6. InOrder(plan, w, prefix)
  <2>1. \A k \in 1..prefix : w[k][1] = k - 1
    OBVIOUS
  <2>2. prefix \in Nat
    BY <1>2, ConstantsAre
  <2> HIDE DEF w
  <2> QED BY <2>1, <2>2 DEF InOrder
<1> HIDE DEF s, w
<1>7. Sound(NewArena(prefix), prefix, plan, 0)
  BY <1>4, <1>5, <1>6 DEF Sound
<1>8. PlanInv'
  BY <1>1, <1>3 DEF PlanInv
<1>9. ArenaInv'
  BY <1>1, <1>2, <1>3, <1>7 DEF ArenaInv
<1> QED BY <1>8, <1>9

(* The action about to be executed.                                        *)
LEMMA ActionIs ==
  ASSUME ScheduleInv, phase = "building", executed < Len(plan)
  PROVE  /\ executed \in Nat /\ Len(plan) \in Nat
         /\ plan[executed + 1] \in PlannedAction
         /\ Resolved(prefix, plan, executed + 1)
         /\ Sound(arena, prefix, plan, executed)
         /\ allocated <= MaxOccurrences
<1>1. plan \in Seq(PlannedAction) /\ executed \in 0..Len(plan) /\ PlanSound(prefix, plan)
  BY DEF ScheduleInv, PlanInv
<1>2. executed + 1 \in 1..Len(plan) /\ executed \in Nat /\ Len(plan) \in Nat
  BY <1>1
<1>3. Sound(arena, prefix, plan, executed) /\ allocated <= MaxOccurrences
  BY DEF ScheduleInv, ArenaInv
<1> QED BY <1>1, <1>2, <1>3 DEF PlanSound

LEMMA ExecutedKeeps ==
  ASSUME ScheduleInv, phase = "building", executed < Len(plan),
         executed' = executed + 1, Sound(arena', prefix, plan, executed + 1),
         UNCHANGED <<phase, prefix, nextOccurrence, removed, allocated, plan, deliveries>>
  PROVE  ScheduleInv'
<1>1. executed + 1 \in 0..Len(plan)
  BY DEF ScheduleInv, PlanInv
<1>2. PlanInv'
  BY <1>1 DEF ScheduleInv, PlanInv
<1>3. ArenaInv'
  BY DEF ScheduleInv, ArenaInv
<1> QED BY <1>2, <1>3 DEF ScheduleInv

LEMMA DropKeeps ==
  ASSUME ScheduleInv, ExecuteDrop
  PROVE  /\ ScheduleInv'
         /\ \E p \in 1..Len(Walk(arena)) :
              /\ Walk(arena)[p] = plan[executed + 1].target
              /\ Walk(arena') = Less(Walk(arena), Len(Walk(arena)), p)
<1> DEFINE i == LiveIndex(arena, plan[executed + 1].target)
<1>1. phase = "building" /\ executed < Len(plan) /\ plan[executed + 1].kind = "drop"
  BY DEF ExecuteDrop, Executes
<1>2. /\ i # None
      /\ Sound(Dropped(arena, i), prefix, plan, executed + 1)
      /\ \E p \in 1..Len(Walk(arena)) :
           /\ Walk(arena)[p] = plan[executed + 1].target
           /\ Walk(Dropped(arena, i)) = Less(Walk(arena), Len(Walk(arena)), p)
  <2>1. /\ executed \in Nat /\ Len(plan) \in Nat
        /\ Resolved(prefix, plan, executed + 1)
        /\ Sound(arena, prefix, plan, executed)
    BY <1>1, ActionIs, Zenon
  <2> QED BY <1>1, <2>1, DropStep
<1>3. /\ executed' = executed + 1 /\ arena' = Dropped(arena, i)
      /\ UNCHANGED <<phase, prefix, nextOccurrence, removed, allocated, plan, deliveries>>
  BY <1>2 DEF ExecuteDrop, Execute, Target, Dropped
<1> HIDE DEF i
<1>4. ScheduleInv'
  BY <1>1, <1>2, <1>3, ExecutedKeeps
<1> QED BY <1>2, <1>3, <1>4

LEMMA DuplicateKeeps ==
  ASSUME ScheduleInv, ExecuteDuplicate
  PROVE  /\ ScheduleInv'
         /\ \E p \in 1..Len(Walk(arena)) :
              LET x == plan[executed + 1]
              IN  /\ Walk(arena)[p] = x.target
                  /\ Walk(arena') = Inserted(Walk(arena), Len(Walk(arena)), p, x, x.copies)
<1> DEFINE x == plan[executed + 1]
           i == LiveIndex(arena, x.target)
           m == WithCopies(arena, i, x)
<1>1. phase = "building" /\ executed < Len(plan) /\ x.kind = "duplicate"
  BY DEF ExecuteDuplicate, Executes
<1>2. x.copies \in Nat /\ x.first \in Nat
  <2>1. x \in PlannedAction
    BY <1>1, ActionIs
  <2> HIDE DEF x
  <2> QED BY <1>1, <2>1, ConstantsAre DEF PlannedAction
<1>3. /\ i # None
      /\ \A j \in 1..x.copies, y \in Nodes(arena) : arena.nodes[y].key # CopyKey(x, j)
      /\ Sound(m, prefix, plan, executed + 1)
      /\ \E p \in 1..Len(Walk(arena)) :
           /\ Walk(arena)[p] = x.target
           /\ Walk(m) = Inserted(Walk(arena), Len(Walk(arena)), p, x, x.copies)
  BY <1>1, <1>2, ActionIs, CopyStep
<1>4. /\ executed' = executed + 1 /\ arena' = m
      /\ UNCHANGED <<phase, prefix, nextOccurrence, removed, allocated, plan, deliveries>>
  <2>1. \/ i = None
        \/ \E n \in 1..x.copies, y \in Nodes(arena) : arena.nodes[y].key = CopyKey(x, n)
        \/ /\ executed' = executed + 1 /\ arena' = m
           /\ UNCHANGED <<phase, prefix, nextOccurrence, removed, allocated, plan,
                          deliveries>>
    BY DEF ExecuteDuplicate, Execute, Target
  <2> HIDE DEF x, i, m
  <2> QED BY <1>3, <2>1
<1> HIDE DEF i, m
<1>5. ScheduleInv'
  BY <1>1, <1>3, <1>4, ExecutedKeeps
<1> QED BY <1>3, <1>4, <1>5

LEMMA MoveKeeps ==
  ASSUME ScheduleInv, ExecuteMove
  PROVE  /\ ScheduleInv'
         /\ \E p, q \in 1..Len(Walk(arena)) :
              /\ p # q
              /\ Walk(arena)[p] = plan[executed + 1].target
              /\ Walk(arena)[q] = plan[executed + 1].anchor
              /\ Walk(arena') = Shifted(Walk(arena), Len(Walk(arena)), p, q)
<1> DEFINE t == LiveIndex(arena, plan[executed + 1].target)
           b == LiveIndex(arena, plan[executed + 1].anchor)
           m == MoveBefore(arena, t, b)
<1>1. phase = "building" /\ executed < Len(plan) /\ plan[executed + 1].kind = "move"
  BY DEF ExecuteMove, Executes
<1>2. /\ t # None /\ b # None /\ t # b
      /\ Sound(m, prefix, plan, executed + 1)
      /\ \E p, q \in 1..Len(Walk(arena)) :
           /\ p # q
           /\ Walk(arena)[p] = plan[executed + 1].target
           /\ Walk(arena)[q] = plan[executed + 1].anchor
           /\ Walk(m) = Shifted(Walk(arena), Len(Walk(arena)), p, q)
  <2>1. /\ executed \in Nat /\ Len(plan) \in Nat
        /\ Resolved(prefix, plan, executed + 1)
        /\ Sound(arena, prefix, plan, executed)
    BY <1>1, ActionIs
  <2> QED BY <1>1, <2>1, MoveStep
<1>3. /\ executed' = executed + 1 /\ arena' = m
      /\ UNCHANGED <<phase, prefix, nextOccurrence, removed, allocated, plan, deliveries>>
  BY <1>2 DEF ExecuteMove, Execute, Target, Anchor
<1> HIDE DEF t, b, m
<1>4. ScheduleInv'
  BY <1>1, <1>2, <1>3, ExecutedKeeps
<1> QED BY <1>2, <1>3, <1>4

LEMMA MaterializeKeeps ==
  ASSUME ScheduleInv, Materialize
  PROVE  ScheduleInv' /\ phase' = "done" /\ arena' = arena
<1>1. phase = "building" /\ executed = Len(plan)
  BY DEF Materialize
<1>2. Sound(arena, prefix, plan, executed) /\ allocated <= MaxOccurrences
  BY <1>1 DEF ScheduleInv, ArenaInv
<1>3. Walkable(arena)
  BY <1>2, SoundWalk
<1>4. /\ deliveries' = Walk(arena) /\ phase' = "done"
      /\ UNCHANGED <<prefix, nextOccurrence, removed, allocated, plan, executed, arena>>
  BY <1>3 DEF Materialize
<1>5. PlanInv'
  BY <1>4 DEF ScheduleInv, PlanInv
<1>6. ArenaInv'
  BY <1>1, <1>2, <1>4 DEF ArenaInv
<1> QED BY <1>4, <1>5, <1>6 DEF ScheduleInv

LEMMA NextKeeps ==
  ASSUME ScheduleInv, [Next]_vars
  PROVE  ScheduleInv'
<1>1. ASSUME NEW t \in Delivery, PlanDrop(t) PROVE ScheduleInv'
  BY <1>1, DropIsPlanned
<1>2. ASSUME NEW t \in Delivery, NEW n \in 1..MaxCopies, PlanDuplicate(t, n)
      PROVE  ScheduleInv'
  BY <1>2, DuplicateIsPlanned
<1>3. ASSUME NEW t \in Delivery, NEW a \in Delivery, PlanMove(t, a) PROVE ScheduleInv'
  BY <1>3, MoveIsPlanned
<1>4. CASE Reject
  BY <1>4 DEF Reject, ScheduleInv, PlanInv, ArenaInv
<1>5. CASE Build
  BY <1>5, BuildKeeps
<1>6. CASE ExecuteDrop
  BY <1>6, DropKeeps
<1>7. CASE ExecuteDuplicate
  BY <1>7, DuplicateKeeps
<1>8. CASE ExecuteMove
  BY <1>8, MoveKeeps
<1>9. CASE Materialize
  BY <1>9, MaterializeKeeps
<1>10. CASE UNCHANGED vars
  BY <1>10 DEF vars, ScheduleInv, PlanInv, ArenaInv
<1> QED BY <1>1, <1>2, <1>3, <1>4, <1>5, <1>6, <1>7, <1>8, <1>9, <1>10 DEF Next, PlanAction

(* The invariant of the schedule: of the plan and its accounts, and of     *)
(* the arena that executes it.                                             *)
THEOREM ScheduleIsSound == Spec => []ScheduleInv
<1>1. Init => ScheduleInv
  BY InitSchedule
<1>2. ScheduleInv /\ [Next]_vars => ScheduleInv'
  BY NextKeeps
<1> QED BY <1>1, <1>2, PTL DEF Spec

-----------------------------------------------------------------------------
(* What the invariant says of the arena and of the deliveries.             *)
LEMMA ListMirrors ==
  ASSUME arena \in Arena, NEW s, NEW m, Listed(arena, s, m)
  PROVE  /\ LinksMirror
         /\ \A i \in Nodes(arena) : /\ arena.nodes[i].key \in Delivery
                                    /\ arena.nodes[i].prev \in 0..Len(arena.nodes)
                                    /\ arena.nodes[i].next \in 0..Len(arena.nodes)
                                    /\ arena.nodes[i].live \in BOOLEAN
         /\ arena.head \in 0..Len(arena.nodes) /\ arena.tail \in 0..Len(arena.nodes)
<1> DEFINE l == arena
<1>1. /\ m \in Nat /\ s \in [1..m -> Nodes(l)]
      /\ \A i, j \in 1..m : s[i] = s[j] => i = j
      /\ l.head = (IF m = 0 THEN None ELSE s[1])
      /\ l.tail = (IF m = 0 THEN None ELSE s[m])
      /\ \A k \in 1..m : /\ l.nodes[s[k]].prev = IF k = 1 THEN None ELSE s[k - 1]
                         /\ l.nodes[s[k]].next = IF k = m THEN None ELSE s[k + 1]
      /\ \A i \in Nodes(l) : (\A k \in 1..m : s[k] # i) =>
                               l.nodes[i].prev = None /\ l.nodes[i].next = None
      /\ Live(l) = {s[k] : k \in 1..m}
  BY DEF Listed, Linked
<1>2. /\ Nodes(l) = 1..Len(l.nodes) /\ Len(l.nodes) \in Nat /\ None \notin Nodes(l)
      /\ \A i \in Nodes(l) : l.nodes[i] \in Node
  BY NodesAre
<1>3. \A k \in 1..m : s[k] \in Nodes(l) /\ s[k] \in Live(l) /\ l.nodes[s[k]].live
  BY <1>1 DEF Live
<1>4. \A i \in Nodes(l) : l.nodes[i].live => \E k \in 1..m : s[k] = i
  BY <1>1 DEF Live
<1>5. \A i \in Nodes(l) : ~l.nodes[i].live => l.nodes[i].prev = None /\ l.nodes[i].next = None
  BY <1>1, <1>3
<1> HIDE DEF l
<1>6. ASSUME NEW i \in Nodes(l), l.nodes[i].live
      PROVE  /\ IF l.nodes[i].next = None THEN l.tail = i
                ELSE /\ l.nodes[i].next \in Nodes(l)
                     /\ l.nodes[l.nodes[i].next].prev = i /\ l.nodes[l.nodes[i].next].live
             /\ IF l.nodes[i].prev = None THEN l.head = i
                ELSE /\ l.nodes[i].prev \in Nodes(l)
                     /\ l.nodes[l.nodes[i].prev].next = i /\ l.nodes[l.nodes[i].prev].live
  <2>1. PICK k \in 1..m : s[k] = i
    BY <1>4, <1>6
  <2>4. IF l.nodes[i].next = None THEN l.tail = i
        ELSE /\ l.nodes[i].next \in Nodes(l)
             /\ l.nodes[l.nodes[i].next].prev = i /\ l.nodes[l.nodes[i].next].live
    <3>1. CASE k = m
      BY <1>1, <2>1, <3>1
    <3>2. CASE k # m
      <4>1. k + 1 \in 1..m /\ k + 1 # 1 /\ (k + 1) - 1 = k
        BY <1>1, <3>2
      <4>2. l.nodes[i].next = s[k + 1] /\ l.nodes[s[k + 1]].prev = s[k]
        BY <1>1, <2>1, <3>2, <4>1
      <4> QED BY <1>2, <1>3, <2>1, <4>1, <4>2
    <3> QED BY <3>1, <3>2
  <2>5. IF l.nodes[i].prev = None THEN l.head = i
        ELSE /\ l.nodes[i].prev \in Nodes(l)
             /\ l.nodes[l.nodes[i].prev].next = i /\ l.nodes[l.nodes[i].prev].live
    <3>1. CASE k = 1
      BY <1>1, <2>1, <3>1
    <3>2. CASE k # 1
      <4>1. k - 1 \in 1..m /\ k - 1 # m /\ (k - 1) + 1 = k
        BY <1>1, <3>2
      <4>2. l.nodes[i].prev = s[k - 1] /\ l.nodes[s[k - 1]].next = s[k]
        BY <1>1, <2>1, <3>2, <4>1
      <4> QED BY <1>2, <1>3, <2>1, <4>1, <4>2
    <3> QED BY <3>1, <3>2
  <2> QED BY <2>4, <2>5
<1>7. /\ l.head = None <=> Live(l) = {}
      /\ l.tail = None <=> Live(l) = {}
  <2>1. CASE m = 0
    BY <1>1, <2>1
  <2>2. CASE m # 0
    <3>1. 1 \in 1..m /\ m \in 1..m
      BY <1>1, <2>2
    <3>2. l.head = s[1] /\ l.tail = s[m]
      BY <1>1, <2>2
    <3>3. s[1] \in Nodes(l) /\ s[m] \in Nodes(l) /\ s[1] \in Live(l)
      BY <1>3, <3>1
    <3> QED BY <1>2, <3>2, <3>3
  <2> QED BY <1>1, <2>1, <2>2
<1>8. LinksMirror
  BY <1>5, <1>6, <1>7 DEF LinksMirror, l
<1>9. \A i \in Nodes(l) : /\ l.nodes[i].prev \in Nodes(l) \cup {None}
                          /\ l.nodes[i].next \in Nodes(l) \cup {None}
  BY <1>5, <1>6
<1>10. l.head \in Nodes(l) \cup {None} /\ l.tail \in Nodes(l) \cup {None}
  BY <1>1
<1>11. Nodes(l) \cup {None} \subseteq 0..Len(l.nodes)
  BY <1>2 DEF None
<1>12. \A i \in Nodes(l) : l.nodes[i].key \in Delivery /\ l.nodes[i].live \in BOOLEAN
  BY <1>2 DEF Node
<1> QED BY <1>8, <1>9, <1>10, <1>11, <1>12 DEF l

LEMMA EmptyMirrors ==
  ASSUME arena = EmptyArena
  PROVE  arena \in Arena /\ Listed(arena, <<>>, 0) /\ Len(arena.nodes) = 0
<1>1. /\ arena.nodes = <<>> /\ arena.head = None /\ arena.tail = None
      /\ DOMAIN arena.nodes = {} /\ 1..0 = {} /\ <<>> \in [1..0 -> {}]
  BY DEF EmptyArena
<1>2. arena \in Arena
  BY DEF EmptyArena, Arena, None
<1>3. Nodes(arena) = {} /\ Live(arena) = {}
  BY <1>1 DEF Nodes, Live
<1>4. Linked(arena, <<>>, 0)
  BY <1>1, <1>3 DEF Linked
<1> QED BY <1>1, <1>2, <1>3, <1>4 DEF Listed

LEMMA NodesCount ==
  ASSUME NEW l \in Arena, NEW C, NEW R, Holds(l, C, R), NEW E, C \subseteq E, IsFiniteSet(E)
  PROVE  Len(l.nodes) <= Cardinality(E)
<1> DEFINE f == [i \in 1..Len(l.nodes) |-> l.nodes[i].key]
<1>1. Nodes(l) = 1..Len(l.nodes) /\ Len(l.nodes) \in Nat
  BY NodesAre
<1>2. f \in [1..Len(l.nodes) -> C]
  BY <1>1 DEF Holds
<1>3. \A i, j \in 1..Len(l.nodes) : f[i] = f[j] => i = j
  BY <1>1 DEF Holds
<1>4. \A x \in C : \E i \in 1..Len(l.nodes) : f[i] = x
  BY <1>1 DEF Holds
<1> HIDE DEF f
<1>5. Cardinality(C) = Len(l.nodes)
  BY <1>1, <1>2, <1>3, <1>4, ListCounts
<1>6. Cardinality(C) <= Cardinality(E)
  BY FS_Subset
<1> QED BY <1>5, <1>6

LEMMA ScheduleInvImplies == ScheduleInv => PlansNeverBreak /\ DeliversPlanned
<1> SUFFICES ASSUME ScheduleInv PROVE PlansNeverBreak /\ DeliversPlanned
  OBVIOUS
<1> DEFINE E == Existing(prefix, nextOccurrence)
<1>1. /\ phase \in {"planning", "building", "done", "rejected"}
      /\ prefix \in 0..MaxPrefix
      /\ nextOccurrence \in [Source -> 1..(MaxOccurrence + 1)]
      /\ plan \in Seq(PlannedAction) /\ Len(plan) <= MaxFaultActions
      /\ executed \in 0..Len(plan)
      /\ Created(prefix, plan, Len(plan)) = E
      /\ Removed(plan, Len(plan)) = removed
      /\ removed \subseteq E
      /\ IsFiniteSet(E) /\ Cardinality(E) = allocated
      /\ allocated <= MaxOccurrences \/ allocated = prefix
  BY DEF ScheduleInv, PlanInv
<1>2. E \subseteq Delivery
  BY DEF Existing
<1>3. allocated \in Nat /\ executed \in Nat /\ Len(plan) \in Nat
  BY <1>1, FS_CardinalityType
<1> HIDE DEF E
<1>4. \E s, m : arena \in Arena /\ Listed(arena, s, m)
  <2>1. CASE phase \in {"planning", "rejected"}
    BY <2>1, EmptyMirrors DEF ScheduleInv, ArenaInv
  <2>2. CASE phase \in {"building", "done"}
    BY <2>2 DEF ScheduleInv, ArenaInv, Sound
  <2> QED BY <1>1, <2>1, <2>2
<1>5. /\ LinksMirror
      /\ \A i \in Nodes(arena) : /\ arena.nodes[i].key \in Delivery
                                 /\ arena.nodes[i].prev \in 0..Len(arena.nodes)
                                 /\ arena.nodes[i].next \in 0..Len(arena.nodes)
                                 /\ arena.nodes[i].live \in BOOLEAN
      /\ arena.head \in 0..Len(arena.nodes) /\ arena.tail \in 0..Len(arena.nodes)
  BY <1>4, ListMirrors
<1>6. allocated \in 0..(MaxPrefix + MaxOccurrences)
  BY <1>1, <1>3, ConstantsAre
<1>7. TypeOK
  BY <1>1, <1>2, <1>5, <1>6 DEF TypeOK
<1>8. Len(arena.nodes) <= allocated
  <2>1. CASE phase \in {"planning", "rejected"}
    BY <1>3, <2>1, EmptyMirrors DEF ScheduleInv, ArenaInv
  <2>2. CASE phase \in {"building", "done"}
    <3>1. /\ arena \in Arena
          /\ Holds(arena, Created(prefix, plan, executed), Removed(plan, executed))
      BY <2>2 DEF ScheduleInv, ArenaInv, Sound
    <3>2. Created(prefix, plan, executed) \subseteq E
      <4>1. executed \in 0..Len(plan)
        BY <1>1
      <4> QED BY <1>1, <1>3, <4>1, CreatedGrows
    <3> QED BY <1>1, <3>1, <3>2, NodesCount
  <2> QED BY <1>1, <2>1, <2>2
<1>9. PlansNeverBreak
  <2>1. phase \in {"building", "done"} => allocated <= MaxOccurrences
    BY DEF ScheduleInv, ArenaInv
  <2> QED BY <1>1, <1>5, <1>7, <1>8, <2>1 DEF PlansNeverBreak, WithinAllocation
<1>10. ASSUME phase = "done"
       PROVE  /\ {deliveries[i] : i \in DOMAIN deliveries} = E \ removed
              /\ Len(deliveries) = Cardinality(E \ removed)
  <2>1. /\ Sound(arena, prefix, plan, Len(plan)) /\ deliveries = Walk(arena)
    BY <1>10 DEF ScheduleInv, ArenaInv
  <2>2. /\ deliveries \in Seq(E \ removed) /\ DOMAIN deliveries = 1..Len(deliveries)
        /\ \A d \in E \ removed : \E i \in 1..Len(deliveries) : deliveries[i] = d
        /\ Cardinality(E \ removed) = Len(deliveries)
    <3> DEFINE there == Created(prefix, plan, Len(plan)) \ Removed(plan, Len(plan))
    <3>1. /\ Walk(arena) \in Seq(there) /\ DOMAIN Walk(arena) = 1..Len(Walk(arena))
          /\ \A d \in there : \E i \in 1..Len(Walk(arena)) : Walk(arena)[i] = d
          /\ Cardinality(there) = Len(Walk(arena))
      BY <2>1, SoundWalk
    <3>2. there = E \ removed
      BY <1>1
    <3> HIDE DEF there
    <3> QED BY <2>1, <3>1, <3>2
  <2> QED BY <2>2
<1>11. DeliversPlanned
  BY <1>10 DEF DeliversPlanned, E, Existing
<1> QED BY <1>9, <1>11

(* PlansNeverBreak: the materialization of an accepted plan never meets an *)
(* invariant of the arena it would have to report (src/scenario.rs:        *)
(* MaterializationInvariant), the links of the live nodes mirror each      *)
(* other at every step, and the nodes stay within the planned allocation.  *)
THEOREM PlansNeverBreakHolds == Spec => []PlansNeverBreak
BY ScheduleIsSound, ScheduleInvImplies, PTL

(* DeliversPlanned: the materialized schedule delivers every occurrence    *)
(* planned and not dropped, exactly once.                                  *)
THEOREM DeliversPlannedHolds == Spec => []DeliversPlanned
BY ScheduleIsSound, ScheduleInvImplies, PTL

-----------------------------------------------------------------------------
(* The arena implements the edit of a sequence.                            *)
LEMMA SequenceFrom ==
  ASSUME NEW S, NEW m \in Nat, NEW f \in [1..m -> S]
  PROVE  f \in Seq(S) /\ Len(f) = m /\ DOMAIN f = 1..m
OBVIOUS

LEMMA RemoveIsLess ==
  ASSUME NEW S, NEW w \in Seq(S), NEW p \in 1..Len(w)
  PROVE  /\ Less(w, Len(w), p) \in Seq(S) /\ Len(Less(w, Len(w), p)) = Len(w) - 1
         /\ Order!RemoveAt(w, p) = Less(w, Len(w), p)
<1> DEFINE n == Len(w)
           u == SubSeq(w, 1, p - 1)
           v == SubSeq(w, p + 1, n)
           r == Less(w, n, p)
<1>1. n \in Nat /\ w \in [1..n -> S] /\ p \in Nat /\ p >= 1 /\ p <= n
  OBVIOUS
<1>2. \A k \in 1..(n - 1) : r[k] = IF k < p THEN w[k] ELSE w[k + 1]
  BY DEF Less
<1>3. r \in [1..(n - 1) -> S]
  BY <1>1 DEF Less
<1>4. /\ u \in Seq(S) /\ Len(u) = p - 1 /\ \A k \in 1..(p - 1) : u[k] = w[k]
  <2>1. \A k \in 1..(p - 1) : w[k] \in S
    BY <1>1
  <2>2. /\ u \in Seq(S)
        /\ Len(u) = IF 1 <= p - 1 THEN (p - 1) - 1 + 1 ELSE 0
        /\ \A k \in 1..((p - 1) - 1 + 1) : u[k] = w[1 + k - 1]
    BY <1>1, <2>1, SubSeqProperties
  <2>3. (p - 1) - 1 + 1 = p - 1 /\ (~(1 <= p - 1) => p - 1 = 0)
        /\ \A k \in 1..(p - 1) : 1 + k - 1 = k
    BY <1>1
  <2> HIDE DEF u
  <2> QED BY <2>2, <2>3
<1>5. /\ v \in Seq(S) /\ Len(v) = n - p /\ \A k \in 1..(n - p) : v[k] = w[k + p]
  <2>1. \A k \in (p + 1)..n : w[k] \in S
    BY <1>1
  <2>2. /\ v \in Seq(S)
        /\ Len(v) = IF p + 1 <= n THEN n - (p + 1) + 1 ELSE 0
        /\ \A k \in 1..(n - (p + 1) + 1) : v[k] = w[(p + 1) + k - 1]
    BY <1>1, <2>1, SubSeqProperties
  <2> HIDE DEF n, v
  <2>3. n - (p + 1) + 1 = n - p /\ (~(p + 1 <= n) => n - p = 0)
    BY <1>1
  <2>4. \A k \in 1..(n - p) : (p + 1) + k - 1 = k + p
    BY <1>1
  <2> QED BY <2>2, <2>3, <2>4
<1>6. Order!RemoveAt(w, p) = u \o v
  BY DEF Order!RemoveAt
<1> HIDE DEF u, v, r, n
<1>7. /\ u \o v \in Seq(S) /\ Len(u \o v) = n - 1
      /\ \A k \in 1..(n - 1) : (u \o v)[k] = IF k <= p - 1 THEN u[k] ELSE v[k - (p - 1)]
  <2>1. /\ u \o v \in Seq(S) /\ Len(u \o v) = Len(u) + Len(v)
        /\ \A k \in 1..(Len(u) + Len(v)) :
             (u \o v)[k] = IF k <= Len(u) THEN u[k] ELSE v[k - Len(u)]
    BY <1>4, <1>5, ConcatProperties
  <2>2. Len(u) + Len(v) = n - 1
    BY <1>1, <1>4, <1>5
  <2> QED BY <1>4, <2>1, <2>2
<1>8. r \in Seq(S) /\ Len(r) = n - 1
  <2>1. n - 1 \in Nat
    BY <1>1
  <2> QED BY <1>3, <2>1, SequenceFrom
<1>9. ASSUME NEW k \in 1..(n - 1) PROVE (u \o v)[k] = r[k]
  <2>1. CASE k < p
    BY <1>1, <1>2, <1>4, <1>7, <2>1
  <2>2. CASE k >= p
    <3>1. k - (p - 1) \in 1..(n - p) /\ (k - (p - 1)) + p = k + 1 /\ ~(k <= p - 1) /\ ~(k < p)
      BY <1>1, <2>2
    <3>2. (u \o v)[k] = v[k - (p - 1)] /\ v[k - (p - 1)] = w[k + 1]
      BY <1>5, <1>7, <3>1
    <3> QED BY <1>2, <3>1, <3>2
  <2>3. k < p \/ k >= p
    BY <1>1
  <2> QED BY <2>1, <2>2, <2>3
<1>10. u \o v = r
  BY <1>7, <1>8, <1>9, SeqEqual
<1> QED BY <1>6, <1>8, <1>10 DEF r, n

LEMMA InsertIsMore ==
  ASSUME NEW S, NEW w \in Seq(S), NEW p \in 1..(Len(w) + 1), NEW x \in S
  PROVE  Order!InsertAt(w, p, x) = More(w, Len(w), p, x)
<1> DEFINE n == Len(w)
           u == SubSeq(w, 1, p - 1)
           v == SubSeq(w, p, n)
           y == u \o <<x>>
           r == More(w, n, p, x)
<1>1. n \in Nat /\ w \in [1..n -> S] /\ p \in Nat /\ p >= 1 /\ p <= n + 1
  OBVIOUS
<1>2. \A k \in 1..(n + 1) : r[k] = IF k < p THEN w[k] ELSE IF k = p THEN x ELSE w[k - 1]
  BY DEF More
<1>3. r \in [1..(n + 1) -> S]
  BY <1>1 DEF More
<1>4. /\ u \in Seq(S) /\ Len(u) = p - 1 /\ \A k \in 1..(p - 1) : u[k] = w[k]
  <2>1. \A k \in 1..(p - 1) : w[k] \in S
    BY <1>1
  <2>2. /\ u \in Seq(S)
        /\ Len(u) = IF 1 <= p - 1 THEN (p - 1) - 1 + 1 ELSE 0
        /\ \A k \in 1..((p - 1) - 1 + 1) : u[k] = w[1 + k - 1]
    BY <1>1, <2>1, SubSeqProperties
  <2>3. (p - 1) - 1 + 1 = p - 1 /\ (~(1 <= p - 1) => p - 1 = 0)
        /\ \A k \in 1..(p - 1) : 1 + k - 1 = k
    BY <1>1
  <2> HIDE DEF u
  <2> QED BY <2>2, <2>3
<1>5. /\ v \in Seq(S) /\ Len(v) = n - p + 1 /\ \A k \in 1..(n - p + 1) : v[k] = w[p + k - 1]
  <2>1. \A k \in p..n : w[k] \in S
    BY <1>1
  <2>2. /\ v \in Seq(S)
        /\ Len(v) = IF p <= n THEN n - p + 1 ELSE 0
        /\ \A k \in 1..(n - p + 1) : v[k] = w[p + k - 1]
    BY <1>1, <2>1, SubSeqProperties
  <2>3. ~(p <= n) => n - p + 1 = 0
    BY <1>1
  <2> HIDE DEF v
  <2> QED BY <2>2, <2>3
<1>6. Order!InsertAt(w, p, x) = y \o v
  BY DEF Order!InsertAt
<1>7. y = Append(u, x)
  OBVIOUS
<1> HIDE DEF u, v, r, n, y
<1>8. y \in Seq(S) /\ Len(y) = p /\ y[p] = x /\ \A k \in 1..(p - 1) : y[k] = w[k]
  <2>1. Len(u) + 1 = p
    BY <1>1, <1>4
  <2> QED BY <1>4, <1>7, <2>1, AppendProperties
<1>9. /\ y \o v \in Seq(S) /\ Len(y \o v) = n + 1
      /\ \A k \in 1..(n + 1) : (y \o v)[k] = IF k <= p THEN y[k] ELSE v[k - p]
  <2>1. /\ y \o v \in Seq(S) /\ Len(y \o v) = Len(y) + Len(v)
        /\ \A k \in 1..(Len(y) + Len(v)) :
             (y \o v)[k] = IF k <= Len(y) THEN y[k] ELSE v[k - Len(y)]
    BY <1>5, <1>8, ConcatProperties
  <2>2. Len(y) + Len(v) = n + 1
    BY <1>1, <1>5, <1>8
  <2> QED BY <1>8, <2>1, <2>2
<1>10. r \in Seq(S) /\ Len(r) = n + 1
  <2>1. n + 1 \in Nat
    BY <1>1
  <2> QED BY <1>3, <2>1, SequenceFrom
<1>11. ASSUME NEW k \in 1..(n + 1) PROVE (y \o v)[k] = r[k]
  <2>1. CASE k < p
    BY <1>1, <1>2, <1>8, <1>9, <2>1
  <2>2. CASE k = p
    BY <1>1, <1>2, <1>8, <1>9, <2>2
  <2>3. CASE k > p
    <3>1. k - p \in 1..(n - p + 1) /\ p + (k - p) - 1 = k - 1 /\ ~(k <= p) /\ ~(k < p) /\ k # p
      BY <1>1, <2>3
    <3> QED BY <1>2, <1>5, <1>9, <3>1
  <2>4. k < p \/ k = p \/ k > p
    BY <1>1
  <2> QED BY <2>1, <2>2, <2>3, <2>4
<1>12. y \o v = r
  BY <1>9, <1>10, <1>11, SeqEqual
<1> QED BY <1>6, <1>12 DEF r, n

LEMMA SpliceIsInserted ==
  ASSUME NEW S, NEW w \in Seq(S), NEW p \in 1..Len(w), NEW a, a.copies \in Nat,
         \A k \in 1..a.copies : CopyKey(a, k) \in S
  PROVE  SubSeq(w, 1, p) \o Order!Copies(a) \o SubSeq(w, p + 1, Len(w))
           = Inserted(w, Len(w), p, a, a.copies)
<1> DEFINE n == Len(w)
           c == a.copies
           u == SubSeq(w, 1, p)
           v == SubSeq(w, p + 1, n)
           x == Order!Copies(a)
           y == u \o x
           r == Inserted(w, n, p, a, c)
<1>1. n \in Nat /\ w \in [1..n -> S] /\ p \in Nat /\ p >= 1 /\ p <= n /\ c \in Nat
  OBVIOUS
<1>2. \A k \in 1..(n + c) : r[k] = IF k <= p THEN w[k]
                                   ELSE IF k <= p + c THEN CopyKey(a, k - p) ELSE w[k - c]
  BY DEF Inserted
<1>3. r \in [1..(n + c) -> S]
  <2>1. ASSUME NEW k \in 1..(n + c)
        PROVE  (IF k <= p THEN w[k]
                ELSE IF k <= p + c THEN CopyKey(a, k - p) ELSE w[k - c]) \in S
    <3>1. CASE k <= p
      BY <1>1, <3>1
    <3>2. CASE k > p /\ k <= p + c
      <4>1. k - p \in 1..c
        BY <1>1, <3>2
      <4> QED BY <1>1, <3>2, <4>1
    <3>3. CASE k > p + c
      <4>1. k - c \in 1..n /\ ~(k <= p) /\ ~(k <= p + c)
        BY <1>1, <3>3
      <4> QED BY <1>1, <4>1
    <3> QED BY <1>1, <3>1, <3>2, <3>3
  <2> QED BY <2>1 DEF Inserted
<1>4. /\ u \in Seq(S) /\ Len(u) = p /\ \A k \in 1..p : u[k] = w[k]
  <2>1. \A k \in 1..p : w[k] \in S
    BY <1>1
  <2>2. /\ u \in Seq(S)
        /\ Len(u) = IF 1 <= p THEN p - 1 + 1 ELSE 0
        /\ \A k \in 1..(p - 1 + 1) : u[k] = w[1 + k - 1]
    BY <1>1, <2>1, SubSeqProperties
  <2>3. p - 1 + 1 = p /\ \A k \in 1..p : 1 + k - 1 = k
    BY <1>1
  <2> HIDE DEF u
  <2> QED BY <1>1, <2>2, <2>3
<1>5. /\ v \in Seq(S) /\ Len(v) = n - p /\ \A k \in 1..(n - p) : v[k] = w[k + p]
  <2>1. \A k \in (p + 1)..n : w[k] \in S
    BY <1>1
  <2>2. /\ v \in Seq(S)
        /\ Len(v) = IF p + 1 <= n THEN n - (p + 1) + 1 ELSE 0
        /\ \A k \in 1..(n - (p + 1) + 1) : v[k] = w[(p + 1) + k - 1]
    BY <1>1, <2>1, SubSeqProperties
  <2> HIDE DEF n, v
  <2>3. n - (p + 1) + 1 = n - p /\ (~(p + 1 <= n) => n - p = 0)
    BY <1>1
  <2>4. \A k \in 1..(n - p) : (p + 1) + k - 1 = k + p
    BY <1>1
  <2> QED BY <2>2, <2>3, <2>4
<1>6. x \in Seq(S) /\ Len(x) = c /\ \A k \in 1..c : x[k] = CopyKey(a, k)
  <2>1. \A k \in 1..c : x[k] = CopyKey(a, k)
    BY DEF Order!Copies, CopyKey
  <2>2. x \in [1..c -> S]
    <3>1. x = [k \in 1..c |-> CopyKey(a, k)]
      BY DEF Order!Copies, CopyKey
    <3> QED BY <3>1
  <2> HIDE DEF x
  <2> QED BY <1>1, <2>1, <2>2, SequenceFrom
<1> HIDE DEF u, v, r, n, x, c
<1>7. /\ y \in Seq(S) /\ Len(y) = p + c
      /\ \A k \in 1..(p + c) : y[k] = IF k <= p THEN w[k] ELSE CopyKey(a, k - p)
  <2>1. /\ y \in Seq(S) /\ Len(y) = Len(u) + Len(x)
        /\ \A k \in 1..(Len(u) + Len(x)) : y[k] = IF k <= Len(u) THEN u[k] ELSE x[k - Len(u)]
    BY <1>4, <1>6, ConcatProperties
  <2> HIDE DEF y
  <2>2. ASSUME NEW k \in 1..(p + c) PROVE y[k] = IF k <= p THEN w[k] ELSE CopyKey(a, k - p)
    <3>1. CASE k <= p
      BY <1>1, <1>4, <1>6, <2>1, <3>1
    <3>2. CASE k > p
      <4>1. k - p \in 1..c /\ ~(k <= p)
        BY <1>1, <3>2
      <4> QED BY <1>4, <1>6, <2>1, <4>1
    <3> QED BY <1>1, <3>1, <3>2
  <2> QED BY <1>4, <1>6, <2>1, <2>2
<1> HIDE DEF y
<1>8. /\ y \o v \in Seq(S) /\ Len(y \o v) = n + c
      /\ \A k \in 1..(n + c) : (y \o v)[k] = IF k <= p + c THEN y[k] ELSE v[k - (p + c)]
  <2>1. /\ y \o v \in Seq(S) /\ Len(y \o v) = Len(y) + Len(v)
        /\ \A k \in 1..(Len(y) + Len(v)) :
             (y \o v)[k] = IF k <= Len(y) THEN y[k] ELSE v[k - Len(y)]
    BY <1>5, <1>7, ConcatProperties
  <2>2. Len(y) + Len(v) = n + c
    BY <1>1, <1>5, <1>7
  <2> QED BY <1>7, <2>1, <2>2
<1>9. r \in Seq(S) /\ Len(r) = n + c
  <2>1. n + c \in Nat
    BY <1>1
  <2> QED BY <1>3, <2>1, SequenceFrom
<1>10. ASSUME NEW k \in 1..(n + c) PROVE (y \o v)[k] = r[k]
  <2>1. CASE k <= p + c
    <3>1. k \in 1..(p + c)
      BY <1>1, <2>1
    <3> QED BY <1>2, <1>7, <1>8, <2>1, <3>1
  <2>2. CASE k > p + c
    <3>1. /\ k - (p + c) \in 1..(n - p) /\ (k - (p + c)) + p = k - c
          /\ ~(k <= p + c) /\ ~(k <= p)
      BY <1>1, <2>2
    <3>2. (y \o v)[k] = v[k - (p + c)] /\ v[k - (p + c)] = w[k - c]
      BY <1>5, <1>8, <3>1
    <3> QED BY <1>2, <3>1, <3>2
  <2>3. k <= p + c \/ k > p + c
    BY <1>1
  <2> QED BY <2>1, <2>2, <2>3
<1>11. y \o v = r
  BY <1>8, <1>9, <1>10, SeqEqual
<1> QED BY <1>11 DEF r, n, c, y, u, x, v

LEMMA PlaceIs ==
  ASSUME NEW w, NEW n, DOMAIN w = 1..n, \A i, j \in 1..n : w[i] = w[j] => i = j,
         NEW p \in 1..n
  PROVE  Order!Place(w, w[p]) = p
BY DEF Order!Place

LEMMA TodoIs ==
  ASSUME NEW S, NEW a \in Seq(S), NEW k \in Nat, k < Len(a)
  PROVE  LET todo == SubSeq(a, k + 1, Len(a))
         IN  /\ todo # <<>> /\ Head(todo) = a[k + 1]
             /\ Tail(todo) = SubSeq(a, (k + 1) + 1, Len(a))
<1> DEFINE n == Len(a)
           u == SubSeq(a, k + 1, n)
<1>1. n \in Nat /\ k + 1 \in 1..n /\ n \in (k + 1)..n /\ \A j \in (k + 1)..n : a[j] \in S
  OBVIOUS
<1>2. Head(u) = a[k + 1] /\ Tail(u) = SubSeq(a, (k + 1) + 1, n)
  BY <1>1, HeadTailOfSubSeq
<1>3. Len(u) = IF k + 1 <= n THEN n - (k + 1) + 1 ELSE 0
  BY <1>1, SubSeqProperties
<1>4. Len(u) # 0
  BY <1>1, <1>3
<1> HIDE DEF u
<1>5. u # <<>>
  BY <1>4
<1> QED BY <1>2, <1>5 DEF u

(* The order and the rest of the plan while it is executed.                *)
LEMMA OrderIs ==
  ASSUME ScheduleInv, phase = "building", executed < Len(plan), phase' = phase,
         executed' = executed + 1, plan' = plan, prefix' = prefix
  PROVE  LET todo == SubSeq(plan, executed + 1, Len(plan))
             w == Walk(arena)
         IN  /\ todo # <<>> /\ Head(todo) = plan[executed + 1]
             /\ SubSeq(plan', executed' + 1, Len(plan')) = Tail(todo)
             /\ w \in Seq(Delivery) /\ Len(w) \in Nat /\ DOMAIN w = 1..Len(w)
             /\ \A i, j \in 1..Len(w) : w[i] = w[j] => i = j
<1>1. plan \in Seq(PlannedAction)
  BY DEF ScheduleInv, PlanInv
<1>2. executed \in Nat /\ Sound(arena, prefix, plan, executed)
  BY ActionIs
<1>3. Created(prefix, plan, executed) \subseteq Delivery
  <2>1. executed \in 0..Len(plan) /\ Len(plan) \in Nat
    BY DEF ScheduleInv, PlanInv
  <2>2. Created(prefix, plan, executed) \subseteq Created(prefix, plan, Len(plan))
    BY <2>1, CreatedGrows
  <2> QED BY <2>2 DEF ScheduleInv, PlanInv, Existing
<1> DEFINE there == Created(prefix, plan, executed) \ Removed(plan, executed)
           w == Walk(arena)
<1>4. /\ w \in Seq(there) /\ Len(w) \in Nat /\ DOMAIN w = 1..Len(w)
      /\ \A i, j \in 1..Len(w) : w[i] = w[j] => i = j
  BY <1>2, SoundWalk
<1>5. there \subseteq Delivery
  BY <1>3
<1> HIDE DEF there, w
<1>6. w \in Seq(Delivery)
  BY <1>4, <1>5
<1>7. LET todo == SubSeq(plan, executed + 1, Len(plan))
      IN  /\ todo # <<>> /\ Head(todo) = plan[executed + 1]
          /\ Tail(todo) = SubSeq(plan, (executed + 1) + 1, Len(plan))
  BY <1>1, <1>2, TodoIs
<1> QED BY <1>4, <1>6, <1>7 DEF w

LEMMA DropRefines ==
  ASSUME ScheduleInv, ExecuteDrop
  PROVE  Order!Execute
<1> DEFINE x == plan[executed + 1]
           w == Walk(arena)
           todo == SubSeq(plan, executed + 1, Len(plan))
<1>1. /\ phase = "building" /\ executed < Len(plan) /\ x.kind = "drop"
      /\ phase' = phase /\ executed' = executed + 1 /\ plan' = plan /\ prefix' = prefix
  <2>1. /\ phase = "building" /\ executed < Len(plan) /\ x.kind = "drop"
    BY DEF ExecuteDrop, Executes
  <2>2. LiveIndex(arena, x.target) # None
    BY <2>1, ActionIs, DropStep
  <2> HIDE DEF x
  <2> QED BY <2>1, <2>2 DEF ExecuteDrop, Execute, Target, x
<1>2. PICK p \in 1..Len(w) : w[p] = x.target /\ Walk(arena') = Less(w, Len(w), p)
  BY DropKeeps
<1>3. /\ todo # <<>> /\ Head(todo) = x
      /\ SubSeq(plan', executed' + 1, Len(plan')) = Tail(todo)
      /\ w \in Seq(Delivery) /\ Len(w) \in Nat /\ DOMAIN w = 1..Len(w)
      /\ \A i, j \in 1..Len(w) : w[i] = w[j] => i = j
  BY <1>1, OrderIs
<1> HIDE DEF x, w, todo
<1>4. Order!Place(w, x.target) = p
  BY <1>2, <1>3, PlaceIs
<1>5. Order!RemoveAt(w, p) = Less(w, Len(w), p)
  BY <1>3, RemoveIsLess
<1>6. x.target \in Order!Range(w)
  BY <1>2, <1>3 DEF Order!Range
<1>7. Order!Effect(x) = Order!RemoveAt(w, Order!Place(w, x.target))
  BY <1>1 DEF Order!Effect, Order!Dropped, w
<1>8. Walk(arena') = Order!Effect(x)
  BY <1>2, <1>4, <1>5, <1>7
<1> QED BY <1>1, <1>3, <1>6, <1>8 DEF Order!Execute, w, todo

LEMMA DuplicateRefines ==
  ASSUME ScheduleInv, ExecuteDuplicate
  PROVE  Order!Execute
<1> DEFINE x == plan[executed + 1]
           w == Walk(arena)
           todo == SubSeq(plan, executed + 1, Len(plan))
<1>1. phase = "building" /\ executed < Len(plan) /\ x.kind = "duplicate"
  BY DEF ExecuteDuplicate, Executes
<1>2. x \in PlannedAction /\ Resolved(prefix, plan, executed + 1)
  BY <1>1, ActionIs
<1>3. x.copies \in Nat /\ x.first \in Nat
  <2> HIDE DEF x
  <2> QED BY <1>1, <1>2, ConstantsAre DEF PlannedAction
<1>4. CopyKeys(x, x.copies) \subseteq Delivery
  BY <1>1, <1>2 DEF Resolved
<1>5. phase' = phase /\ executed' = executed + 1 /\ plan' = plan /\ prefix' = prefix
  <2>1. /\ LiveIndex(arena, x.target) # None
        /\ \A j \in 1..x.copies, y \in Nodes(arena) : arena.nodes[y].key # CopyKey(x, j)
    BY <1>1, <1>3, ActionIs, CopyStep
  <2>2. \/ LiveIndex(arena, x.target) = None
        \/ \E n \in 1..x.copies, y \in Nodes(arena) : arena.nodes[y].key = CopyKey(x, n)
        \/ phase' = phase /\ executed' = executed + 1 /\ plan' = plan /\ prefix' = prefix
    BY DEF ExecuteDuplicate, Execute, Target
  <2> HIDE DEF x
  <2> QED BY <2>1, <2>2
<1>6. PICK p \in 1..Len(w) : /\ w[p] = x.target
                             /\ Walk(arena') = Inserted(w, Len(w), p, x, x.copies)
  BY DuplicateKeeps
<1>7. /\ todo # <<>> /\ Head(todo) = x
      /\ SubSeq(plan', executed' + 1, Len(plan')) = Tail(todo)
      /\ w \in Seq(Delivery) /\ Len(w) \in Nat /\ DOMAIN w = 1..Len(w)
      /\ \A i, j \in 1..Len(w) : w[i] = w[j] => i = j
  BY <1>1, <1>5, OrderIs
<1> HIDE DEF x, w, todo
<1>8. Order!Place(w, x.target) = p
  BY <1>6, <1>7, PlaceIs
<1>9. SubSeq(w, 1, p) \o Order!Copies(x) \o SubSeq(w, p + 1, Len(w))
        = Inserted(w, Len(w), p, x, x.copies)
  <2>1. \A k \in 1..x.copies : CopyKey(x, k) \in Delivery
    BY <1>4 DEF CopyKeys
  <2>2. w \in Seq(Delivery) /\ x.copies \in Nat
    BY <1>3, <1>7
  <2> QED BY <2>1, <2>2, SpliceIsInserted
<1>10. x.target \in Order!Range(w)
  BY <1>6, <1>7 DEF Order!Range
<1>11. Order!Effect(x) = Order!Duplicated(x)
  BY <1>1 DEF Order!Effect
<1>12. Order!Duplicated(x)
         = SubSeq(w, 1, Order!Place(w, x.target)) \o Order!Copies(x)
             \o SubSeq(w, Order!Place(w, x.target) + 1, Len(w))
  BY <1>1 DEF Order!Duplicated, w
<1>13. Walk(arena') = Order!Effect(x)
  BY <1>6, <1>8, <1>9, <1>11, <1>12
<1> QED BY <1>1, <1>5, <1>7, <1>10, <1>13 DEF Order!Execute, w, todo

LEMMA MoveRefines ==
  ASSUME ScheduleInv, ExecuteMove
  PROVE  Order!Execute
<1> DEFINE x == plan[executed + 1]
           w == Walk(arena)
           n == Len(w)
           todo == SubSeq(plan, executed + 1, Len(plan))
<1>1. /\ phase = "building" /\ executed < Len(plan) /\ x.kind = "move"
      /\ phase' = phase /\ executed' = executed + 1 /\ plan' = plan /\ prefix' = prefix
  <2>1. /\ phase = "building" /\ executed < Len(plan) /\ x.kind = "move"
    BY DEF ExecuteMove, Executes
  <2>2. /\ LiveIndex(arena, x.target) # None /\ LiveIndex(arena, x.anchor) # None
        /\ LiveIndex(arena, x.target) # LiveIndex(arena, x.anchor)
    <3>1. /\ executed \in Nat /\ Len(plan) \in Nat
          /\ Resolved(prefix, plan, executed + 1)
          /\ Sound(arena, prefix, plan, executed)
      BY <2>1, ActionIs
    <3> QED BY <2>1, <3>1, MoveStep
  <2> HIDE DEF x
  <2> QED BY <2>1, <2>2 DEF ExecuteMove, Execute, Target, Anchor, x
<1>2. PICK p \in 1..n, q \in 1..n : /\ p # q /\ w[p] = x.target /\ w[q] = x.anchor
                                    /\ Walk(arena') = Shifted(w, n, p, q)
  BY MoveKeeps
<1>3. /\ todo # <<>> /\ Head(todo) = x
      /\ SubSeq(plan', executed' + 1, Len(plan')) = Tail(todo)
      /\ w \in Seq(Delivery) /\ n \in Nat /\ DOMAIN w = 1..n
      /\ \A i, j \in 1..n : w[i] = w[j] => i = j
  BY <1>1, OrderIs
<1> HIDE DEF x, w, todo
<1> DEFINE r == Less(w, n, p)
           q2 == IF q < p THEN q ELSE q - 1
<1>4. Order!Place(w, x.target) = p
  <2> HIDE DEF n
  <2> QED BY <1>2, <1>3, PlaceIs
<1>5. Order!RemoveAt(w, p) = r /\ r \in Seq(Delivery) /\ Len(r) = n - 1
  BY <1>3, RemoveIsLess, Zenon
<1>6. q2 \in 1..(n - 1) /\ n - 1 \in Nat
  BY <1>2, <1>3
<1>7. \A k \in 1..(n - 1) : r[k] = IF k < p THEN w[k] ELSE w[k + 1]
  BY DEF Less
<1> HIDE DEF r, n
<1>8. r[q2] = x.anchor
  <2>1. CASE q < p
    BY <1>2, <1>6, <1>7, <2>1
  <2>2. CASE ~(q < p)
    <3>1. q2 = q - 1 /\ ~(q2 < p) /\ (q - 1) + 1 = q
      BY <1>2, <2>2
    <3> QED BY <1>2, <1>6, <1>7, <3>1
  <2> QED BY <2>1, <2>2
<1> HIDE DEF q2
<1>9. Order!Place(r, x.anchor) = q2
  <2>1. \A i, j \in 1..(n - 1) : r[i] = r[j] => i = j
    <3> SUFFICES ASSUME NEW i \in 1..(n - 1), NEW j \in 1..(n - 1), r[i] = r[j]
                 PROVE  i = j
      OBVIOUS
    <3> DEFINE i2 == IF i < p THEN i ELSE i + 1
               j2 == IF j < p THEN j ELSE j + 1
    <3>1. n \in Nat /\ p \in Nat
      BY <1>2, <1>3
    <3>2. i2 \in 1..n /\ j2 \in 1..n
      BY <3>1
    <3>3. r[i] = w[i2] /\ r[j] = w[j2]
      BY <1>7
    <3>4. i2 = j2
      BY <1>3, <3>2, <3>3
    <3> QED BY <3>1, <3>4
  <2>2. DOMAIN r = 1..(n - 1)
    BY <1>5
  <2>3. Order!Place(r, r[q2]) = q2
    BY <1>6, <2>1, <2>2, PlaceIs
  <2> QED BY <1>8, <2>3
<1>10. Order!InsertAt(r, q2, x.target) = More(r, n - 1, q2, x.target)
  <2>1. q2 \in 1..(Len(r) + 1)
    BY <1>5, <1>6
  <2>2. x.target \in Delivery
    BY <1>2, <1>3
  <2>3. Order!InsertAt(r, q2, x.target) = More(r, Len(r), q2, x.target)
    BY <1>5, <2>1, <2>2, InsertIsMore
  <2> QED BY <1>5, <2>3
<1>11. x.target \in Order!Range(w)
  BY <1>2, <1>3 DEF Order!Range
<1>12. Order!Effect(x) = Order!Moved(x.target, x.anchor)
  BY <1>1 DEF Order!Effect
<1>13. Order!Dropped(x.target) = Order!RemoveAt(w, Order!Place(w, x.target))
  BY <1>1 DEF Order!Dropped, w
<1>14. Order!Dropped(x.target) = r
  BY <1>4, <1>5, <1>13
<1>15. Order!Moved(x.target, x.anchor) = Order!InsertAt(r, q2, x.target)
  BY <1>9, <1>14 DEF Order!Moved
<1>16. Walk(arena') = More(r, n - 1, q2, w[p])
  BY <1>2 DEF Shifted, r, q2
<1>17. Walk(arena') = Order!Effect(x)
  BY <1>2, <1>10, <1>12, <1>15, <1>16
<1> QED BY <1>1, <1>3, <1>11, <1>17 DEF Order!Execute, w, todo

LEMMA PlanRefines ==
  ASSUME ScheduleInv, ScheduleInv', PlanAction
  PROVE  Order!Plan
<1>1. \E x : /\ plan' = Append(plan, x)
             /\ UNCHANGED <<phase, prefix, executed, arena>> /\ phase = "planning"
  BY DEF PlanAction, PlanDrop, PlanDuplicate, PlanMove, Plans, Planning
<1>2. PICK x : /\ plan' = Append(plan, x)
               /\ UNCHANGED <<phase, prefix, executed, arena>> /\ phase = "planning"
  BY <1>1
<1>3. plan \in Seq(PlannedAction) /\ plan' \in Seq(PlannedAction)
  BY DEF ScheduleInv, PlanInv
<1>4. x \in PlannedAction
  <2>1. Len(plan') = Len(plan) + 1 /\ plan'[Len(plan) + 1] = x /\ Len(plan) + 1 \in 1..Len(plan')
    BY <1>2, <1>3
  <2> QED BY <1>3, <2>1
<1>5. x \in Order!Action
  BY <1>4 DEF PlannedAction, Order!Action, Order!Delivery, Delivery
<1>6. executed = 0 /\ executed' = 0
  BY <1>2 DEF ScheduleInv, ArenaInv
<1>7. /\ SubSeq(plan, executed + 1, Len(plan)) = plan
      /\ SubSeq(plan', executed' + 1, Len(plan')) = plan'
  <2>1. 0 + 1 = 1
    OBVIOUS
  <2> QED BY <1>3, <1>6, <2>1, SubSeqFull
<1> QED BY <1>2, <1>5, <1>7 DEF Order!Plan

LEMMA BuildRefines ==
  ASSUME ScheduleInv, Build
  PROVE  Order!Start
<1>1. /\ phase = "planning" /\ phase' = "building" /\ arena' = NewArena(prefix)
      /\ UNCHANGED <<prefix, plan, executed>>
  <2>1. ScheduleInv'
    BY BuildKeeps
  <2>2. phase' # "broken"
    BY <2>1 DEF ScheduleInv, PlanInv
  <2> QED BY <2>2 DEF Build
<1>2. prefix \in 0..MaxPrefix
  BY DEF ScheduleInv, PlanInv
<1> DEFINE s == [k \in 1..prefix |-> k]
<1>3. /\ NewArena(prefix) \in Arena /\ Listed(NewArena(prefix), s, prefix)
      /\ Keys(NewArena(prefix), s, prefix) = [k \in 1..prefix |-> <<k - 1, 0>>]
  BY <1>2, NewArenaIs
<1> HIDE DEF s
<1>4. Walk(NewArena(prefix)) = [i \in 1..prefix |-> <<i - 1, 0>>]
  BY <1>3, WalkOfList
<1> QED BY <1>1, <1>4 DEF Order!Start

LEMMA NextRefines ==
  ASSUME ScheduleInv, [Next]_vars
  PROVE  [Order!Next]_(Order!vars)
<1>1. ScheduleInv'
  BY NextKeeps
<1>2. CASE PlanAction
  BY <1>1, <1>2, PlanRefines DEF Order!Next
<1>3. CASE Reject
  <2>1. /\ phase = "planning" /\ phase' = "rejected"
        /\ UNCHANGED <<prefix, plan, executed, arena>>
    BY <1>3 DEF Reject
  <2> QED BY <2>1 DEF Order!vars
<1>4. CASE Build
  BY <1>4, BuildRefines DEF Order!Next
<1>5. CASE ExecuteDrop
  BY <1>5, DropRefines DEF Order!Next
<1>6. CASE ExecuteDuplicate
  BY <1>6, DuplicateRefines DEF Order!Next
<1>7. CASE ExecuteMove
  BY <1>7, MoveRefines DEF Order!Next
<1>8. CASE Materialize
  <2>1. phase = "building" /\ UNCHANGED <<prefix, plan, executed, arena>>
    BY <1>8 DEF Materialize
  <2>2. phase' = "done"
    BY <1>8, MaterializeKeeps
  <2> QED BY <2>1, <2>2 DEF Order!vars
<1>9. CASE UNCHANGED vars
  BY <1>9 DEF vars, Order!vars
<1> QED BY <1>2, <1>3, <1>4, <1>5, <1>6, <1>7, <1>8, <1>9 DEF Next

(* OrderSpec: the arena implements the edit of a sequence.  The order of   *)
(* its list is at every step the order of the deliveries as the executed   *)
(* actions edited it, one after the other, and it moves only by them       *)
(* (DeliveryArena of src/scenario.rs).                                     *)
THEOREM ArenaImplementsOrder == Spec => OrderSpec
<1>1. Init => Order!Init
  <2> SUFFICES ASSUME Init PROVE Order!Init
    OBVIOUS
  <2>1. /\ phase = "planning" /\ prefix \in 0..MaxPrefix /\ plan = <<>> /\ executed = 0
    BY DEF Init
  <2>2. SubSeq(plan, executed + 1, Len(plan)) = <<>>
    <3>1. plan \in Seq({}) /\ executed + 1 = 1
      BY <2>1
    <3> QED BY <2>1, <3>1, SubSeqFull
  <2>3. [i \in 1..prefix |-> <<i - 1, 0>>] = Order!Originals(prefix)
    BY DEF Order!Originals
  <2> QED BY <2>1, <2>2, <2>3 DEF Order!Init
<1>2. ScheduleInv /\ [Next]_vars => [Order!Next]_(Order!vars)
  BY NextRefines
<1> QED BY <1>1, <1>2, ScheduleIsSound, PTL DEF Spec, OrderSpec, Order!Spec

-----------------------------------------------------------------------------
(* The executions observe the schedule and never act on it.                *)

(* compare_schedule only reads the schedule it compares: the behaviours    *)
(* with the executions are behaviours of planning and materialization.     *)
THEOREM ExecutionObservesSchedule == ExecutionSpec => Spec
<1>1. ExecutionInit => Init
  BY DEF ExecutionInit
<1>2. [ExecutionNext]_<<vars, executionVars>> => [Next]_vars
  BY DEF ExecutionNext, BeginPristine, AdmitNext, FailFold, FinishPristine, FinishFaulted
<1> QED BY <1>1, <1>2, PTL DEF ExecutionSpec, Spec

(* A sequence that rises is determined by its entries.                     *)
Rising(q) == \A i, j \in 1..Len(q) : i < j => q[i] < q[j]

LEMMA RisingPrefix ==
  ASSUME NEW q \in Seq(Nat), NEW r \in Seq(Nat), Rising(q), Rising(r),
         Entries(q, Len(q)) = Entries(r, Len(r)), NEW k \in 1..Len(q)
  PROVE  k <= Len(r) /\ q[k] = r[k]
<1> DEFINE n == Len(q)
           m == Len(r)
           T == {j \in Nat : j \in 1..n /\ ~(j <= m /\ q[j] = r[j])}
<1>1. /\ n \in Nat /\ m \in Nat
      /\ \A j \in 1..n : q[j] \in Nat
      /\ \A j \in 1..m : r[j] \in Nat
  OBVIOUS
<1>2. /\ \A i, j \in 1..n : i < j => q[i] < q[j]
      /\ \A i, j \in 1..m : i < j => r[i] < r[j]
  BY DEF Rising
<1>3. /\ \A j \in 1..n : \E i \in 1..m : r[i] = q[j]
      /\ \A j \in 1..m : \E i \in 1..n : q[i] = r[j]
  <2>1. {q[j] : j \in 1..n} = {r[j] : j \in 1..m}
    BY DEF Entries
  <2> HIDE DEF n, m
  <2>2. \A j \in 1..n : q[j] \in {r[i] : i \in 1..m}
    BY <2>1
  <2>3. \A j \in 1..m : r[j] \in {q[i] : i \in 1..n}
    BY <2>1
  <2> QED BY <2>2, <2>3
<1> HIDE DEF n, m
<1>4. T = {}
  <2> SUFFICES ASSUME T # {} PROVE FALSE
    OBVIOUS
  <2>1. PICK j \in T : \A i \in T : j <= i
    BY LeastNat
  <2>2. ASSUME NEW i \in 1..n, i < j PROVE i <= m /\ q[i] = r[i]
    <3>1. i \in Nat /\ j \in Nat /\ ~(j <= i)
      BY <1>1, <2>1, <2>2
    <3>2. i \notin T
      BY <2>1, <3>1
    <3> QED BY <3>1, <3>2
  <2>3. j \in 1..n /\ q[j] \in Nat
    BY <1>1, <2>1
  <2>4. PICK i \in 1..m : r[i] = q[j]
    BY <1>3, <2>3
  <2>5. ~(i < j)
    BY <1>1, <1>2, <2>2, <2>3, <2>4
  <2>6. j <= m /\ j \in 1..m /\ i # j /\ j < i
    <3>1. j \in Nat /\ j >= 1 /\ i \in Nat /\ i <= m
      BY <1>1, <2>1
    <3>2. j <= i /\ j <= m
      BY <1>1, <2>5, <3>1
    <3>3. q[j] # r[j]
      BY <2>1, <3>2
    <3>4. i # j
      BY <2>4, <3>3
    <3> QED BY <1>1, <3>1, <3>2, <3>4
  <2>7. r[j] < q[j]
    BY <1>2, <2>4, <2>6
  <2>8. PICK h \in 1..n : q[h] = r[j]
    BY <1>3, <2>6
  <2>9. h < j
    <3>1. h # j
      BY <1>1, <2>3, <2>6, <2>7, <2>8
    <3>2. ~(j < h)
      <4>1. j < h => q[j] < q[h]
        BY <1>2, <2>3
      <4>2. q[j] \in Nat /\ q[h] \in Nat /\ q[h] < q[j]
        BY <1>1, <2>3, <2>7, <2>8
      <4> HIDE DEF T
      <4> QED BY <4>1, <4>2
    <3> QED BY <1>1, <2>3, <3>1, <3>2
  <2>10. h \in 1..m /\ r[h] = r[j]
    BY <2>2, <2>8, <2>9
  <2> QED BY <1>1, <1>2, <2>6, <2>9, <2>10
<1> QED BY <1>4 DEF n, m

LEMMA RisingSame ==
  ASSUME NEW q \in Seq(Nat), NEW r \in Seq(Nat), Rising(q), Rising(r),
         Entries(q, Len(q)) = Entries(r, Len(r))
  PROVE  q = r
<1>1. \A k \in 1..Len(q) : k <= Len(r) /\ q[k] = r[k]
  BY RisingPrefix
<1>2. \A k \in 1..Len(r) : k <= Len(q) /\ r[k] = q[k]
  BY RisingPrefix
<1>3. Len(q) \in Nat /\ Len(r) \in Nat
  OBVIOUS
<1>4. Len(q) = Len(r)
  <2>1. Len(q) # 0 => Len(q) <= Len(r)
    BY <1>1, <1>3
  <2>2. Len(r) # 0 => Len(r) <= Len(q)
    BY <1>2, <1>3
  <2> QED BY <1>3, <2>1, <2>2
<1> QED BY <1>1, <1>4, SeqEqual

(* The sources that the first k deliveries of w bring to stream s of m,    *)
(* and what a state has admitted of them.                                  *)
Sources(w, k, m, s) == {w[i][1] : i \in {j \in 1..k : m[w[j][1]] = s}}

RisingFeed(w, m, s) ==
  \A i, j \in 1..Len(w) : i < j /\ m[w[i][1]] = s /\ m[w[j][1]] = s => w[i][1] < w[j][1]

Admitted(q, w, k, m, s) ==
  /\ q \in Seq(Nat)
  /\ Entries(q, Len(q)) = Sources(w, k, m, s)
  /\ RisingFeed(w, m, s) => Rising(q)

LEMMA AdmitsNone ==
  ASSUME NEW w, NEW m, NEW s
  PROVE  Admitted(<<>>, w, 0, m, s)
<1>1. <<>> \in Seq(Nat) /\ Len(<<>>) = 0 /\ 1..0 = {}
  OBVIOUS
<1>2. Entries(<<>>, 0) = {} /\ Sources(w, 0, m, s) = {}
  BY <1>1 DEF Entries, Sources
<1> QED BY <1>1, <1>2 DEF Admitted, Rising

LEMMA AdmitsOwn ==
  ASSUME NEW q, NEW w, NEW k \in Nat, NEW m, NEW s, Admitted(q, w, k, m, s),
         Len(w) \in Nat, k + 1 <= Len(w), \A i \in 1..Len(w) : w[i][1] \in Nat,
         m[w[k + 1][1]] = s
  PROVE  Admitted(Append(q, w[k + 1][1]), w, k + 1, m, s)
<1> DEFINE x == w[k + 1][1]
           r == Append(q, x)
           n == Len(q)
<1>1. q \in Seq(Nat) /\ x \in Nat /\ n \in Nat
  BY DEF Admitted
<1>2. r \in Seq(Nat) /\ Len(r) = n + 1 /\ r[n + 1] = x /\ \A i \in 1..n : r[i] = q[i]
  <2> HIDE DEF x
  <2> QED BY <1>1
<1>3. \A y : y \in Sources(w, k, m, s) <=> \E i \in 1..k : m[w[i][1]] = s /\ y = w[i][1]
  BY DEF Sources
<1>4. \A y : y \in Sources(w, k + 1, m, s)
               <=> \E i \in 1..(k + 1) : m[w[i][1]] = s /\ y = w[i][1]
  BY DEF Sources
<1>5. \A y : y \in Entries(q, n) <=> \E i \in 1..n : y = q[i]
  BY DEF Entries
<1>6. \A y : y \in Entries(r, n + 1) <=> \E i \in 1..(n + 1) : y = r[i]
  BY DEF Entries
<1>7. Entries(q, n) = Sources(w, k, m, s)
  BY DEF Admitted
<1> HIDE DEF r, n
<1>8. \A y : y \in Sources(w, k + 1, m, s) <=> y \in Sources(w, k, m, s) \/ y = x
  <2>1. \A i : i \in 1..(k + 1) <=> i \in 1..k \/ i = k + 1
    OBVIOUS
  <2> HIDE DEF x
  <2> QED BY <1>3, <1>4, <2>1 DEF x
<1>9. \A y : y \in Entries(r, n + 1) <=> y \in Entries(q, n) \/ y = x
  <2>1. \A i : i \in 1..(n + 1) <=> i \in 1..n \/ i = n + 1
    BY <1>1
  <2>2. ASSUME NEW y
        PROVE  (\E i \in 1..(n + 1) : y = r[i]) <=> (\E i \in 1..n : y = q[i]) \/ y = x
    <3> HIDE DEF x
    <3>1. n + 1 \in 1..(n + 1)
      BY <1>1
    <3> QED BY <1>2, <2>1, <3>1
  <2> HIDE DEF x
  <2> QED BY <1>5, <1>6, <2>2
<1>10. Entries(r, Len(r)) = Sources(w, k + 1, m, s)
  BY <1>2, <1>7, <1>8, <1>9
<1>11. ASSUME RisingFeed(w, m, s) PROVE Rising(r)
  <2> SUFFICES ASSUME NEW i \in 1..(n + 1), NEW j \in 1..(n + 1), i < j
               PROVE  r[i] < r[j]
    BY <1>2 DEF Rising
  <2>1. i \in 1..n /\ r[i] = q[i]
    BY <1>1, <1>2
  <2>2. CASE j \in 1..n
    BY <1>2, <1>11, <2>1, <2>2 DEF Admitted, Rising, n
  <2>3. CASE j = n + 1
    <3>1. q[i] \in Sources(w, k, m, s)
      BY <1>5, <1>7, <2>1
    <3>2. PICK h \in 1..k : m[w[h][1]] = s /\ q[i] = w[h][1]
      BY <1>3, <3>1
    <3>3. h \in 1..Len(w) /\ k + 1 \in 1..Len(w) /\ h < k + 1
      OBVIOUS
    <3>4. w[h][1] < x
      BY <1>11, <3>2, <3>3 DEF RisingFeed
    <3> QED BY <1>2, <2>1, <2>3, <3>2, <3>4
  <2> QED BY <1>1, <2>2, <2>3
<1> QED BY <1>2, <1>10, <1>11 DEF Admitted, r

LEMMA AdmitsOther ==
  ASSUME NEW q, NEW w, NEW k \in Nat, NEW m, NEW s, Admitted(q, w, k, m, s),
         m[w[k + 1][1]] # s
  PROVE  Admitted(q, w, k + 1, m, s)
<1>1. {j \in 1..(k + 1) : m[w[j][1]] = s} = {j \in 1..k : m[w[j][1]] = s}
  OBVIOUS
<1>2. Sources(w, k + 1, m, s) = Sources(w, k, m, s)
  BY <1>1 DEF Sources
<1> QED BY <1>2 DEF Admitted

-----------------------------------------------------------------------------
(* The invariant of the executions: each state has admitted the sources    *)
(* that the deliveries so far brought to its stream, and nothing else.     *)
Published == [i \in 1..prefix |-> <<i - 1, 0>>]

AllAdmitted(t, w, k) ==
  /\ DOMAIN t = 1..streamPrefix
  /\ \A s \in 1..streamPrefix : Admitted(t[s], w, k, sourceStreams, s)

ExecutionInv ==
  /\ mode \in {"waiting", "pristine", "faulted", "compared", "failed"}
  /\ mode = "waiting" => delivered = 0
  /\ mode # "waiting" =>
       /\ phase = "done"
       /\ streamPrefix \in Nat
       /\ sourceStreams \in [Source -> 1..MaxStreams]
       /\ \A i \in Source : i < prefix => sourceStreams[i] <= streamPrefix
  /\ mode = "pristine" => /\ delivered \in 0..prefix
                          /\ AllAdmitted(states, Published, delivered)
  /\ mode \in {"faulted", "compared"} => AllAdmitted(pristine, Published, prefix)
  /\ mode = "faulted" => /\ delivered \in 0..Len(deliveries)
                         /\ AllAdmitted(states, deliveries, delivered)
  /\ mode = "compared" =>
       \E t : /\ AllAdmitted(t, deliveries, Len(deliveries))
              /\ compared = [s \in 1..streamPrefix |->
                               [pristine |-> pristine[s], faulted |-> t[s]]]

LEMMA PublishedIs ==
  ASSUME ScheduleInv
  PROVE  /\ prefix \in Nat /\ Len(Published) = prefix
         /\ \A i \in 1..prefix : Published[i][1] = i - 1 /\ i - 1 \in Source
<1>1. prefix \in 0..MaxPrefix
  BY DEF ScheduleInv, PlanInv
<1>2. prefix \in Nat /\ \A i \in 1..prefix : i - 1 \in Source
  BY <1>1, ConstantsAre DEF Source
<1>3. Published \in [1..prefix -> {<<i - 1, 0>> : i \in 1..prefix}]
  BY DEF Published
<1>4. Len(Published) = prefix
  BY <1>2, <1>3, SequenceFrom
<1>5. \A i \in 1..prefix : Published[i][1] = i - 1
  BY DEF Published
<1> QED BY <1>2, <1>4, <1>5

LEMMA DeliveriesAre ==
  ASSUME ScheduleInv, phase = "done"
  PROVE  LET there == Created(prefix, plan, Len(plan)) \ Removed(plan, Len(plan))
         IN  /\ Len(deliveries) \in Nat /\ DOMAIN deliveries = 1..Len(deliveries)
             /\ \A i \in 1..Len(deliveries) : /\ deliveries[i][1] \in Source
                                              /\ deliveries[i][1] \in Nat
                                              /\ deliveries[i][1] < prefix
             /\ \A d \in there : \E i \in 1..Len(deliveries) : deliveries[i] = d
             /\ InOrder(plan, deliveries, Len(deliveries))
<1> DEFINE there == Created(prefix, plan, Len(plan)) \ Removed(plan, Len(plan))
<1>1. Sound(arena, prefix, plan, Len(plan)) /\ deliveries = Walk(arena)
  BY DEF ScheduleInv, ArenaInv
<1>2. /\ Len(deliveries) \in Nat /\ DOMAIN deliveries = 1..Len(deliveries)
      /\ deliveries \in Seq(there)
      /\ \A d \in there : \E i \in 1..Len(deliveries) : deliveries[i] = d
      /\ InOrder(plan, deliveries, Len(deliveries))
  BY <1>1, SoundWalk
<1>3. there \subseteq Existing(prefix, nextOccurrence) /\ prefix \in 0..MaxPrefix
  BY DEF ScheduleInv, PlanInv
<1>4. \A d \in there : d[1] \in Source /\ d[1] \in Nat /\ d[1] < prefix
  BY <1>3, ConstantsAre DEF Existing, Delivery, Source
<1> HIDE DEF there
<1>5. \A i \in 1..Len(deliveries) : deliveries[i] \in there
  BY <1>2
<1> QED BY <1>2, <1>4, <1>5 DEF there

LEMMA FreshAdmitsNone ==
  ASSUME NEW w
  PROVE  AllAdmitted(Fresh(streamPrefix), w, 0)
BY AdmitsNone DEF AllAdmitted, Fresh

(* A delivery to a state of its stream; every other state is left alone.   *)
LEMMA DeliveryAdmitted ==
  ASSUME NEW w, NEW k \in Nat, NEW t, AllAdmitted(t, w, k), Len(w) \in Nat, k + 1 <= Len(w),
         \A i \in 1..Len(w) : w[i][1] \in Nat,
         NEW s \in 1..streamPrefix, sourceStreams[w[k + 1][1]] = s
  PROVE  AllAdmitted([t EXCEPT ![s] = Append(@, w[k + 1][1])], w, k + 1)
<1> DEFINE u == [t EXCEPT ![s] = Append(@, w[k + 1][1])]
<1>1. DOMAIN u = 1..streamPrefix
  BY DEF AllAdmitted
<1>2. ASSUME NEW z \in 1..streamPrefix
      PROVE  Admitted(u[z], w, k + 1, sourceStreams, z)
  <2>1. Admitted(t[z], w, k, sourceStreams, z) /\ DOMAIN t = 1..streamPrefix
    BY DEF AllAdmitted
  <2>2. CASE z = s
    <3>1. u[z] = Append(t[z], w[k + 1][1])
      BY <2>1, <2>2
    <3> HIDE DEF u
    <3>2. Admitted(Append(t[z], w[k + 1][1]), w, k + 1, sourceStreams, z)
      BY <2>1, <2>2, AdmitsOwn
    <3> QED BY <3>1, <3>2
  <2>3. CASE z # s
    <3>1. u[z] = t[z]
      BY <2>1, <2>3
    <3> HIDE DEF u
    <3>2. Admitted(t[z], w, k + 1, sourceStreams, z)
      BY <2>1, <2>3, AdmitsOther
    <3> QED BY <3>1, <3>2
  <2> QED BY <2>2, <2>3
<1> QED BY <1>1, <1>2 DEF AllAdmitted

LEMMA BeginKeeps ==
  ASSUME ScheduleInv, ExecutionInv, BeginPristine
  PROVE  ExecutionInv'
<1>1. /\ mode = "waiting" /\ mode' = "pristine" /\ phase = "done"
      /\ streamPrefix' \in 0..MaxStreams
      /\ sourceStreams' \in [Source -> 1..MaxStreams]
      /\ \A i \in Source : i < prefix => sourceStreams'[i] <= streamPrefix'
      /\ states' = Fresh(streamPrefix')
      /\ UNCHANGED <<phase, prefix, deliveries, delivered, pristine, compared>>
  BY DEF BeginPristine, vars
<1>2. delivered = 0 /\ delivered' = 0
  BY <1>1 DEF ExecutionInv
<1>3. AllAdmitted(Fresh(streamPrefix), Published, 0)'
  BY AdmitsNone DEF AllAdmitted, Fresh
<1>4. AllAdmitted(states, Published, delivered)'
  BY <1>1, <1>2, <1>3 DEF AllAdmitted
<1>5. delivered' \in 0..prefix' /\ streamPrefix' \in Nat
  BY <1>1, <1>2, PublishedIs, StreamsAssumption
<1> QED BY <1>1, <1>2, <1>4, <1>5 DEF ExecutionInv

LEMMA AdmitKeeps ==
  ASSUME ScheduleInv, ExecutionInv, AdmitNext
  PROVE  ExecutionInv'
<1>1. /\ mode \in {"pristine", "faulted"} /\ delivered < Len(Feed)
      /\ UNCHANGED <<phase, prefix, deliveries, sourceStreams, streamPrefix, pristine,
                     compared>>
  BY DEF AdmitNext, Executing, vars
<1>2. /\ phase = "done" /\ streamPrefix \in Nat
      /\ sourceStreams \in [Source -> 1..MaxStreams]
      /\ \A i \in Source : i < prefix => sourceStreams[i] <= streamPrefix
  BY <1>1 DEF ExecutionInv
<1>3. Feed = IF mode = "pristine" THEN Published ELSE deliveries
  BY DEF Feed, Published
<1>4. /\ Len(Feed) \in Nat
      /\ \A i \in 1..Len(Feed) : /\ Feed[i][1] \in Source /\ Feed[i][1] \in Nat
                                 /\ Feed[i][1] < prefix
  <2>1. CASE mode = "pristine"
    <3>1. Feed = Published /\ Len(Feed) = prefix /\ prefix \in Nat
      BY <1>3, <2>1, PublishedIs
    <3>2. \A i \in 1..prefix : Published[i][1] = i - 1 /\ i - 1 \in Source
      BY PublishedIs
    <3> QED BY <3>1, <3>2
  <2>2. CASE mode # "pristine"
    <3>1. Feed = deliveries
      BY <1>3, <2>2
    <3> QED BY <1>2, <3>1, DeliveriesAre
  <2> QED BY <2>1, <2>2
<1>5. delivered \in 0..Len(Feed) /\ AllAdmitted(states, Feed, delivered)
  <2>1. CASE mode = "pristine"
    BY <1>3, <2>1, PublishedIs DEF ExecutionInv
  <2>2. CASE mode = "faulted"
    BY <1>3, <2>2 DEF ExecutionInv
  <2> QED BY <1>1, <2>1, <2>2
<1> DEFINE k == delivered
           s == sourceStreams[Feed[k + 1][1]]
<1>6. k \in Nat /\ k + 1 \in 1..Len(Feed) /\ k + 1 <= Len(Feed)
  BY <1>1, <1>4, <1>5
<1>7. s \in 1..streamPrefix
  <2>1. Feed[k + 1][1] \in Source /\ Feed[k + 1][1] < prefix
    BY <1>4, <1>6
  <2>2. s \in 1..MaxStreams /\ s <= streamPrefix
    BY <1>2, <2>1
  <2> QED BY <1>2, <2>2, StreamsAssumption
<1>8. s \in DOMAIN states
  BY <1>5, <1>7 DEF AllAdmitted
<1>9. /\ states' = [states EXCEPT ![s] = Append(@, Feed[k + 1][1])]
      /\ delivered' = k + 1 /\ mode' = mode
  BY <1>8 DEF AdmitNext, Route
<1>10. \A i \in 1..Len(Feed) : Feed[i][1] \in Nat
  BY <1>4
<1> HIDE DEF k
<1>11. AllAdmitted(states', Feed, k + 1)
  BY <1>4, <1>5, <1>6, <1>7, <1>9, <1>10, DeliveryAdmitted DEF k
<1>12. AllAdmitted(states', Feed, k + 1) => AllAdmitted(states, Feed, delivered)'
  <2>1. Feed' = Feed /\ delivered' = k + 1
    BY <1>1, <1>9 DEF Feed
  <2> QED BY <1>1, <2>1 DEF AllAdmitted
<1>13. Feed' = IF mode = "pristine" THEN Published' ELSE deliveries'
  BY <1>1, <1>9 DEF Feed, Published
<1>14. CASE mode = "pristine"
  <2>1. AllAdmitted(states, Published, delivered)'
    BY <1>11, <1>12, <1>13, <1>14
  <2>2. delivered' \in 0..prefix'
    <3>1. Feed = Published /\ Len(Feed) = prefix /\ prefix' = prefix
      BY <1>1, <1>3, <1>14, PublishedIs
    <3> QED BY <1>4, <1>6, <1>9, <3>1 DEF k
  <2> QED BY <1>1, <1>2, <1>9, <1>14, <2>1, <2>2 DEF ExecutionInv
<1>15. CASE mode = "faulted"
  <2>1. AllAdmitted(states, deliveries, delivered)'
    BY <1>11, <1>12, <1>13, <1>15
  <2>2. delivered' \in 0..Len(deliveries')
    BY <1>1, <1>3, <1>6, <1>9, <1>15
  <2>3. AllAdmitted(pristine, Published, prefix)'
    BY <1>1, <1>15 DEF ExecutionInv, AllAdmitted, Published
  <2> QED BY <1>1, <1>2, <1>9, <1>15, <2>1, <2>2, <2>3 DEF ExecutionInv
<1> QED BY <1>1, <1>14, <1>15

LEMMA FinishKeeps ==
  ASSUME ScheduleInv, ExecutionInv, FinishPristine \/ FinishFaulted
  PROVE  ExecutionInv'
<1>1. UNCHANGED <<phase, prefix, deliveries, sourceStreams, streamPrefix>>
  BY DEF FinishPristine, FinishFaulted, vars
<1>2. /\ phase = "done" /\ streamPrefix \in Nat
      /\ sourceStreams \in [Source -> 1..MaxStreams]
      /\ \A i \in Source : i < prefix => sourceStreams[i] <= streamPrefix
  BY DEF ExecutionInv, FinishPristine, FinishFaulted
<1>3. CASE FinishPristine
  <2>1. /\ mode = "pristine" /\ mode' = "faulted" /\ delivered = Len(Feed) /\ delivered' = 0
        /\ pristine' = states /\ states' = Fresh(streamPrefix)
    BY <1>3 DEF FinishPristine
  <2>2. delivered = prefix
    BY <2>1, PublishedIs DEF Feed, Published
  <2>3. AllAdmitted(states, Published, prefix)
    BY <2>1, <2>2 DEF ExecutionInv
  <2>4. AllAdmitted(pristine, Published, prefix)'
    BY <1>1, <2>1, <2>3 DEF AllAdmitted, Published
  <2>5. AllAdmitted(Fresh(streamPrefix), deliveries, 0)
    BY FreshAdmitsNone
  <2>6. AllAdmitted(states, deliveries, delivered)'
    BY <1>1, <2>1, <2>5 DEF AllAdmitted
  <2>7. delivered' \in 0..Len(deliveries')
    BY <1>1, <1>2, <2>1, DeliveriesAre
  <2> QED BY <1>1, <1>2, <2>1, <2>4, <2>6, <2>7 DEF ExecutionInv
<1>4. CASE FinishFaulted
  <2>1. /\ mode = "faulted" /\ delivered = Len(Feed) /\ pristine' = pristine
        /\ IF DOMAIN pristine = DOMAIN states
             THEN /\ compared' = [s \in DOMAIN states |->
                                    [pristine |-> pristine[s], faulted |-> states[s]]]
                  /\ mode' = "compared"
             ELSE mode' = "broken" /\ UNCHANGED compared
    BY <1>4 DEF FinishFaulted
  <2>2. /\ AllAdmitted(pristine, Published, prefix)
        /\ AllAdmitted(states, deliveries, delivered)
    BY <2>1 DEF ExecutionInv
  <2>3. delivered = Len(deliveries)
    BY <2>1 DEF Feed
  <2>4. DOMAIN pristine = 1..streamPrefix /\ DOMAIN states = 1..streamPrefix
    BY <2>2 DEF AllAdmitted
  <2>5. /\ mode' = "compared"
        /\ compared' = [s \in 1..streamPrefix |->
                          [pristine |-> pristine[s], faulted |-> states[s]]]
    BY <2>1, <2>4
  <2>6. AllAdmitted(pristine, Published, prefix)'
    BY <1>1, <2>1, <2>2 DEF AllAdmitted, Published
  <2>7. AllAdmitted(states, deliveries, Len(deliveries))
    BY <2>2, <2>3
  <2>8. \E t : /\ DOMAIN t = 1..streamPrefix'
               /\ \A s \in 1..streamPrefix' :
                    Admitted(t[s], deliveries', Len(deliveries'), sourceStreams', s)
               /\ compared' = [s \in 1..streamPrefix' |->
                                 [pristine |-> pristine'[s], faulted |-> t[s]]]
    BY <1>1, <2>1, <2>5, <2>7 DEF AllAdmitted
  <2> QED BY <1>1, <1>2, <2>5, <2>6, <2>8 DEF ExecutionInv, AllAdmitted
<1> QED BY <1>3, <1>4

LEMMA ExecutionKeeps ==
  ASSUME ScheduleInv, ExecutionInv, [ExecutionNext]_<<vars, executionVars>>
  PROVE  ExecutionInv'
<1>1. CASE Next /\ UNCHANGED executionVars
  <2>1. phase # "done"
    BY <1>1 DEF Next, PlanAction, PlanDrop, PlanDuplicate, PlanMove, Planning, Reject,
                Build, ExecuteDrop, ExecuteDuplicate, ExecuteMove, Executes, Materialize
  <2>2. mode = "waiting" /\ mode' = mode /\ delivered' = delivered
    BY <1>1, <2>1 DEF ExecutionInv, executionVars
  <2> QED BY <2>2 DEF ExecutionInv
<1>2. CASE BeginPristine
  BY <1>2, BeginKeeps
<1>3. CASE AdmitNext
  BY <1>3, AdmitKeeps
<1>4. CASE FailFold
  BY <1>4 DEF FailFold, Executing, vars, ExecutionInv
<1>5. CASE FinishPristine \/ FinishFaulted
  BY <1>5, FinishKeeps
<1>6. CASE UNCHANGED <<vars, executionVars>>
  BY <1>6 DEF vars, executionVars, ExecutionInv, AllAdmitted, Published
<1> QED BY <1>1, <1>2, <1>3, <1>4, <1>5, <1>6 DEF ExecutionNext

(* The published deliveries of a stream rise; so do, in the faulted        *)
(* execution, those of a stream that no action touches, and they are the   *)
(* same.                                                                   *)
LEMMA PublishedRises ==
  ASSUME ScheduleInv, NEW s
  PROVE  RisingFeed(Published, sourceStreams, s)
<1>1. /\ prefix \in Nat /\ Len(Published) = prefix
      /\ \A i \in 1..prefix : Published[i][1] = i - 1
  BY PublishedIs
<1>2. \A i, j \in 1..prefix : i < j => Published[i][1] < Published[j][1]
  BY <1>1
<1> QED BY <1>1, <1>2 DEF RisingFeed

LEMMA SourcesHas ==
  ASSUME NEW w, NEW k, NEW m, NEW s, NEW x
  PROVE  x \in Sources(w, k, m, s) <=> \E i \in 1..k : m[w[i][1]] = s /\ x = w[i][1]
BY DEF Sources

LEMMA UntouchedIsSpared ==
  ASSUME ScheduleInv, NEW s, s \notin Touched, NEW x, sourceStreams[x] = s
  PROVE  Spared(plan, x)
<1>1. DOMAIN plan = 1..Len(plan)
  BY DEF ScheduleInv, PlanInv
<1> QED BY <1>1 DEF Spared, Touched

LEMMA UntouchedFeed ==
  ASSUME ScheduleInv, phase = "done", NEW s, s \notin Touched
  PROVE  /\ RisingFeed(deliveries, sourceStreams, s)
         /\ Sources(deliveries, Len(deliveries), sourceStreams, s)
              = Sources(Published, prefix, sourceStreams, s)
<1> DEFINE there == Created(prefix, plan, Len(plan)) \ Removed(plan, Len(plan))
           z == Len(deliveries)
<1>1. /\ z \in Nat
      /\ \A i \in 1..z : /\ deliveries[i][1] \in Nat
                         /\ deliveries[i][1] < prefix
      /\ \A d \in there : \E i \in 1..z : deliveries[i] = d
      /\ InOrder(plan, deliveries, z)
  BY DeliveriesAre
<1>2. /\ prefix \in Nat
      /\ \A i \in 1..prefix : Published[i][1] = i - 1
  BY PublishedIs
<1> HIDE DEF z, there
<1>3. RisingFeed(deliveries, sourceStreams, s)
  <2> SUFFICES ASSUME NEW i \in 1..z, NEW j \in 1..z, i < j,
                      sourceStreams[deliveries[i][1]] = s, sourceStreams[deliveries[j][1]] = s
               PROVE  deliveries[i][1] < deliveries[j][1]
    BY DEF RisingFeed, z
  <2>1. Spared(plan, deliveries[i][1]) /\ Spared(plan, deliveries[j][1])
    BY UntouchedIsSpared
  <2> QED BY <1>1, <2>1 DEF InOrder
<1>4. ASSUME NEW x \in Sources(deliveries, z, sourceStreams, s)
      PROVE  x \in Sources(Published, prefix, sourceStreams, s)
  <2>1. PICK i \in 1..z : sourceStreams[deliveries[i][1]] = s /\ x = deliveries[i][1]
    BY <1>4, SourcesHas
  <2>2. x \in Nat /\ x < prefix /\ sourceStreams[x] = s
    BY <1>1, <2>1
  <2>3. x + 1 \in 1..prefix /\ Published[x + 1][1] = x
    BY <1>2, <2>2
  <2> QED BY <2>2, <2>3, SourcesHas
<1>5. ASSUME NEW x \in Sources(Published, prefix, sourceStreams, s)
      PROVE  x \in Sources(deliveries, z, sourceStreams, s)
  <2>1. PICK i \in 1..prefix : sourceStreams[Published[i][1]] = s /\ x = Published[i][1]
    BY <1>5, SourcesHas
  <2>2. x = i - 1 /\ sourceStreams[x] = s
    BY <1>2, <2>1
  <2>3. <<x, 0>> \in Created(prefix, plan, Len(plan))
    BY <2>2 DEF Created, Originals
  <2>4. <<x, 0>> \notin Removed(plan, Len(plan))
    <3>1. Spared(plan, x)
      BY <2>2, UntouchedIsSpared
    <3>2. \A j \in 1..Len(plan) : plan[j].target # <<x, 0>>
      BY <3>1 DEF Spared
    <3> QED BY <3>2 DEF Removed
  <2>5. PICK h \in 1..z : deliveries[h] = <<x, 0>>
    BY <1>1, <2>3, <2>4 DEF there
  <2>6. deliveries[h][1] = x
    BY <2>5
  <2> QED BY <2>2, <2>6, SourcesHas
<1> QED BY <1>3, <1>4, <1>5 DEF z

LEMMA ExecutionInvImplies ==
  ASSUME ScheduleInv, ExecutionInv
  PROVE  StreamsAreIsolated
<1>1. mode # "broken"
  BY DEF ExecutionInv
<1>2. SUFFICES ASSUME mode = "compared" PROVE StreamsAreIsolated
  BY <1>1 DEF StreamsAreIsolated, FaultsStayInTheirStream, VerdictsAreTheirStreams
<1>3. /\ phase = "done" /\ streamPrefix \in Nat
      /\ AllAdmitted(pristine, Published, prefix)
  BY <1>2 DEF ExecutionInv
<1>4. PICK t : /\ AllAdmitted(t, deliveries, Len(deliveries))
               /\ compared = [s \in 1..streamPrefix |->
                                [pristine |-> pristine[s], faulted |-> t[s]]]
  BY <1>2 DEF ExecutionInv
<1>5. /\ DOMAIN compared = 1..streamPrefix
      /\ \A s \in 1..streamPrefix : /\ compared[s].pristine = pristine[s]
                                    /\ compared[s].faulted = t[s]
  BY <1>4
<1>6. ASSUME NEW s \in 1..streamPrefix
      PROVE  /\ Admitted(pristine[s], Published, prefix, sourceStreams, s)
             /\ Admitted(t[s], deliveries, Len(deliveries), sourceStreams, s)
             /\ Rising(pristine[s])
  <2>1. /\ Admitted(pristine[s], Published, prefix, sourceStreams, s)
        /\ Admitted(t[s], deliveries, Len(deliveries), sourceStreams, s)
    BY <1>3, <1>4 DEF AllAdmitted
  <2> QED BY <2>1, PublishedRises DEF Admitted
<1>7. ASSUME NEW s \in 1..streamPrefix, s \notin Touched
      PROVE  t[s] = pristine[s]
  <2>1. /\ RisingFeed(deliveries, sourceStreams, s)
        /\ Sources(deliveries, Len(deliveries), sourceStreams, s)
             = Sources(Published, prefix, sourceStreams, s)
    BY <1>3, <1>7, UntouchedFeed
  <2>2. /\ t[s] \in Seq(Nat) /\ pristine[s] \in Seq(Nat)
        /\ Rising(t[s]) /\ Rising(pristine[s])
        /\ Entries(t[s], Len(t[s])) = Entries(pristine[s], Len(pristine[s]))
    BY <1>6, <2>1 DEF Admitted
  <2> QED BY <2>2, RisingSame
<1>8. FaultsStayInTheirStream
  BY <1>5, <1>7 DEF FaultsStayInTheirStream
<1>9. ASSUME NEW s \in 1..streamPrefix
      PROVE  LET own == {i \in Source : i < prefix /\ sourceStreams[i] = s}
                 ran == pristine[s]
             IN  /\ \A i \in own : \E n \in DOMAIN ran : ran[n] = i
                 /\ \A n \in 2..Len(ran) : ran[n - 1] < ran[n]
                 /\ \A n \in DOMAIN t[s] : t[s][n] \in own
  <2> DEFINE own == {i \in Source : i < prefix /\ sourceStreams[i] = s}
             ran == pristine[s]
             fed == t[s]
  <2>1. /\ ran \in Seq(Nat) /\ Rising(ran)
        /\ Entries(ran, Len(ran)) = Sources(Published, prefix, sourceStreams, s)
        /\ fed \in Seq(Nat)
        /\ Entries(fed, Len(fed)) = Sources(deliveries, Len(deliveries), sourceStreams, s)
    BY <1>6 DEF Admitted
  <2> HIDE DEF ran, fed
  <2>2. /\ DOMAIN ran = 1..Len(ran) /\ Len(ran) \in Nat
        /\ DOMAIN fed = 1..Len(fed) /\ Len(fed) \in Nat
    BY <2>1
  <2>3. ASSUME NEW i \in own PROVE \E n \in DOMAIN ran : ran[n] = i
    <3>1. i \in Source /\ i \in Nat /\ i < prefix /\ sourceStreams[i] = s
      BY ConstantsAre DEF Source
    <3>2. i + 1 \in 1..prefix /\ Published[i + 1][1] = i
      BY <3>1, PublishedIs
    <3>3. i \in Entries(ran, Len(ran))
      BY <2>1, <3>1, <3>2, SourcesHas
    <3> QED BY <2>2, <3>3 DEF Entries
  <2>4. \A n \in 2..Len(ran) : ran[n - 1] < ran[n]
    <3> SUFFICES ASSUME NEW n \in 2..Len(ran) PROVE ran[n - 1] < ran[n]
      OBVIOUS
    <3>1. n - 1 \in 1..Len(ran) /\ n \in 1..Len(ran) /\ n - 1 < n
      BY <2>2
    <3> QED BY <2>1, <3>1 DEF Rising
  <2>5. ASSUME NEW n \in DOMAIN fed PROVE fed[n] \in own
    <3>1. fed[n] \in Sources(deliveries, Len(deliveries), sourceStreams, s)
      BY <2>1, <2>2 DEF Entries
    <3>2. PICK i \in 1..Len(deliveries) :
            sourceStreams[deliveries[i][1]] = s /\ fed[n] = deliveries[i][1]
      BY <3>1, SourcesHas
    <3> QED BY <1>3, <3>2, DeliveriesAre
  <2> QED BY <2>3, <2>4, <2>5 DEF ran, fed
<1>10. VerdictsAreTheirStreams
  BY <1>1, <1>5, <1>9 DEF VerdictsAreTheirStreams
<1> QED BY <1>8, <1>10 DEF StreamsAreIsolated

(* The invariant of the executions holds with that of the schedule they    *)
(* read.                                                                   *)
THEOREM ExecutionsAreSound == ExecutionSpec => [](ScheduleInv /\ ExecutionInv)
<1>1. ExecutionInit => ExecutionInv
  BY DEF ExecutionInit, ExecutionInv
<1>2. ScheduleInv /\ ExecutionInv /\ [ExecutionNext]_<<vars, executionVars>>
        => ExecutionInv'
  BY ExecutionKeeps
<1> QED BY <1>1, <1>2, ExecutionObservesSchedule, ScheduleIsSound, PTL DEF ExecutionSpec

(* StreamsAreIsolated: whatever the schedule drops, copies and moves, a    *)
(* stream none of whose deliveries it targets admits in the faulted        *)
(* execution exactly what it admitted in the pristine one, in the same     *)
(* order; every visible stream gets one verdict, made of its own sources;  *)
(* and no delivery goes to a stream without a state                        *)
(* (src/scenario.rs:508-513, 794-805).                                     *)
THEOREM StreamsAreIsolatedHolds == ExecutionSpec => []StreamsAreIsolated
BY ExecutionsAreSound, ExecutionInvImplies, PTL

(* What holds of the schedule holds of it while it is compared.            *)
COROLLARY ComparedScheduleIsSound ==
  ExecutionSpec => [](PlansNeverBreak /\ DeliversPlanned)
BY ExecutionsAreSound, ScheduleInvImplies, PTL

(* The order of the list is the edit the plan means, while it is compared   *)
(* as well.                                                                *)
COROLLARY ComparedArenaImplementsOrder == ExecutionSpec => OrderSpec
BY ExecutionObservesSchedule, ArenaImplementsOrder, PTL
=============================================================================
