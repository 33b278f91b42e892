-------------------------- MODULE AtomicCacheUpdate --------------------------
(***************************************************************************)
(* What a cache transaction promises: the view is untouched while the      *)
(* mutations of one application are taken, then replaced at once by what   *)
(* the whole list holds, or never, when some store of the list would pass  *)
(* a ceiling.                                                              *)
(***************************************************************************)
EXTENDS CacheProjection

CONSTANT MaxOps  \* bound: mutations in one list

VARIABLES view,     \* keys of the committed CacheView
          ops,      \* mutations taken since the last commit
          missing,  \* removes of keys that were not held
          rejected  \* the application was refused by a ceiling

vars == <<view, ops, missing, rejected>>

Log == Entries(0, ops, 1)
Next1(op) == [at |-> <<0, Len(ops) + 1>>, op |-> op]
WouldOverflow(op) ==
  Overflows(view, Log \cup {Next1(op)}, Next1(op), MaxCacheKeys, MaxCacheIdentityBytes)
WouldMiss(op) == op.kind = "remove" /\ op.key \notin Held(view, Log)

Init == /\ view \in {v \in SUBSET Key : /\ Cardinality(v) <= MaxCacheKeys
                                        /\ IdentityBytes(v) <= MaxCacheIdentityBytes}
        /\ ops = <<>>
        /\ missing = 0
        /\ rejected = FALSE

Take(op) == /\ ~rejected
            /\ Len(ops) < MaxOps
            /\ ~WouldOverflow(op)
            /\ ops' = Append(ops, op)
            /\ missing' = missing + IF WouldMiss(op) THEN 1 ELSE 0
            /\ UNCHANGED <<view, rejected>>

Refuse(op) == /\ ~rejected
              /\ Len(ops) < MaxOps
              /\ WouldOverflow(op)
              /\ rejected' = TRUE
              /\ UNCHANGED <<view, ops, missing>>

Commit == /\ ~rejected
          /\ view' = Held(view, Log)
          /\ ops' = <<>>
          /\ missing' = 0
          /\ UNCHANGED rejected

Next == Commit \/ \E op \in Mutation : Take(op) \/ Refuse(op)

Spec == Init /\ [][Next]_vars
=============================================================================
