-------------------------- MODULE MCScheduleComparison ---------------------------
(* Instances of ScheduleComparison for TLC, with the payloads of MCFaithfulStream. *)
EXTENDS ScheduleComparison

CONSTANTS k1, k2, store, swap, clear

MCKey == {k1, k2}
MCKeyBytes == [k \in MCKey |-> 1]
Put(k) == [kind |-> "store", key |-> k]
Drop(k) == [kind |-> "remove", key |-> k]
Wipe == [kind |-> "clear"]

MCPayload == {store, swap, clear}
MCMutations == [p \in MCPayload |->
                  CASE p = store -> <<Put(k1)>>
                    [] p = swap -> <<Drop(k1), Put(k2)>>
                    [] p = clear -> <<Drop(k2), Wipe, Put(k1)>>]
MCCanonicalBytes == [p \in MCPayload |-> IF p = store THEN 1 ELSE 2]
=============================================================================
