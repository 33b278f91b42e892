-------------------------- MODULE MCFaithfulStream ---------------------------
(* Instances for TLC of FaithfulStream and, beside it, of the transaction   *)
(* its applications go through, over the same keys and ceilings.  The two   *)
(* meet only in the definition of what a log holds, so one moves while the  *)
(* other has yet to start: every behaviour of each is explored, and not the *)
(* product of both.  The keys differ in size, so that the ceiling of bytes  *)
(* is met before and after that of keys; one payload only stores, one       *)
(* removes and stores, and one clears after its first mutation.             *)
EXTENDS FaithfulStream, CacheTransaction

CONSTANTS k1, k2, k3, store, swap, clear

MCKey == {k1, k2, k3}
MCKeyBytes == [k \in MCKey |-> IF k = k1 THEN 1 ELSE 2]
Put(k) == [kind |-> "store", key |-> k]
Drop(k) == [kind |-> "remove", key |-> k]
Wipe == [kind |-> "clear"]

MCPayload == {store, swap, clear}
MCMutations == [p \in MCPayload |->
                  CASE p = store -> <<Put(k1)>>
                    [] p = swap -> <<Drop(k1), Put(k2)>>
                    [] p = clear -> <<Drop(k2), Wipe, Put(k3)>>]
MCCanonicalBytes == [p \in MCPayload |-> IF p = store THEN 1 ELSE 2]
-----------------------------------------------------------------------------
NoTransaction == TransactionInit /\ base = {}
NoDelivery == Init /\ ~baselineUnknown /\ ~Honest

MCInit == /\ FaithfulInit
          /\ TransactionInit
          /\ base = {} \/ NoDelivery

MCNext == \/ NoTransaction /\ FaithfulNext /\ UNCHANGED transactionVars
          \/ NoDelivery /\ TransactionNext /\ UNCHANGED faithfulVars

MCSpec == MCInit /\ [][MCNext]_<<faithfulVars, transactionVars>>
=============================================================================
