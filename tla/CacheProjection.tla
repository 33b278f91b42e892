--------------------------- MODULE CacheProjection ---------------------------
(***************************************************************************)
(* What a list of cache mutations does to a set of cache keys, stated      *)
(* without the order of evaluation: a key is held after a log of mutations *)
(* when the last mutation that touches it stores it, or when none touches  *)
(* it and it was held before.  CacheTransaction implements this definition *)
(* with the overlay of src/state.rs; StreamState uses it for the fold.     *)
(*                                                                         *)
(* A cache key stands for CacheKey (group, medium, opaque hash); a store   *)
(* run or a remove of several hashes is one mutation per hash, in order.   *)
(***************************************************************************)
EXTENDS Integers, Sequences, FiniteSets

CONSTANTS Key,                  \* cache keys
          KeyBytes,             \* identity bytes of each key
          MaxCacheKeys,         \* max_cache_keys_per_stream
          MaxCacheIdentityBytes \* max_cache_identity_bytes_per_stream

ASSUME KeyAssumption == /\ IsFiniteSet(Key)
                        /\ KeyBytes \in [Key -> Nat]

ASSUME LimitAssumption == /\ MaxCacheKeys \in Nat
                          /\ MaxCacheIdentityBytes \in Nat

Mutation == [kind : {"store", "remove"}, key : Key] \cup [kind : {"clear"}]

Stores(op, k) == op.kind = "store" /\ op.key = k

Touches(op, k) == op.kind = "clear" \/ op.key = k

(* A log is a set of entries, each a mutation at <<cursor, index>>. *)
Entries(cursor, ops, start) ==
  {[at |-> <<cursor, i>>, op |-> ops[i]] : i \in start..Len(ops)}

Before(x, y) == \/ x.at[1] < y.at[1]
                \/ x.at[1] = y.at[1] /\ x.at[2] < y.at[2]

StoredLast(log, k) ==
  \E e \in log : /\ Stores(e.op, k)
                 /\ \A f \in log : Before(e, f) => ~Touches(f.op, k)

Untouched(log, k) == \A e \in log : ~Touches(e.op, k)

Held(base, log) ==
  {k \in Key : StoredLast(log, k) \/ (k \in base /\ Untouched(log, k))}

(* The bytes of a set of keys, each byte labelled by its key and counted. *)
IdentityBytes(keys) ==
  Cardinality(UNION {{k} \X (1..KeyBytes[k]) : k \in keys})

Preceding(log, e) == {f \in log : Before(f, e)}

HeldBefore(base, log, e) == Held(base, Preceding(log, e))

MissingRemoves(base, log) ==
  Cardinality({e \in log : /\ e.op.kind = "remove"
                           /\ e.op.key \notin HeldBefore(base, log, e)})

(* The store at e adds a key beyond one of the two view ceilings. *)
Overflows(base, log, e, maxKeys, maxBytes) ==
  LET held == HeldBefore(base, log, e)
  IN  /\ e.op.kind = "store"
      /\ e.op.key \notin held
      /\ \/ Cardinality(held) + 1 > maxKeys
         \/ IdentityBytes(held) + KeyBytes[e.op.key] > maxBytes
=============================================================================
