-------------------------- MODULE CacheTransaction ---------------------------
(***************************************************************************)
(* The overlay of src/state.rs: a transaction over an immutable base view  *)
(* that records only the keys that change, counts them incrementally and   *)
(* is committed in one piece.  One behaviour is a sequence of              *)
(* transactions on the view of one stream; a refused one ends it, since    *)
(* admit marks the stream failed.                                          *)
(***************************************************************************)
EXTENDS CacheProjection

CONSTANT MaxOps  \* bound: mutations in one transaction

VARIABLES base, viewBytes,        \* CacheView: keys, identity_bytes
          cleared, added, removed,
          keyCount, identityBytes, missingRemoves,
          ops,                    \* history: mutations taken so far
          rejected

overlay == <<cleared, added, removed, keyCount, identityBytes, missingRemoves>>
transactionVars == <<base, viewBytes, overlay, ops, rejected>>

Contains(k) == k \in added \/ (~cleared /\ k \in base /\ k \notin removed)

(* Slip: the missing removes of the last transaction are counted again. *)
BeginKeepingMisses(keys, bytes) ==
  /\ cleared' = FALSE
  /\ added' = {}
  /\ removed' = {}
  /\ keyCount' = Cardinality(keys)
  /\ identityBytes' = bytes
  /\ ops' = <<>>
  /\ UNCHANGED missingRemoves

(* CacheTransaction::new over a committed view. *)
Begin(keys, bytes) == /\ cleared' = FALSE
                      /\ added' = {}
                      /\ removed' = {}
                      /\ keyCount' = Cardinality(keys)
                      /\ identityBytes' = bytes
                      /\ missingRemoves' = 0
                      /\ ops' = <<>>

TransactionInit == /\ base \in SUBSET Key
                   /\ Cardinality(base) <= MaxCacheKeys
                   /\ IdentityBytes(base) <= MaxCacheIdentityBytes
                   /\ viewBytes = IdentityBytes(base)
                   /\ cleared = FALSE
                   /\ added = {}
                   /\ removed = {}
                   /\ keyCount = Cardinality(base)
                   /\ identityBytes = viewBytes
                   /\ missingRemoves = 0
                   /\ ops = <<>>
                   /\ rejected = FALSE

Open == ~rejected /\ Len(ops) < MaxOps

Takes(op) == /\ ops' = Append(ops, op)
             /\ UNCHANGED <<base, viewBytes, rejected>>

Fits(k) == /\ keyCount + 1 <= MaxCacheKeys
           /\ identityBytes + KeyBytes[k] <= MaxCacheIdentityBytes

StoreHeld(k) == /\ Open
                /\ Contains(k)
                /\ Takes([kind |-> "store", key |-> k])
                /\ UNCHANGED overlay

StoreAbsent(k) == /\ Open
                  /\ ~Contains(k)
                  /\ Fits(k)
                  /\ IF ~cleared /\ k \in base
                       THEN removed' = removed \ {k} /\ UNCHANGED added
                       ELSE added' = added \cup {k} /\ UNCHANGED removed
                  /\ keyCount' = keyCount + 1
                  /\ identityBytes' = identityBytes + KeyBytes[k]
                  /\ Takes([kind |-> "store", key |-> k])
                  /\ UNCHANGED <<cleared, missingRemoves>>

StoreOverLimit(k) == /\ Open
                     /\ ~Contains(k)
                     /\ ~Fits(k)
                     /\ rejected' = TRUE
                     /\ UNCHANGED <<base, viewBytes, overlay, ops>>

RemoveHeld(k) == /\ Open
                 /\ Contains(k)
                 /\ IF k \in added
                      THEN added' = added \ {k} /\ UNCHANGED removed
                      ELSE removed' = removed \cup {k} /\ UNCHANGED added
                 /\ keyCount' = keyCount - 1
                 /\ identityBytes' = identityBytes - KeyBytes[k]
                 /\ Takes([kind |-> "remove", key |-> k])
                 /\ UNCHANGED <<cleared, missingRemoves>>

RemoveMissing(k) == /\ Open
                    /\ ~Contains(k)
                    /\ missingRemoves' = missingRemoves + 1
                    /\ Takes([kind |-> "remove", key |-> k])
                    /\ UNCHANGED <<cleared, added, removed, keyCount, identityBytes>>

(* Slips: a clear keeps the byte count; a clear keeps what was added. *)
ClearKeepingBytes == /\ Open
                     /\ cleared' = TRUE
                     /\ added' = {}
                     /\ removed' = {}
                     /\ keyCount' = 0
                     /\ Takes([kind |-> "clear"])
                     /\ UNCHANGED <<identityBytes, missingRemoves>>

ClearKeepingAdded == /\ Open
                     /\ cleared' = TRUE
                     /\ removed' = {}
                     /\ keyCount' = Cardinality(added)
                     /\ identityBytes' = IdentityBytes(added)
                     /\ Takes([kind |-> "clear"])
                     /\ UNCHANGED <<added, missingRemoves>>

Clear == /\ Open
         /\ cleared' = TRUE
         /\ added' = {}
         /\ removed' = {}
         /\ keyCount' = 0
         /\ identityBytes' = 0
         /\ Takes([kind |-> "clear"])
         /\ UNCHANGED missingRemoves

Committed == (IF cleared THEN {} ELSE base \ removed) \cup added

(* CachePlan::commit, and the next transaction over the new view. *)
CommitPlan == /\ ~rejected
              /\ base' = Committed
              /\ viewBytes' = identityBytes
              /\ Begin(Committed, identityBytes)
              /\ UNCHANGED rejected

TransactionNext == \/ CommitPlan
                   \/ Clear
                   \/ \E k \in Key : StoreHeld(k) \/ StoreAbsent(k) \/ StoreOverLimit(k)
                   \/ \E k \in Key : RemoveHeld(k) \/ RemoveMissing(k)

TransactionSpec == TransactionInit /\ [][TransactionNext]_transactionVars
-----------------------------------------------------------------------------
TransactionTypeOK == /\ base \in SUBSET Key
                     /\ viewBytes \in Nat
                     /\ cleared \in BOOLEAN
                     /\ added \in SUBSET Key
                     /\ removed \in SUBSET Key
                     /\ keyCount \in 0..MaxCacheKeys
                     /\ identityBytes \in 0..MaxCacheIdentityBytes
                     /\ missingRemoves \in Nat
                     /\ ops \in Seq(Mutation)
                     /\ rejected \in BOOLEAN

Log == Entries(0, ops, 1)

(* The overlay of CacheTransaction (src/state.rs:780) never records a key  *)
(* twice: an added key is not visible in the base, a removed key is a      *)
(* visible base key, and nothing of the base is recorded once cleared.     *)
(* These are the debug assertions of store, remove and commit.             *)
OverlayDisjoint == IF cleared THEN removed = {}
                   ELSE removed \subseteq base /\ added \cap base = {}

(* The incremental counters of the overlay equal the size and the bytes of *)
(* what commit would write, at every mutation of every transaction.        *)
CountsExact == /\ keyCount = Cardinality(Committed)
               /\ identityBytes = IdentityBytes(Committed)
               /\ viewBytes = IdentityBytes(base)

(* The overlay holds what the log of mutations defines, independently of   *)
(* how stores, removes and clears of the same key were interleaved.        *)
ProjectsLog == Committed = Held(base, Log)

(* The transaction implements the atomic update: nothing of a list is      *)
(* visible before commit, commit writes all of it, and a list is refused   *)
(* exactly when one of its stores passes a ceiling.                        *)
Atomic == INSTANCE AtomicCacheUpdate WITH view <- base, missing <- missingRemoves
AtomicSpec == Atomic!Spec
=============================================================================
