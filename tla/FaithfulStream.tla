--------------------------- MODULE FaithfulStream ----------------------------
(***************************************************************************)
(* The fold of StreamState fed by a trace: a publisher put one payload at  *)
(* each cursor, or equivocated and put any of them, and the trace delivers *)
(* them with any losses, duplicates and reordering.  published is what the *)
(* publisher put; the fold never sees it as a whole.                       *)
(***************************************************************************)
EXTENDS StreamState

VARIABLES published,    \* payloads the publisher put at each cursor
          trustedStart, \* the stream started from a trusted empty baseline
          delivered,    \* history: cursors a faithful trace delivered so far
          limited       \* history: it met a ceiling of the fold

faithfulVars == <<vars, published, trustedStart, delivered, limited>>

Honest == \A c \in Cursor : IsCandidate(published[c])

FaithfulInit ==
  /\ Init
  /\ \/ published = [c \in Cursor |-> Payload]
     \/ \E truth \in [Cursor -> Payload] : published = [c \in Cursor |-> {truth[c]}]
  /\ trustedStart = viewAuthoritative
  /\ delivered = {}
  /\ limited = FALSE

Deliver(c, p) ==
  /\ Admit(c, p)
  /\ IF Honest
       THEN /\ delivered' = delivered \cup {c}
            /\ limited' = (limited \/ (Waits(c, p) /\ (TooFar(c) \/ Full(p))))
       ELSE UNCHANGED <<delivered, limited>>
  /\ UNCHANGED <<published, trustedStart>>

Stray == RejectOutOfScope /\ UNCHANGED <<published, trustedStart, delivered, limited>>

Close == Finish /\ UNCHANGED <<published, trustedStart, delivered, limited>>

FaithfulNext == \/ \E c \in Cursor : \E p \in published[c] : Deliver(c, p)
                \/ Stray
                \/ Close

FaithfulSpec == FaithfulInit /\ [][FaithfulNext]_faithfulVars
-----------------------------------------------------------------------------
(* What the engine's cache holds once it has published cursor n, from what *)
(* it held before the declared start of the stream.                        *)
Published(n) ==
  UNION {UNION {Entries(m, Mutations[p], 1) : p \in published[m]} : m \in InitialCursor..n}

StartingViews == IF trustedStart THEN {{}} ELSE SUBSET Key

(* An authoritative view is the engine's cache at the frontier, whatever   *)
(* was lost, repeated or reordered, and whatever the engine held before a  *)
(* start that is not trusted (spec/semantics.md, barriers).                *)
AuthoritativeViewIsTruth ==
  Honest /\ viewAuthoritative =>
    \A start \in StartingViews : view = Held(start, Published(frontier))

(* Exact certainty leaves nothing delivered out: every cursor admitted so  *)
(* far is at or below the frontier, those discarded at a ceiling included, *)
(* unless the last admit failed.                                           *)
ExactAccountsForAll ==
  Honest /\ ~failed /\ certainty = "Exact" => \A c \in delivered : c <= frontier

(* Filling every dense cursor returns a trusted stream to Exact at the     *)
(* last of them, in any order, when no ceiling was met                     *)
(* (spec/semantics.md:166-168).                                            *)
DenseCompletion ==
  Honest /\ trustedStart /\ ~limited /\ ~failed =>
    \A n \in Cursor : delivered = InitialCursor..n =>
                        certainty = "Exact" /\ frontier = n

(* A stream is Exact when, and only when, what was delivered accounts for  *)
(* it, as far as the ceilings let it tell.                                 *)
ExactMeansComplete == ExactAccountsForAll /\ DenseCompletion

(* A stream with one payload per cursor is never accused of equivocation:  *)
(* each fingerprint is retained under the cursor it was delivered at,      *)
(* through buffering, draining and barriers.                               *)
NoFalseEquivocation ==
  Honest => equivocationCeiling = None /\ \A n \in Cursor : ~IsConflict(recent[n])
=============================================================================
