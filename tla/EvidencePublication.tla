------------------------- MODULE EvidencePublication -------------------------
(***************************************************************************)
(* tools/render_readme_visuals.py: one run after another captures evidence *)
(* from the sources and either publishes it into a directory, entry by     *)
(* entry with the manifest last, or checks the directory against it.       *)
(* Meanwhile the sources are edited, entries of the directory are          *)
(* disturbed, the process is killed and the machine loses power.           *)
(*                                                                         *)
(* A document is the version of the sources it was captured from; every    *)
(* edit makes a version never seen before, because the digests the code    *)
(* compares cannot tell an edit that was undone from none at all.  File    *)
(* modes, size limits, the shape of the names and the content scan         *)
(* (validate_outputs, which may fail the run like any capture) are left    *)
(* out; a missing directory is an empty one.                               *)
(***************************************************************************)
EXTENDS Integers, Sequences, FiniteSets, Functions

CONSTANTS
    Documents,       \* the generated files but the manifest, in sorted order
    Manifest,        \* manifest.sha256.json
    Absent,          \* no such directory entry
    Foreign,         \* bytes no run produced
    MaxEdits,        \* bound: edits of the sources
    MaxDisturbances  \* bound: entries changed by someone else

ASSUME PublicationAssumption ==
    /\ Documents \in Seq(Range(Documents))
    /\ Manifest \notin Range(Documents)
    /\ Absent # Foreign
    /\ MaxEdits \in Nat
    /\ MaxDisturbances \in Nat

VARIABLES
    version,      \* the sources as they are now
    entries,      \* what the directory holds under each expected name
    staged,       \* the expected names with a temporary file beside them
    cluttered,    \* an entry no run made is in the directory
    durable,      \* entries, as a power loss may bring them back
    phase,        \* where the run is
    checking,     \* the run was started with --check
    snapshot,     \* source_snapshot
    captured,     \* what has been captured, by document
    todo,         \* the names left to capture, write or read
    stale,        \* a name read back differed
    status,       \* the exit status of the last run
    disturbances, \* a bound only
    touched,      \* history: names changed by others since the last inventory,
                  \* replacement or reading back
    intruded,     \* history: an entry was added by others since the last inventory
    installed,    \* history: names this run replaced
    abandoned     \* history: a run was killed, or could not unlink

directory == <<entries, staged, cluttered, durable>>
run == <<phase, checking, snapshot, captured, todo, stale, status>>
history == <<touched, intruded, installed, abandoned>>
world == <<version, disturbances>>
vars == <<directory, run, history, world>>

DocumentSet == Range(Documents)
Names == DocumentSet \union {Manifest}
Versions == 0..MaxEdits
Document(v) == [version |-> v]

Init ==
    /\ version = 0
    /\ entries = [n \in Names |-> Absent]
    /\ staged = {}
    /\ cluttered = FALSE
    /\ durable = entries
    /\ phase = "idle"
    /\ checking = FALSE
    /\ snapshot = 0
    /\ captured = [d \in DocumentSet |-> 0]
    /\ todo = <<>>
    /\ stale = FALSE
    /\ status = 0
    /\ disturbances = 0
    /\ touched = {}
    /\ intruded = FALSE
    /\ installed = {}
    /\ abandoned = FALSE

\* What the run wants the directory to hold under a name.
Body(n) ==
    IF n = Manifest
    THEN [snapshot |-> snapshot, documents |-> captured]
    ELSE Document(captured[n])

\* A slip: the snapshot is compared with itself instead of a fresh one.
UnmovedTrivially == snapshot \in Versions

\* Drift of the sources makes require_manifest_source_snapshot raise.
Unmoved == version = snapshot

\* The entries an inventory lists.
Present == {n \in Names : entries[n] # Absent}
\* A slip: leftovers of an interrupted run are taken for harmless.
UnexpectedButStaged == cluttered
Unexpected == cluttered \/ staged # {}

Exit(code) ==
    /\ phase' = "idle"
    /\ status' = code
    /\ UNCHANGED <<checking, snapshot, captured, todo, stale>>

Enter(where, names) ==
    /\ phase' = where
    /\ todo' = names
    /\ UNCHANGED <<checking, snapshot, captured, status>>

-----------------------------------------------------------------------------
Start(check) ==
    /\ phase = "idle"
    /\ phase' = "capture"
    /\ checking' = check
    /\ snapshot' = version
    /\ todo' = Documents
    /\ stale' = FALSE
    /\ installed' = {}
    /\ UNCHANGED <<directory, captured, status, touched, intruded, abandoned, world>>

CaptureNext ==
    /\ phase = "capture"
    /\ todo # <<>>
    /\ captured' = [captured EXCEPT ![Head(todo)] = version]
    /\ todo' = Tail(todo)
    /\ UNCHANGED <<phase, checking, snapshot, stale, status>>
    /\ UNCHANGED <<directory, history, world>>

\* A command fails, times out or prints too much.
FailCapture ==
    /\ phase = "capture"
    /\ Exit(2)
    /\ UNCHANGED <<directory, history, world>>

\* The snapshot is required twice here, around build_outputs.
Captured ==
    /\ phase = "capture"
    /\ todo = <<>>
    /\ IF Unmoved
       THEN Enter("inventory", <<>>) /\ UNCHANGED stale
       ELSE Exit(2)
    /\ UNCHANGED <<directory, history, world>>

\* write_outputs refuses a directory with entries it does not know.
InventoryToWrite ==
    /\ phase = "inventory"
    /\ ~checking
    /\ touched' = {}
    /\ intruded' = FALSE
    /\ IF Unexpected
       THEN Exit(2)
       ELSE Enter("inspect", Append(Documents, Manifest)) /\ UNCHANGED stale
    /\ UNCHANGED <<directory, installed, abandoned, world>>

\* check_outputs reports any other set of entries as stale.
InventoryToCheck ==
    /\ phase = "inventory"
    /\ checking
    /\ touched' = {}
    /\ intruded' = FALSE
    /\ IF Unexpected \/ Present # Names
       THEN /\ Enter("conclude", <<>>)
            /\ stale' = TRUE
       ELSE /\ Enter("read", Append(Documents, Manifest))
            /\ UNCHANGED stale
    /\ UNCHANGED <<directory, installed, abandoned, world>>

\* The manifest waits for one more look at the sources.
MayInspect(n) == n = Manifest => Unmoved

RefuseManifest ==
    /\ phase = "inspect"
    /\ todo # <<>>
    /\ ~MayInspect(Head(todo))
    /\ Exit(2)
    /\ UNCHANGED <<directory, history, world>>

\* An entry that already holds its body is left alone.
SkipCurrent ==
    /\ phase = "inspect"
    /\ todo # <<>>
    /\ MayInspect(Head(todo))
    /\ entries[Head(todo)] = Body(Head(todo))
    /\ todo' = Tail(todo)
    /\ UNCHANGED <<phase, checking, snapshot, captured, stale, status>>
    /\ UNCHANGED <<directory, history, world>>

Stage ==
    /\ phase = "inspect"
    /\ todo # <<>>
    /\ MayInspect(Head(todo))
    /\ entries[Head(todo)] # Body(Head(todo))
    /\ staged' = staged \union {Head(todo)}
    /\ phase' = "replace"
    /\ UNCHANGED <<checking, snapshot, captured, todo, stale, status>>
    /\ UNCHANGED <<entries, cluttered, durable, history, world>>

\* Any failure before the rename unlinks the temporary file on the way out.
FailStaging ==
    /\ phase = "replace"
    /\ staged' = staged \ {Head(todo)}
    /\ Exit(2)
    /\ UNCHANGED <<entries, cluttered, durable, history, world>>

\* The unlink fails too: a note on the error, and the file stays.
FailCleanup ==
    /\ phase = "replace"
    /\ abandoned' = TRUE
    /\ Exit(2)
    /\ UNCHANGED <<directory, touched, intruded, installed, world>>

Replace ==
    /\ phase = "replace"
    /\ entries' = [entries EXCEPT ![Head(todo)] = Body(Head(todo))]
    /\ staged' = staged \ {Head(todo)}
    /\ touched' = touched \ {Head(todo)}
    /\ installed' = installed \union {Head(todo)}
    /\ phase' = "sync"
    /\ UNCHANGED <<checking, snapshot, captured, todo, stale, status>>
    /\ UNCHANGED <<cluttered, durable, intruded, abandoned, world>>

\* A slip: the directory is not synced after the rename.
SyncNothing ==
    /\ phase = "sync"
    /\ Enter("inspect", Tail(todo))
    /\ UNCHANGED <<directory, stale, history, world>>

SyncDirectory ==
    /\ phase = "sync"
    /\ durable' = entries
    /\ Enter("inspect", Tail(todo))
    /\ UNCHANGED <<entries, staged, cluttered, stale, history, world>>

FailSync ==
    /\ phase = "sync"
    /\ Exit(2)
    /\ UNCHANGED <<directory, history, world>>

\* A slip: only missing names count, not unexpected ones.
FinalInventoryOfNames ==
    /\ phase = "inspect"
    /\ todo = <<>>
    /\ touched' = {}
    /\ intruded' = FALSE
    /\ IF Present # Names
       THEN Exit(2)
       ELSE Enter("read", Append(Documents, Manifest)) /\ UNCHANGED stale
    /\ UNCHANGED <<directory, installed, abandoned, world>>

\* After the last write the whole directory is looked at again.
FinalInventory ==
    /\ phase = "inspect"
    /\ todo = <<>>
    /\ touched' = {}
    /\ intruded' = FALSE
    /\ IF Unexpected \/ Present # Names
       THEN Exit(2)
       ELSE Enter("read", Append(Documents, Manifest)) /\ UNCHANGED stale
    /\ UNCHANGED <<directory, installed, abandoned, world>>

\* Both modes read every output back; a file that is gone raises at once.
ReadNext ==
    /\ phase = "read"
    /\ todo # <<>>
    /\ IF entries[Head(todo)] = Absent
       THEN Exit(2) /\ UNCHANGED touched
       ELSE /\ stale' = (stale \/ entries[Head(todo)] # Body(Head(todo)))
            /\ touched' = touched \ {Head(todo)}
            /\ Enter("read", Tail(todo))
    /\ UNCHANGED <<directory, intruded, installed, abandoned, world>>

ReadLast ==
    /\ phase = "read"
    /\ todo = <<>>
    /\ IF stale /\ ~checking
       THEN Exit(2)
       ELSE Enter("conclude", <<>>) /\ UNCHANGED stale
    /\ UNCHANGED <<directory, history, world>>

\* A slip: the verdict is returned without a last look at the sources.
ConcludeUnchecked ==
    /\ phase = "conclude"
    /\ Exit(IF stale THEN 1 ELSE 0)
    /\ UNCHANGED <<directory, history, world>>

\* The verdict counts only if the sources are still those of the snapshot.
Conclude ==
    /\ phase = "conclude"
    /\ Exit(IF ~Unmoved THEN 2 ELSE IF stale THEN 1 ELSE 0)
    /\ UNCHANGED <<directory, history, world>>

-----------------------------------------------------------------------------
Edit ==
    /\ version < MaxEdits
    /\ version' = version + 1
    /\ UNCHANGED <<directory, run, history, disturbances>>

Disturb(n, body) ==
    /\ disturbances < MaxDisturbances
    /\ entries[n] # body
    /\ disturbances' = disturbances + 1
    /\ entries' = [entries EXCEPT ![n] = body]
    /\ touched' = touched \union {n}
    /\ UNCHANGED <<staged, cluttered, durable, run, intruded, installed, abandoned, version>>

Clutter ==
    /\ disturbances < MaxDisturbances
    /\ disturbances' = disturbances + 1
    /\ cluttered' = TRUE
    /\ intruded' = TRUE
    /\ UNCHANGED <<entries, staged, durable, run, touched, installed, abandoned, version>>

\* Someone clears what no run may clear, while no run is going.
Tidy ==
    /\ phase = "idle"
    /\ Unexpected
    /\ staged' = {}
    /\ cluttered' = FALSE
    /\ abandoned' = FALSE
    /\ UNCHANGED <<entries, durable, run, touched, intruded, installed, world>>

Kill ==
    /\ phase # "idle"
    /\ phase' = "idle"
    /\ status' = 2
    /\ abandoned' = TRUE
    /\ UNCHANGED <<checking, snapshot, captured, todo, stale>>
    /\ UNCHANGED <<directory, touched, intruded, installed, world>>

\* Each entry comes back as it is or as the directory last was synced.
PowerLoss ==
    /\ \E kept \in SUBSET Names :
         entries' = [n \in Names |-> IF n \in kept THEN entries[n] ELSE durable[n]]
    /\ durable' = entries'
    /\ \E survivors \in SUBSET staged : staged' = survivors
    /\ phase' = "idle"
    /\ status' = 2
    /\ abandoned' = TRUE
    /\ UNCHANGED <<checking, snapshot, captured, todo, stale, cluttered>>
    /\ UNCHANGED <<touched, intruded, installed, world>>

RunStep ==
    \/ \E check \in BOOLEAN : Start(check)
    \/ CaptureNext \/ FailCapture \/ Captured
    \/ InventoryToWrite \/ InventoryToCheck
    \/ RefuseManifest \/ SkipCurrent \/ Stage \/ FailStaging \/ FailCleanup
    \/ Replace \/ SyncDirectory \/ FailSync
    \/ FinalInventory \/ ReadNext \/ ReadLast \/ Conclude

Environment ==
    \/ Edit
    \/ \E n \in Names, body \in {Absent, Foreign} : Disturb(n, body)
    \/ Clutter
    \/ Tidy
    \/ Kill
    \/ PowerLoss

Next == RunStep \/ Environment

Spec == Init /\ [][Next]_vars

-----------------------------------------------------------------------------

ManifestReplaced == Manifest \in installed' \ installed
Succeeds == phase = "conclude" /\ phase' = "idle" /\ status' = 0

\* A manifest in the directory, or one a power loss can bring back, lists
\* only documents captured from the very sources it names: drift between the
\* snapshot and the last capture never reaches publication.
ManifestBindsItsSources ==
    \A m \in {entries[Manifest], durable[Manifest]} \ {Absent, Foreign} :
        \A d \in DocumentSet : m.documents[d] = m.snapshot

\* The manifest is published last: when it is replaced, every document nobody
\* else touched since the inventory is already the one it lists, and those this
\* run replaced have reached the disk for good.  Nothing is said of the disk
\* for a document the run found current and skipped: an earlier run may have
\* been killed between its rename and its sync.
ManifestLast ==
    [][ManifestReplaced =>
        \A d \in DocumentSet \ touched :
            /\ entries[d] = Body(d)
            /\ d \in installed => durable[d] = Body(d)]_vars

\* A run that ends with status 0, in either mode, ends over a directory that
\* holds exactly the capture of the sources as they are now, except for what
\* others changed in an entry after it was read back, or added after the last
\* inventory; and no temporary file is among its entries.
SuccessMeansCurrent ==
    [][Succeeds =>
        /\ \A n \in Names \ touched :
             entries[n] = IF n = Manifest
                          THEN [snapshot |-> version,
                                documents |-> [d \in DocumentSet |-> version]]
                          ELSE Document(version)
        /\ cluttered => intruded
        /\ staged = {}]_vars

\* Whatever ends a run, at most one temporary file is left behind over any
\* number of runs, and none unless a run was killed or could not unlink.
StagingIsBounded ==
    /\ Cardinality(staged) <= 1
    /\ phase = "idle" /\ ~abandoned => staged = {}
=============================================================================
