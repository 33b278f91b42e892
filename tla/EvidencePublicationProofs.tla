---------------------- MODULE EvidencePublicationProofs ----------------------
(***************************************************************************)
(* Proofs about EvidencePublication, for every list of documents and any   *)
(* number of edits and disturbances.                                       *)
(***************************************************************************)
EXTENDS EvidencePublication, FiniteSetTheorems, TLAPS

Holding == {Absent, Foreign} \union {Document(v) : v \in Nat}
             \union [snapshot : Nat, documents : [DocumentSet -> Nat]]

TypeOK ==
    /\ version \in Nat /\ snapshot \in Nat /\ snapshot <= version
    /\ entries \in [Names -> Holding]
    /\ durable \in [Names -> Holding]
    /\ captured \in [DocumentSet -> Nat]
    /\ todo \in Seq(Names)

\* What a run has captured so far is no older than its snapshot, and is the
\* snapshot from the moment the sources were seen not to have moved.
CaptureIsBracketed ==
    phase = "capture" =>
        \A d \in DocumentSet \ Range(todo) : snapshot <= captured[d] /\ captured[d] <= version

CaptureIsCoherent ==
    phase \in {"inventory", "inspect", "replace", "sync", "read", "conclude"} =>
        \A d \in DocumentSet : captured[d] = snapshot

\* The manifest stands at the end of what is left to write.
ManifestAtEnd ==
    /\ phase \in {"inspect", "replace", "sync"} =>
         \A i \in 1..Len(todo) : todo[i] = Manifest => i = Len(todo)
    /\ phase \in {"replace", "sync"} => todo # <<>>

NothingInstalledYet == phase \in {"capture", "inventory"} => installed = {}

\* Untouched documents this run is done with hold their bodies, and those it
\* replaced are durable, the one in hand excepted.
DoneDocumentsHold ==
    phase \in {"inspect", "replace"} =>
        \A d \in DocumentSet \ touched :
            /\ d \notin Range(todo) => entries[d] = Body(d)
            /\ d \in installed => entries[d] = Body(d) /\ durable[d] = Body(d)

ReplacedDocumentsHold ==
    phase = "sync" =>
        \A d \in DocumentSet \ touched :
            d \notin Range(Tail(todo)) \/ d \in installed => entries[d] = Body(d)

\* Nothing read so far differed, or stale says so.
ReadNamesHold ==
    /\ phase = "read" /\ ~stale =>
         \A n \in Names \ touched : n \notin Range(todo) => entries[n] = Body(n)
    /\ phase = "conclude" /\ ~stale => \A n \in Names \ touched : entries[n] = Body(n)

\* Since the last inventory, only others can have added an entry.
NothingAdded ==
    phase = "read" \/ (phase = "conclude" /\ ~stale) =>
        staged = {} /\ (cluttered => intruded)

\* One temporary file at most; a run that writes has none but the one in hand.
StagingInHand ==
    /\ staged = {} \/ \E n \in Names : staged = {n}
    /\ phase # "replace" /\ ~abandoned => staged = {}
    /\ phase \in {"inspect", "sync"} => staged = {}
    /\ phase = "replace" => staged = {Head(todo)}

PublicationInv ==
    /\ TypeOK
    /\ CaptureIsBracketed
    /\ CaptureIsCoherent
    /\ ManifestAtEnd
    /\ NothingInstalledYet
    /\ DoneDocumentsHold
    /\ ReplacedDocumentsHold
    /\ ReadNamesHold
    /\ NothingAdded
    /\ StagingInHand
    /\ ManifestBindsItsSources
-----------------------------------------------------------------------------
\* Lists of names.
LEMMA NamesLeft ==
    ASSUME NEW list \in Seq(Names), list # <<>>
    PROVE  /\ Head(list) \in Names
           /\ Tail(list) \in Seq(Names)
           /\ Len(list) \in Nat /\ Len(list) >= 1 /\ Len(Tail(list)) = Len(list) - 1
           /\ Head(list) = list[1]
           /\ \A i \in 1..Len(Tail(list)) : Tail(list)[i] = list[i + 1]
           /\ Range(list) = {Head(list)} \union Range(Tail(list))
<1>1. /\ Head(list) \in Names /\ Tail(list) \in Seq(Names)
      /\ Len(list) \in Nat /\ Len(list) >= 1 /\ Len(Tail(list)) = Len(list) - 1
      /\ Head(list) = list[1]
      /\ \A i \in 1..Len(Tail(list)) : Tail(list)[i] = list[i + 1]
    OBVIOUS
<1>2. Range(list) \subseteq {Head(list)} \union Range(Tail(list))
    <2> SUFFICES ASSUME NEW i \in 1..Len(list)
                 PROVE  list[i] \in {Head(list)} \union Range(Tail(list))
        BY DEF Range
    <2>1. CASE i = 1
        BY <1>1, <2>1
    <2>2. CASE i # 1
        <3>1. i - 1 \in 1..Len(Tail(list))
            BY <1>1, <2>2
        <3>2. (i - 1) + 1 = i
            OBVIOUS
        <3>3. Tail(list)[i - 1] = list[(i - 1) + 1]
            BY <1>1, <3>1
        <3>4. Tail(list)[i - 1] = list[i]
            BY <3>2, <3>3
        <3>5. DOMAIN Tail(list) = 1..Len(Tail(list))
            BY <1>1
        <3> QED BY <3>1, <3>4, <3>5 DEF Range
    <2> QED BY <2>1, <2>2
<1>3. {Head(list)} \union Range(Tail(list)) \subseteq Range(list)
    <2>1. Head(list) \in Range(list)
        BY <1>1 DEF Range
    <2>2. ASSUME NEW i \in 1..Len(Tail(list)) PROVE Tail(list)[i] \in Range(list)
        <3>1. i + 1 \in 1..Len(list) /\ Tail(list)[i] = list[i + 1]
            BY <1>1
        <3> QED BY <3>1 DEF Range
    <2> QED BY <2>1, <2>2 DEF Range
<1> QED BY <1>1, <1>2, <1>3

LEMMA EveryName ==
    LET all == Append(Documents, Manifest)
    IN  /\ all \in Seq(Names) /\ all # <<>> /\ Range(all) = Names
        /\ \A i \in 1..Len(all) : all[i] = Manifest => i = Len(all)
        /\ Documents \in Seq(Names)
<1> DEFINE all == Append(Documents, Manifest)
<1>1. Documents \in Seq(Names)
    BY PublicationAssumption DEF Names, DocumentSet
<1>2. all \in Seq(Names) /\ Len(all) = Len(Documents) + 1 /\ Len(Documents) \in Nat
    BY <1>1 DEF Names
<1>3. /\ \A i \in 1..Len(Documents) : all[i] = Documents[i]
      /\ all[Len(all)] = Manifest
    BY <1>1, <1>2
<1>4. Range(all) = Names
    BY <1>1, <1>2, <1>3 DEF Range, Names, DocumentSet
<1>5. ASSUME NEW i \in 1..Len(all), all[i] = Manifest PROVE i = Len(all)
    <2>1. i \in 1..Len(Documents) => Documents[i] \in Range(Documents)
        BY <1>1 DEF Range
    <2> QED BY <1>2, <1>3, <1>5, <2>1, PublicationAssumption
<1> QED BY <1>1, <1>2, <1>4, <1>5

LEMMA BodyType == TypeOK => \A n \in Names : Body(n) \in Holding
BY DEF TypeOK, Body, Holding, Document, Names, DocumentSet

LEMMA ManifestBody ==
    ASSUME TypeOK, \A d \in DocumentSet : captured[d] = snapshot
    PROVE  \A d \in DocumentSet : Body(Manifest).documents[d] = Body(Manifest).snapshot
BY DEF Body
-----------------------------------------------------------------------------
LEMMA PublicationInit == Init => PublicationInv
<1> SUFFICES ASSUME Init PROVE PublicationInv
    OBVIOUS
<1>1. TypeOK
    BY DEF Init, TypeOK, Holding
<1>2. ManifestBindsItsSources
    BY DEF Init, ManifestBindsItsSources, Names
<1> QED BY <1>1, <1>2 DEF Init, PublicationInv, CaptureIsBracketed, CaptureIsCoherent,
        ManifestAtEnd, NothingInstalledYet, DoneDocumentsHold, ReplacedDocumentsHold,
        ReadNamesHold, NothingAdded, StagingInHand

\* However a run ends, it ends well if the directory does.
LEMMA RunEnds ==
    ASSUME PublicationInv, phase' = "idle", UNCHANGED <<version, snapshot, captured, todo>>,
           entries' \in [Names -> Holding], durable' \in [Names -> Holding],
           ManifestBindsItsSources',
           staged' = {} \/ \E n \in Names : staged' = {n},
           ~abandoned' => staged' = {}
    PROVE  PublicationInv'
<1>1. TypeOK'
    BY DEF PublicationInv, TypeOK
<1> QED BY <1>1 DEF PublicationInv, CaptureIsBracketed, CaptureIsCoherent,
        ManifestAtEnd, NothingInstalledYet, DoneDocumentsHold, ReplacedDocumentsHold,
        ReadNamesHold, NothingAdded, StagingInHand

LEMMA RunExits ==
    ASSUME PublicationInv, NEW code, Exit(code), phase # "replace",
           UNCHANGED <<directory, abandoned, world>>
    PROVE  PublicationInv'
<1>1. /\ phase' = "idle" /\ UNCHANGED <<version, snapshot, captured, todo>>
      /\ UNCHANGED <<entries, durable, staged, abandoned>>
    BY DEF Exit, directory, world
<1>2. ManifestBindsItsSources'
    BY <1>1 DEF PublicationInv, ManifestBindsItsSources
<1> QED BY <1>1, <1>2, RunEnds DEF PublicationInv, TypeOK, StagingInHand

LEMMA StartStep == ASSUME PublicationInv, NEW check, Start(check) PROVE PublicationInv'
<1>1. TypeOK' /\ ManifestBindsItsSources'
    BY EveryName DEF PublicationInv, TypeOK, Start, directory, world, ManifestBindsItsSources
<1>2. CaptureIsBracketed'
    BY DEF Start, CaptureIsBracketed, DocumentSet
<1> QED BY <1>1, <1>2 DEF Start, directory, PublicationInv, CaptureIsCoherent,
        ManifestAtEnd, NothingInstalledYet, DoneDocumentsHold, ReplacedDocumentsHold,
        ReadNamesHold, NothingAdded, StagingInHand

\* A step of the run that leaves the directory to the next one.
LEMMA CaptureNextStep == ASSUME PublicationInv, CaptureNext PROVE PublicationInv'
<1>1. /\ phase = "capture" /\ phase' = "capture" /\ todo # <<>> /\ todo \in Seq(Names)
      /\ captured' = [captured EXCEPT ![Head(todo)] = version]
      /\ todo' = Tail(todo)
      /\ UNCHANGED <<snapshot, stale, entries, staged, durable, touched, installed, abandoned,
                     version>>
    BY DEF CaptureNext, PublicationInv, TypeOK, directory, history, world
<1>2. /\ todo' \in Seq(Names)
      /\ Range(todo) = {Head(todo)} \union Range(todo')
    BY <1>1, NamesLeft
<1>3. TypeOK'
    BY <1>1, <1>2 DEF PublicationInv, TypeOK
<1>4. CaptureIsBracketed'
    BY <1>1, <1>2 DEF PublicationInv, TypeOK, CaptureIsBracketed
<1>5. ManifestBindsItsSources'
    BY <1>1 DEF PublicationInv, ManifestBindsItsSources
<1> QED BY <1>1, <1>3, <1>4, <1>5 DEF PublicationInv, CaptureIsCoherent, ManifestAtEnd,
        NothingInstalledYet, DoneDocumentsHold, ReplacedDocumentsHold, ReadNamesHold, NothingAdded, StagingInHand

LEMMA CapturedStep == ASSUME PublicationInv, Captured PROVE PublicationInv'
<1>1. CASE Unmoved
    <2>1. /\ phase = "capture" /\ todo = <<>> /\ phase' = "inventory" /\ todo' = <<>>
          /\ version = snapshot
          /\ UNCHANGED <<snapshot, captured, entries, staged, durable, installed, abandoned, version>>
        BY <1>1 DEF Captured, Unmoved, Enter, directory, history, world
    <2>2. TypeOK'
        BY <2>1 DEF PublicationInv, TypeOK
    <2>3. CaptureIsCoherent'
        <3>1. Range(todo) = {}
            BY <2>1 DEF Range
        <3> QED BY <2>1, <3>1 DEF PublicationInv, TypeOK, CaptureIsBracketed, CaptureIsCoherent
    <2>4. ManifestBindsItsSources'
        BY <2>1 DEF PublicationInv, ManifestBindsItsSources
    <2> QED BY <2>1, <2>2, <2>3, <2>4 DEF PublicationInv, CaptureIsBracketed, ManifestAtEnd,
            NothingInstalledYet, DoneDocumentsHold, ReplacedDocumentsHold, ReadNamesHold, NothingAdded, StagingInHand
<1>2. CASE ~Unmoved
    BY <1>2, RunExits DEF Captured, history
<1> QED BY <1>1, <1>2

LEMMA InventoryStep ==
    ASSUME PublicationInv, InventoryToWrite \/ InventoryToCheck PROVE PublicationInv'
<1>0. /\ phase = "inventory" /\ touched' = {}
      /\ UNCHANGED <<entries, staged, durable, cluttered, installed, abandoned, version>>
    BY DEF InventoryToWrite, InventoryToCheck, directory, world
<1>1. CASE Exit(2)
    BY <1>0, <1>1, RunExits DEF directory, InventoryToWrite, InventoryToCheck
<1>2. CASE /\ UNCHANGED <<snapshot, captured>>
           /\ \/ phase' = "conclude" /\ stale' /\ todo' = <<>>
              \/ phase' = "inspect" /\ todo' = Append(Documents, Manifest) /\ ~Unexpected
              \/ phase' = "read" /\ todo' = Append(Documents, Manifest) /\ ~Unexpected
    <2>1. TypeOK'
        <3>1. <<>> \in Seq(Names) /\ Append(Documents, Manifest) \in Seq(Names)
            BY EveryName
        <3> QED BY <1>0, <1>2, <3>1 DEF PublicationInv, TypeOK
    <2>2. CaptureIsCoherent' /\ CaptureIsBracketed' /\ NothingInstalledYet'
        BY <1>0, <1>2 DEF PublicationInv, CaptureIsCoherent, CaptureIsBracketed, NothingInstalledYet
    <2>3. ManifestAtEnd' /\ ReplacedDocumentsHold'
        BY <1>2, EveryName DEF ManifestAtEnd, ReplacedDocumentsHold
    <2>4. DoneDocumentsHold' /\ ReadNamesHold'
        <3>1. installed' = {}
            BY <1>0 DEF PublicationInv, NothingInstalledYet
        <3>2. DocumentSet \subseteq Names
            BY DEF Names
        <3>3. phase' \in {"inspect", "read"} => Range(todo') = Names
            BY <1>2, EveryName
        <3> QED BY <1>2, <3>1, <3>2, <3>3 DEF DoneDocumentsHold, ReadNamesHold
    <2>5. StagingInHand' /\ NothingAdded'
        BY <1>0, <1>2 DEF PublicationInv, StagingInHand, NothingAdded, Unexpected
    <2>6. ManifestBindsItsSources'
        BY <1>0 DEF PublicationInv, ManifestBindsItsSources
    <2> QED BY <2>1, <2>2, <2>3, <2>4, <2>5, <2>6 DEF PublicationInv
<1> QED BY <1>1, <1>2 DEF InventoryToWrite, InventoryToCheck, Enter

LEMMA FailureStep ==
    ASSUME PublicationInv, FailCapture \/ RefuseManifest \/ FailSync \/ Conclude
    PROVE  PublicationInv'
BY RunExits DEF FailCapture, RefuseManifest, FailSync, Conclude, history

\* What the run is done with, or has in hand, after one more name.
LEMMA SkipStep == ASSUME PublicationInv, SkipCurrent PROVE PublicationInv'
<1>1. /\ phase = "inspect" /\ phase' = "inspect" /\ todo # <<>> /\ todo \in Seq(Names)
      /\ entries[Head(todo)] = Body(Head(todo))
      /\ todo' = Tail(todo)
      /\ UNCHANGED <<snapshot, captured, stale, entries, staged, durable, touched, installed,
                     abandoned, version>>
    BY DEF SkipCurrent, PublicationInv, TypeOK, directory, history, world
<1>2. /\ todo' \in Seq(Names)
      /\ Range(todo) = {Head(todo)} \union Range(todo')
    BY <1>1, NamesLeft
<1>3. TypeOK' /\ \A n : Body(n)' = Body(n)
    BY <1>1, <1>2 DEF PublicationInv, TypeOK, Body
<1>4. ManifestAtEnd'
    BY <1>1, NamesLeft DEF PublicationInv, ManifestAtEnd
<1>5. DoneDocumentsHold'
    BY <1>1, <1>2, <1>3 DEF PublicationInv, DoneDocumentsHold
<1>6. CaptureIsCoherent' /\ StagingInHand' /\ ManifestBindsItsSources'
    BY <1>1 DEF PublicationInv, CaptureIsCoherent, StagingInHand, ManifestBindsItsSources
<1> QED BY <1>1, <1>3, <1>4, <1>5, <1>6 DEF PublicationInv, CaptureIsBracketed,
        NothingInstalledYet, ReplacedDocumentsHold, ReadNamesHold, NothingAdded

LEMMA StageStep == ASSUME PublicationInv, Stage PROVE PublicationInv'
<1>1. /\ phase = "inspect" /\ phase' = "replace" /\ todo # <<>> /\ todo \in Seq(Names)
      /\ staged' = staged \union {Head(todo)}
      /\ UNCHANGED <<snapshot, captured, stale, todo, entries, durable, touched, installed,
                     abandoned, version>>
    BY DEF Stage, PublicationInv, TypeOK, history, world
<1>2. TypeOK' /\ \A n : Body(n)' = Body(n)
    BY <1>1 DEF PublicationInv, TypeOK, Body
<1>3. StagingInHand'
    BY <1>1, NamesLeft DEF PublicationInv, StagingInHand
<1>4. DoneDocumentsHold'
    BY <1>1, <1>2 DEF PublicationInv, DoneDocumentsHold
<1>5. CaptureIsCoherent' /\ ManifestAtEnd' /\ ManifestBindsItsSources'
    BY <1>1 DEF PublicationInv, CaptureIsCoherent, ManifestAtEnd, ManifestBindsItsSources
<1> QED BY <1>1, <1>2, <1>3, <1>4, <1>5 DEF PublicationInv, CaptureIsBracketed,
        NothingInstalledYet, ReplacedDocumentsHold, ReadNamesHold, NothingAdded

LEMMA FailStagingStep ==
    ASSUME PublicationInv, FailStaging \/ FailCleanup PROVE PublicationInv'
<1>1. /\ phase = "replace" /\ phase' = "idle"
      /\ UNCHANGED <<version, snapshot, captured, todo, entries, durable>>
      /\ staged' \subseteq staged /\ (staged' = {} \/ abandoned')
    BY DEF FailStaging, FailCleanup, Exit, directory, world, PublicationInv, StagingInHand
<1>2. ManifestBindsItsSources'
    BY <1>1 DEF PublicationInv, ManifestBindsItsSources
<1>3. staged' = {} \/ \E n \in Names : staged' = {n}
    BY <1>1 DEF PublicationInv, StagingInHand
<1> QED BY <1>1, <1>2, <1>3, RunEnds DEF PublicationInv, TypeOK

LEMMA ReplaceStep == ASSUME PublicationInv, Replace PROVE PublicationInv'
<1>1. /\ phase = "replace" /\ phase' = "sync" /\ todo # <<>> /\ todo \in Seq(Names)
      /\ entries' = [entries EXCEPT ![Head(todo)] = Body(Head(todo))]
      /\ staged' = staged \ {Head(todo)}
      /\ touched' = touched \ {Head(todo)}
      /\ installed' = installed \union {Head(todo)}
      /\ UNCHANGED <<snapshot, captured, stale, todo, durable, abandoned, version>>
    BY DEF Replace, PublicationInv, TypeOK, ManifestAtEnd, world
<1>2. Head(todo) \in Names /\ Range(todo) = {Head(todo)} \union Range(Tail(todo))
    BY <1>1, NamesLeft
<1>3. Body(Head(todo)) \in Holding /\ \A n : Body(n)' = Body(n)
    BY <1>1, <1>2, BodyType DEF PublicationInv, Body
<1>4. TypeOK'
    BY <1>1, <1>3 DEF PublicationInv, TypeOK
<1>5. entries \in [Names -> Holding] /\ DocumentSet \subseteq Names /\ Manifest \in Names
    BY DEF PublicationInv, TypeOK, Names
<1>6. ReplacedDocumentsHold'
    BY <1>1, <1>2, <1>3, <1>5 DEF PublicationInv, DoneDocumentsHold, ReplacedDocumentsHold
<1>7. ManifestBindsItsSources'
    <2>1. entries'[Manifest] \in {entries[Manifest], Body(Manifest)}
        BY <1>1, <1>5
    <2>2. \A d \in DocumentSet : Body(Manifest).documents[d] = Body(Manifest).snapshot
        BY <1>1, ManifestBody DEF PublicationInv, CaptureIsCoherent
    <2> QED BY <1>1, <2>1, <2>2 DEF PublicationInv, ManifestBindsItsSources
<1>8. CaptureIsCoherent' /\ ManifestAtEnd'
    BY <1>1 DEF PublicationInv, CaptureIsCoherent, ManifestAtEnd
<1>9. StagingInHand'
    BY <1>1 DEF PublicationInv, StagingInHand
<1> QED BY <1>1, <1>4, <1>6, <1>7, <1>8, <1>9 DEF PublicationInv, CaptureIsBracketed,
        NothingInstalledYet, DoneDocumentsHold, ReadNamesHold, NothingAdded

LEMMA SyncStep == ASSUME PublicationInv, SyncDirectory PROVE PublicationInv'
<1>1. /\ phase = "sync" /\ phase' = "inspect" /\ todo # <<>> /\ todo \in Seq(Names)
      /\ durable' = entries
      /\ todo' = Tail(todo)
      /\ UNCHANGED <<snapshot, captured, stale, entries, staged, touched, installed,
                     abandoned, version>>
    BY DEF SyncDirectory, Enter, PublicationInv, TypeOK, ManifestAtEnd, history, world
<1>2. TypeOK' /\ \A n : Body(n)' = Body(n)
    BY <1>1, NamesLeft DEF PublicationInv, TypeOK, Body
<1>3. ManifestAtEnd'
    BY <1>1, NamesLeft DEF PublicationInv, ManifestAtEnd
<1>4. DoneDocumentsHold'
    BY <1>1, <1>2 DEF PublicationInv, DoneDocumentsHold, ReplacedDocumentsHold
<1>5. CaptureIsCoherent' /\ StagingInHand' /\ ManifestBindsItsSources'
    BY <1>1 DEF PublicationInv, CaptureIsCoherent, StagingInHand, ManifestBindsItsSources
<1> QED BY <1>1, <1>2, <1>3, <1>4, <1>5 DEF PublicationInv, CaptureIsBracketed,
        NothingInstalledYet, ReplacedDocumentsHold, ReadNamesHold, NothingAdded

LEMMA FinalInventoryStep == ASSUME PublicationInv, FinalInventory PROVE PublicationInv'
<1>0. /\ phase = "inspect" /\ touched' = {}
      /\ UNCHANGED <<directory, installed, abandoned, world>>
    BY DEF FinalInventory
<1>1. CASE Exit(2)
    BY <1>0, <1>1, RunExits
<1>2. CASE ~Unexpected /\ Enter("read", Append(Documents, Manifest)) /\ UNCHANGED stale
    <2>1. /\ phase' = "read" /\ todo' = Append(Documents, Manifest)
          /\ UNCHANGED <<snapshot, captured, entries, staged, cluttered, durable, abandoned,
                         version>>
        BY <1>0, <1>2 DEF Enter, directory, world
    <2>2. todo' \in Seq(Names) /\ Range(todo') = Names
        BY <2>1, EveryName
    <2>3. TypeOK'
        BY <2>1, <2>2 DEF PublicationInv, TypeOK
    <2>4. ReadNamesHold' /\ NothingAdded'
        BY <1>2, <2>1, <2>2 DEF ReadNamesHold, NothingAdded, Unexpected
    <2>5. CaptureIsCoherent' /\ StagingInHand' /\ ManifestBindsItsSources'
        BY <1>0, <2>1 DEF PublicationInv, CaptureIsCoherent, StagingInHand, ManifestBindsItsSources
    <2> QED BY <2>1, <2>3, <2>4, <2>5 DEF PublicationInv, CaptureIsBracketed, ManifestAtEnd,
            NothingInstalledYet, DoneDocumentsHold, ReplacedDocumentsHold
<1> QED BY <1>1, <1>2 DEF FinalInventory

LEMMA ReadNextStep == ASSUME PublicationInv, ReadNext PROVE PublicationInv'
<1>0. /\ phase = "read" /\ todo # <<>> /\ todo \in Seq(Names)
      /\ UNCHANGED <<directory, intruded, installed, abandoned, world>>
    BY DEF ReadNext, PublicationInv, TypeOK
<1>1. CASE Exit(2)
    BY <1>0, <1>1, RunExits
<1>2. CASE /\ stale' = (stale \/ entries[Head(todo)] # Body(Head(todo)))
           /\ touched' = touched \ {Head(todo)}
           /\ Enter("read", Tail(todo))
    <2>1. /\ phase' = "read" /\ todo' = Tail(todo)
          /\ UNCHANGED <<snapshot, captured, entries, staged, cluttered, durable, intruded,
                         abandoned, version>>
        BY <1>0, <1>2 DEF Enter, directory, world
    <2>2. todo' \in Seq(Names) /\ Range(todo) = {Head(todo)} \union Range(todo')
        BY <1>0, <2>1, NamesLeft
    <2>3. TypeOK' /\ \A n : Body(n)' = Body(n)
        BY <2>1, <2>2 DEF PublicationInv, TypeOK, Body
    <2>4. ReadNamesHold'
        <3>1. ASSUME ~stale', NEW n \in Names \ touched', n \notin Range(todo')
              PROVE  entries'[n] = Body(n)'
            BY <1>0, <1>2, <2>1, <2>2, <2>3, <3>1 DEF PublicationInv, ReadNamesHold
        <3> QED BY <2>1, <3>1 DEF ReadNamesHold
    <2>5. /\ NothingAdded' /\ CaptureIsCoherent' /\ StagingInHand'
          /\ ManifestBindsItsSources'
        BY <1>0, <2>1 DEF PublicationInv, NothingAdded, CaptureIsCoherent, StagingInHand,
            ManifestBindsItsSources
    <2> QED BY <2>1, <2>3, <2>4, <2>5 DEF PublicationInv, CaptureIsBracketed, ManifestAtEnd,
            NothingInstalledYet, DoneDocumentsHold, ReplacedDocumentsHold
<1> QED BY <1>1, <1>2 DEF ReadNext

LEMMA ReadLastStep == ASSUME PublicationInv, ReadLast PROVE PublicationInv'
<1>0. phase = "read" /\ todo = <<>> /\ UNCHANGED <<directory, history, world>>
    BY DEF ReadLast
<1>1. CASE Exit(2)
    BY <1>0, <1>1, RunExits DEF history
<1>2. CASE Enter("conclude", <<>>) /\ UNCHANGED stale
    <2>1. /\ phase' = "conclude" /\ todo' = <<>>
          /\ UNCHANGED <<snapshot, captured, stale, entries, staged, cluttered, durable, touched,
                         intruded, abandoned, version>>
        BY <1>0, <1>2 DEF Enter, directory, history, world
    <2>2. TypeOK' /\ \A n : Body(n)' = Body(n)
        BY <2>1 DEF PublicationInv, TypeOK, Body
    <2>3. Range(todo) = {}
        BY <1>0 DEF Range
    <2>4. ReadNamesHold' /\ NothingAdded'
        BY <1>0, <2>1, <2>2, <2>3 DEF PublicationInv, ReadNamesHold, NothingAdded
    <2>5. CaptureIsCoherent' /\ StagingInHand' /\ ManifestBindsItsSources'
        BY <1>0, <2>1 DEF PublicationInv, CaptureIsCoherent, StagingInHand, ManifestBindsItsSources
    <2> QED BY <2>1, <2>2, <2>4, <2>5 DEF PublicationInv, CaptureIsBracketed, ManifestAtEnd,
            NothingInstalledYet, DoneDocumentsHold, ReplacedDocumentsHold
<1> QED BY <1>1, <1>2 DEF ReadLast
-----------------------------------------------------------------------------
LEMMA RunStepInvariant == ASSUME PublicationInv, RunStep PROVE PublicationInv'
BY StartStep, CaptureNextStep, CapturedStep, InventoryStep, FailureStep, SkipStep, StageStep,
   FailStagingStep, ReplaceStep, SyncStep, FinalInventoryStep, ReadNextStep, ReadLastStep
   DEF RunStep

LEMMA EditStep == ASSUME PublicationInv, Edit PROVE PublicationInv'
<1>1. /\ version' = version + 1
      /\ UNCHANGED <<entries, staged, durable, phase, snapshot, captured, todo, stale,
                     cluttered, touched, intruded, installed, abandoned>>
    BY DEF Edit, directory, run, history
<1>2. TypeOK' /\ \A n : Body(n)' = Body(n)
    BY <1>1 DEF PublicationInv, TypeOK, Body
<1>3. CaptureIsBracketed'
    BY <1>1 DEF PublicationInv, TypeOK, CaptureIsBracketed
<1>4. ManifestBindsItsSources' /\ CaptureIsCoherent' /\ ManifestAtEnd' /\ NothingInstalledYet'
    BY <1>1 DEF PublicationInv, ManifestBindsItsSources, CaptureIsCoherent, ManifestAtEnd,
        NothingInstalledYet
<1>5. /\ DoneDocumentsHold' /\ ReplacedDocumentsHold' /\ ReadNamesHold' /\ NothingAdded'
      /\ StagingInHand'
    BY <1>1, <1>2 DEF PublicationInv, DoneDocumentsHold, ReplacedDocumentsHold, ReadNamesHold,
        NothingAdded, StagingInHand
<1> QED BY <1>2, <1>3, <1>4, <1>5 DEF PublicationInv

LEMMA DisturbStep ==
    ASSUME PublicationInv, NEW n \in Names, NEW body \in {Absent, Foreign}, Disturb(n, body)
    PROVE  PublicationInv'
<1>1. /\ entries' = [entries EXCEPT ![n] = body]
      /\ touched' = touched \union {n}
      /\ UNCHANGED <<staged, cluttered, durable, phase, snapshot, captured, todo, stale,
                     intruded, installed, abandoned, version>>
    BY DEF Disturb, run
<1>2. TypeOK' /\ \A m : Body(m)' = Body(m)
    BY <1>1 DEF PublicationInv, TypeOK, Body, Holding
<1>3. \A m \in Names \ touched' : entries'[m] = entries[m] /\ m \notin touched
    BY <1>1 DEF PublicationInv, TypeOK
<1>4. DoneDocumentsHold'
    BY <1>1, <1>2, <1>3 DEF PublicationInv, DoneDocumentsHold, Names
<1>5. ReplacedDocumentsHold'
    BY <1>1, <1>2, <1>3 DEF PublicationInv, ReplacedDocumentsHold, Names
<1>6. ReadNamesHold'
    BY <1>1, <1>2, <1>3 DEF PublicationInv, ReadNamesHold
<1>7. ManifestBindsItsSources'
    <2>1. Manifest \in Names
        BY DEF Names
    <2>2. entries'[Manifest] \in {entries[Manifest], Absent, Foreign}
        BY <1>1, <2>1 DEF PublicationInv, TypeOK
    <2> QED BY <1>1, <2>2 DEF PublicationInv, ManifestBindsItsSources
<1>8. /\ CaptureIsBracketed' /\ CaptureIsCoherent' /\ ManifestAtEnd' /\ NothingInstalledYet'
      /\ NothingAdded' /\ StagingInHand'
    BY <1>1 DEF PublicationInv, CaptureIsBracketed, CaptureIsCoherent, ManifestAtEnd,
        NothingInstalledYet, NothingAdded, StagingInHand
<1> QED BY <1>2, <1>4, <1>5, <1>6, <1>7, <1>8 DEF PublicationInv

\* A step that only clutters the directory, or none at all.
LEMMA QuietStep ==
    ASSUME PublicationInv,
           UNCHANGED <<entries, staged, durable, run, touched, installed, abandoned, version>>,
           UNCHANGED <<cluttered, intruded>> \/ intruded'
    PROVE  PublicationInv'
<1>1. UNCHANGED <<phase, snapshot, captured, todo, stale>>
    BY DEF run
<1>2. TypeOK' /\ ManifestBindsItsSources' /\ \A n : Body(n)' = Body(n)
    BY <1>1 DEF PublicationInv, TypeOK, Body, ManifestBindsItsSources
<1> QED BY <1>1, <1>2 DEF PublicationInv, CaptureIsBracketed, CaptureIsCoherent, ManifestAtEnd,
        NothingInstalledYet, DoneDocumentsHold, ReplacedDocumentsHold, ReadNamesHold, NothingAdded, StagingInHand

LEMMA TidyStep == ASSUME PublicationInv, Tidy PROVE PublicationInv'
<1>1. /\ phase' = "idle" /\ staged' = {}
      /\ UNCHANGED <<version, snapshot, captured, todo, entries, durable>>
    BY DEF Tidy, run, world
<1>2. ManifestBindsItsSources'
    BY <1>1 DEF PublicationInv, ManifestBindsItsSources
<1> QED BY <1>1, <1>2, RunEnds DEF PublicationInv, TypeOK

LEMMA KillStep == ASSUME PublicationInv, Kill PROVE PublicationInv'
<1>1. /\ phase' = "idle" /\ abandoned'
      /\ UNCHANGED <<version, snapshot, captured, todo, entries, durable, staged>>
    BY DEF Kill, directory, world
<1>2. ManifestBindsItsSources'
    BY <1>1 DEF PublicationInv, ManifestBindsItsSources
<1> QED BY <1>1, <1>2, RunEnds DEF PublicationInv, TypeOK, StagingInHand

\* What comes back under a name was there before, or was synced.
LEMMA PowerLossStep == ASSUME PublicationInv, PowerLoss PROVE PublicationInv'
<1>1. PICK kept \in SUBSET Names :
        entries' = [n \in Names |-> IF n \in kept THEN entries[n] ELSE durable[n]]
    BY DEF PowerLoss
<1>2. /\ phase' = "idle" /\ abandoned' /\ durable' = entries' /\ staged' \subseteq staged
      /\ UNCHANGED <<version, snapshot, captured, todo>>
    BY DEF PowerLoss, world
<1>3. entries' \in [Names -> Holding]
    BY <1>1 DEF PublicationInv, TypeOK
<1>4. ManifestBindsItsSources'
    <2>1. Manifest \in Names
        BY DEF Names
    <2>2. entries'[Manifest] \in {entries[Manifest], durable[Manifest]}
        BY <1>1, <2>1
    <2> QED BY <1>2, <2>2 DEF PublicationInv, ManifestBindsItsSources
<1>5. staged' = {} \/ \E n \in Names : staged' = {n}
    BY <1>2 DEF PublicationInv, StagingInHand
<1> QED BY <1>2, <1>3, <1>4, <1>5, RunEnds

LEMMA PublicationStep == PublicationInv /\ [Next]_vars => PublicationInv'
<1> SUFFICES ASSUME PublicationInv, [Next]_vars PROVE PublicationInv'
    OBVIOUS
<1>1. CASE Clutter \/ UNCHANGED vars
    BY <1>1, QuietStep DEF Clutter, vars, directory, history, world
<1> QED BY <1>1, RunStepInvariant, EditStep, DisturbStep, TidyStep, KillStep, PowerLossStep
        DEF Next, Environment

\* The directory, the run and what the run has done so far fit together.
THEOREM PublicationInvariant == Spec => []PublicationInv
<1> QED BY PublicationInit, PublicationStep, PTL DEF Spec

\* No manifest is ever published, or brought back by a power loss, over
\* documents of other sources than those it names.
THEOREM ManifestsBind == Spec => []ManifestBindsItsSources
<1>1. PublicationInv => ManifestBindsItsSources
    BY DEF PublicationInv
<1> QED BY <1>1, PublicationInvariant, PTL

\* However many runs fail, are killed or lose power, they leave at most one
\* temporary file, and only a killed run or a failed unlink leaves any.
THEOREM StagingStaysBounded == Spec => []StagingIsBounded
<1>1. PublicationInv => StagingIsBounded
    <2> SUFFICES ASSUME PublicationInv PROVE StagingIsBounded
        OBVIOUS
    <2>1. \A n : Cardinality({n}) = 1
        BY FS_Singleton
    <2>2. Cardinality({}) = 0
        BY FS_EmptySet
    <2>3. staged = {} \/ \E n \in Names : staged = {n}
        BY DEF PublicationInv, StagingInHand
    <2>4. Cardinality(staged) \in {0, 1}
        BY <2>1, <2>2, <2>3
    <2>5. Cardinality(staged) <= 1
        BY <2>4
    <2> QED BY <2>5 DEF PublicationInv, StagingInHand, StagingIsBounded
<1> QED BY <1>1, PublicationInvariant, PTL

\* When the manifest is replaced, the documents it lists are in place, and
\* those this run wrote cannot be lost any more.  A document the run found
\* current and skipped is in place, but was perhaps never synced.
THEOREM ManifestComesLast == Spec => ManifestLast
<1>1. PublicationInv /\ [Next]_vars =>
        [ManifestReplaced =>
            \A d \in DocumentSet \ touched :
                /\ entries[d] = Body(d)
                /\ d \in installed => durable[d] = Body(d)]_vars
    <2> SUFFICES ASSUME PublicationInv, [Next]_vars, ManifestReplaced,
                        NEW d \in DocumentSet \ touched
                 PROVE  /\ entries[d] = Body(d)
                        /\ d \in installed => durable[d] = Body(d)
        OBVIOUS
    <2>1. Replace /\ Head(todo) = Manifest
        <3>1. installed' # installed /\ installed' # {}
            BY DEF ManifestReplaced
        <3>2. \/ Replace
              \/ installed' = {}
              \/ installed' = installed
            BY DEF Next, RunStep, Environment, vars, history, Start, CaptureNext, FailCapture,
               Captured, InventoryToWrite, InventoryToCheck, RefuseManifest, SkipCurrent, Stage,
               FailStaging, FailCleanup, SyncDirectory, FailSync, FinalInventory, ReadNext,
               ReadLast, Conclude, Edit, Disturb, Clutter, Tidy, Kill, PowerLoss
        <3> QED BY <3>1, <3>2 DEF ManifestReplaced, Replace
    <2>2. /\ phase = "replace" /\ todo \in Seq(Names) /\ todo # <<>>
          /\ \A i \in 1..Len(todo) : todo[i] = Manifest => i = Len(todo)
        BY <2>1 DEF Replace, PublicationInv, TypeOK, ManifestAtEnd
    <2>3. Len(todo) = 1
        <3>1. Len(todo) \in Nat /\ Len(todo) >= 1 /\ todo[1] = Manifest
            BY <2>1, <2>2, NamesLeft
        <3>2. 1 \in 1..Len(todo)
            BY <3>1
        <3> QED BY <2>2, <3>1, <3>2
    <2>4. d \notin Range(todo)
        <3>1. Range(todo) = {Manifest}
            BY <2>1, <2>2, <2>3, NamesLeft DEF Range
        <3> QED BY <3>1, PublicationAssumption DEF DocumentSet
    <2> QED BY <2>2, <2>4 DEF PublicationInv, DoneDocumentsHold
<1> QED BY <1>1, PublicationInvariant, PTL DEF Spec, ManifestLast

\* A run that ends with status 0 has seen the capture of the sources as they
\* are at its end and nothing beside it, except for what others changed since
\* it read an entry back, or added since its last inventory.
THEOREM SuccessIsCurrent == Spec => SuccessMeansCurrent
<1>1. PublicationInv /\ [Next]_vars =>
        [Succeeds =>
            /\ \A n \in Names \ touched :
                 entries[n] = IF n = Manifest
                              THEN [snapshot |-> version,
                                    documents |-> [d \in DocumentSet |-> version]]
                              ELSE Document(version)
            /\ cluttered => intruded
            /\ staged = {}]_vars
    <2> SUFFICES ASSUME PublicationInv, [Next]_vars, Succeeds
                 PROVE  /\ \A n \in Names \ touched :
                             entries[n] = IF n = Manifest
                                          THEN [snapshot |-> version,
                                                documents |-> [d \in DocumentSet |-> version]]
                                          ELSE Document(version)
                        /\ cluttered => intruded
                        /\ staged = {}
        OBVIOUS
    <2>1. Conclude
        BY DEF Succeeds, Next, RunStep, Environment, vars, run, Enter, Exit, Start,
           CaptureNext, FailCapture, Captured, InventoryToWrite, InventoryToCheck,
           RefuseManifest, SkipCurrent, Stage, FailStaging, FailCleanup, Replace,
           SyncDirectory, FailSync, FinalInventory, ReadNext, ReadLast, Edit, Disturb,
           Clutter, Tidy, Kill, PowerLoss
    <2>2. version = snapshot /\ ~stale /\ phase = "conclude"
        BY <2>1 DEF Succeeds, Conclude, Exit, Unmoved
    <2>3. captured = [d \in DocumentSet |-> version]
        BY <2>2 DEF PublicationInv, TypeOK, CaptureIsCoherent
    <2>4. ASSUME NEW n \in Names \ touched
          PROVE  entries[n] = IF n = Manifest
                              THEN [snapshot |-> version,
                                    documents |-> [d \in DocumentSet |-> version]]
                              ELSE Document(version)
        <3>1. entries[n] = Body(n)
            BY <2>2 DEF PublicationInv, ReadNamesHold
        <3>2. n # Manifest => n \in DocumentSet
            BY DEF Names
        <3> QED BY <2>2, <2>3, <3>1, <3>2 DEF Body, Document
    <2>5. staged = {} /\ (cluttered => intruded)
        BY <2>2 DEF PublicationInv, NothingAdded
    <2> QED BY <2>4, <2>5
<1> QED BY <1>1, PublicationInvariant, PTL DEF Spec, SuccessMeansCurrent
=============================================================================
