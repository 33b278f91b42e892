# KVCrucible: a TLA+ model of the evidence pipeline

KVCrucible judges, offline, whether the stream of cache events an LLM engine
publishes lets a consumer rebuild the engine's KV-cache view. A trace of JSONL
records is read, validated, normalized and sealed; each stream of it is folded
into a view with a *certainty*; fault schedules (drop, duplicate, move) are
materialized into other orders of the same deliveries, and the pristine and the
faulted execution are compared. Around the library, Python tools capture the
output of its commands and publish it as evidence bound to its sources.

This directory models those parts in TLA+, checks them with TLC on small
instances and proves with TLAPS, for every instance, the invariants of the cache
transaction, the stream fold, the schedules and their comparison, the assembler, the
reader and the two tools. Paths below are relative to the repository.

## 1. The system

| component | state | operations | hard because | correct when |
|---|---|---|---|---|
| stream fold (`src/state.rs`, `StreamState`) | certainty, frontier, pending and recent slots, poison and unavailable ceilings, view, diagnostics | `admit`, `finish` | deliveries come lost, repeated, reordered and equivocated, at every limit | an authoritative view is the engine's cache; certainty is never stale and never regained without a barrier |
| cache transaction (`CacheTransaction`, `CachePlan`) | overlay of additions and tombstones, incremental counters | store, remove, clear, `finish`/`commit` | the overlay must stay consistent under any interleaving of mutations | all or nothing, and exactly the meaning of the list |
| normalization session (`EnvelopeNormalizer`) | open/sealed/failed, contracts, budgets | `register_stream`, `prepare`, `seal` | repeated and refused registrations, a session failed half-way | one contract per stream and scope, charged once |
| trace validator (`src/trace.rs`) | declarations, envelopes, planned schedules, budgets | `push`, `finish_planned` | a second copy of the normalizer's rules | it accepts only what can be executed |
| assembler and sealed trace (`src/scenario.rs`) | both of the above, blueprints, sources | `push`, `finish`, binding | two layers that must agree, paired by position | binding never fails; every schedule sees its streams |
| schedule planning and delivery arena (`src/trace.rs`, `src/scenario.rs`) | live occurrences, plan; a linked list in a vector | plan, drop, duplicate, move, materialize | pointer surgery after earlier pointer surgery; 16-bit occurrences | no accepted plan breaks the arena; the result is the edit that was meant |
| schedule comparison (`src/scenario.rs`) | two executions of all visible streams, their summaries | `compare_schedule`, `execute`, `compare_streams` | a verdict over two folds that saw different orders, of streams whose deliveries are interleaved | faults of the transport never read as divergence, nor those of one stream in another |
| JSONL reader (`src/jsonl.rs`) | buffer position, scratch, deferred CR | `next` | a line end split over two buffers, three limits at one byte | lines and verdict do not depend on the buffers |
| evidence publication (`tools/render_readme_visuals.py`) | directory entries, source snapshot | capture, write, `--check` | drift, kills, power loss, other writers | the manifest never certifies what it does not bind |
| process capture (same file) | selector, buffers, deadline, process group | `run`, `collect_process_output`, `terminate_process` | pipes that fill, descendants that hold them, signals that are ignored | it always returns, with everything or with a true reason |
| record codec (`src/codec.rs`) | scan state, container stack, budgets | `decode_line`, `encode_line` | two readers of one text must agree where its numbers are | what is accepted is within every budget and writes its numbers as safe integers |
| LZW coder and decoder (`tools/render_readme_media.py`, `scripts/verify_readme_media.py`) | two dictionaries, two code widths | `_lzw_encode`, `_lzw_decode` | the width of a code is never transmitted and the decoder learns one code late | the audit reads back what the renderer wrote |
| typed records and their validation (`src/ir.rs`, `src/fingerprint.rs`, `src/limits.rs`) | counters of one validation, the writer of one fingerprint | `Record` from JSON, `ValidatedRecord::new`, `prepare` | one record meets two sets of budgets, several times, under limits that may differ | what a holder of a record relies on was counted under its own limits; what is written can be read |
| command line, examples, SVG, the rest of the media renderer and verifier | none across calls | mostly pure functions | boundaries of parsers | not modelled, see section 7 |

Interaction: the JSONL reader hands decoded records to the assembler, which
pushes each one first into the validator, then into the normalizer; the
normalizer is public, so a caller may also drive it alone. `finish`
seals both and binds the envelopes to streams. Executing a schedule materializes
an order of deliveries in the arena, and comparing one feeds the physical sources
and then that order to one fresh `StreamState` per stream;
each application runs through a cache transaction. Nothing in the library is
concurrent: its nondeterminism is the order and the content of its input. The
tools do run beside other processes, editors and crashes.

## 2. The modules

| module | models | abstractions |
|---|---|---|
| `CacheProjection` | what a log of mutations does to a set of keys, as a definition without order of evaluation | a key is a value with a byte size; a store run is one mutation per hash |
| `CacheTransaction` | `state.rs:781-945`: the overlay, mutation by mutation, and commit | |
| `AtomicCacheUpdate` | abstract: a list of mutations takes effect at once or not at all | |
| `StreamState` | `state.rs:1050-1646`: `admit` with all its dispositions, and `finish` | one action per outcome of `admit_inner`; fingerprint = payload (SHA-256 taken as injective); the session is sealed before any fold starts, so the session checks are constant |
| `FaithfulStream` | the fold fed by a trace of a publisher that equivocates at will, or that published one payload per cursor (`Honest`) | adds `published` (what the publisher put at each cursor), `trustedStart` (the baseline) and the histories `delivered` and `limited` |
| `ScheduleComparison` | `scenario.rs:377-535, 794-849`: a pristine and a faulted run of the fold over one list of sources, and the verdict over the two summaries | one stream; cursors at or after the initial one |
| `ScheduleMaterialization` | `trace.rs:682-825` planning, `scenario.rs:851-1110` arena | |
| `ScheduleExecution` | `scenario.rs:377-544, 794-816`: both executions of a materialized schedule over all the streams it can see | `admit` is a function of a state and a source, so a state is the list of the sources it admitted; a fold may refuse any of them |
| `DeliveryOrder` | abstract: a plan as successive edits of a sequence | |
| `TraceRecords` | the fields of records that the two layers look at | identities are values; field validation is done |
| `TraceValidator`, `EnvelopeNormalizer` | the acceptance rules and charges of either layer | a schedule names the sources it targets; how an action resolves an occurrence is in `ScheduleMaterialization` |
| `TraceAssembly` | `scenario.rs:131-243, 434-482`: both layers in lockstep, sealing and binding; `CallDirectly` is a caller that uses the normalizer without the validator | |
| `JsonlReader` | `jsonl.rs:125-335`, one action per branch of the byte loop | bytes are LF, CR or text; a line is decodable or not |
| `RecordCodec` | `codec.rs:149-831`: framing, `classify_numbers` byte by byte, the serde callbacks and their budgets, `encode_line` with its preflight | bytes are one-character strings, `n` is any literal, the escape `\u` spells `a`; serde_json is external and modelled by its grammar; the typed conversion is an outcome; the canonical form has the size of the preflight's |
| `RecordSchema` | the types of `ir.rs` as serde reads them: structs from objects or arrays, enums from a tag in any position, unknown, missing and null members | the derived code is external, modelled by serde 1.0's rules; a document is a tree in compact form; numbers and widths are small |
| `RecordValidation` | one record from a line, or from a caller, through `decode_line`, `ValidatedRecord::new`, `encode_line` and `EnvelopeNormalizer::prepare`, each under limits of its own: `ir.rs:540-1131` check by check, the budgets of `codec.rs` as a whole, `fingerprint.rs` piece by piece | a string counts by its length; canonical and plain form have one size; SHA-256 is injective |
| `LzwCoding` | `_lzw_encode` and bit packing of the renderer, `_lzw_decode` of the verifier, one action per symbol and per code | the pixels are palette indices; sub-blocks and the PNG left out |
| `EvidencePublication` | `render_readme_visuals.py`: `main`, `write_outputs`, `check_outputs`, `atomic_write_at` | a document is the version it was captured from; a file system whose replacements are durable after the directory is synced and may come back or not before; every edit is fresh; modes, sizes and links left out |
| `ProcessCapture` | the same file: `run`, `collect_process_output`, `terminate_process` | output is counted; the group is the command and at most one process it forks |

The modules whose names end in `Proofs` hold the theorems of section 5. `MC*` modules
give constants their values; `MCFaithfulStream` also puts the transaction beside the
fold, one of them moving while the other rests at its start, since they share keys and
ceilings and otherwise only the definition of what a log holds. An operator whose comment starts
with *Slip* is a plausible mistake beside the definition it would replace; no
specification uses it, and replacing the definition by it makes the run named in
`PROJECT.json` fail.

State and code correspond by name: `certainty`, `frontier`, `pending`, `recent`,
`viewAuthoritative`, `equivocationCeiling`, `unavailableFloor`, `overlay`,
`pendingCr`, `fingerprintBytes` are the fields of the Rust structs. Two
representations differ. A slot of `pending` or `recent` is a set of payloads:
empty for a vacant cursor, a singleton for a candidate, a pair for a conflict
(the code keeps the first and the conflicting fingerprint). `None` is -1, below
every cursor, so the comparisons of `Option<u64>` are those of integers. An
`admit` that drains is one action with the last drained cursor as a parameter,
as the code builds the whole application before it commits it.

## 3. The runs

| run | question | bounds and why they are enough |
|---|---|---|
| `stream_fold` | the invariants of the fold under any deliveries, equivocations included; what may be concluded about an honest engine, from a trusted empty start or from any cache it may have held; and whether the overlay the fold applies sources through is exact and atomic | five cursors against a gap span of three, two pending slots, three pending bytes, two fingerprints, and a cache of two keys and three bytes: each limit is met and passed in the same behaviours; payloads that store, swap and clear after a mutation; diagnostics saturate at once, since no property reads their value. Transactions of four mutations over three keys of two sizes, from every view: every pair of operations on one key with a clear between them |
| `schedule_comparison` | can faults diverge, does reordering converge? | three sources over three cursors, each delivered up to twice, one fingerprint kept: an equivocation can come back inside and outside the window |
| `schedule_materialization` | does every accepted plan execute as meant, and do its faults stay in the streams it names? | three sources of up to two streams in every assignment, three actions, up to two copies, five occurrences: drops of copies, copies of copies, moves onto neighbours and across streams, streams declared after the schedule |
| `trace_assembly` | do the two layers agree, does what is sealed execute, is a contract unique and charged once? | records with colliding identities, streams, scopes and positions |
| `jsonl_reader` | framing and limits | six bytes, lines of two, trace of five, every cut into buffers |
| `evidence_publication` | drift, kill, power loss, failing calls | two documents and the manifest, one edit, one disturbance, any number of runs |
| `process_capture` | completeness, clean-up, termination | a limit of one byte, chunks and pipes of two, three bytes written: output below, at and beyond the limit, a full pipe and a chunk cut by the limit; the end of the leader, with every outcome, beside a fork that goes on |
| `record_codec` | do the number scan and the parser agree, do the budgets bound what is accepted? | some 800 lines of up to three levels from every number form, escapes, duplicate keys in two spellings and broken containers; each budget is met and exceeded |
| `record_validation` | which of its budgets refuses a record, and what does an accepted one promise its next user? | some hundred documents of the four kinds, plain and in serde's other spellings, and records a caller built, under limits each of which is met exactly and missed by one; every pair of limits for two calls in a row |
| `lzw_coding` | does the decoder's dictionary follow the encoder's? | symbols of two bits and codes of three to five: every width change and a full dictionary with its clear within sixty symbols, as the real twelve bits need thousands |
| `unknown_fields` | is every unknown field rejected? (it is not) | the documents of `record_validation` |
| `lzw_boundary` | does every frame read back? (it does not) | the real parameters, one frame of 312 symbols |

Deadlock is checked in `evidence_publication`, where a next run is always
possible. The other systems stop by design: a folded stream is finished, a trace
is sealed, a reader is done, a call has returned.

What the runs show, beyond the invariants their comments state:

- A verdict of `Diverged` needs sources that equivocate *and* a fingerprint that
  had left the window when the other payload came (`DivergenceIsUnverified`); the
  fixture that reaches it in the repository sets the window to zero. Losses,
  duplicates and reordering alone never diverge.
- A schedule that drops nothing converges, if the baseline is trusted and no
  ceiling is met (`ReorderingConverges`). From an unknown baseline it need not: a
  delivery moved before the clear that establishes the view attaches the stream
  behind it.
- The validator's and the normalizer's duplicated rules never disagree on what the
  validator looks at, so `Error::AssemblyInvariant` and
  `Error::ExecutionInvariant` are unreachable (`LayersAgree`, `SealedTraceExecutes`,
  `StreamsAreIsolated`).
- A dense range filled in any order returns to `Exact` (`ExactMeansComplete`,
  `spec/semantics.md`), and nothing but a step that moves the frontier past all
  poison leaves `Unknown` (`UnknownIsSticky`).
- A stream that a schedule does not drop from, copy or move admits the same sources in
  the same order with and without it, even where its deliveries are the anchors of
  moves in other streams (`StreamsAreIsolated`): its verdict cannot depend on them.
- The text budgets of the codec imply the typed budgets of the same name: no decoded
  record is refused for its size after it was built (`TextBudgetsSuffice`). For a
  record built through the API only the preflight of `encode_line` has this effect,
  and with it whatever is written can be read back as the same record
  (`WrittenIsReadable`).
- A decoded line in plain spelling passes the encoder and the normalizer under the
  limits it was decoded under (`DecodedIsUsable`). serde reads more
  spellings: an array of its fields, tag first, for a struct or a variant, `{"name":
  null}` for a plain name, and, below the top, the number of a variant for its tag.
  The first and the last are shorter than the canonical form, so a record accepted at
  the line limit may be refused by `encode_line`. And the line itself may be such an
  array, where `spec/ir-v1.md:20-21` calls it one JSON object.
- serde ignores members beside the tag of a unit variant, whatever
  `deny_unknown_fields` says. A baseline `{"kind":"unknown_at_attach","x":1}` is
  accepted and `x` is lost, where `spec/ir-v1.md:341-343` says that unknown fields
  outside the extensions are rejected "so misspellings cannot silently change a
  verdict" (`UnknownFieldsAreRejected` fails in `unknown_fields`). `Baseline`,
  `CacheGroup`, `StorageMedium` and `Lineage` each have such a variant.
- The manifest is the commit record of the evidence bundle. It only names documents
  captured from the sources it names, through kills and power loss
  (`ManifestBindsItsSources`), and a run replaces it when the other documents are in
  place and those the run itself replaced are durable (`ManifestLast`). One case is
  outside: a run is killed after its last document is renamed and before the directory
  is synced; the next run finds every document current, skips them without a sync
  (`render_readme_visuals.py:1959`) and replaces the manifest, and a power loss before
  the sync that follows may keep the new manifest over an older document.
- An interrupted run leaves at most one staged file, and that makes later runs refuse
  (`StagingIsBounded`). A run reports success over nothing it could still see: only an
  entry changed after it was read back, or added after the last inventory, escapes it
  (`SuccessMeansCurrent`).
- When collection fails by deadline, limit or interrupt and its clean-up does not, the
  whole process group has ended or cannot outlive its SIGKILL. A command that exits,
  successfully or not, is only waited for (`render_readme_visuals.py:376-382` raises
  without a signal); what it forked may run on, but holds neither pipe (`GroupIsEnded`).
- The renderer's `_lzw_encode` writes END one bit narrower than the verifier's
  `_lzw_decode` reads it when the last string completes a width. The zero padding
  of the last byte hides this, unless the codes fill that byte exactly: then the
  audit rejects a frame the renderer wrote (`RoundTrip` fails in `lzw_boundary`,
  `RoundTripUnlessUnpadded` shows that nothing else is lost). The committed frames
  do not meet the boundary.
- The number scan rejects fractions, exponents and unsafe integers before the
  parser sees them, and it loses its place in no line: an escaped quote, a
  truncated string or a malformed token never hides a number from it
  (`AcceptedIntegersOnly`). That `-0` is accepted and `-0.0` refused is part of it.

## 4. Fairness

Only `ProcessCapture` states fairness: weak fairness of the clock, of the
collector and of the clean-up. The collector is a thread the operating system
schedules and every one of its waits has a deadline; time passes. The command owes
nothing: it may never write, never close a pipe, never exit. A process that gets
SIGKILL need not have ended when the call returns, which is the case where the code
gives up after its own grace. All other modules only have safety properties.

## 5. What is proved

Every theorem is about a specification as TLC runs it, for every value of the
constants that meets the named assumptions of its module: `KeyAssumption`,
`LimitAssumption`, `StreamAssumption`, `ComparisonAssumption`, `ScheduleAssumption`,
`StreamsAssumption`, `RecordAssumption`, `ReaderAssumption`, `PublicationAssumption` and
`CaptureAssumption`. They say that
limits and sizes are naturals, that the sets of keys and payloads are finite, that
records of different kinds differ, and no more of the system than that. In each
proof module one theorem states the inductive invariant, and the others that
`PROJECT.json` lists follow from it.

**`CacheTransactionProofs`**: `OverlayInvariant`, and from it `OverlayIsDisjoint`,
`CountersAreExact`, `OverlayProjectsLog` and the refinement `OverlayRefinesAtomic`.
The inductive invariant is the type invariant, the disjointness of the overlay from
its base, the exact counters and the projection of the log. Disjointness is what makes the others inductive: only then is what
`Contains` sees what `CommitPlan` would write. The lemmas say how one more mutation at the
end of a log changes what it holds (`HeldExtend`) and how the bytes of a set of keys
change with one key.

**`StreamStateProofs`**, for every range of cursors, finite set of payloads, mutation
list, ceiling and window: `StreamInvariant` and from it `StreamTypes`,
`CertaintyIsCurrent`, `CertainViewIsAuthoritative`, `DiscardedEvidenceIsAhead`,
`ContiguousIsDrained`, `RetainedConflictsPoison`, `BarriersNeverWait`,
`WaitingIsJustified` and `PendingBytesAreExact`. `StreamTypes` includes both ceilings of
the buffer, its slots and its bytes. The inductive invariant joins these
with three parts that carry the induction:

- `TrustLostExplained`: a view without authority has a baseline or an equivocation
  to blame. Without it an in-order application could turn certain over a view that
  is not authoritative.
- `PartialStartsEmpty`: before an untrusted stream attaches, nothing is pending, so
  its first delivery finds no slot behind it.
- `CertaintyJustified`: `finish` may only lower the certainty, which keeps the
  classification meaningful after the stream is consumed.

`Drained` needs `UnavailableAhead`, which needs that a drain stops below the
discarded floor; `ConflictsPoison` needs `Drained`'s first conjunct, that no slot
is left at or below the frontier. There is one lemma per outcome of `admit`, with
one step per conjunct that the outcome can disturb. Two results about the history
rest on it: `UnknownNeedsBarrier` (the action property `UnknownIsSticky`), since every
outcome but a barrier keeps the baseline or some poison to blame, and
`WindowIsNewest` (`RecentSuffix`), since an application extends the window at its end,
whatever it evicts at the other.

**`StreamDeliveryProofs`**, of one stream: `TraceIsFolded`, that every trace of every publisher is a
behaviour of `StreamState!Spec`, which carries the theorems above over to the
specification of a fed fold that `stream_fold` runs; `HonestIsNeverAccused`; `ViewIsTheEnginesCache`
(`AuthoritativeViewIsTruth`) and `ExactIsComplete` (`ExactMeansComplete`). Of an honest
publisher, each fingerprint held was published at the cursor it is held for, and the
view, while it is authoritative, is what the log of everything published up to the
frontier holds. A drain applies a run of waiting payloads at once, so the proof joins
logs end to end (`HeldJoin`), and a clear forgets what was before it
(`HeldFromClear`), which is how a stream that attached to an unknown cache comes to
know it. Completeness adds the histories: what was delivered is folded, waits, or
left poison behind.

The same module, of two executions: `DivergenceIsRightful` (`DivergenceIsUnverified`) and
`ReorderedConverges` (`ReorderingConverges`). Both relate two executions of one list
of sources, so the invariant (`ComparisonInvariant`) speaks of one run at a time: a
run is *folded* when its authoritative view is explained by one payload per cursor,
from the start or from a clearing payload on, each of them delivered, and the only one
delivered where no equivocation stayed unverified (`ViewExplained`); when what was
delivered beyond the frontier waits, was discarded or conflicts (`AheadIsKept`); and
when a trusted, consistent stream that met no ceiling has no poison (`NothingLost`).
Two explanations that agree where they overlap explain one view (`OneView`), since the
payloads before a clear have no say. The order of the deliveries appears nowhere in
these facts, and that is the theorem.

**`ScheduleProofs`**: `PlansNeverBreakHolds`, `DeliversPlannedHolds`, the refinement
`ArenaImplementsOrder` (`OrderSpec`) and `StreamsAreIsolatedHolds`, for every prefix,
plan, number of copies and number of streams. Five layers:

- *The links are a list.* `Linked` says that the links of the arena are the
  neighbourhoods of one sequence of nodes. `UnlinkTakesOut`, `LinkPutsBefore` and
  `InsertPutsAfter` show that each operation of the arena turns the links of one
  sequence into those of the sequence without a node, or with one more. Copying is a
  recursive function over the copies; its value is characterized by the least number at
  which it could go wrong (`LeastNat`), which also shows that the walk from the head
  visits the list and nothing else (`WalkIsList`).
- *The planner's accounts are those of the plan* (`PlanInv`): `nextOccurrence` and
  `removed` describe what the planned actions create and drop (`Created`, `Removed`),
  `allocated` counts it, and every action refers to occurrences that exist when its turn
  comes, with copies that do not exist yet (`Resolved`).
- *The arena holds what the executed actions created* (`ArenaInv`), one node each, dead
  where dropped, the list being the live ones. `ScheduleInv` joins both; from it each
  test of `materialize_schedule` for a broken invariant is seen to fail.
- *The list is edited as the abstract order is*: removing and inserting in a sequence are
  related to the sub-sequences of `DeliveryOrder`, action by action.
- *The executions* (`ExecutionInv`): each state has admitted the sources the deliveries
  so far brought to its stream. An untouched stream receives the same set of sources in
  both executions, and both times rising, since no action moves sources it does not
  target (`InOrder`); a rising sequence is determined by its entries (`RisingSame`).
  That is the isolation of the streams, without following the two walks side by side.
  The executions only read the schedule (`ExecutionObservesSchedule`), which carries the
  other theorems over to the specification the run checks (`ComparedScheduleIsSound`,
  `ComparedArenaImplementsOrder`).

**`TraceAssemblyProofs`**: `LayersNeverDrift` (`LayersAgree`), `SealedExecutes`
(`SealedTraceExecutes`) and `ContractsAreChargedOnce`. Neither layer's invariant is
enough for the first: a record both accept must find the normalizer no fuller than the
validator. `SessionWithinTrace` says that of an open session: what the normalizer
holds is part of what the validator holds and costs no more, also after calls that
went to the normalizer alone and failed it. `EnvelopesBelong` and `BlueprintsMirror`
carry the sealing, where envelopes are bound to streams by position.

**`JsonlReaderProofs`**: `RecordsAreLines` (`LinesAsSplit`) and `VerdictsAreBufferFree`, for
every input and every cut into buffers. The invariant locates the reader in the text:
between two lines, or inside one whose bytes so far are in the scratch. The properties
count line feeds, the reader meets one byte at a time; between them stands a line as two
positions with no feed between (`LineSpan`). That each byte has an end of its line is
shown by taking the least candidate (`LeastNat`, from the well-ordering of the naturals
as a relation), which does here what an induction theorem with an operator parameter
would do.

**`EvidencePublicationProofs`**: `ManifestsBind` (`ManifestBindsItsSources`),
`StagingStaysBounded`, and the action properties `ManifestComesLast` (`ManifestLast`) and
`SuccessIsCurrent` (`SuccessMeansCurrent`). The invariant follows one run through its capture, its
two snapshots and its writes: what was captured is bracketed by equal snapshots, so
every document is of the version the manifest names; the manifest stays last in the
list of what is left to write; the documents this run is done with hold that version,
durably if it replaced them; and a run that writes has no temporary file but the one in
hand. A kill or a loss of power ends the run, so what they may undo is outside of what
is claimed of its later steps. Durability is claimed for what the same run replaced and
for nothing it skipped, since an earlier run may have been killed before its sync.
`NothingAdded` follows the other half of success: between its inventory and its verdict
the directory holds an entry that is not an output only if it was added in between.

**`ProcessCaptureProofs`**: `ResultsAreTrue` (`ResultIsTrue`) and `GroupsAreEnded`
(`GroupIsEnded`), for every limit, chunk and pipe. The invariant ties each stream the
collector let go of to a pipe nobody can write any more (`EndedForGood`), what was
collected to what was written, and each reason for failure to what the clock and the
counters say. Before the clean-up reaps, every process left in the group has a signal
under way that it cannot ignore (`GroupIsDoomed`). A result, success or a non-zero exit,
is taken only of a leader that ended and of pipes that did (`ResultHolds`); no signal was
sent then, and `GroupsAreEnded` says no more of a process left behind than that it holds
neither pipe. Of a clean-up that failed it says nothing.

**Only model-checked.** Of the safety properties of the runs, those about

- the record codec and the record validation: their modules declare RECURSIVE operators
  over texts and trees, which the prover does not take;
- the LZW coder (`DecoderInStep`, `RoundTripUnlessUnpadded`): code widths are powers of
  two and codes are sums of bits, and no backend has a theory of exponentiation.

Out of the prover's reach are liveness under fairness (`AlwaysReturns`), ENABLED,
and what a definition by induction over data computes for every input.

## 6. Limits of the model

- Edits that are undone between two snapshots cannot be seen by any digest; the
  model gives every edit a fresh version and says nothing about them.
- An entry that a killed run replaced but did not sync is found current by the
  next run and skipped; it becomes durable with the next entry that is written, which
  may be the manifest that lists it. No property claims otherwise.
- Two renderers over one directory, and a process that leaves the session of a
  capture, are not modelled. A capture whose command exits, with whatever code, signals
  nobody: a background process that closed both pipes goes on running. So may the whole
  group when the clean-up itself fails, which the call then reports.
- `ScheduleComparison` has one stream with its whole fold, `ScheduleExecution` several
  streams with the sources each admits; that `admit` reads nothing but its own state
  and source is what joins the two.
- `RecordValidation` knows serde_json and serde by their documented behaviour; the
  crates are not part of the repository. A string is as long as its text: escapes are
  the subject of `RecordCodec`.
- `RecordCodec` lets the parser meet a negative zero only where the literal is zero; a
  number that underflows to one (`codec.rs:636-644`) has a fraction or an exponent, and
  the number scan refuses it before.
- An allocation that fails (`try_reserve`) is left out everywhere.
- When a record breaks several rules at once, which error is named is left out.

## 7. Not modelled

The command line, the examples and the SVG layout only produce text. Of the media
renderer and the media verifier the drawing, the PNG and the container of the GIF are
encoders and parsers of one pass; the renderer's candidate writer, and two renderers
over one directory, are left to the plan. The default limits are numbers nothing
computes with. SHA-256 is taken as injective, so equal fingerprints mean equal
payloads; the wiping of the hasher and the redacted `Debug` of identities are outside
of what a state shows. Field accessors and the aggregate counters of
`ScheduleComparison` read what the models hold.

## 8. Plan

Order of work, the most important behaviour first:

1. *(done)* cache transaction and its refinement; the stream fold; an honest engine;
   proofs of both inductive invariants.
2. *(done)* comparison, schedule materialization with its refinement, assembler with
   its two layers, JSONL reader.
3. *(done)* evidence publication and process capture.
4. *(done)* record codec; LZW coder against decoder.
5. *(done)* typed records, their validation and fingerprint; the executions of a schedule over
   several streams; one run for the fold, equivocating and honest.
6. *(done)* proofs about the history of the fold and about an honest publisher.
7. *(done)* proofs about the view and the completeness of an honest stream, the
   comparison, the assembler, the reader, the publication and the capture.
8. *(done)* proofs of the delivery arena, its refinement of the order of deliveries, and
   the isolation of the streams.
9. *(next)* the candidate writer of the media renderer; two renderers over one
   directory.
