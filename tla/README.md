# Formal model of the Telecom Studio backend

The repository is a local 3D design studio: a browser sends a brief or an edit, a
FastAPI process runs a LangGraph orchestration that asks language models and starts
Blender, and every result is kept in files and SQLite databases under `outputs/`.
Two kinds of thing have to be right whatever happens. What *surrounds* a design must:
a certified design stays the one that is served, an answer given to the browser stays
true, accepted work ends, nothing deleted comes back, while threads interleave, writes
fail and the process dies. And what the models *propose* must not pass for what the user
*said*: a chain of parsers, contracts, repairs, rebinding and proofs stands between a
reply and a served scene, each written separately, and they have to agree.

This directory models both in TLA+, checks them with TLC and proves with TLAPS every property
of safety the runs check but one (section 4). `src/` below is the repository.

    tlc -workers 2 -config StatusReads.cfg MCStatusReads.tla
    tlapm DesignPublicationProofs.tla

`PROJECT.json` gives, for every definition, the lines of the code it stands for, the
hazards of the code at their lines with the properties that cover them, and, for every
property, a plausible bug of that code that breaks it (the operators commented *Mutant*
in the modules: nothing else uses them).

## 1. Inventory

### Components and their state

| Component | Code | State | Operations | Model |
|---|---|---|---|---|
| Design publication | `workflow.py`, `scene_versioning.py` | per workflow: root `status.json`, `versions/<id>.json`, a `status.json` per version, `active_version.json`, `active_design.json` | create, generate, edit, roll back, reconcile at start-up | `DesignPublication`, `DesignRegister` |
| Status reads | `workflow.py` `get_status` | none; four files and the active count, read without a lock | one request | `StatusReads` |
| Admission and locking | `workflow.py` | lock map with user counts, active counts, two semaphores, executor queue, closed flag | create, edit, roll back, delete, generate, shut down | `WorkflowGate` |
| Event journal | `event_log.py` | one JSONL file and a cached last sequence per workflow | append, read, page | `EventJournal` |
| Stream and polling | `workflow.py`, `workflow_events.py`, browser hook | bounded queue per subscriber, seen identities, cursors | emit, connect, replay, receive, fill gap, end, poll | `EventStream`, `EventPolling` |
| LLM transport | `core/llm/transport.py` | credentials (slots, cooldown, refusals), circuit per capability, closed flag | acquire, post, cool down, disable, retry, open, reset, health, close | `GroqTransport` |
| Memory and outbox | `core/memory/service.py` | rows with a revision, one outbox operation, reconciliation thread | remember, purge, claim, rebuild, settle, retry, restart | `VectorOutbox` |
| RAG index | `core/rag/service.py`, `performance/cache.py` | collections, manifest, reader counts, flight, query cache | search, rebuild, invalidate, clean up | `RagIndex` |
| Document packs | `core/document_pack/service.py` | one directory per pack, tombstones, lock per pack | import, correct, generate from, delete | `PackStore` |
| Workspace store | `workspace.py`, `main.py` | SQLite chats, their design and pack, reservations | create, bind, reserve, link, cancel, delete | `Workspace` |
| Orchestration graph | `langgraph_orchestrator.py`, `checkpoint_saver.py` | state of one run, checkpoint threads | the nodes and routes of four entries, repair, certification | `DesignGraph` |
| Blender runner | `blender_runner.py` | staging and output directory, `build.lock.json` | stage, run, inspect, lock, compare, promote, reuse, fall back | `BlenderBuild`, `BuildEvidence` |
| Blender worker | `generate_scene.py`, `trusted_assembly.py`, `geometry_program_compiler.py` | the Blender scene and its records; library files | draw, import, prove, export | `SceneBuild`, `CognitiveDesign` |
| Certificate and verification | `completion_certificate.py`, `scene_versioning.py`, `core/qa` | certificate, evidence files, reports and their proof | measure, certify, publish, verify on read | `BuildEvidence` |
| Scene edits | `scene_edit_agent.py`, `dependent_constraints.py`, `platform_edit_resolution.py`, `assembly_planner.py` ... | the served scene, its assembly plan | plan, align, derive, patch, rebind, reconcile, check | `SceneRevision` |
| Cognitive design | `cognitive_design_planner.py`, `geometry_program_planner.py`, their contracts | a plan, programs, placements, a compiled scene | stage, judge, repair, place, compile, revise | `CognitivePlan`, `GeometryProgram`, `CognitiveDesign` |
| Brief and planning | `requirement_parser.py`, `requirement_provenance.py`, `groq.py`, `rag/planning.py`, `asset_registry.py` ... | an analysis and its receipt, a requirement with evidence | analyse, confirm, extract, decide, select, validate, plan | `SiteBrief`, `SitePlan`, `BriefIntake` |
| Local accounts | `auth.py` | SQLite owner, sessions, login throttle | set up, log in, rotate, log out | no |
| Browser | `apps/frontend/src` | reducer state, stream handle | follow, switch, restore | cursor only |
| Deployment, scripts, views | `infra`, `scripts`, `tools`, `product.py` | none that outlives a call | start, snapshot, ingest, list | no |

### How they interact

A route calls `WorkflowService`. A creation draws an identifier, writes a pending status,
counts the workflow as active, emits an event and hands the generation to a pool
(`WorkflowGate`). A worker takes a slot and runs the orchestrator (`DesignGraph`): it reads
the brief with the models (`BriefIntake`, through `GroqTransport`), reads memory and the
RAG index (`RagIndex`), plans and validates a scene, starts Blender (`BlenderBuild`, inside
it `SceneBuild` or the compiler of `CognitiveDesign`), and certifies what came out
(`BuildEvidence`). The service saves a version and *commits* it: `active_version.json`,
then `active_design.json` with the hash of the version's status (`DesignPublication`).
What follows a commit (root status, events, memory write-back) is a projection. Edits and
rollbacks run in the request's thread under the workflow's lock (`SceneRevision` is what an
edit does to the scene). Every emission goes to the journal first and to the queues of the
connected browsers second. Every memory write queues a projection (`VectorOutbox`) that a
reconciliation thread hands to `RagIndex`. A chat binds at most one design and a pack
(`Workspace` over `PackStore`), whose confirmed facts join the brief. Status requests take
no lock at all.

### What is hard, and what makes each part correct

* **Publication.** Five files and no transaction; a write may raise before or, because the
  directory is synced after the rename, *after* it took effect; a death may fall between two.
  Correct when the commit marker names a completed version with the hashed status, an answer
  stays true, a served version is never rewritten, nothing stays running while nothing runs.
* **Status reads.** Correct when completed is only said of a design that was served
  meanwhile, and a committed design is never reported as failed.
* **Admission.** The lock leaves its map while others may have fetched it; a permit is given
  back by a callback registered after the work may have ended; refusals undo three effects.
  Correct when one thread writes a design, no permit is lost or doubled, refusals leave
  nothing, accepted work ends.
* **Journal, polling, stream.** Torn lines, failed fsyncs, a cache lost by a death; offsets
  taken for sequence numbers; a queue that overflows; an end decided on inactivity. Correct
  when a fault costs at most one event and the browser has the rest in order and once.
* **Credential pool.** Threads share credentials, cooldowns and circuits; a success of one
  undoes what another learnt. Correct when limits, refusals and budgets hold and close drains.
* **Outbox and index.** Claims, identities that move under a rebuild, threads that end while
  work arrives, readers of collections about to be deleted, answers cached late. Correct when
  *succeeded* means current, no write stays unprojected, no reader loses its index.
* **Packs and chats.** Six files per correction, tombstones, two stores with a lock each.
  Correct when files agree, links point at what exists and operations exclude each other.
* **Graph and build.** A repaired scene invalidates every earlier proof; a build is promoted
  file by file. Correct when a completed run is proved about the scene and the files it leaves.
* **Edits.** Operations are checked, then others derived, then assets rebound, then the old
  plan reconciled. Correct when what is served is what was asked and nothing else, and plan
  and scene agree after any number of edits.
* **Geometry.** What a contract admits the worker must be able to build, within the envelope
  that was judged, and every deterministic change of a reply must be told.
* **Briefs.** Correct when what was said is in the planned scene, a contradiction is never
  planned, sources are true, and a confirmation confirms the very analysis it cites.
* **Evidence.** Writer and verifier of a certificate list checks and files separately, per
  schema and per release. Correct when sound builds are published and intact versions served.

## 2. Modules

| Module | What it is |
|---|---|
| `DesignPublication` | the files of one workflow, one write per action, with failing writes, deaths and recovery |
| `DesignRegister` | what it promises: an active design that moves in one step, with true answers |
| `StatusReads` | extends it with one reader, one file per action |
| `WorkflowGate` | request threads and workers around locks, counts and semaphores |
| `EventJournal`, `EventStream`, `EventPolling` | the JSONL file; emitters, queue and stream over it; a browser that polls instead |
| `GroqTransport` | the pool, the circuits and the retry loop |
| `VectorOutbox` | writers, reconciliation threads and the outbox |
| `RagIndex` | builds, the manifest, readers, clean-up and the cache |
| `PackStore`, `Workspace` | packs and their locks; chats over them |
| `BlenderBuild`, `DesignGraph` | the runner's attempts; the graph with the runner as one of its nodes |
| `SceneRevision` | an edit, from words to a certified scene |
| `CognitivePlan`, `GeometryProgram`, `ProgramSurfaces` | operators: plan contract and reuse; program contract, envelope, adjustments; faces of swept solids |
| `CognitiveDesign` | planning, compilation and revision over them |
| `SiteBrief`, `SitePlan` | operators: reading and merging a brief; hints, equipment and the scene |
| `BriefIntake` | analysis, confirmation and the planning nodes over them |
| `SceneBuild`, `BuildEvidence` | the worker's drawing; lock, certificate, publication and verified reads |
| `*Proofs` | theorems and their proofs; `LanguageModelProofs` is about `GroqTransport` and `CognitiveDesign`, `SceneRevisionProofs` about `SceneRevision` and `BriefIntake`, `DesignPublicationProofs` about publication, reads and evidence, `VectorOutboxProofs` about outbox and journal |
| `MC*` | the instances for TLC |

### DesignPublication, StatusReads

`root`, `versions`, `vstatus`, `pointer`, `manifest` are the five kinds of files. A status
document keeps what decisions depend on: its status, its version, its active version and
whether it holds an `active_operation`. The digest in the manifest is the document itself,
so that a rewritten status is told apart as a SHA-256 would. `kind`, `pc`, `cand`, `base`,
`prev`, `result` are the locals of the one operation under way; `reply` is what its caller
was told.

The actions follow the program order: `CreateDesign`, `StartGeneration`, `GenerationReturns`,
`SaveVersion`, `WriteVersionStatus`, `UpdateVersion`, `CommitPointer`, `CommitManifest`,
`ProjectRoot`, `Announce`, `Finish`; an edit adds `BeginActiveOperation`, `PlanRejected`,
`RevisionReturns`, `WriteFinalStatus` and `RestoreStatus`; a rollback starts at the commit.
`Wrote` is a write: it goes on, or (`faults`) it took effect and raises. `WriteFails` is a
write that raises without effect. Both lead to `Handler`, the `except` block that encloses the
statement, or to the next statement where `_run_after_canonical_commit` swallows the error.
`Crash` takes the job and the caches away; `Restart` and the recovery actions are
`reconcile_interrupted_workflows`, one disjunct per early return. In `StatusReads`, `ReadRoot`,
`ReadManifest`, `Decide`, `Resolve`, `Verify` and `Load` are the reads of
`_get_status_and_viewer_snapshot` and `verified_active_version` in their order; `seen` collects
the versions served since the request began.

### WorkflowGate

Each action is what one thread does between two points where another may run. A client may
act on a design as soon as `GET /designs` lists it (`Known`), while its creation is running;
`early` is history: a locked request entered in a gap of `create_design` (`Exposed`).
`lockOf`/`users` are the lock map, `holder` the thread inside a lock, `mine` the lock a
thread fetched. `permits`, `slots`, `queue`, `work`, `hooked`, `ended` model
`_submit_background`: the admission permit, the pool, and a done callback that runs in the
worker or, when the future has already ended, in the thread that registers it.

### EventJournal, EventStream, EventPolling

A line is a record that parses or not. `open` says the last line lacks its newline; the next
record is then written on it, which is what opening a file in append mode does. `AppendTorn`
and `AppendUnsynced` are the ways an append raises, `ProcessDies` a death, in the middle of an
append or not. In the stream, an emission is an append (under the journal's lock), a snapshot
of the subscribers (under the service's lock) and, for a full queue, an eviction and a second
try, each a step of its own. A connection registers its queue *before* it reads the journal.
`Disconnect` loses any end of what was yielded, and the next `Connect` names the last event
received. The polling browser asks with the greatest sequence it holds, and `get_events` uses
it as an offset into readable records. A behaviour of `EventPolling` has a browser of one kind
or the other and the same emitters.

### GroqTransport, VectorOutbox, RagIndex

Every action of `GroqTransport` is what one caller does under one acquisition of the pool's
lock, or an answer of the provider. Instants the code compares with its clock are kept as
the time that is left, so that `Tick` alone knows of time; `limits` and `tally` are history.
A client may ask again when an answer does not parse (`AskAgain`), as the vision and
asset-selection clients do.

In `VectorOutbox` a fingerprint is the number of changes of the rows, because every write
bumps the revision that is hashed. `Claim`, `Read`, `Build`, `Settle` and `MarkFailed` are
the transactions and lock sections of one reconciliation; `Schedule`, `Look`, `Leave` and
`Left` the hand-over between a writer and a thread that may be ending. Only the rebuild has a
handler around it: any other transaction of a reconciliation may raise (`DatabaseRaises`), and
so may a look for work or the start of a thread (`LookRaises`, `ScheduleRaises`). `stranded`
and `unattended` mark what such an error may leave: a claim nobody owns, an operation that
waits without a thread to look for it.

`RagIndex` counts the collections of one build as one and a build's content as the revision
of its documents: knowledge files, asset manifests and qualified catalogue. The index is
compared by all of them, an answer is cached under the knowledge files alone (`Key`). The static and the runtime index work alike and share nothing: `family`
chooses one. A search takes a snapshot of the manifest, counts itself as a reader, reads and
remembers its answer; a rebuild reads, stages, verifies, publishes and sweeps. Whoever reads
the state file may find it unreadable, which the code takes for none (`Unreadable`); `orphans`
and `broken` record what errors and deaths left.

### PackStore, Workspace, DesignGraph, BlenderBuild

A file of a pack is the number of the revision it was written for. A correction writes
`Order`, the code's order of files, one per action. `Workspace` adds the chats, the creation
lock and the reservations, and the handlers of `main.py` that use both stores.

A proof in `DesignGraph` is the number of the scene it is about, 0 when there is none or it
failed; each change of the scene makes a new number. What rules, inspectors and models
decide is open; which verdicts the code asks for, and about which scene, is not.
`BlenderBuild` is the `generate_blender` node: files are the attempt that made them, `lock`
an attempt and a scene; `Alter` is another program changing `scene_spec.json` meanwhile.

### SceneRevision, CognitiveDesign, BriefIntake

`SceneRevision` keeps a prompt as what the checks read of it (named fields, sectors, one
quantity, a direction, markers of removal) and an operation as a field, a place and a value.
An edit is asked, planned by the model (any set of at most `MaxOperations` operations) or by
the rule-based fallback, validated (`Aligned`, `Grounded`, `Capable`), patched, rebound,
reconciled and checked; a refusal leaves the design.

`CognitiveDesign` takes what models answer from `Plans` and `Replies`: what the schemas of the
code admit (`IsPlan`, `IsReply`), judged later. Space is one axis: envelope, grounding, fitting
and placement treat the three alike. A transform is a translation, a scale and a rotation that
leaves a node upright or turns it upside down; the angles between, which mix the axes, are left
out. What the code computes by walking references is a closure
(`Reached`: what a copy shows, what an envelope is measured from, what went into an object) or
a function that recurs over the nodes (`Measures`: the frame and the extent of each).
`AskStage` to `RouteSpecialists` are planning, `AskProgram`, `JudgeProgram`, `AcceptProgram`
and `RepairProgram` the drafting of one program, `PlaceWave` and `CompileScene` composition,
`CompileWave` and `ImportExact` the worker, `Inspect` the inspection, `Revise`, `Rebuild` and
`Move` a revision. Sources may change at any time.

`BriefIntake` keeps a text as the statements the patterns find in it. A field has its own type,
and a fact of the pack speaks of one field. An answer may be of the strict or of the JSON-object
mode, sound or not: what the contract refuses is taken from the baseline (`Repaired`), the whole
list of component requests when it refuses one of them (`RequestsKept`). `Analyse`, `Confirm` and `CreateFromText` are the
requests, `Extract` to `ValidateScene` the nodes of the graph up to the scene, `CorrectPack`
and `RestartApi` what may come in between.

### SceneBuild, BuildEvidence

The worker draws the `Pieces` of a scene in the order of `generate_scene.py` (`Rank`; the
`Upcoming` piece is the one of least rank), and an import is three steps: the hash, the read of
Blender, the record. `EditLibrary` changes a source in between and may put it back. Then the
model is exported and read by each measurement (rendering and measuring may fail of themselves,
`InspectionFails`), the lock hashes files and inputs and is compared again, the certificate
lists checks and hashes, publication verifies all of it under the contract of the certificate's
schema, and a later read verifies again. A file is absent, as written, or altered since; a
behaviour that starts from `Published` reads a version of an earlier release.

## 3. Runs

Every run passes. `PROJECT.json` says in a sentence what each shows.

| Run | Instance | Distinct states |
|---|---|---|
| `reads` | 3 versions, 2 deaths, one failing write, early or late, one reader | 1,639,420 |
| `gate` | 2 clients, 1 worker, 2 workflows, one slot, no pending place | 1,097,606 |
| `stream` | 3 events (2 when streaming), 2 troubles, 2 emitters, queue of 1, 2 connections, pages of 1 | 259,214 |
| `llm` | 2 callers, one capability, several shapes of the pool | 322,800 |
| `outbox` | 2 callers, 2 workers, 3 requests, 2 troubles | 328,612 |
| `rag` | 2 clients, one rebuilds, 5 builds, 2 revisions, 1 trouble, both families | 908,116 |
| `orchestration` | 2 runs, 4 entries, 3 payload files, 2 troubles, retention of 1 | 59,829 |
| `documents` | 2 threads, 3 requests, 3 revisions, 2 chats, 1 trouble | 456,041 |
| `revisions` | 3 designs, 3 edits in a row, 22 wordings, 2 operations an edit | 418,952 |
| `geometry` | 17 plans, 21 replies, 2 repairs, 1 change of the catalogue, 1 revision | 281,003 |
| `brief` | 8 wordings, 2 facts, 10 answers, 3 sets of hints, 3 catalogues, 1 restart | 42,160 |
| `evidence` | 18 designs, 6 published versions, 3 changes of the library, 1 damage | 483,987 |

### Properties

A run checks a few properties, most of them the conjunction of named parts; the parts
are defined just above them in the module, each with its own comment.

* `reads`. `ManifestCertified`, `ServedVersionFrozen`: what is served is complete and does
  not change. The first relates four files that are never written together. `ReplyTellsServed`:
  an answer stays true across later faults, deaths and restarts until the next operation
  begins. `RecoverySettles`: nothing stays running while nothing runs (`SettledWhenIdle`),
  and recovery gives up the candidate of an interrupted edit (`InterruptedEditSettled`).
  `StatusesTrue`: a read that says completed names a design served meanwhile
  (`CompletedWasServed`), and a committed design is never reported failed or quarantined
  (`CommittedNeverAnsweredFailed`). `ImplementsRegister`: the refinement; `certified` is the
  set of completed records with a directory, `active` the manifest's version.
* `gate`. `DesignsAreGuarded`: one writer of a design at a time (`OneWriter`, which depends on
  the user counts of the lock map *and* on the active counts), and deletion is final
  (`DeletedStaysDeleted`). `NothingLeaks`: each permit is held by exactly one thing
  (`PermitsAccounted`), a quiet service holds nothing (`QuietMeansReleased`), a refused
  creation leaves nothing (`RefusedLeavesNoOrphan`). All this with clients that act on a design
  while it is being created: a request that entered in a gap of `create_design` may work beside
  the generation, its DELETE may be undone and the directory of a refused creation be written
  again (section 5), and nothing else. `AcceptedWorkEnds`: liveness.
* `stream`. `JournalSound`: numbers follow the file (`SequencesOrdered`) and a torn line costs
  one event at most (`LossBounded`). `BrowserIsTold`: order, no repetition, completeness at
  the end for a stream (`DeliversInOrder`, `DeliversOnce`, `FinishedMeansComplete`) and, for
  a journal without fault, for polls (`PollingDelivers`). `StreamCatchesUp`: every event
  reaches a browser that stays connected, queue overflow or not.
* `llm`. `PoolSafe`: slots are counted (`SlotsAccounted`), a refused credential is not used
  again for what it was refused (`RefusalsStand`), a request has one budget of attempts and
  waiting (`OneBudget`), a circuit opens for failures that count (`CircuitEarned`).
  `LimitsHonoured`: no post on a credential inside the delay a 429 gave it. `ShutdownDrains`:
  every call ends after close.
* `outbox`. `OutboxSafe`: *succeeded* means a projection of the current rows
  (`SucceededMeansCurrent`), and a claim has a thread unless a database error between the claim
  and its settlement dropped it (`ClaimHasOwner`). `ProjectionNeverGoesBack`: no rebuild
  publishes over newer rows. `ProjectionCatchesUp`: what waits is projected in the end without
  another write, unless such an error dropped it, an error ended the last thread that would have
  looked for it, or the service is closed.
* `rag`. `IndexSafe`: collections that failed to go are remembered but where an error is named
  (`NothingForgotten`), a manifest names a whole build (`ManifestComplete`), and a search that no
  edit overtakes is answered from the cache of the documents as they are, although the key is of
  the knowledge files only, or by an answer of a kind the property names (`HitsAreCurrent`). `ReadersKeepTheirIndex`: nothing is deleted under a reader.
  `EveryoneReturns`: those who wait for another's rebuild return, its errors included.
* `orchestration`. `ProofsHold` and `WhatRunsLeave` (`LockMeansWhole`,
  `ResultMatchesDirectory`, `FailureIsExplained`, `ThreadsReleased`); `EveryRunEnds`.
* `documents`. `PacksConsistent`: locks exclude (`OneOperationPerPack`), files of one pack
  describe one correction unless a death is on record (`RevisionsAgree`), memory does not
  outlive its pack (`MemoryFollowsPack`). `LinksHold`. Deadlock is checked here, and in the
  runs whose configuration does not say otherwise.
* `revisions`. `PlanFollowsScene` (`PlanMatchesScene`, `AuthorityTruthful`,
  `EquipmentFollowsTower`); `LoweringIsAccepted`: a lowered tower takes its antennas along
  instead of being refused; `AppliedMeansDone`: an edit answered *applied* has left what each
  operation sets; `UntouchedStays` (`OnlyAskedChanges`, `PositionsAreKept`, `PlatformsKept`).
* `geometry`. `BuiltAsJudged`: the worker refuses no admitted program (`AcceptedCompiles`),
  and what it builds is inside the measured envelope (`EnvelopeContains`), closed where its
  profiles are (`SurfacesClosed`), and with its visible roots on the ground (`StandsOnGround`,
  but for a root that overturns a boolean, see section 5).
  `ServedAsPlanned` (`ServedCoversPlan`, `PlacementsHold`), `ChangesAreDisclosed` (points that
  were joined, roots lifted, a fit, and profiles that were reset or made construction),
  `RevisionReproduces`.
* `brief`. `SaidIsPlanned` (`StatedIsKept`, `FactsReachTheScene`, `RequestsSurvive`,
  `ContradictionNeverPlanned`), `NothingInvented` (`SourcesAreTrue`, `WithinAuthority`,
  `NearestEquipment`), `ConfirmedIsAnalysed`. Requests survive unless the contract refuses one,
  and then a warning says that the answer was repaired; evidence is about the value beside it,
  or about a default that a number written as text or the tower's characteristics replaced.
* `evidence`. `CertifiedIsTrue` (`AuthenticSources`, `CertifiedIsDrawn`,
  `CertifiedWasMeasured`), `SoundBuildsArePublished` (exactly which sound builds publication
  refuses, see section 5), `VerifiedReads` (`IntactIsServed`, `VerifiedMeansWhole`).

Several properties carry a premise that names the exception the code has; section 5 lists
them.

### Bounds, and why they are enough

Every bound is a constant of its module, and every counter is capped in a guard. Three versions
let an edit be based on one version, fail with a second and succeed with a third, and a
rollback return to one that is neither; two deaths allow one during recovery; version
identifiers are interchangeable, hence the symmetry (no liveness is checked there). In the gate
two clients are a thread inside a lock and one between the fetch and the take, the worker a
third; without a pending place refusals and stolen slots happen at once. `HasteBound`, an action
constraint of this run alone, lets clients act before the POST is answered on one of the two
designs: on both it would take the check too long. A queue of one
overflows at the second event, two emitters invert their pushes, two connections are one
reconnection; a third event, for polls, is what a page of one needs to skip one. One capability
and two credentials are enough because a call never uses two capabilities, and the shapes in
`MCSetups` vary the credentials, slots and limits. Two callers and two workers are the threads
a hand-over involves, three requests let one arrive during a rebuild and one during its retry.
Builds are identities, given again once nobody knows one: five are the served one, one staged
by each of two flights, one that failed to go and one that an unreadable state file forgot. Two runs of the graph one after the other
meet the directory the first left. Two threads, one shared pack and one death cover each pair
of operations. Three edits are the shortest series in which an edit works on what a second left
of what a first did (positions, platforms, plan). Three changes of the library swap a file, put
it back and change it once more, so that what was seen of it is neither what is there nor what
was planned. The plans, replies, wordings and designs of the last four runs are listed in their
`MC` modules with what each is for: one per branch of the contracts and inspectors, and those
that stand on a boundary.

`CHECK_DEADLOCK FALSE` is set where a bounded behaviour may stop because its events,
connections, requests, edits or runs are used up; the locks of the gate, the pool, the index
and the packs are checked for deadlock or by the liveness of their callers.

### Fairness

`WorkflowGate`: a request that holds a slot goes on until it has freed it (`SlotStep`, weak
fairness per client) and so does each thread of the pool (`WorkerStep`); no client has to
send a request, to get its lock or to finish, and nobody has to shut down. The calls inside an
operation end, because Blender and the providers are called with timeouts. Edits do not queue
for slots but may take each one that comes free, so `AcceptedWorkEnds` is stated under
`NoMoreEdits`. `EventStream`: the stream's thread and the emitters run and operations end.
`GroqTransport`: each caller and the clock. `VectorOutbox`: each thread and the restart of a
process that died. `RagIndex`: strong fairness per client step, because a client waits on a
lock others take again and again, and Python hands it on. `DesignGraph`: the running graph and
the restart. The deployment restarts what died (`restart: unless-stopped`) and runs one
server process (`--workers 1`), which is why locks in memory are enough. The other modules
state no fairness and no liveness.

## 4. Proofs

TLAPS proves, for all values of the constants under the named assumptions:

| Module | Theorem | Statement |
|---|---|---|
| `DesignPublicationProofs` | `TypeCorrect` | `Spec => []TypeOK` |
| | `ServedIsCertified` | `Spec => []ManifestCertified` |
| | `AnswersAreTrue` | `Spec => []ReplyTellsServed` |
| | `ServedIsFrozen` | `Spec => ServedVersionFrozen` |
| | `DesignMovesByCommit` | `Spec => OnlyCommitsMoveTheDesign` |
| | `PublicationImplementsRegister` | `Spec => ImplementsRegister` |
| | `RecoveryLeavesNothingOpen` | `Spec => RecoverySettles` |
| | `ReadsAreTrue` | `ReadsSpec => []StatusesTrue` |
| | `ReadsChangeNothing` | `ReadsSpec => Spec` |
| | `CertificatesAreTrue` | `VersionSpec => []CertifiedIsTrue` |
| | `SoundVersionsArePublished` | `VersionSpec => []SoundBuildsArePublished` |
| | `ReadsVouch` | `VersionSpec => []VerifiedReads` |
| `WorkflowGateProofs` | `OneRequestInside` | two requests past their acquire (`Holding`) are never on one workflow |
| | `PermitsAddUp` | `Spec => [](TypeOK /\ PermitsAccounted)` |
| | `DesignsStayGuarded` | `Spec => []DesignsAreGuarded` |
| | `QuietServiceIsClean` | `Spec => []NothingLeaks` |
| `LanguageModelProofs` | `TransportKeepsAccount` | `Spec => []PoolSafe` |
| | `DelaysAreHonoured` | `Spec => LimitsHonoured` |
| | `DesignConsistent` | `DesignSpec => []CognitiveInv` |
| | `WorkerBuildsAsJudged` | `DesignSpec => []BuiltAsJudged` |
| | `ServedIsPlanned` | `DesignSpec => []ServedAsPlanned` |
| | `AdjustmentsAreTold` | `DesignSpec => ChangesAreDisclosed` |
| | `RevisionsReproduce` | `DesignSpec => RevisionReproduces` |
| `VectorOutboxProofs` | `OutboxIsSafe` | `Spec => []OutboxSafe` |
| | `ProjectionMovesOn` | `Spec => ProjectionNeverGoesBack` |
| | `JournalStaysSound` | `FollowSpec => []JournalSound` |
| `RagIndexProofs` | `IndexStaysSafe` | `Spec => []IndexSafe` |
| | `ReadersAreLeftAlone` | `Spec => ReadersKeepTheirIndex` |
| `DesignGraphProofs` | `GraphProofsHold` | `Spec => []ProofsHold` |
| | `LeavesTellOutcome` | `Spec => []WhatRunsLeave` |
| `WorkspaceProofs` | `PacksStayConsistent` | `Spec => []PacksConsistent` |
| | `LinksStayWhole` | `Spec => []LinksHold` |
| `SceneRevisionProofs` | `PlanStaysTrue` | `Spec => []PlanFollowsScene` |
| | `LoweringStands` | `Spec => []LoweringIsAccepted` |
| | `AppliedIsDone` | `Spec => AppliedMeansDone` |
| | `UntouchedStaysSo` | `Spec => UntouchedStays` |
| | `BriefsAreRead` | `BriefSpec => []BriefInv` |
| | `WhatIsSaidIsPlanned` | `BriefSpec => []SaidIsPlanned` |
| | `NothingIsInvented` | `BriefSpec => []NothingInvented` |
| | `ConfirmationIsBound` | `BriefSpec => ConfirmedIsAnalysed` |

The assumptions are those the modules declare: bounds are natural numbers, `NoVersion`,
`Nobody` and their like are nobody, threads, builds and packs are apart; the edits begin from a
scene that passed its creation (`Certified`), and prompts and operations are of their types
(`PromptSet`, `OperationSet`): that an operation is *sound* is not assumed, the checks have to
see to it; a scene has the shape of a scene (`SceneAssumption`), and a version of an earlier
release has what the publication of its time asked of it (`Publishable`). Of what a model
answers only the schema is assumed: a plan and a program have the fields of their types
(`PlansAssumption`, `RepliesAssumption`) and a reading of a brief values of the type of each
field (`AnswersAssumption`); that a reply is sound, closed, acyclic or grounded is what the
contracts find out. What is absent is no number and no reason (`AbsentAssumption`), a planner
repairs at most four times (`BoundsAssumption`; in the code twice), texts are lists of
statements (`TextsAssumption`), a catalogue is finite (`CataloguesAssumption`). None of the
invariants is inductive as it stands.

**Publication.** `ManifestCertified` says nothing of what an operation is about to write.
`IInv` adds `StepOwner` (each program point belongs to one kind of operation), `ResultKnown`
(from the save on, the run's result is known), `CandidatePrivate` (the version an operation
writes is its own and not the one served, which is why no write can spoil the marker) and
`CommitChecked` (between the check and the two writes of a commit the version is certifiable
and, except in a rollback, the run was completed). `AnswerInv` adds for `AnswersAreTrue` that
no answer is pending while an operation runs, and what each ending knows of the manifest.
`RefInv` adds for the refinement that a version without a directory is not yet certified and
that an idle job has no target; every step is then a step of the register or none. For the
recovery, `RecoverInv` follows the one thing that survives a death, the files: which statuses
may still say *running* (`StatusesSettled`), that without a failed write the five kinds of
files disagree only as a death leaves them (`Unhurt`), that the root shows an edit under way
(`EditShown`) and that an interruption is known by its candidate (`InterruptionKnown`). A
reader holds no lock: `SeenServed` says that what it read of the marker was served since it
began, `ReadsAgree` what its later reads can still find.

**Gate.** `Base` adds to the types what a request holds at each of its points (`Requests`),
that the lock a thread fetched stays in the map until the last user has gone (`LockMap`), and
that permits and slots are those of futures in one of four stages (`Futures`, `Counts`).
`Guard` adds who may know a design (`Acquainted`), that a directory stands while a request
that found it works (`Directories`), and that a request past its check is alone with its
workflow (`Guarded`), whose count is that of its generation and its edit (`MarkingOf`). A design
can be seen before it counts as active (`workflow.py:520`, section 5): the properties name what
a request that enters then may spoil, and the theorems assume nothing about clients.

**Transport.** `Safe` follows a request through the pool: a slot belongs to a caller between
its acquisition and its release, a refusal is kept where the next choice looks (`Refusals`), a
delay lasts in the credential or in who was answered (`Cooldowns`), the budget is the sum of
what each return of the loop adds (`Budget`), a circuit's failures were counted (`Failures`).

**Outbox.** `IInv` adds `Counted` (revisions never pass the requests), `Dormant` (a dead
process holds no lock and runs no thread) and, in `Core`, `Exclusive` (one thread at most is
between a claim and its end, and holds the lock) and `Knowledge` (what a thread has read is
not newer than the rows and not older than the index): that is why a settlement by
compare-and-set on the fingerprint suffices without a transaction over the rebuild, whichever
of its transactions raise.

**Journal.** `JournalInvariant` adds `NumbersAreRecent`: while the cache is known no readable
record is ahead of it, but the one that a failed fsync wrote or that stands on the line still
open, which the next write spoils; when a death took the cache, the greatest number of the
file takes its place (`NextNumberIsFresh`). And `LossIsPaid`: the open line holds nothing that
was acknowledged, and its tear already counts for the event that may be written on it. What a
write leaves of the file is one lemma (`WrittenLine`), and nobody but an emitter or a death
writes (`OnlyEmittersWrite`). It stands in `VectorOutboxProofs`, with the other record the
service has to find again.

**Index.** `Safe` is a shared part (what the manifest lists is there, `Listed`; clean-up holds
only what no reader has, `Holds`) and one of each thread: `Leads` (who rebuilds), `Works` (what
it has of its build at each step), `Reads` (what is read was published and is not among what
the leader may delete) and `Knows` (what a search that no edit overtook has found is of the
documents as they are). That one thread leads is what makes a clean-up safe that sees the readers once.

**Graph.** `IInv` adds `Numbered` (where in the graph which scene number can be), `Clean`
(where the scene may still change, nothing later is proved), `Anchored` (a proof is about the
scene in the state or absent), `Drawn`, `Promoted` (the directory is whole when the node says
so), `Issued`, `Answered` and `Threaded`. A repair changes the scene after a validation; that
the validation is thrown away or repeated before the gate is what `Clean` needs. For what a
run leaves, `Emptied` and `Swept` follow the directory through a promotion file by file,
`Explained` the error of each node to the answer, `ThreadsReleased` the checkpoints.

**Packs and chats.** `LockMap` is the argument of the gate with one lock per pack (`Entries`,
`Owners`, `Apart`, `Alone`). `Stored` says at each step of a correction which files are of the
old and which of the new revision (`Chain`, `Settled`, `Early`, `Correcting`), what a deletion
has left (`Deleted`) and what memory has (`Remembered`). `Linked` relates two stores that are
never written together: what each handler found (`Found`), what it binds (`Creating`,
`Binding`, `Deleting`) and the rows and reservations it leaves (`Rows`, `Reserved`).

**Edits.** All an edit does to a scene is one function of the scene and its operations
(`Outcome`). Lemmas say, for any operations the validation accepts (`Judged`), what it sets
(`DoneByOutcome`), what it leaves (`OutcomeIsAsked`, `OutcomeKeepsPosition`,
`OutcomeKeepsLevels`), that the result has the types of a scene (`OutcomeIsScene`) and, when
the checks let it pass, is certified again (`OutcomeIsCertified`), and that a lowered tower
passes them (`LoweredIsValid`: its reach is not empty and lies below its top, and the reach of
a lower tower begins no higher). The invariant only has to say which step of an edit knows
what (`Planning` to `Checking`). `Certified` is what makes it inductive: that an antenna the
edit did not name stays as it is holds because the scene before was certified already.

**Evidence.** `WorkerInv` is about the drawing: a piece under import has a file and one piece
at most is upcoming, because ranks differ (`UpcomingAlone`); what is neither left to draw nor
drawn is on record as missing (`DrawnOrMissing`), which the quality checks refuse before a
certificate; a file that was not as planned when it was read still is not, or was put back
(`SourcesWatched`), which the lock sees or cannot see. `EvidenceInv` says which files a build
nobody touched has at each phase (`Present`, `FilesKnown`) and what measurements, lock and
certificate then say (`MeasuresKnown`, `LockKnown`, `CertificateKnown`), so that publication
is decided by the scene alone (`PublicationDecides`; `ContractIsMet` compares the lists of
writer and verifier schema by schema). `PublishedSound` carries the answer of publication to
every later read; what a read verifies is whole by what it checks (`VerifiedIsWhole`), whatever
was altered since. These proofs stand in `DesignPublicationProofs` too: the evidence is what
`Certifiable` stands for there.

**Briefs.** `BriefInv` says at each stage of a run what the run is made of so far: a text with
the facts of a revision of its pack, a sound reading of it, hints that are known, a plan they may
change (`Authorised`), equipment that suits it (`Near`), the scene composed of these. A reading is
sound when what the patterns found (`WellRead`) has survived the merge with whatever the model
answered (`Faithful`) and the requests have survived it too (`Surviving`); nothing being left to
confirm, the values are then those the text means, its later corrections included (`Intended`):
a text that contradicts itself always leaves something to confirm, so that no later stage has to
know. The analysis a confirmation cites is held by the process that made it and is as sound
(`HeldOK`), which is what lets the two routes to a requirement share one argument.

**Designs from models.** `CognitiveInv` is four parts. `PlanningOK`: a plan past its judgement is
a graph without cycles (`GraphOK`). `DraftingOK`: each accepted program is admitted, pinned to its
component and grounded, and the draft under way is a reply with at most three adjustments for
each attempt, so that the limit of sixteen the code puts on them is never what drops one
(`MaxRepairs` at most four). `SceneOK`: placements stand as their relations say (`Standings`) and
every object built is what the contract measured of its node (`ObjectOK`). `HistoryOK`: what was
served compiles again from the programs and the catalogue it came from, which is why a revision
reproduces it. The lemmas under it are the ones about geometry. `MeasuresUnfold` makes the
recursive measure a definition one can use: a cycle would be a set in which each node needs
another, which `Acyclic` excludes. `RaisingRaises` says that a node of a program whose roots are
raised keeps its rotation and what is measured from it does not sink, unless it overturns a
boolean (`Sinks`), and that it does not change at all where no boolean is under it (`Blends`);
with `MapMonotone`, which carries an extent through an upright frame, that is why lifting each
root by its own depth grounds the others. `Follows` carries the disclosure of every changed field
through points, profiles, ground and fit. `SewnIsClosed`,
`TubeIsClosed` and `TorusIsClosed` say of the faces the worker emits, rings of quads between
the copies of a profile and two caps, that each edge belongs to two of them, for any number of
points and steps, which is what a surface without a border is.

**Only model-checked.** Liveness, and with it everything that needs `ENABLED`
(`AcceptedWorkEnds`, `StreamCatchesUp`, `ShutdownDrains`, `ProjectionCatchesUp`,
`EveryoneReturns`, `EveryRunEnds`). What the readers of the journal get (`BrowserIsTold`),
which is about selections of sequences and needs induction over data.

## 5. What the models show about the code

Where the code disagrees with a document, a comment or itself, the models follow the code
and the properties name the exception.

**Publication and admission.**
* A rollback that dies between its commit and the copy to the root keeps the old root status
  after the restart, against `LANGGRAPH_WORKFLOW.md:130`; its copy and its event are outside
  `_run_after_canonical_commit`, so that it may be answered as failed although committed
  (`workflow.py:2066`, `LANGGRAPH_WORKFLOW.md:128`).
* `create_design` writes a status that `GET /designs` shows before it counts the workflow as
  active (`workflow.py:520`), and a refused one takes the count back before its directory goes.
  A DELETE in the first gap is followed by a generation into the deleted directory, an edit in
  either works beside it or writes it again (`PROJECT_SOURCE_OF_TRUTH.md:212`): hence the
  exceptions `early` in `OneWriter`, `DeletedStaysDeleted` and `RefusedLeavesNoOrphan`.
* `_emit_user_issue_event` is called first and unprotected in the error handler
  (`workflow.py:568`), and an error of `design_created` leaves the active count
  (`workflow.py:521`).

**Events.** A sequence number is used as an offset over readable records (`workflow.py:2098`,
`BACKEND_CAPABILITY_MATRIX.md:52`): after a lost line a page skips a readable event. An
append after a torn line is written on it and cannot be read (`event_log.py:91`).

**Models.** `ready_credentials` may count a credential that is about to be cooled down
(`transport.py:300`), and a retry after a 429 sleeps with its slot held when no other
credential is ready (`transport.py:260`, `README.md:183`).

**Outbox.** A database error in `_read_vector_projection`, in the settlement or in
`_mark_vector_projection_failed` (`memory/service.py:595`, `:639`, `:616`) leaves the operation
claimed: no retry takes it up until another write or a restart. A look for work that raises is
swallowed (`:828`), and a reindex request that ends with an error leaves what it queued to
nobody.

**Index.** A cached answer is kept under the hash of the knowledge files (`rag/service.py:298`)
while the index also covers asset manifests and the qualified catalogue (`:950`): after an edit
of these, an answer that a search overtaken by it stores after the cache was cleared is served
as long as the cache keeps it. So is one stored by a search that joined a flight begun for an
earlier revision (`:943`). A state file that cannot be read is taken for none (`:970`): what it
listed to delete is forgotten, by a publication and by a sweep.

**Packs and chats.** A pack is looked up before the workspace lock and may be gone when it is
linked (`workspace.py:202`). An import takes no lock of its pack: a correction during an
import is overwritten, a failed import removes a pack already listed, a partial deletion
leaves a directory that `list_packs` cannot read (`service.py:366`).

**Graph.** A scene whose second repair changed it ends without another validation
(`langgraph_orchestrator.py:3055`); the payloads are removed before the lock although the
comment at `blender_runner.py:950` says the opposite; a rejected revision skips the memory
write-back; checkpoint writes a death left before their checkpoint are never removed
(`checkpoint_saver.py:265`).

**Edits.** A declined ladder or platform cannot be removed later
(`langgraph_orchestrator.py:1750`); a move of a reused component is always refused
(`adaptation_capabilities.py:155`); a structure edit of a profiled lattice is always refused;
raising a tower can strand low antennas; the radio check reads the first sector only. The
checks accept one edit that moves a receiver and removes it (`_validate_patch_alignment`,
`scene_edit_agent.py:1492`; `validate_plan`, `adaptation_capabilities.py:184`): it is answered
*applied* and nothing is left of the move, hence the exception in `Holds`, on which
`AppliedMeansDone` rests.

**Geometry.** Copies of a construction-only source stay hidden; a fit about the mean
translation can lift or sink a grounded program after grounding; the contract admits, and
quality inspection refuses, programs of primitives without the detail it asks for; two
components of one role always fail; a visible boolean root and its operand are both lifted, each
by the depth it had before, so that what overturns a boolean sinks when what the boolean is made
of goes up: a root that mirrors one, one that is cut by one where it stands upside down, and a
boolean that is itself upside down. That is against the comment of `_normalize_ground_contact`
("a ground-contact output may not cross below Z=0", `geometry_program_planner.py:489`); hence
the exceptions `Sinks` and `Upturned` in `StandsOnGround`. The property is about visible roots,
as the grounding is: what hangs below a root follows it and may dip; rotations between upright
and upside down, which the model leaves out, could sink a root in more ways;
`adapt` and `compose_and_generate` decisions are never accepted by the retriever
(`qualified_asset_retriever.py:263`).

**Briefs.** A contradiction that was corrected later stays a contradiction for the confirmed
creation (`models.py:66`); an accessory declined is lost on the confirmed path; a request
nested in a nested request loses its description; a wide `beamwidth` hint passes the radio
rule (`rf_engineer.py:96`); towers of at most 24 m fail their own default install height
(`requirement_provenance.py:121`); an answer that lowers the tower below the default install
height is dropped whole; one component request the contract refuses (a quantity outside 1 to 32,
a short description) empties the whole list (`groq.py:546`), told only by a general warning; the
evidence of `tower_characteristics` keeps the default when a strict answer changes them, because
the dump it is compared with leaves out the empty list of levels the schema requires
(`groq.py:738`, `contracts/tower.py:70`).

**Evidence.** Publication refuses three kinds of sound builds, which is what
`SoundBuildsArePublished` states: those of the cognitive path, whose certificate lists
`geometry_program_mesh_coverage_complete` (`completion_certificate.py:357`) where the
verifier wants `semantic_mesh_coverage_complete` (`scene_versioning.py:112`), against
`README.md:281`; those with an exact program, whose file the lock lists
(`blender_runner.py:1288`) and `_valid_trusted_inputs` does not expect
(`scene_versioning.py:1002`); and older plans with tower access and no component proof, for
which schema 1.5.0 asks one. An exact file swapped during the import and put back before the
lock is not seen; a report altered between certification and publication is sealed as altered.
The reports of a version whose lock is of schema 1.0.0 are never compared
(`scene_versioning.py:657`): a read vouches for its files and its status alone.

## 6. Not modelled

* Power loss: a death loses the process, not what was written. The journal syncs every
  sixteenth event and the terminal ones, so that a power loss may take more.
* `_synchronous` creations, which only tests ask for; a partial `rmtree` of a workflow;
  several server processes on one outputs directory.
* Collisions of 32-bit version identifiers: `Fresh` excludes a repeated one (its mutant shows
  what one would do).
* Journals without sequence numbers and designs without `active_design.json`, of the oldest
  releases. Versions of every certificate schema *are* in `BuildEvidence`.
* The words: patterns, prompts and templates (a text is the statements found in it); numbers
  beyond one axis, tessellation, GLB parsing, rendering; what a model or an inspector answers
  is an open choice.
* Geometry programs of version 2 in edits; the login throttle and sessions of `auth.py`;
  the reducer of the browser, of which only cursors and the stream are modelled; routes,
  listings, scripts and deployment, which keep no state beyond a call.

## 7. Next

In this order:

1. `LocalSessions` (`auth.py`): the throttle is read and written in separate transactions
   (`auth.py:305`); rotation against concurrent requests.
2. The browser's reducer over `EventPolling`: switching workflows while events arrive; the
   gap of `sse.ts:125`.
3. `Checkpoints`: `put_writes` before `put`, pruning by quota, as a component below
   `DesignGraph`.
4. Proofs: what the readers of the journal promise (`BrowserIsTold`), stated without
   selections over sequences.
5. An abstract specification of `PackStore` (a pack is a revision that moves in one step)
   and of the outbox, with refinements as for the publication.
