# A verification project for diagprint

diagprint (crate `src/src`, satellites under `src/crates`) reports diagnostics:
it renders and ships them, keeps a tamper-evident history of reports, compares
reports, applies edits that remedy diagnostics, and stores what it learnt beside
the history. This directory holds TLA+ models of the parts whose correctness
depends on order, failure or concurrency, the TLC instances that check them, and
proofs, checked by TLAPS, about every part that writes files or runs beside
others: the history and its records, the sink, artifacts and capsules, fixes, the
log, scans, and the source cache of an editor.

`PROJECT.json` is the index: components, runs, the source lines each definition
models, the hazards of the code, the findings, the theorems. This file explains.

## 1. The system

### Components

| Component | Source (under `src/`) | State | Operations |
|---|---|---|---|
| Diagnostic history | `src/history.rs` | `run-NNNNNN.json` files, `head.json`, a staging file per process; each handle's list of runs | `open`, `verify`, `append_report` |
| Comparison and lineage | `src/history.rs` | none | `transition`, `lineage` |
| Delta, delta policy | `src/delta.rs`, `delta_policy.rs`, `delta_artifact.rs` | none | `between`, thresholds, `DeltaPolicy::ci`, `evaluate`, the artifact |
| Forensics | `src/forensics.rs` | none | `case_file`, `timeline` |
| Git provenance | `src/git_provenance.rs` | one file a run beside the history | `persist`, `load` |
| Relationships | `src/relationship.rs` | a graph in memory; one snapshot file a run | the builder, `verify`, `persist`, `load`, `diagprint graph` |
| Remediation evidence, replay | `src/remediation_evidence.rs`, `remediation_receipt.rs`, `remediation_replay.rs` | one file a run | `record_remediation_evidence`, `remediation_evidence`, `remediation_replay` |
| Edits | `src/remediation.rs` | the text of a file | `validate_edits`, `apply_edits` |
| Write transaction, fixes | `src/remediation.rs`, `fixplan.rs`, `fixer.rs` | files, backups, the originals in memory | `FixPlan::apply`, `Fixer::apply`, `apply_interactive`, rollback |
| Asynchronous sink | `crates/diagprint-async` | a bounded queue, a worker, the first failure | `emit`, `emit_report`, `flush`, `shutdown`, drop |
| Artifact writer | `src/artifact_writer.rs` | a staging directory, a destination | `write_verified` |
| Capsule | `src/capsule.rs` | entries in memory; a directory | `add_…`, `write_to`, `verify_directory` |
| Reporter, rotation | `src/reporter.rs`, `rotation/` | one log and its archives, a lock its clones share | emission, rotation, clean-up, compression |
| Source cache | `src/source.rs`, `captured.rs` | texts with revisions | `insert`, `remove`, `clear`, `snapshot`, `is_current` |
| Language server adapter | `crates/diagprint-lsp` | a map of document versions | ranges, code actions |
| Importers | `src/cargo.rs`, `compiler.rs`, `documentation.rs` | the summary of a stream | one line after the other, `finish` |
| Diagnostic and report | `src/diagnostic.rs`, `report.rs` | a value being built | builder calls, filter, counts |
| Identity | `src/fingerprint.rs`, `canonical.rs` | none | digests and fingerprints |
| Exports | `src/export.rs`, `redaction.rs`, `artifact.rs`, `render/`, `crates/diagprint-otel` | none | JSON, SARIF, GitHub annotations, telemetry |
| Command line | `src/bin/diagprint.rs` | none of its own | `scan`, `git-bind`, `history …`, `graph`, `replay` |
| Project scanner | `src/project_scan/` | none | discovery, analyzers |

`PROJECT.json` has a status and a note for each. Left out altogether are the
synchronous sinks, one lock around a writer each, and `src/manifest.rs`, which
`lib.rs` does not declare, so that it is not compiled.

### How they interact

- `diagprint scan` discovers the project, checks its Git worktree, analyzes,
  writes its output, checks the worktree again, opens the history, appends the
  report, binds Git provenance to the run it appended and writes a capsule.
  Evidence and relationships are added later, by other processes, to runs that
  are already there. Nothing but the file system connects these processes: there
  is no lock file. The only mutual exclusion is `create_new` of a run's file.
- Evidence is accepted only if the effect a `RemediationReceipt` states, which
  `delta.rs` computed, equals the one `history.rs` computes for the two runs.
- A fix plan is a list of edits validated against the text each file has when
  the plan is prepared, then written file by file by `atomic_write`; other
  programs and plans save the same files meanwhile. Importers make such edits
  from what a compiler says of a file they read after the compiler did.
- A language server puts what the client types into the source cache, analyzes a
  snapshot of it, and offers the edits of a captured diagnostic for the version of
  the document it last heard of.
- History, delta and lineage pair diagnostics by digest and fingerprint, so they
  are as good as those identities are.
- Tasks share an asynchronous sink by reference; they talk to its worker
  through a bounded tokio channel, and hear back through one-shot channels.

### What is hard, and what correct means

- **History.** Several processes, no lock, a sequence of file-system calls any
  of which may fail or be the last before a crash. Correct: one linear history
  whatever races; the head never counts a run that is missing or unlinked; what
  a successful append reported survives crashes and power loss; failures the
  code compensates for leave a directory that opens.
- **Comparison.** Duplicates, several severities under one fingerprint, and an
  arbitrary order of digests. Correct: the two implementations agree; a
  candidate that passes the CI preset has no growth at Error; the views of one
  diagnostic's life agree, and later runs do not rewrite them.
- **Graph.** Cycles, two ways to one diagnostic, directions that depend on the
  kind of a relationship. Correct: a query shows what is within its depth.
- **Records beside the history.** Check, then create, then write: other writers,
  crashes and power loss in between. Correct: a complete record is never
  replaced, nor removed but by the evidence writer whose own synchronisation failed, what was reported as persisted is there, no captured record outlives
  the run it describes.
- **Artifacts and capsules.** A commit by one rename, checked before it. Correct: a
  destination is absent or complete, never replaced, and an Ok is durable. Calls
  on a capsule that fail half-way leave a capsule that is still coherent.
- **Edits.** Boundaries of multi-byte characters, empty spans, spans that touch;
  positions in lines and three units. Correct: one edit after the other, all at
  once, and the client of a language server come to the same text.
- **Transaction.** A failure half-way, a rollback that fails, death, others who
  save. Correct: all or nothing up to what the error reports; a backup of
  what was read before each change, until the next plan's takes its place.
- **Log.** A rename, a clean-up, a compression and a write under one lock. Correct:
  only the oldest entries are ever lost.
- **Scan.** A project, a history and records that others change meanwhile.
  Correct: the exit status tells what the scan left behind.
- **Source cache.** Names removed and inserted again, a revision without a
  successor. Correct: a snapshot that is current is what the cache holds.
- **Identity and exports.** Fields that must, and must not, be part of each.
  Correct: one digest exactly for one meaning; what a policy withholds cannot be
  told from what is exported.
- **Asynchronous sink.** A full queue, a cancelled caller, a worker that stops
  early or panics. Correct: no gap and no silent loss, `flush` and `shutdown`
  cover what came before, every call returns.

`PROJECT.json` lists the hazards one by one at the line where each bites, with
the property that would catch it, or the reason none does.

## 2. Modules

| Module | Models | Notes |
|---|---|---|
| `RunLog` | what a history promises, without files | abstract specification |
| `History` | `history.rs`: open, verify, append, faults | implements `RunLog` |
| `HistoryProofs`, `SidecarsProofs`, `ArtifactProofs`, `DiskProofs`, `AsyncSinkProofs`, `EditorProofs`, `InvestigationProofs` | theorems | section 5 |
| `Facts` | lemmas on prefixes, on induction and recursion, on sums and folds, on what a sequence has of each value | used by the proofs |
| `ObservationCompare` | `compare_observations`, `classify_bucket`, policies, delta artifacts | two algorithms against each other |
| `Forensics` | lineage, episodes, timeline, clean windows | extends `ObservationCompare` |
| `Replay` | receipts, evidence accepted, replay, what the commands print of them | extends `Forensics` |
| `RelationshipGraph` | the builder, snapshots, the three walks of `diagprint graph` | |
| `Investigation` | `Replay` and `RelationshipGraph` | composition |
| `Sidecars` | provenance and evidence records beside a `RunLog` | composes with the abstract history |
| `EditApply` | validation and application of one file's edits | |
| `LanguageServer` | positions, label ranges, code actions | extends `EditApply` |
| `SourceCache` | the cache | |
| `Editor` | client, server loop, analysis, renderer around one cache | composes the two above |
| `CargoImport` | a build imported line by line, and fixed | extends `EditApply` |
| `Identity` | digests and fingerprints | |
| `Publication` | a diagnostic built, reported and exported | extends `Identity` |
| `Workbench` | `Editor`, `CargoImport`, `Publication` | composition |
| `FixTransaction` | plans and suggestions applied by the write transaction | |
| `ArtifactStore` | what a destination promises | abstract specification |
| `Capsule` | a capsule built in memory | |
| `ArtifactCommit` | `write_verified` and `write_to`, with faults | extends `Capsule`, implements `ArtifactStore` |
| `Reporter` | the log of clones of a reporter | |
| `ScanCommand` | `diagprint scan` and `git-bind` among others | |
| `DiskWriters` | the four above that write files | composition |
| `AsyncSink` | the asynchronous sink and its worker | |
| `MC…` | instances for TLC | one per module checked |

The compositions `Investigation`, `Workbench` and `DiskWriters` put together parts
that share no file and no memory; one part moves in a behaviour, which loses no
interleaving, and the rest is pinned to one of its initial states. `Editor`,
`Sidecars`, `ArtifactCommit` and `ScanCommand` are compositions whose parts do act
on the same state.

### Correspondence with the code

**History.** `files`, `head` and `tmp` are the directory as processes see it;
`diskFiles`, `diskHead` what a power loss would leave; `dirty` the run files
whose bytes are not synchronised. A handle's `mem` is `DiagnosticHistory::runs`,
and `pc` the next file-system call of `open` or `append_report`. Every call is
one action: create_new, write, sync_all, sync_directory, staging, rename,
remove, and each has its failure. A digest is what it commits to: the chain of
reports up to its run. So "the digests match" is equality of chains, and two
digests never collide. A handle's `verify` and `open` scan the directory and
read it in separate steps. `RunLog` is a log that grows at its end, a durable
prefix and the acknowledged logs.

**ObservationCompare, Forensics, Replay.** A diagnostic is its content; content
determines fingerprint and severity; `order` is the order of the digests, any
permutation, chosen at the start. `CompareObservations` is the history's
comparison (exact digests first, then leftovers sorted and paired); `Walk` and
`ClassifyBucket` are the delta's merge, `ArtifactCounts` and `ArtifactEvaluation`
what its artifact records. `BuildEpisodes` folds the lineage by
`Visit` as `build_episodes` does; the rows of the timeline and the clean windows are what the loops of
`forensics.rs` compute for each run. `Accepts` is the gate of
`record_remediation_evidence`, `ReplayStep` what `remediation_replay.rs` makes of
an accepted receipt and of the runs after it.

**RelationshipGraph.** Nodes are numbers in the order of their text. The builder
adds fingerprints and relationships, refuses what `DiagnosticRelationship::new` and
`validate_producer` refuse, and a graph becomes a snapshot of a run once. A walk
takes one fingerprint of its frontier a step, neighbours in that order. A query is
the set it matches; each run's graph is built once.

**Sidecars.** A file has a content (none, torn, a record), whether its bytes and
its name are durable, and the directory of its family whether *its* name is,
which only a synchronisation of the history directory makes it. A record is
bound to a run by the chain up to it. The steps of `persist` (check, load,
create_new, write, sync, sync directory) and of `persist_record` are one action
each. Provenance and relationship snapshots are persisted by the same code shape
and are one family here. The log below is `RunLog`, so the result holds for any
history that implements it, and `History` does (theorem `ImplementsRunLog`).
`RecordEvidence` verifies the history and all records in one step: the log only
grows while the process lives, so reading the records one at a time accepts
nothing more.

**EditApply, LanguageServer.** A text is a sequence of bytes in which some make up
one character. `Valid` is `validate_edits` with its order of checks, `FromTheEnd`
the stable sort by decreasing start, `ApplyEdit` one splice. `CodeAction` is the
adapter's own validation and its conversion to lines and units; `ClientApplies` is
what the protocol asks of a client.

**SourceCache, Editor.** `entries` and `revisions` are the two maps under the
cache's lock, and a call is a step. The client's notifications are a queue the
loop takes in order; `captured` is a `CapturedDiagnostic` with its snapshot;
`OfferCodeAction` asks `is_stale` first, as the adapter's documentation has its
callers do. A renderer makes two reads, and anything may happen between them.

**CargoImport.** `source` is the file, `built` what the compiler read; a line is a
compiler message, an artifact, a build script, the end, or something else. The
suggestion of a message is hydrated span by span from the file as it is then,
while others edit it: a child of the diagnostic has its `spans` and what was read
(`reads`) and made (`edits`) of the first of them, and `Unread` are the children
with more to read.

**Identity, Publication.** A diagnostic is a record of its fields. A hash is the
sequence of fields fed to it, so that what enters it, in which order, is modelled,
and its encoding is not. A path has components, an address its parts. Each export
is a record or sequence of what it carries.

**FixTransaction.** A file's content is the set of changes in it. `Apply` starts
a call, `StartSession` to `SuggestionApplied` are `apply_interactive`; `CheckPreconditions`,
`PrepareFile`, `WriteBackup`, `WriteTarget`, `Verify`, `RestoreFile`, `ReturnError` are
the steps; `Save` is another program. The loops of the transaction walk the
targets of the plan in order, and pass over those whose text does not change
(`Changed`).

**Capsule, ArtifactCommit.** An entry is what its bytes commit to. `Script(w)` says
which call of the code comes after which, and `pc[w]` names the next: create_dir_all, a staging directory, files,
synchronisations, the read-back, the check that the destination is free, the
rename, and the synchronisation of the parent. Each may fail; a file may hold
other bytes than were written; a stranger may create the destination. The
refinement maps the destination to `ArtifactStore`.

**Reporter.** `log` and `archives` are files with the entries in them, `holder` the
lock, `step` where an emission is: standard output, the checks of size and hour,
rename, clean-up, compression, opening, writing. `replaced` and `resisted` are history
variables: the archives another took the name of, and those that could not be removed.

**ScanCommand.** Each phase of `run_scan` is a step, and so is each change others
make: an edit, a commit, an appended run, a bound commit. `Place` is the order of
the phases, `Wanted` says which the arguments ask for, `done` which a scan has behind
it. `git status` and the question for HEAD are two commands, `CheckClean` and
`CaptureSnapshot`; the tree and the parents are asked of the commit found, and follow
from it. A phase may fail before it changed anything (`FailScan`), and the append, the
binding and the capsule also after (`PassedOrFailed`); the torn record of a binding
that failed half way is in Sidecars. A content names a state of the project, and its report.

**AsyncSink.** `queue` with `Free` permits and the line of waiting senders is
tokio's bounded channel, modelled from how the crate uses it. A caller's `pc` is
where its future is suspended; `Cancel` drops the future there, and `LeaveLine` takes
it out of the line for a permit. The worker's
steps are the branches of `worker_loop`, including the ones after a refused
diagnostic and after a panic.

## 3. Runs

| Run | Shows | Bounds and why they do |
|---|---|---|
| `HistorySafety` | two processes: `TypeOK`, `OneAppender`, `NoFork`, `HeadCovered`, `AckedStay`, refinement of `RunLog` | 3 runs, so that an append races on a history that is neither empty nor full; 2 faults, so that one strikes the recovery from another; the theorems drop the bounds |
| `HistoryProgress` | two threads of one process, who share the staging file's name: `RestIsOpenable`, `HistoryGrows` | only compensated failures: after a death in the middle the directory does not open, by design of its checks |
| `AsyncSinkDelivery` | `TypeOK`, `NoGap`, `LossIsReported`, `OkCovers`, `CallsReturn`, `AbandonedEnds` | two tasks and the owner, two slots, three diagnostics: one more than fits, so callers wait in line. `Reject` drops what `DropNewest` may drop and nothing else, so it is not a policy of its own |
| `Editor` | lists of edits: `Simultaneous`, `EditorAgrees`; an editor's session: `CurrentMeansSame`, `ActionsFit`; a build: `ImportsAreFaithful`; a report: `ExportsHold`, `IdentityHolds` | up to three edits of a text of a few bytes, with characters of one, two and four, a touching pair and one beside it; three versions of a document and two revisions, so that one version finds none left; two lines of a build; two builder calls or two diagnostics, every one of them under every policy, one field apart |
| `Forensics` | `DeltaAgreesWithHistory`, `CiStopsGrowth`, `DeltaLosesNothing`; `LineageBalances`, `ViewsAgree`, `ReplayAgrees`, `PastIsFinal`; `GraphAnswers` | two fingerprints, one with three severities and a duplicate, every order of digests: buckets are independent, so a second one is enough to see them mixed up. Five runs: absent, active, absent, active, absent is the longest pattern with every kind of window. Six diagnostics in graphs with cycles and two ways from one to another, depth 3 |
| `Sidecars` | `RecordsStay`, `AnsweredStay`, `CapturedHasItsRun` | two writers, a log of two runs (evidence needs two), records for the second, two faults |
| `DiskWriters` | a destination: `OkIsKept`, `CommittedVerifies`, `RefinesStore`; a capsule: `CapsuleCoherent`; fixes: `AllOrNothing`, `BackupPrecedes`; a log: `RetentionHolds`; a scan: `ScanExitTells` | two writers, three calls, two faults; two calls on a capsule, so that a second one meets what a first left half done; three files (one unchanged), two calls, a session of three suggestions that all keep backups, two of them for one file, two faults, two saves by others; two threads, four entries, four seconds, which are two hours; one scan of a project others change twice, beside two foreign runs. Two faults of a log, so that a removal and a compression may both fail |
| `StaleRender`, `EditOrder`, `FixStale`, `CiContent`, `ScanBinding` | findings, below | the smallest instance that shows each |

`CHECK_DEADLOCK FALSE` is set where the system may stop: a bounded history is
full, a call is over, a text is done.

### Findings

- **`EditOrder`** (`src/remediation.rs:368`). The sort that applies edits from the
  end is stable and compares starts only. An insertion at `k` listed before a
  replacement or deletion that starts at `k` passes validation, is applied
  first, and the replacement then removes the inserted text.
- **`FixStale`** (`src/remediation.rs:224`). The transaction writes what it
  prepared without looking at the file again; of two plans for one file, the
  later writer silently undoes the earlier. The documentation says stale edits
  are rejected and that edits are re-validated immediately before mutation.
- **`CiContent`** (`src/delta.rs:483`). Leftovers of one fingerprint are paired by
  digest. A baseline with a Warning and an Error, a candidate with only that
  Error, its help changed: if the Warning's digest sorts first, the pair is
  Warning to Error, an increase, and the CI preset rejects a candidate whose
  only Error was there before. The doc of `DeltaPolicy::ci` excludes that.
- **`StaleRender`** (`src/render/source_context.rs:84`). A renderer that reads the
  live cache compares the revision under one lock and reads the text under
  another, or from the file if the name is gone by then. The excerpt shown for a
  revision can be another one's, which the README excludes.
- **`ScanBinding`** (`src/bin/diagprint.rs:198`). The project is read before the
  worktree is first found clean, and git is asked for HEAD after that. A checkout
  before either, and a report of the old
  files is bound, as `captured_clean`, to the new commit.

What the models show and no document denies is among the hazards, or here:

- History and records: a directory that no longer opens after a death between
  creating a run file and renaming the head; a torn record that nothing removes;
  `AlreadyExists` for an identical record written at the same moment; evidence
  reported as recorded by a second writer and removed by the first, whose sync
  failed; a family's directory whose own name is not synchronised.
- Artifacts: the receipt beside an artifact is written after the read-back and is
  not read itself. `create_dir_all` makes parents whose own names are not
  synchronised, so Ok is durable only in a parent that was there before.
- Capsules: `add_sources` of an empty snapshot takes the index's name; a second
  call then adds its first sources, is refused the index, and leaves sources no
  index lists.
- Log: two rotations of one second have one archive name, and the second replaces
  the first; an error of clean-up or compression, after the rename, loses the
  entry that was being written; with a bare file name, clean-up reads the
  directory `""`, which fails; without the feature `compression`, a policy that
  asks for it fails at every rotation; clean-up counts, and may delete, any file
  whose name starts with the log's.
- Imports: the file is read after the compiler read it, so an edit in between
  that keeps what the spans cover in place is not noticed.
- Diagnostics: a second call of `cause` appends below the first and a third
  replaces the second. An error whose labels are all secondary reaches GitHub as
  notices only. Telemetry omits the messages of labels with their locations.

## 4. Fairness

Safety is checked without fairness. Two runs check liveness.

- `HistoryProgress`: weak fairness of each handle's steps (a thread that runs
  gets to its next file-system call, and the call returns), strong fairness of
  starting `open` and `append_report` (callers keep trying: every scan opens the
  history and appends to it). A caller that loses a race gets an error and must
  try again, which is why the second is strong. Deaths are excluded there.
- `AsyncSinkDelivery`: weak fairness of the worker and of polling each caller (the
  runtime polls futures that are ready; the sink's calls return). Nothing is
  assumed of callers that have not called: none must emit, flush or shut down.

## 5. Proofs

Every theorem holds for all values of the constants that satisfy the assumptions
named: any number of processes, threads, files and entries, any bounds on faults.
Each rests on an inductive invariant, given below with the reason it is needed.

### History (`HistoryProofs`)

From `HistoryAssumption`:

| Theorem | Says |
|---|---|
| `TypeCorrect` | `TypeOK` always holds |
| `AppendersExclude` | `OneAppender`: creating the run file is mutual exclusion up to the rename of the head |
| `HistoryNeverForks` | `NoFork`: every handle holds a prefix of the one history |
| `HeadIsCovered` | `HeadCovered`: the head counts only whole, linked runs |
| `AckedAreKept` | `AckedStay`: a run whose append returned Ok stays, through crash and power loss |
| `FailuresLeaveItOpenable` | `RestIsOpenable`, if the faults are those `append_report` compensates (`Faults \subseteq Compensated`: no death, no loss of power) |
| `ImplementsRunLog` | every behaviour of `History` is one of `RunLog`, with the head as the log and the synchronised head as its durable part |

None of these is inductive alone. Why does nobody else rename the head between
one append's `create_new` and its rename? Because its slot is the head's next
slot, and stays so only while the head does: that is a cycle, which the
inductive invariant `IInv` closes by stating all of it at once:

- `TypeOK`, `OneAppender`, `HeadCovered`: as checked.
- `LimboInv`: a handle past `create_new` has the head in memory, its run's slot
  is the next one, and the slot is taken. With it, a second `create_new` finds
  the slot taken, which keeps `OneAppender`.
- `NewRunInv`: how far the new run is at each step (written, its bytes durable,
  its name durable, its head staged). With it the rename keeps `HeadCovered`.
- `MemInv`: other handles hold prefixes of the head. `NoFork` follows.
- `CallInv`: what a call has checked before it goes on.
- `DurableInv`: what the head counts would survive a power loss that keeps the
  head. It carries `HeadCovered` over `LosePower`.
- `AckedInv`: acknowledged chains are prefixes of the synchronised head.

The proof has one lemma per action (`CreateRunFileStep` … `LosePowerStep`); those
of actions that leave the directory alone share `QuietStep`. `NextIInv` puts them
together, `Invariant` is the theorem the others follow from. For the refinement,
`StepsOfTheLog` shows that each step under `IInv` is a step of `RunLog` or
changes nothing of it. The facts about prefixes the steps need are lemmas about
`Append`, `SubSeq` and `IsPrefix`; `Facts` holds those that other modules share.

`FailuresLeaveItOpenable` needs one more conjunct, `TailInv`: a run file beyond the
head is the next one, and some handle is in its append. Without the hypothesis it
is false after a death, which is what the hypothesis is about and what the
first hazard of `history.rs` says.

### Records (`SidecarsProofs`)

From `SidecarsAssumption`:

- `RecordsAreKept`: no step replaces a complete record, and none removes it but that
  of an evidence writer whose own synchronisation failed, and a loss of power, which
  may take what was not synchronised (`RecordsStay`).
  The invariant (`WritersInv`) says what a writer's file holds at each of its
  steps, and that no two writers past their check are at one place; so what a
  failing writer removes is its own.
- `CapturedRunsAreKept`: a captured record outlives no run it describes
  (`CapturedHasItsRun`). The invariant adds that the log's durable part is a prefix
  of it (`LogInv`) and that the run of every captured record is a prefix of the
  durable part (`CapturedInv`), which a loss of power then leaves alone.
- `AnswersAreKept`: what a call reported as persisted is there (`AnsweredStay`).
  `AnsweredInv` adds how durable the file of each answer is; with it a loss of
  power takes only answers that were not promised past it, and `WritersInv` shows
  that no failing writer removes the file of an answer.

### Artifacts and capsules (`ArtifactProofs`)

From `CommitAssumption` and `CapsuleAssumption`:

- `TypesHold`: `TypeOK`. `OksAreKept`: `OkIsKept`. `CommitsVerify`: `CommittedVerifies`.
- `StoreIsRefined`: every behaviour of the calls is one of `ArtifactStore`: the
  destination is taken by one step, whole, and never again. The store's steps are
  shown for the rename, the intruder and the loss of power; everything else leaves
  what it sees alone.
- `CapsulesAreCoherent`: `CapsuleCoherent`, whatever is added to a capsule and in
  which order. `CoherenceParts` splits it by the entries it is about; `Inserted` says
  that what an insertion adds is a beginning of the call's items, with their
  contents. A call that stops half-way leaves the entry that names another (a plan's
  receipt, an index's sources) after the one it names, or not at all.

`OkIsKept` speaks of the end of a call, so the invariant says what each call has
achieved at each place of its script: `StageInv` which files of the staging
directory are there, synchronised and verified; `DestInv` that an occupied
destination is whole and, once its parent was synchronised, durable; `ParentInv`
how durable the parent is; `BuiltInv` that a capsule is built before it is written;
`AckedInv` what an answer implies.

### Fixes (`DiskProofs`)

From `FixTransactionAssumption` and hypotheses that the theorems state:

- `AllOrNothingHolds`: `AllOrNothing`, if plans share no file (`PlansApart`) and no
  backup is itself a target (`BackupsApart`). Suggestions may share files with each
  other: the session applies them in turn.
- `BackupsInTurn`: `BackupPrecedes`, if no backup is itself a target, in every
  behaviour in which calls that share a file run one after the other (`TakeTurns`):
  any plans and suggestions, for the same files, as often as one likes.
- `BackupsPrecede`: `BackupPrecedes` under the hypotheses of `AllOrNothingHolds`, without
  one about behaviours: where plans share no file, calls that share one are the
  suggestions of a session, and those take turns.

The hypotheses are needed. The run `FixStale` shows what two plans for one file do
to each other when both have read it before one writes; and of two that keep
backups, the second may replace the first one's backup while that is still writing.
A backup that is a target is overwritten before it is edited.

What `BackupPrecedes` promises is one step back. All suggestions of one `Fixer` share
its option to keep backups (`fixer.rs`), and backups of a file share a name, as those of
two plans applied in turn do if they have the same suffix, which is the default: the
second saves a text that holds the first one's change, in place of the one that did
not, and what the file was before the first is lost. If the second fails before it
writes, the file and its backup both have the first one's change. The property says so:
the backup lacks the change, or it lacks that of another plan that keeps backups and
has read the file with the first change in it. The instance has such a session.

The invariant `FixInv` describes a running call by what it has read (`OriginalOf`)
and written (`FilesOf`): a target is as the call found it or as the plan has it,
unless others saved it; rollback goes back over the written ones. `LeftOf` is
what the property says of a call that is over, beside a later call that may restore
what it found; `SavedInv` and `NamedOf` are about sessions. `BackupInv` stands
by itself, so that it needs no more than `TakeTurns`: what a call has read is a text
without its change (`ReadOf`), the backups it has written hold that (`SafeOf`), and the
files that have the change of a plan that keeps backups, and those a running call may
restore to one that has, are backed up (`KeptOf`).

### The log and scans (`DiskProofs`)

- `OldestAreLost`: `RetentionHolds`, if a thread is not called "nobody" and limits are
  natural numbers. `FilesInv` orders the archives: of two, one is older than the
  other throughout or they are one archive, plain and compressed, the time of each
  is that of its newest entry, and the log is newer than all. So the clean-up,
  which goes by time, takes the oldest. `Rotating` follows the archive of a rotation
  until it is compressed, so that removing it loses nothing; `LockInv` says that only
  the holder of the lock is between check and write; `CountInv` counts archives at
  each step.
- `ExitsTell`: `ScanExitTells`, if `MaxHistory` is a natural number, for any number of
  scans at once (TLC checks one). `Ordered` says that steps are done in order and
  none that is wanted is left out, `Begun` that the arguments of a scan that runs go
  together, `Left` that what each step left is still there: the run it recorded is in
  the history, the record it bound is that of this run and of the commit it
  verified, the capsule names both. `LeftStays` shows that no one else's step disturbs
  it: a history only grows (`Grows`) and a bound record stays (`Stays`).

### The asynchronous sink (`AsyncSinkProofs`)

From `AsyncSinkAssumption`: `TypesHold` (`TypeOK`), `NoGapInSink` (`NoGap`),
`LossesAreReported` (`LossIsReported`), `OksCover` (`OkCovers`).

The accepted diagnostics are numbered, and `NumbersInv` says where each is: the sink
holds 1 to some number, the worker's hands the next, the queue the rest in order.
That breaks when the worker stops, so `WorkerInv` says what it then leaves behind:
a failure on record or a panic. `ChannelInv`, `CallersInv` and `LineInv` describe the
channel: permits, the line of waiting senders and the state of each caller agree.
`ControlsInv` bounds which flush and shutdown commands are on their way;
`FlushesInv` and `ShutdownInv` carry what was accepted before a flush through the
queue to its answer; `ResultsInv` says why a caller was told what it was told.

### Editor and builds (`EditorProofs`)

From `EditApplyAssumption` (the texts are whole characters), `LanguageServerAssumption`
(the bytes that end lines are one byte wide and two) and `EditorAssumption`, and, of
builds, `CargoImportAssumption` (the source and what replaces a span are whole
characters, and a workspace has finitely many packages):

| Theorem | Says |
|---|---|
| `EditsAreSimultaneous` | `Simultaneous`, for any text and any list of edits |
| `EditorsAgree` | `EditorAgrees`, for texts in which every return is followed by a newline |
| `SnapshotsAreTrue` | `CurrentMeansSame`: a snapshot that is current has the text of the cache |
| `OfferedActionsFit` | `ActionsFit`, for typed texts that do not start with a return |
| `BuildsAreImported` | `ImportsAreFaithful`, for any build and any edits by others |

- **`EditsAreSimultaneous`.** `EditInv` says that, of a list that validation let
  through, the edits applied so far are the first of the sorted list and the text
  is what these do all at once (`Applied`). A list is sorted by any sort in the same
  way (`PlacesFacts`: each place of an order is taken once), so validated neighbours
  that do not clash mean that no two edits do (`ValidIsApart`). The next edit then
  lies in front of all that was applied, in the part of the text that is as it was:
  its range is valid again, and splicing it in adds it to the others (`NextEdit`,
  from `AppliedLast`, an induction over the pieces of the text). Cutting and joining at
  boundaries leaves whole characters (`FrontIsWhole`, `JoinIsWhole`).
- **`EditorsAgree`.** `PositionsReturn`: the position of a boundary in a line is that
  of no other, since the units of any encoding grow with every character
  (`UnitsGrow`), so the client finds the offset the adapter meant, and
  `ClientFacts` that it does with the edits what `AllAtOnce` does. `OfferedIsValid`:
  the adapter's rule, that no two edits start together, is stricter than that of
  `validate_edits`. `LabelsFacts` counts the characters between two ends of a label.
  The hypothesis is needed: the adapter splits lines at newlines only, a client
  also at a return alone.
- **`SnapshotsAreTrue`.** The invariant adds that an entry's revision is at most the last
  one its name was given (`EntriesInv`) and that a snapshot whose revision is today's has
  today's text (`SnapshotInv`). An insertion gives a revision above all of them
  (`InsertStep`), a removal leaves one that no snapshot with a source has
  (`RemoveStep`); nothing else touches either.
- **`OfferedActionsFit`.** What was said of a version is true of it as long as the client
  shows it (`Told`): the client never gives a number twice. `ToldInv` carries this
  through the notifications and the document map, `SnapshotInv` from the cache to what was
  captured, and `OfferInv` to the offer. The hypothesis keeps the one edit of the
  model from ending between `\r` and `\n`, which no position names.
- **`BuildsAreImported`.** The invariant says of every child of a diagnostic that its
  edits are what hydration makes of its first spans and of the text read for each
  (`IsChild`). A suggestion that `Fixer::apply` takes was hydrated whole and has no
  insertion, so it has one `Replace` for each span, of the text that was read
  (`AutomaticFacts`); `Valid` found them fresh, and so the source still has those
  texts (`FixFacts`). What `apply_edits` makes of a valid list without insertions is
  what it does all at once (`AppliedAll`, an induction with the lemmas of
  `EditsAreSimultaneous`). If the compiler's text was read each time, these edits are
  the ones the compiler meant.

### Two reports, a lineage, a graph (`InvestigationProofs`)

What these components answer is computed by folds and recursive functions over data
of any size, so the proofs are inductions over data. Induction is done over sets:
`NatInduct` and `SubsetInduct` of `Facts` say that a set of numbers (of subsets of a
finite set) closed under the step is everything; the instance is a set
`{n \in Nat : ...}`, never an operator. `NatRecursion` and `SetRecursion` build the
function a recursion defines, and show that the definition, a choice of such a
function, is it. On these rest `SumFacts` and its companions (sums over finite
sets), and `AmongFacts` and its companions (how often a sequence has a value).

From `ObservationAssumption` (`RecordsHold`: what was recorded is reports, the order of
digests is one order):

- `DeltaAgrees` (`DeltaAgreesWithHistory`), `DeltaKeepsAll` (`DeltaLosesNothing`),
  `CiStops` (`CiStopsGrowth`), for reports of any size. `WalkFacts` is the merge of two
  sorted lists: it keeps the lesser number of each digest and gives the rest to its
  sides, in order, proved by induction on the two places from the ends of the lists.
  `ListIsOne` says that the order and the numbers decide a list, so `WalkLists`
  concludes that merge and marks leave the same lists, and the pairs, made in the
  order of the lists, are the same. `BucketDigests` says how often one bucket has each
  content, `BetweenFacts` carries it through the fold over the fingerprints, and
  `TalliesAgree` does the same with what the history counts.
- `BooksHold` (`LineageBalances`): for each step what came less what went is the change
  in instances (`CompareBalance`), so the running balance is the instances of the run.
- `PastHolds` (`PastIsFinal`), an action property. `Visited` is what the pass of
  `build_episodes` knows after each run: the episodes that are over and the open one
  are the maximal stretches of active runs so far. It survives each visit
  (`VisitKeeps`), so the episodes of a lineage are its `Stretches`; a run more
  leaves the steps and the rows there were (`LineageGrows`, `TimelineStays`) and
  the episodes that are over, and at most moves the end of the last
  (`EpisodesStay`).
- `ViewsHold` (`ViewsAgree`): `ComesFacts` counts the episodes off against the runs
  in which the diagnostic comes, `EndsFacts` against those in which it goes,
  `WindowsFacts` the windows between episodes against the reappearances, and
  `FlagsFacts` gives the flags of `reappeared_after_absence`, folded over the same
  lineage, their meaning.
- `ReplayHolds` (`ReplayAgrees`): `RowFacts` says what each event and each marker of a
  row tells of its run and the one before, `LaterFacts` that the first later run
  that has a resolved diagnostic is the next one marked as a return,
  `UnchangedFacts` that equal lists leave nothing changed, and `AcceptsFacts` for which
  runs a receipt is accepted.
- `InvestigationRecords`: with the questions of the commands a behaviour is still one of
  recording, so that the theorems hold of `InvestigationSpec`.

From `GraphAssumption`: `GraphAnswersHolds` and `InvestigationAnswers` (`GraphAnswers`),
for any graph, query and depth. `Within` is shown to be what its recursion says, to
grow with the depth, and to be a shortest way; the invariant of a walk says that
the answer and the frontier are what lies within the levels done and, of the level
under way, beyond the part of the frontier already taken.

### Only model-checked

- Liveness (`HistoryGrows`, `CallsReturn`, `AbandonedEnds`): the prover does not reason
  about fairness or `ENABLED`.
- `ExportsHold`, `IdentityHolds`: functions of one diagnostic, with a case for each
  exporter and each field; TLC goes through the cases.

No module declares a `RECURSIVE` operator.

## 6. Plan

Done: 1 `RunLog`, `History` and its proofs; 2 `AsyncSink`; 3 `EditApply`,
`FixTransaction` with sessions; 4 `ObservationCompare`, `Forensics`, `Replay`,
`RelationshipGraph`; 5 `Sidecars`; 6 `Capsule`, `ArtifactCommit`; 7 `Reporter`;
8 `SourceCache`, `LanguageServer`, `Editor`; 9 `CargoImport`; 10 `ScanCommand`;
11 `Identity`, `Publication`; 12 the proofs of section 5, which cover every part whose
steps interleave or fail; 13 `BuildsAreImported`.

To come, most important first:

14. The receipts of renderings (`src/render/rendered_artifact.rs`,
    `src/render/audit_transcript.rs`) and what HTML, Markdown and
    terminal renderers show of a diagnostic, beside `Publication`'s exports.
15. The commands that read: `capsule`, `why`, `blame`.

Bounds: three or four steps beyond the point where the interesting case first
happens, and a run within two or three minutes; new components share runs with
the ones they can be composed with.

## 7. Not modelled, and why

- **Layout.** Text, HTML, Markdown and terminal output, DOT and JSON text, wording:
  functions of one value, without behaviour over time. Byte encodings under a
  hash are abstracted to the sequence of fields; digests do not collide.
- **Analyzers and tools** of the project scanner: what they find is the content of
  a project. **Macros, bridges** to other libraries, synchronous **sinks**: glue.
- **Corruption and tampering.** Parsing and JSON are abstracted to "whole" or
  "torn"; the histories checked are those that diagprint's own steps, failures
  and losses of power produce.
- **Transactions.** Two paths that name one file, and a backup that is itself a
  target. A session whose input has ended asks again for ever, and one that fails loses the report of
  what it had applied; neither is part of `AllOrNothing`.
- **Editor.** One document; only the server loop writes under its name; positions
  between the two bytes of `\r\n`; the server asks `is_stale` before it offers.
- **Log.** An entry has size one; reporters on one path that are not clones share
  no lock and are left out, and so is a poisoned lock.
- **Scan.** The file `--output` names lies outside the worktree or is ignored by Git.
- **Imports.** Labels, notes and dependencies are copied. Applying a fix is one step
  there; `FixTransaction` has the steps.
- **Publication.** Windows paths, explanation and language hints, timestamps, ids,
  and the refusal to digest edit paths that are not UTF-8.
- **Graph.** Names of producers are valid or not; each run's graph is built once.
