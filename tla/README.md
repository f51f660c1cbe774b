# Specifications of spec-format

The repository holds the library, the authoring session and the command line
of the agent-fox specification format.  The Go code under `src/golang` is the
implementation; `src/packages` is an earlier Python one with the same parts.
This directory models the Go code in TLA+, checks the models with TLC on small
instances and proves the main theorems with TLAPS for all of them.

## 1. The system

| Component | State it keeps | Operations | What makes it correct |
|---|---|---|---|
| Package store (`afspec.go`, `lifecycle.go`, `intent.go`) | a directory of four or five files, `Spec` values in memory, temporary files | LoadSpec, Save, Transition, Supersede, MoveToArchive | files belong together after every operation, failure and crash; the lifecycle is a one-way street; the approved intent does not change |
| Coverage (`coverage.go`) | the coverage section of test_spec.json | ComputeCoverageStruct, ComputeCoverage | the section is the one computed from its neighbours |
| Subtask states (`subtask.go`) | the state of each subtask | TransitionSubtask, CompleteSubtaskStates, ResetSubtaskStates | only the transitions of the table |
| Mutation, numbering (`mutate.go`, `nextid.go`, `bootstrap.go`) | requirement, test and task values | Add*, Remove*, Next*ID, Finalize | ids are unique, an id is not reused, inputs are not changed |
| Dependency graph (`graph.go`) | edges between specs | BuildDependencyGraph, TopologicalSort | an order exactly when there is no cycle |
| Discovery, lint (`discover.go`, `lint.go`) | none | DiscoverSpecs, LoadSpecLandscape, RunLintSpecs | every spec once, the archive only on request |
| Validation (`validate.go`, `ears.go`) | none | ValidateSchema, ValidateCrossFile, ValidateCrossSpec | every dangling reference is reported, nothing else is |
| Authoring session (`agentspec/session.go`) | `_session.json`, the PRD, three artifact files | Create, Resume, Assess, Refine, AcceptPRD, Generate | the state on disk tells which artifacts there are; no accepted work is lost |
| Generation agent (`agentspec/agent.go`) | results of two concurrent calls | GenerateArtifacts with repairs and callbacks | all three artifacts or none are handed over |
| AI call (`agentspec/ai_call.go`) | attempt count, backoff, cache flags | AICall | bounded attempts, no attempt after cancellation |
| Campaign (`agentspec/campaign.go`, `cmd/spec/new.go`) | numbered directories | CreateCampaign, NewSpec, `spec new` | one spec per number; a finished spec is nobody else's |
| Commands (`cmd/spec`) | their own copy of `_session.json` | refine, generate, status, activate, seal, supersede, archive | what the library persisted survives the command |
| Signals, spinner (`cmd/spec/signal.go`, `spinner.go`) | a context, a goroutine | first and second signal, Start, Stop, Update | a signal ends what is under way, with nothing half done handed over |
| Rendering (`render*.go`) | none | Render*, token budget | what a task is about is shown at every level |

The commands call the library in process; the session calls the agent, which
calls the model provider through AICall; session, commands and library share
nothing but files: `prd.md`, the three JSON artifacts, `architecture.md` and
`_session.json`.  There is no lock anywhere: `doc.go` leaves synchronisation to
the callers, and two commands are two processes.

What is hard here is therefore (a) a value read from a file, used, and written
back after somebody else wrote it; (b) an operation of several file system
calls that stops in the middle; (c) API calls that are legal one by one and
wrong in sequence; (d) the concurrent calls of one generation, its retries and
its cancellation.  `PROJECT.json` lists each place under `hazards`, with the
property that covers it, or the reason why none does.

## 2. Modules

| Module | Models | Uses |
|---|---|---|
| SpecLifecycle | what a spec directory promises: drafts are edited, activated, sealed, superseded, archived | |
| SpecStore | the package store that implements it, file system call by file system call | SpecLifecycle (refinement) |
| SpecSession | the authoring session, its commands and its callers | |
| SpecValidation | `Spec.Validate`, one operator per rule | |
| SpecRendering | what is shown to an agent that works on a task group | SpecValidation |
| SpecEditing | the library calls that make up a specification in memory | SpecRendering, SpecValidation |
| SpecGraph | dependency graph, cross-specification rules, interface summaries | |
| ArtifactGeneration | GenerateArtifacts with AICall and the signal handler | |
| SpecNumbering | `spec new` and `Campaign.NewSpec` against each other and the archive | |
| SpecStoreProofs, SpecStoreRefines, SpecSessionProofs, SpecEditingProofs, SpecGraphProofs, ArtifactGenerationProofs, SpecNumberingProofs | theorems about the module of the name | |
| SequenceFacts | lemmas on sequences, their ranges and largest naturals for SpecGraphProofs and SpecEditingProofs | |
| MC* | instances for TLC | |

The composition is by what one component leaves to the next.  ArtifactGeneration
opens up the two steps `Answer` and `AnswerRest` of SpecSession: `NoPartialResult` is what
SpecSession takes for granted, that the requirements are handed over before
the others and the others both or not at all, except for a callback that
panics.  SpecNumbering opens up the initial states of SpecSession (`Origins`).
SpecGraph and SpecEditing read what SpecStore writes.

A `\* Variant:` definition is a plausible mistake in the definition that follows it;
it is used by no specification, and a property that does not notice it when it
is put in place is not worth its run.  `PROJECT.json` names the variant of each
property.

## 3. SpecStore

### State

| Variable | In the code |
|---|---|
| `files` | the complete files of the directory, a record with one field per file |
| `place`, `destTaken` | whether the directory is under the root or under `archive/`, and whether `archive/` has one of that name |
| `temps` | `<name>.tmp.<random>` files, with the process that made them |
| `pc`, `op`, `at`, `buf` | per caller: where it is in LoadSpec, saveToDisk or MoveToArchive, on whose behalf, at which file, and the value it is reading or writing |
| `mem`, `loaded`, `dirty` | per caller: its `*Spec`, the `immutableSnapshot` in it, and whether it has edits no save has written |
| `lock` | the callers' own lock |
| `torn`, `crashed`, `edits`, `faults` | history: a save was cut short, who was killed, and the two bounded counters |

A `prd.md` is its status, its identity fields, its Intent section (`Nil`: no
such section), the stored hash and the presence of the banner.  A
`requirements.json` is a set of criterion ids, a `test_spec.json` the set its
tests name with the computed coverage section; `tasks.json` and
`architecture.md` are opaque values.  The hash is injective and differs from
its text.

### Actions

LoadSpec is `BeginLoad`, one `ReadFile` per file and `LoadReturn` or
`LoadFails`.  saveToDisk is one `WriteTemp` per file, one `RenameTemp` per file,
and a return or `SaveFails` with the deferred clean-up; Save, Transition,
Supersede and MoveToArchive enter it by `BeginSave`, `BeginTransition`,
`BeginSupersede` and `ArchiveLoaded` with the guards of each and the value each
writes.  MoveToArchive goes on with `CheckDest` and `MoveDir`.  `Crash` kills a
caller between any two calls.  `EditPrd` and `EditArtifacts` are assignments to
the fields of the value, which Go cannot prevent.

### Callers

The API can be used badly and its documentation says how to use it well, so the
model has a parameter for it.  `Habits` is a subset of

| Habit | What the caller does |
|---|---|
| `unlocked` | loads, saves and moves without mutual exclusion |
| `keep_receiver` | goes on with the value Transition was called on |
| `use_after_error` | goes on with its handle after a save failed |
| `transition_dirty` | calls Transition or Supersede with unsaved edits |
| `edit_status` | assigns the Status field |
| `raw_transition` | passes `superseded` or `archived` to Transition |

With `Habits = {}` everything the library promises can be expected of it; each
habit shows where a promise rests on the caller.  The commands activate, seal,
supersede and archive have no habit but `unlocked`.

### Properties

* `TypeOK`; `HandleMatchesDisk`: a handle without unsaved edits shows the disk,
  also after somebody was killed half-way through a save.
* `IntentProtected`, `BannerMarksSuperseded`: the hash, the Intent section, the
  status and the banner of `prd.md` fit together.
* `CoverageFresh`: the coverage section belongs to its neighbours, unless a save
  was cut short and none has completed since.
* `TempsAccountedFor`: temporary files belong to a save under way or a killed process.
* `FrozenStaysFrozen`: no step changes a sealed, superseded or archived spec but in
  status and banner.
* `ImplementsLifecycle`: every file system call is a step of SpecLifecycle or a
  stutter; in particular the middle of a save is never visible as something
  the lifecycle does not know.
* `ArchiveCompletes`: a spec recorded as archived is moved in the end.

## 4. SpecSession

### State

| Variable | In the code |
|---|---|
| `session` | `_session.json`: state, whether `prd_path` is set, length of the assessment history, the `assessment_index` of each exchange, the listed artifacts, whether `last_error` is set; `Torn` between truncation and contents, `Nil` if there is none |
| `prd` | `prd.md`: which text, or `Torn` |
| `art` | the three artifact files: `Nil`, `Torn`, the `Scaffold` of `spec new`, or the generation and the PRD text they come from |
| `pc`, `cmd` | per process: where it is in which command or call |
| `map` | the `map[string]any` a command loads for itself |
| `own` | the library's `*SpecSession` in that process |
| `work`, `open`, `result` | locals of the call, the file open for writing, how the call went |
| `runs`, `stamp`, `faults` | bound on the calls, number of the next text or generation, bound on crashes and errors |

### Actions

`Start` is a command up to its first effect (load the session, `--force`,
auto-accept) or a program calling the library.  `DeleteArtifact` is one
os.Remove of `--force`; `TruncateSession` and `FillSession` are the two halves of
the commands' saveSession and of persistError's last resort.  The library's
methods are `Call` (resume, set the state), `ReadPrd`, `Survey`, `Answer` or
`Refuse`, then `TruncatePrd` and `FillPrd`, or `TruncateArtifact` and `FillArtifact`
for each artifact with `AnswerRest` between the requirements and the others,
and `Persist`.  `PersistError`, `ArtifactFails`, `PrdFails`, `PersistFails` and
`CallFails` are the error paths, `Cleanup` is one os.Remove of
cleanupPartialArtifacts.  `Cancel` and `Crash` can come between any two steps of the
code that looks at the context, or at all.

A rename takes a file away from a process that has it open, and so does a
removal: that process fills a file nobody sees (`open` is then `gone`).  When
two processes write one file in place, either text or a mixture may remain.

### Users

| Habit | What the user does |
|---|---|
| `concurrent` | runs several commands and calls at once |
| `rerun` | generates without `--force` where there are artifacts |
| `answer_unasked` | gives answers when there is no assessment |
| `keep_handle` | a program keeps its `*SpecSession` between calls |
| `recreate` | calls CreateSession where there is a session |

`Origins` tells who made the directory: CreateSession, or `spec new`, whose
session has no `prd_path`.  `Callers` tells who works in it.

### Properties

* `TypeOK`.
* `QaInOrder`: the exchanges of the session on disk answer different assessments
  in their order, and none answers the last one.
* `QaAnswersKnown`: each answers an assessment there is.
* `SameGeneration`: artifacts that are there together were generated together.
* `GeneratedIsComplete`: `generated` is written only over a complete set of
  artifacts of one generation, made from the PRD that is on disk.

The last three need the discipline: with `answer_unasked` the second fails, with
`rerun` the third and the fourth.

## 5. SpecValidation, SpecRendering, SpecEditing

One specification in memory, as the library's callers and the agents build it.

### State

`spec` is a record described at the head of SpecValidation: identities, glossary,
requirements with criteria, the seven flat collections (`props`, `paths`, `errs`,
`cases`, `ptests`, `etests`, `smokes`), task groups with subtasks, traceability.  An id such
as `05-REQ-2.E3` is the tuple `<<"05", "EC", 2, 3>>`, so that the format checks are checks of
its kind and length, and extractMaxSuffix takes its last number.  `edits` is the
number of edits left and `habits` says how careful the caller is.

### Validation

`Errors(spec)` is the set of `<<check, subject>>` pairs that Validate would report, the
union of one operator per rule, in the code's order.  Of the JSON Schema
evaluation there is what an edit can break: empty collections that may not be
empty, and the conditions on fields that the EARS pattern of a criterion
requires or excludes.  Warnings do not influence `Valid`.  The JSON form of the
checks on an agent's output (validateArtifactContent) is in ArtifactGeneration as
an answer that is accepted or rejected.

### Rendering

`RenderIndividualScoped` gives the requirements, tests and groups that the code
writes out in full.  The references of a group come from its subtasks, else from
the traceability, else from the ids the subtasks' text mentions.  The token
budget decides how far the text is cut, and since that depends on lengths,
every level is considered for every group.

### Actions

One action per library call: `AddRequirement`, `RemoveRequirement`, `AddCriterion`,
`AddEdgeCase`, `AddToRequirements` and `AddToTests` (seven Add functions of one form),
`SetGlossaryEntry`, `RemoveGlossaryEntry`, `AddTaskGroup`, `AddSubtask`,
`AddTraceabilityEntry`, `TransitionSome` (TransitionSubtask, with the first subtask of
the id), `CompleteSubtaskStates`, `ResetSubtaskStates`, `SetArtifact` and `SetPRD` of a
BootstrapSpec.  The functions return a changed deep copy, which the caller keeps.
Five starting points: the scaffold of CreateSpec, a small specification that
validates, an empty bootstrap, and two written by somebody else, which validate as well:
one with subtask 1.1 twice (`repeats`), one with two groups 1 (`twins`).

| Habit | What the caller does |
|---|---|
| `own_ids` | passes ids of its own instead of asking Next*ID |
| `loose_refs` | refers to entries that are not there |
| `remove_last` | removes the requirement with the largest number |

### Properties

* `IdsDenoteOneEntry`: each Next function looks at one list, and still no two entries
  of the whole specification share an id.
* `NewIdsAreNew`: a new entry takes no id that is still referred to.  Without the
  habit `remove_last` only: the largest number plus one is the number of the entry
  removed before.
* `EditsBreakLocally`: the errors an edit causes are about what it added or took away,
  about an entry that refers to what it took away (a dangling reference is an error of the
  entry that refers), or about the last group, or a glossary term.
* `SubtaskIdsStayApart`: no rule compares the ids of subtasks or the numbers of groups, so
  a `tasks.json` that holds 1.1 twice, or two groups 1, validates, and
  TransitionSubtask and the rendering see only the first.  What holds is that the library's
  edits do not add to it: while group numbers differ, what an edit leaves valid has every
  subtask id in one place, or in the places it was in.  AddSubtask looks at one
  group only; that the ids of two groups differ is the format rule, which ties an id to its group.
* `ValidPlansRunASmokeTest`: it takes three rules together.
* `FinalizeAgreesWithValidate`: the checks of Finalize and those of Validate accept the
  same specifications but for the PRD body.
* `WorkIsShown`: whatever is inferred and cut, an agent sees every requirement and
  test its task refers to; of two groups with one number, the agent on the first.

## 6. SpecGraph

### State

`disk` holds per directory the few things of its files that are looked at, `written` the
directories the author has written to since the program began; `pc`, `todo`,
`metas`, `unparsed`, `loaded`, `edges`, `errs` are the progress and the locals of one of three uses:
`sort` (BuildDependencyGraph and TopologicalSort), `cross` (`spec validate --cross`) and
`interfaces` (LoadDependentInterfaces).  `order`, `degree`, `queue` are the locals of the sort.

### Actions

`LoadNext` and `LoadDone` are the loop of `validate --cross`.  The other two uses begin with
DiscoverSpecs: `DiscoverNext` is one `prd.md`, parsed or added to the error (`unparsed`), and
`DiscoverDone` hands over.  LoadDependentInterfaces does not go on with an error of
DiscoverSpecs, which is `GiveUp`; the sort does, with the specs there are.  `ReadNext` is one file of
BuildDependencyGraph, `StartSort`, `TakeNode` and `FinishSort` are Kahn's algorithm with one
step per node, `CheckCross` is ValidateCrossSpec with its five rules (none of them for a
single spec) and the duplicate-id check of the command, `StartSummaries`, `Summarize` (one LoadSpec) and
`FinishSummaries` the rest of LoadDependentInterfaces.  `Write` is an author who saves other dependencies, a
`prd.md` that parses or does not, or a broken `tasks.json` or `requirements.json`, between any two of them.

The in-degree counts every edge, so a dependency declared twice is counted and
subtracted twice.  Two directories can have the same spec id; the lookups keep
the last.

### Properties

* `DependenciesFirst`, `CyclesAreReported`, `OrderIsLeast`: the order is a topological one,
  there is none exactly when there is a cycle and the nodes in it are named, and
  among the possible orders it is the least: it depends neither on the order of
  the files nor on that of a Go map.
* `GraphErrorsAreReported`: the command throws the error of BuildDependencyGraph away, and rule 3
  looks for unknown dependencies in the copies loaded before.  For every spec that nobody
  wrote to the two are equal when two specs or more were loaded, also while others are being written;
  and a file is unreadable only after a write.  With a single loaded spec rule 3 does not run, and
  the error is lost: the property says that too, and section 10 against which test.
* `UpstreamsAreSummarized`: which errors cost what.  An upstream spec that is declared,
  loads and is not written to is summarized, whatever else is broken, unknown or
  being written, provided that discovery succeeded; and a `prd.md` that cannot be parsed, of any
  spec under the root, costs every summary.

No liveness is stated: the program is sequential, its loops are finite and nothing in it waits.

## 7. ArtifactGeneration

### State

`main` is where GenerateArtifacts is and `at` where each of its three calls of
generateOne is: before the prompt, in AICall before, during or after an attempt, in
a repair, valid or failed.  `attempt` and `repairs` are the loop counters.  `err` is the error the
errgroup keeps, `results` what it collects, `delivered` what OnArtifact has been given,
`outcome` what is returned.  `cancelled` is the context, `handler`, `pending` and `exited` are
signalCtx, its channel and the process.  `late` counts the requests sent after the context
was over; no guard reads it.

### Actions

`Check` is each place that looks at the context, `Send` the request after the sleep.
An answer is `Accepted`, `Rejected` (validated and sent back for a repair), `Refused` (no text
block, a stop reason, no repair left, an error for good), `Transient` (the next attempt, or
the last error), `Uncache` (the fallback without cache_control) or `Aborted` by the
context.  `StartFirst`, `FirstEnds`, `StartSecond`, `Wait`, `Deliver` and `Finish` are
GenerateArtifacts; `safeCallback` turns a panic into an error.  `Interrupt` is the user;
`CancelOnSignal`, `ExitOnSignal` and `StopListening` are the goroutine, which after the first
signal finds both the second signal and the end of the context ready.

### Properties

* `NoPartialResult`: OnArtifact has the requirements first, and one of the other two only
  when both are valid; success means all three.
* `NoStragglers`: no goroutine outlives the call.
* `ErrorIsTheCause`: the cancellation of the sibling is never what the caller is told.
* `CancelStopsCalls`: not zero, because the context is not looked at after the sleep and
  in the cache fallback, but at most two requests of each artifact.
* `Terminates`: every generation ends.  The fairness is weak, on GenerateArtifacts, on each
  generateOne and on the signal goroutine, which is what the Go scheduler gives;
  that a generateOne in `wire` goes on means that every request is answered, by the
  service or by the time limit of its client.

## 8. SpecNumbering

### State

`active` and `archive` map directories, pairs of a number and a name, to what is in
them: whose `prd.md`, and whether there is a session.  `campaign` is `campaign.yaml`: absent,
with or without `created_at`.  Per process: `pc`, `kind` (`spec new` or the library's NewSpec),
the `name` asked for, the `largest` number its scans found, its `dir`.

### Actions

`Begin` opens or creates the campaign, `ScanActive` and `ScanArchive` are the two directory
listings (the second by the library only), `Mkdir` is os.Mkdir or os.MkdirAll,
`WritePRD` and `WriteSession` what is written, `Broken` a failure in between, after which
`spec new` removes the directory of its name and the library leaves it.  `MoveToArchive` is
somebody archiving a spec at any time.

A `Setting` says who creates, whether specs are archived and whether processes start one at
a time; there is no lock, and the properties say what holds in which setting.

### Properties

* `NumbersStayUsed`: one number, one spec, archived ones included, for one creator at a time
  and, with an archive, for the library.  A spec archived between the two scans is
  seen by one of them since active directories are scanned first.  Names that
  IsSpecDirName rejects are excepted, because the library's scan does not see them.
* `FinishedIsKept`: a created spec stays what it is, for one creator at a time, and
  for any number of `spec new` at once: os.Mkdir is the arbitration, and neither a
  late comer nor a rollback takes a directory that belongs to another.

## 9. Runs and bounds

| Run | Instance | What it shows |
|---|---|---|
| store | 2 callers, `Habits = {}`, 2 identities, 2 intents, 1 criterion, 2 edits, 1 fault; 1.15 million states | the safety properties and the refinement |
| store_races | 2 callers, `unlocked`, `keep_receiver`, `use_after_error`, 2 intents, 1 edit; 1.07 million states | what `prd.md` keeps with no lock at all |
| store_retry | 2 callers, no edits, 2 faults, fair | `ArchiveCompletes` |
| session | 2 processes, commands and programs, both origins, `Habits = {}`, 4 calls, 2 faults; 2.3 million states | the safety of a directory used by one at a time |
| session_races | 2 processes, `concurrent`, `keep_handle`, 3 calls; 3.2 million states | `QaInOrder` while copies overwrite each other |
| editing | 6 starts with their habits, 2 or 3 edits, 3 shapes of criteria, at most 2 items in a list; 97 thousand states | the rules, the numbering, Finalize and the rendering together |
| graph | 3 directories, every list of at most 2 dependencies, then contents, duplicate ids, broken files, a missing spec, no spec, any writes to 1 directory; 2.0 million states | the sort, the cross rules, the summaries |
| generation | 2 attempts, 1 repair, 2 signals; 544 thousand states | one generation, in every order |
| numbering | 3 processes, 3 names of which one is loose, 4 settings; 323 thousand states | numbers and directories |

Two callers are enough for one to act between any two calls of the other; a
third has no variable of its own to interfere through.  One edit is needed for a
changed intent or identity, a second one for a change of another artifact in
the same or a later save.  One fault cuts one operation at any of its calls, and
the theorems lift the safety properties to any number of callers,
edits and faults.  `store_races` has no faults: with one it has nine million
states and takes five minutes; a save fails there when the directory has been
moved away, and the theorems cover the rest.  Symmetry in the callers is
used for safety only.

Fairness in `store_retry` (`FairSpec`) is: a process that has called an operation
continues; whoever asked for an archival asks again (strongly fair, since the lock
comes and goes), and the operator clears a directory in the way.  Without the
repetition nothing in the code completes an interrupted archival.

In `session` four calls are enough for assess, refine, generate and one more that
finds what they left; two faults cut a call and then the call that was to
repair it.  `session_races` needs three calls: two that hold copies and one
that made the session they copied.  Neither has fairness.

In `editing` two items in a list are enough for a duplicate, a gap and a next number;
three edits for an entry, a reference to it and a removal.  In `graph` three nodes
give every kind of cycle with something in front of it and behind it, and two
equal dependencies the double count; the other contents have one dependency each.  `MaxWritten`
bounds the directories the author writes to, not how often; one is enough for what was read first
to differ from what is read later, and the properties speak of the others.
In `generation` two attempts and one repair have a first, a last and nothing between;
the code has four and a configured number, and the theorems hold for all.  In
`numbering` three processes let two race for what the third left.

The deadlock check is off everywhere because every system here stops: an archived
directory accepts no operation, the calls and edits are bounded, and a generation, a
sort and a creation end.

## 10. Where the documents promise more

Each of these runs checks one property and TLC finds the counterexample:

| Run | Document | Code |
|---|---|---|
| session_state | `cli.md:434`: generate ends in `generated` | the command puts back the state it read (`generate.go:91`) |
| cross_actors | `spec-format.md:474`: a spec "must name actors from each upstream spec it depends on" | `validate.go:2288` takes the dependent for the upstream and looks for its actors in the spec it depends on |
| archive_reuse | `prds/prd1.md:51`: "spec new now also check the archive to avoid prefix reuse" | `nextSpecPrefix` reads the active directories only (`new.go:228`); the library's NewSpec reads both |

The models contain more of that kind, without a run of their own.  In SpecStore:

* `spec-format.md:144`, "On every subsequent mutation, the library recomputes the hash and
  rejects the change if it differs": Transition has no drift check (`lifecycle.go:114`), so with
  the habit `transition_dirty` it writes a changed intent, and edits without computing the
  coverage (`:694`).
* `spec-format.md:232`, `architecture.md` may be "deleted at any point": an empty one is left
  out of the files to save and the old one stays (`afspec.go:319`).
* Save writes coverage with gaps (`spec-format.md:712`) and takes whatever status the value
  has (`:935`).  The receiver of the Transition that sealed a spec still says active and can
  be saved over it (`:941`); Transition to superseded adds no banner (`:942`).
* MoveToArchive finds a directory in its way after it recorded the status (`:943`); asking
  again, `ArchiveCompletes`, is the remedy.  Save is atomic for each file
  (`afspec.go:185`), not for the package.

In SpecSession:

* `cli.md:424`, "runs `spec refine <spec>` to get AI assessment": the session of `spec new` has no
  `prd_path` (`new.go:178`), and every refine and generate of it fails reading a directory.
* `generate.go:135`, "removes any artifact files that may have been partially written during a
  failed generation attempt": it removes those of an earlier success as well, also when
  the generation was cancelled before its first call (`generate.go:86`).
* `cli.md:476`, Generate "skips artifacts that already exist on disk": one missing file and all
  are generated and written over (`session.go:864`), and listed a second time (`session.go:904`,
  against `session_ai_test.go:764`).
* The commands' own save of the session is not the atomic one (`cli.md:446`), and a kill in it
  leaves a `_session.json` nobody can read.  `--force` deletes artifacts before the state changes
  (`cli.md:444`).  Refine without an assessment records the index -1 (`session.go:734`), and writes
  `prd.md` in place (`session.go:682`).  A rerun of Generate that stops after its first file leaves
  artifacts of two generations (`cli.md:468`).

In SpecRendering, SpecEditing and SpecGraph:

* A group with requirement references and no test references shows no tests, but all of
  them at level 2 of the budget.
* A criterion may have an id that names another requirement, and two requirements may hold
  the same criterion id.  AddTaskGroup appends after the wiring group.
* With a single loaded spec `validate --cross` reports no unknown dependency: ValidateCrossSpec returns
  at once (`validate.go:2091`) and the command has thrown the error of the graph away
  (`cmd/spec/validate.go:176`).  The test TS-04-16 of `04_afspec_go_validation` (`test_spec.json:574`) gives it
  "one spec with id='specA'" and expects "Exactly one integrity error identifying 'specZ' as unknown"; the
  Python twin has that test (`test_validation_cross_spec.py:256`).
* LoadDependentInterfaces "Returns an empty slice on any error" (`mutate.go:468`, and 05-REQ-10.E1 for errors
  of BuildDependencyGraph): it gives up only when there is no graph (`mutate.go:481`), and there always is one.
* LoadDependentInterfaces returns a summary for each edge and not one "per upstream spec"
  (`mutate.go:466`) when a dependency is declared twice.
* Cross-validation accepts specs whose dependencies form a cycle: TopologicalSort has no
  caller in the program.

In ArtifactGeneration and SpecNumbering:

* "On a second signal, os.Exit(1) is called immediately" (`signal.go:13`): after the first one
  the goroutine has both cases of its select ready and may drop the second.
* AICall fails on an answer without a text block, which its callers, forcing the use of a
  tool, have no reason to expect.  There is no client of the service yet (`ai_call.go:335`).
* NewSpec accepts names such as `foo_` that IsSpecDirName rejects: such a directory is not
  counted, its number is used again, and for the same name MkdirAll accepts the directory
  and its `prd.md` is written over.
* `campaign.yaml` as written by `spec new` (`new.go:256`) has no `created_at` and OpenCampaign
  refuses it.  Specs() sorts prefixes as strings although it promises their numeric order.
* Two `spec new` at once with different names get the same number.

## 11. Proofs

The proofs hold for all values of the constants under the named assumptions of each
module, which TLC evaluates in the runs: any sets of callers, identities, intents and
contents for the store (`StoreAssumption`, `NilAssumption`), any number of processes and every
habit for the session (`SessionAssumption`, `ValueAssumption`), any set of shapes, terms, starts and any
bound on the lists for editing (`EditingAssumption`), any finite set of directories with any
contents and any writes for the graph (`GraphAssumption`), any numbers of attempts, repairs and
signals for the generation (`GenerationAssumption`), any set of processes and names for the
numbering (`NumberingAssumption`).

**SpecStoreProofs.**  `TypeCorrectness` needs no assumption on the habits.
`TypeOK` is not inductive: that LoadReturn hands over a complete package rests on
the reads before it, and that a rename writes a value of the right type on the
value having been complete when the save began.  `ReadSoFar` and `BeingWritten` say so.

`IntentAlwaysProtected` and `BannerAlwaysMarks` assume only `PrdDiscipline`: no
`transition_dirty`, `edit_status` or `raw_transition`.  They hold without a lock and
with stale handles.  The reason is in the invariant `PrdInv`: since `prd.md` is
replaced by a single rename, every `prd.md` that is read, held or written was put
together by one process, and it is enough that each of these agrees with
itself; a handle with unsaved edits may not, but then Save's drift check refuses it.

`TempsAreAccountedFor` and `CoverageStaysFresh` need the lock (`"unlocked" \notin Habits`).
`LockInv` says that at most one client is active and that it holds the lock of a directory that
is there, so no step of one disturbs what is said of another.  `TempInv` gives for
each client the exact range of files written and not renamed yet: below `at` while it writes,
from `at` on while it renames.  That is what an early return has to remove, and
a file left over is one of a crashed client.  For `CovInv` it is not enough
that each save writes a fresh coverage: between two renames the disk has the new requirements
and the old coverage.  It says that the files are fresh or this one rename is under
way, that a handle without unsaved edits is fresh unless a save was cut short, and that
what a load has read of the two files so far agrees with what is there (`Caught`).  `transition_dirty` is excluded
too, since a transition of a handle with unsaved edits writes them without the
coverage.

**SpecStoreRefines** assumes `Habits = {}`.  `StoreInv` adds to `PrdInv` that only
the holder of the lock is active, that what it has read is on disk
(`ReadFresh`), that its handle has the status, hash and banner of the disk even
with unsaved edits (`Bound`), and what a save or a transition under way has and
has not replaced (`SaveWrite`, `StepWrite`): for a save, the files renamed so far
are those of the handle; for a transition, everything but `prd.md` is on disk
already and `prd.md` differs by one step of the lifecycle.  From it follow
`HandlesMatchDisk`, `FrozenSpecsStayFrozen` and `StoreImplementsLifecycle`.  `DiskSteps` and
`RenameEffect` reduce the last two to what one rename does.

**SpecSessionProofs**.  `SessionTypes`, the type invariant, and `ExchangesInOrder`, which is
`QaInOrder`, assume only `SessionAssumption` and `ValueAssumption`: any number of processes,
every habit.  The latter is not inductive about the
session on disk, since what will be on disk tomorrow is held by some process
today: `SInv` says that the session on disk, the map of every command and the
handle of every program are `Good` (typed and in order in themselves), and
`Stage` that a process which is about to write one has one, and has the generation
and file it is writing.  The lemmas `GoodRound`, `GoodAnswered`, `GoodReset` and
`GoodUpdates` show that each update of a session keeps it good, so no interleaving of
writes can put a bad one on disk: every write is of a whole session.

The other three hold for one process at a time, and so exclude `concurrent`.  `Solo` says that
at most one is at work.  `AnswersAreKnown` is `QaAnswersKnown` and also excludes
`keep_handle` (a handle that is older than the session on disk) and `answer_unasked`.
`QaInv` says `Asked`, no exchange with the index -1 that Refine records without an assessment, of
the session on disk and of every copy that may be written later (`Rounds`).  `ArtifactsOfOneGeneration` and
`GeneratedMeansComplete`, which are `SameGeneration` and `GeneratedIsComplete`, also exclude
`rerun`: a Generate on top of artifacts that are there mixes two generations (section 10).
`CourseInv` follows generate through its files: after the deletion there are
none, between two callbacks there are those delivered so far and all are of the
generation in hand (`Half`, `Files`), and only with all four delivered does it come to
record that it is done.  `Labels` says which command can be at which place.

**SpecEditingProofs** works with two invariants.  `EInv` holds for every habit: the types, in
detail (`Shape`), and that within one list of entries no id occurs twice (`Named`; nothing of the kind is true of groups and subtasks).  It is the invariant
of `EditingTypes` and of the theorems that say what validation accepts:
`FinalizeIsValidate`, `PlansRunASmokeTest`; and of
`GroupsSeeTheirWork` and `SubtaskIdsKeptApart`.  What these need is that an operation writes only what the type and
the id rules allow; that the rules together imply the property is the proof.

`CInv` adds `Careful`, for a caller without habits: the criteria of a
requirement carry its number and the prefix of the file, and what is referred to is defined or
`Dead`, an id under a number below the largest one that no requirement has.
The second is what `NewEntriesTakeNewIds` (`NewIdsAreNew`) turns on: removing a requirement
leaves references to it and its criteria behind, and they are harmless since NextRequirementID
does not go back, unless the last one was removed (the habit `remove_last`).  The first
gives `OneIdOneEntry` (`IdsDenoteOneEntry`): ids of two lists differ in kind or in number, although
each Next function looks at one list only.

`SubtaskIdsKeptApart` is `SubtaskIdsStayApart`, and is about a plan that may have been written with
duplicates.  Transitions leave every subtask where it is (`PlacesStay`); a new subtask is
refused when its own group has the id, and when another group has it, the rule on subtask ids
gives the two groups one number (`StaysApart`), which the hypothesis excludes.

`EditsStayLocal` is `EditsBreakLocally`.  `ErrorsAre` splits the errors of a specification into
groups by what they look at: requirements, references, gaps in coverage, the
other entries, the plan, and those that may appear anywhere.  For each group there is a condition on
a step (`ReqsGrow`, `RefsGrow`, `ItemsGrow`, `PlanGrows`) under which it adds no error but about what
it touched, or, for dangling references, about what refers to something taken away (`DanglingLocal`);
one lemma per operation shows the conditions.

**SpecGraphProofs** proves the three properties of the sort from one invariant, `SortInv`.
`Counts` says that the in-degree of a node is the number of its edges to nodes that are not
in the order yet, counted with repetitions; `Queue` that the queue is the set of nodes outside the
order with degree zero; so the least element of the queue is the least node that may come
next (`SortIsLeast`), and all its dependencies are in the order (`SortPutsDependenciesFirst`).
`Ordered` says that no set of nodes that all depend on members of the set (`Closed`) has a member in the
order, since the first of them to be taken would have had a dependency in it
before.  When the queue is empty, every node left over depends on another one left
over, so the nodes left over are such a set, and they are `Stuck`; `Reported` carries
that to the result.  That is `SortReportsCycles`.  The comparison of
`Len(order)` with the number of nodes, which is what the code looks at, is tied to the set of nodes
by the lemmas of **SequenceFacts** about sequences without repetition.

A second invariant, `CrossInv`, gives `GraphErrorsReachTheUser`.  `Agrees` says that what LoadSpec
returned is what is on disk, but for the directories written to; `ErrorsOf` that, of a spec with no
directory written to, the errors of the graph are the ids in the files read so far that no
discovered spec has.  Rule 3 looks for the same in the loaded copies when it is run; with one spec
it is not, and the theorem says that nothing is reported then.

A third, `SummaryInv`, gives `InterfacesAreComplete`, which is `UpstreamsAreSummarized`.  `Discovered`: each
directory is still to be visited, parsed or in the error, so when the summaries begin all were parsed.
`Drawn`: the graph has an edge for each dependency in a file that was read and not written to.
`Summarized`: the edges passed over have given their summaries, and an author who breaks another
file does not take one back.

**ArtifactGenerationProofs**: `GenInv` relates the place of GenerateArtifacts to the places of its
goroutines (`AtWork`), the errgroup's error to who has failed (`FirstErrors`: while there is
no signal the first error is never a cancellation, because a context is cancelled
only by an error that is already recorded), `results` to who is valid (`Arrived`),
`delivered` to `results` (`Handed`), and the count of late requests to the place of each
goroutine (`Late`).  From it follow `NothingPartial`, `NothingStaysBehind`, `CauseIsReturned` and
`CancellationStopsCalls`.

**SpecNumberingProofs**: `NumInv` says what a process between its scans and its mkdir knows
(`Scanned`: every countable directory there is has a number not above its `largest`, which
archiving keeps true since the archive is scanned last), whose directory one in the
making is (`Making`, `Apart`), and `Largests`, that every subset of the numbers in use has a
maximum.  The last is a fact about finite sets for which induction would be
needed; here it is carried along as an invariant, since each step adds at most one
number.  `NumbersAreUsedOnce` and `FinishedSpecsAreKept` follow.

Some unions are in parentheses that TLA+ does not ask for, as in `(UNION S) \ T`: the parser
of the proof system binds `UNION` and `SUBSET` weaker than the one of TLC does.

Every invariant and every safety property of a passing run has a theorem.  Only model-checked are the
liveness properties, which need fairness and `ENABLED`: `ArchiveCompletes` and the
`Terminates` of ArtifactGeneration.  The theorems say nothing of the instances where a
property is violated (section 10); those are counterexamples TLC finds.

## 12. Not modelled

* A crash keeps every rename that has returned.  saveToDisk syncs the files and
  not the directory, so a power failure may also undo or reorder renames.
* The text of the files: YAML and JSON parsing, unknown fields, formatting.
  A file that does not parse is a read that fails.
* `updated_at`, title, owner, tags and the other fields no guard reads.
* Validation before a save: Save calls none.
* The temporary file of persistSession: its writing and its rename are one step,
  and a crash leaves no trace of it.  The landscape of sibling specs, the texts of
  assessments and answers, and the validation warnings that make a successful
  `generate` exit with an error.
* JSON Schema evaluation beyond what section 5 says, warnings, the lint filter,
  ValidateStructured, messages.
* AddDependency: dependencies are in SpecGraph, as the contents of files.
* The layout of rendered documents, RenderCombined, the estimate of tokens; how long a
  backoff is, Retry-After, and the prompt size from which caching is asked for.
* The spinner: every command passes `isTTY = false`, so its goroutine does not run.
* Reading commands (status, list, resolve, lint, render) keep no state and interfere
  with nothing.
* Texts of prompts, configuration files, generated Go types, the Python twin.
