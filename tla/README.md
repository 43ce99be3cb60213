# one-sdk: a verification project

TLA+ models of the parts of `osdk` that keep state on disk or run things
concurrently, the TLC runs that check them, and machine-checked proofs about most of
them. `osdk` installs versioned tools into a shared directory tree, from archives it
downloads through mirrors or with the package managers of npm, cargo and go, keeps
files in a content-addressed store, publishes snapshots of models, replaces its own
programs, and runs project tasks with what it has installed. Every command is a
process of its own; nothing but the file system connects them. What can go wrong is
therefore: two commands at once, a command killed half-way, a file that is no longer
what it was when it was looked at, and a step of several that fails.

Paths below are relative to `src/crates/osdk-core/src` unless they begin with
`osdk-cli`, which stands for `src/crates/osdk-cli/src`.

## 1. Inventory

| Part | State it keeps | Operations | Hard behaviour | Correct when |
| --- | --- | --- | --- | --- |
| Install pipeline (`pipeline/mod.rs`, `lock.rs`, `backend/mod.rs`, `osdk-cli/commands/install.rs`, `uninstall.rs`) | per version: directory, `.osdk-complete`, `.osdk-artifact.json`, lock file | install, forced reinstall, offline install, uninstall | waits for a lock between two looks at the marker; kills; residue of a killed run; uninstalls with and without the lock | a marker is on a complete directory unless an uninstall has been at it; nothing changes beneath it; a reinstall repairs; every command ends |
| Store (`store/mod.rs`, `link.rs`, `manifest.rs`) | objects by hash, temporary copies, a manifest per version | ingest, link, mark, sweep | hard links share bytes with installs; a shared temporary name; mark and sweep beside installs | an object is never there in part, but for two that share a temporary name; a damaged one is never reused |
| Download (`pipeline/download.rs`) | destination, `.partial`, `.partial.json` | resume, retry, restart, rename | two files that must agree; mirrors and new versions of an object; kills; stalls | what is delivered is one whole object of one source |
| Download cache (`cache/downloads.rs`) | files, an index entry each, a lease | session begin/record/finish, collect, trim, clean | sessions and collections in different processes; protected retries; a budget | a collection keeps off what is in use or wanted for a retry, meets the budget, takes no more than it must |
| Task planning (`tasks/mod.rs`, `tasks/runner.rs` 189-363) | none (one pass) | resolve, order, add grouped tasks, apply `wait_for`, list prerequisites | cycles, shared dependencies, groups in groups, contradictory hints | the plan is complete, without repetition, dependencies first; cycles are errors |
| Task runner (`tasks/runner.rs`, `tasks/freshness.rs`, `osdk-cli/commands/maintenance.rs` 660-691) | memo, freshness records, the state file | run a plan, fork a group, tear down, skip fresh tasks | calls back into itself; a copy of memo and records per thread, merged at the join; three kinds of failure | no task twice, prerequisites first, teardown owed is paid, the exit code is honest, what is skipped is current |
| Global npm tools (`osdk-cli/global_npm_use`, `commands/uninstall.rs`) | per version: root, backup, aside; two journals; configuration, lockfile, shims; a lock per version and one for the global state | install or reuse, promote, publish, roll back, uninstall, recover | journals rewritten around renames; an error after a commit point; two locks, one of which is given back and taken again | every command happens at once or not at all as the next recovery sees it; what was reported installed survives; what is selected is there |
| Models (`model/mod.rs`) | snapshots, a lock each, `current.json`, the `current` link | publish (pull, import, replay), repair by two renames, remove | a pointer shared by snapshots whose locks differ; removal without a lock; kills between renames; edits of the user | the pointers name whole snapshots; repair destroys nothing before its replacement is there; edits a publication has looked for are not overwritten |
| Self update (`self_update.rs`) | the programs of a release, their backups | stage, replace each, roll back, clean leftovers | no lock, no journal: a failure or a kill between two replacements | both programs or neither; the old ones recoverable until the new ones are in |
| Native tools (`backend/native_tool.rs`, `cargo_package.rs`, `go_package.rs`) | an install root per identity, the seal beside it, stages | install (build, fall back, seal, publish), forced reinstall, uninstall, validate | two paths written and removed one after the other; a provider whose children outlive it; a look before the lock | what validates is what a provider built; what was published stays valid; no leftover blocks a publication |
| Trust (`trust.rs`) | a list of trusted files with hashes, under a lock | trust, untrust, prune, check | check and use are apart; read-modify-write | an edited file is not trusted |
| Source selection (`source/select.rs`, `source/mod.rs`) | a probe cache per tool | probe, rank, pin | a cache of an older candidate list | the order is that of the current candidates |
| Version resolution (`version/`) | none | resolve | pure selection | - |
| Skills (`skills/`) | installed skills, a lock file | fetch, install, remove | as the pipeline, smaller | - |
| Configuration, command line, messages, shims, inventory, backends' catalogues, containers, system packages, Android, dependencies | files of others, or none | parsing, formatting, external commands | - | - |

How they interact: an install asks source selection for candidates and, holding its
version's lock and a shared lease of the download cache, calls the download for one
candidate after the other, verifies and extracts, ingests each file into the store,
links it into the version's directory and writes manifest, receipt and, last, the
marker. An uninstall removes that directory (with the version's lock or without,
depending on the backend) and then collects the store, as `osdk prune` does. Global
npm tools and native tools do not use the pipeline: a package manager or a compiler
fills a directory, and the two have publication protocols of their own. The runner
plans a task, ensures its tools by installs, and runs it; `osdk run` loads the
freshness records before and saves them after.

## 2. Modules

| Module | Models | Specified by |
| --- | --- | --- |
| `InstallPipeline` | install, uninstall, store, collection, kills, edits | its properties |
| `InstallPipelineProofs` | - | proofs about it |
| `Download` | one destination, its partial and metadata, servers, kills | `WholeFile`, by refinement |
| `WholeFile` | what a download promises: the destination holds nothing or one whole object | - |
| `DownloadCache` | sessions, lease, index, policy | its properties |
| `DownloadsProofs` | - | proofs about `Download` and `DownloadCache` |
| `TaskPlan` | from the declared tasks to the plan | reference definitions (closure, order) |
| `TaskRunner` | the execution of plans, invocation after invocation | its properties |
| `Tasks` | names of tasks, lists of them and what leads to what, for the two | - |
| `TasksProofs` | - | proofs about `TaskPlan`, and the threads of `TaskRunner`: stacks, teardowns, records |
| `TaskRunnerProofs` | - | proofs about `TaskRunner`: what threads know and run, and what a run ends with |
| `GlobalNpm` | install, promotion, publication, rollback, uninstall and recovery of the versions of one package | `GlobalTool`, by refinement |
| `GlobalNpmProofs` | - | proofs about `GlobalNpm` |
| `GlobalTool` | what the commands promise: install, pin and record change at once | - |
| `ModelStore` | publication, repair and removal of the snapshots of one model | its properties |
| `ModelStoreProofs` | - | proofs about it |
| `SelfUpdate` | the replacement of the programs of a release | its properties |
| `SelfUpdateProofs` | - | proofs about it |
| `NativeTool` | install and uninstall of one identity that cargo or go builds | its properties |
| `NativeToolProofs` | - | proofs about it |
| `MC...` | small instances for TLC | - |

Definitions marked "Mutant:" are never part of a specification: each is a plausible
bug that stands beside the operator it would replace, and with it the named property
fails. They keep the properties honest.

In all of them a step is what happens between two points where another process can be
seen, a file system call can fail or the process can die. `pc` and a process's locals
(`op`, `cmd`, `snap`, `next`) are lost in a kill, locks are released by the operating
system, and files stay.

### InstallPipeline

`marker`, `receipt`, `manifest`, `tree`, `object`, `temp`, `archive` are files; `lock`
is the version's lock file. A file's content is one hash; `bad` holds the inodes whose
bytes no longer match the hash they are filed under. An inode is shared by a store
object and the installs hard-linked to it, so an edit through one is an edit of both.

`BeginInstall`, `ClearMarker`, `AcquireLock`, `AlreadyComplete`/`CleanResidue` are
the entry of `run_with_attestation_inner_at`. A version of `Attested` that is found
complete has its attestation verified once more, and its receipt rewritten
(`ReadReceipt`, `TruncateReceipt`, `WriteReceipt`) or not (`KeepReceipt`). `UseCached`,
`Download`, `Accept`, `Reject`, `GiveUp` are the loop over candidates (an install that
gives up returns with the directory as `CleanResidue` left it). `Ingest`, then
`ReuseObject`, or `RejectObject` and `DropObject`, or `HashFails`, are
`Cas::object_is_intact`, with a step between each look and what is done about it; `Store`,
or `CopyTemp`, `EndCopy`, `PublishObject`, `DiscardTemp`, then `Materialize` the rest of
`Cas::ingest_file` and the link; `TruncateManifest` to `Commit` the end. `Locked` is the
set of versions whose backend takes the lock to uninstall and to clear the marker (the
dynamic ones do; the defaults do not). `CleanResidue` may leave any part of the old
files, because the code ignores the result of `remove_dir_all`.

A kill may fall on any command, an uninstall included. `spoilt` and `shared` are
history: the versions an uninstall has taken from without the lock, or was cut off in,
until they are rebuilt; and the hashes whose temporary name two ingestions have had in
hand at once. What the code does not keep in these two cases the properties exempt by
name, and section 3 says what is lost.

### Download and WholeFile

`Inspect`, `Answer...`, `Describe`, `Open`, `Chunk`, `EndOfBody`, `Rename`,
`RemoveMetadata` are `download_once`; `RetryOrReturn` the loop around it. A file is
the number of its blocks and the set of objects they come from; an object is one
generation of what a URL serves, and `Publish` may replace it at any time. `Kill` may
happen at every step, and stands for an I/O error too. `spoilt` is history: it marks a
partial that a kill has left with the bytes of one object beside the metadata of
another (`Mislabelled`), and a destination that was made from it.

### DownloadCache

`Begin` to `Release` are a session around an install; `Scan`, `RemoveFiles`,
`RemoveEntry` the collection; `Clean` the command. The policy (`Protected`,
`Oversized`, `Expired`, `Before`, `Select`) is a set of operators and `Scan` applies
them. `now` is the clock, in units of the policy. `CollectsWhatItMust` is about the
decision `Scan` takes: the budget is met, and no selected file could have been kept.
`failed` and `user` are history: the artifacts whose last entry is that of a failed
session, and the session that wrote it.

### TaskPlan

One step is one turn of the innermost loop of `plan`, `visit` or `apply_wait_for`.
`path` is the call stack of `visit`, `visited` what `execution_order` returns,
`pending` and `refs` the walk over groups. It is deterministic: all choice is in the
initial state, the configuration and the task named.

### TaskRunner

A thread is its call stack: frames of `execute_full_inner` ("run") and of
`execute_group` ("group"), because a grouped step calls back into the walk and may
fork a thread for each task it names. Each thread has its own `memo` and `record`;
`Fork` copies them for the tasks of a batch that are not completed, `Join` merges what
each branch owns. A thread is named by the grouped tasks that forked it, one in
another: `Main` is the empty path, and two threads never have the same name. `Err` is a
Rust error (a timeout, a failed spawn, a cycle, sources that cannot be read before or
after the run) as opposed to an exit code: the two leave a body and a teardown by
different ways. `source` is a version number that stands for the
content hash, and `Edit` may change it at any moment, while tasks run as well; the hash
mode of freshness is modelled, not modification times.
`starts`, `posts`, `fine`, `bad`, `good`, `kept` are history variables that only the
properties read. Lua and argv steps are commands; arguments, environment and output
are left out.

### GlobalNpm and GlobalTool

An install (`InstallSteps`) takes `held[v]`, the mutation lock of its version, for all
of its time, and the global `state` lock twice: to recover and look for an install to
reuse, and, after `Stage`, to recover again, promote and publish. An uninstall
(`UninstallSteps`) holds only the state lock. `promotion[v]` is the journal of
`promotion.rs` with its phases, `removal[v]` the one of `commands/uninstall.rs` with
its commit flag and which of pin and record it removes. `root`, `backup` and `away`
are the canonical tree, what a promotion set aside and what a removal set aside.
`Damage` is what a removal that stops half-way may leave: a tree that fails the checks
for a completed install ("torn") or one that passes them ("hollow"). `hollowed` and
`clashed` are history: the versions of which there has been a hollow tree, and those
whose root an uninstall has taken while a promotion of it was open.

Recovery is what a command does first under the state lock: `RecoverAside`,
`RecoverBackup`, `RecoverClear`, `RecoverDebris`, `RecoverJournal` are
`recover_interrupted_promotion` by the phase it finds, `Refuse` its error when neither tree is
there; `Undo...` and `Complete...` are `recover_global_npm_uninstall`, which
finishes a committed removal and undoes the others. `Open` to `DropJournal` are the
promotion, `Validate` to `Published` the shims, configuration and lock, `Rollback` to
`Reconciled` what an install does on an error; `Select` to `Tidy` are the uninstall and
`Back...` its undoing.

`GlobalTool` has three variables, installed, pinned and recorded, and one step for
each command. The mapping is the state as the next recovery would leave it:
`Surviving(v)` reads root, backup, away and journals as recovery does, `Pinned` and
`Recorded` leave out what a committed removal is going to remove. So a kill is a
stutter of `GlobalTool`, whatever it interrupts. The refinement holds until an
operation fails or a version is `clashed`; `ImplementsGlobalTool` is the initial
condition of `GlobalTool` and its steps up to there.

### ModelStore

A publication takes `lock[s]`, looks at the directory (`Check`), refuses one with
edits (`Protect`), builds beside it (`Build`), moves the damaged one away (`Park`) and
the new one in (`Place`), and, for an intact one as well, writes `current.json` and
replaces the link (`WriteCurrent`, `Unlink`, `Relink`). `Unplace`, `Unpark` are the
undoing of a failed replacement. `DeleteLink`, `DeleteTree`, `DeleteLocks` are `model
remove`, which takes no lock and deletes the lock files with the rest: the process
that held one holds nothing any more, which is why `disturbed` remembers who worked
beside a removal. A directory is `whole`, or lacks files with or without its marker,
or has all of them and others besides ("extra", which `Check` does not mind), or holds
edits. `Edit` may fall between any two steps; `found` and `late` are history, the
directory that a publication found as users have changed it since, and the publications
whose snapshot has got content of a user after they had looked for it.

### SelfUpdate

`Start` is the decision to upgrade, `Stage` the download and unpacking as one step;
`MoveAside`, `CopyBegins`, `CopyEnds` are the replacement of one program, which is
renamed aside (it may be running) before its successor is copied to its place;
`RemoveNew`, `RestoreOld` are the rollback, `ClearBackups` the end; `CleanReplaced` is
what the next upgrade deletes before it begins. `aside[u]` is the backup an upgrader has made, under a name of its own.

### NativeTool

One identity-qualified root with the seal beside it. `StageWithLock`, `Provide`, `FallBack`, `Reset`, `RetainBinOnly`, `CleanWorkspace`, `InspectBins`,
`Mark`, `CreateSeal`, `WriteSeal`, `Publish` are the provider's run between the
`prepare` and the `publish` of the lifecycle; `ReuseOrRefuse` and `DiscardRoot` are what
`prepare` does about an old root; `StartUninstall` to `RemoveSeal` the uninstall. A tree is what its executables are,
whether it holds anything else, and its metadata; `Valid` is the check every user of
the tool does: metadata complete, the digest equal to the seal, the runtime the one
the identity names. `late` is what a provider has started and what may still write to
the stage's path: for cargo's first provider that is anything, for the others files of
the workspace. `touched` is history, what has happened to the root since its publication:
descendants of go had written into the stage (`Strayed`), its marker was cleared, a user
has edited it, or an uninstall has begun to delete it. An uninstall begins at a root
that validates, or at any when a lockfile names it.

## 3. Runs

Passing runs:

| Run | Instance | Shows |
| --- | --- | --- |
| `install_core` | 2 installers (symmetric), 1 uninstaller with its collection, hard links, two versions that share a file, one uninstalled under its lock and one without, one attested, 3 commands, 1 kill, 1 edit | `MarkerMeansComplete`, `RepairedAtCommit`, `CompleteIsStable` |
| `install_ends` | 2 installers, 1 uninstaller, 1 collector, store on another device, copy and symlink, archives that are evicted, 2 commands, 1 kill | `NoPartialObject`, `EveryCommandEnds` |
| `download_resume` | 2 sources, one without validators, 3 blocks, 3 attempts, 2 generations, 4 calls, 2 kills at any step | `DeliveredWhole`, `ImplementsWholeFile`, `CallEnds` |
| `cache_lease` | 2 sessions that share one of 3 artifacts, 1 collector, 3 sizes, 2 commands, 1 kill, 2 time units | `FilesAreManaged`, `InUseIsKept`, `FailedRetryKept`, `CollectsWhatItMust` |
| `task_plan` | all dependencies among 3 tasks, groups of a few shapes with an undeclared task, all hints among 3 prerequisites | `EachOnce`, `DependenciesFirst`, `PlanIsClosed`, `PrerequisitesAreAll`, `CyclesAreReported`, `SimpleHintsHold` |
| `tasks_grouped` | 4 plans of 6 tasks, batches of 2, errors in bodies, teardowns and sources, 2 invocations, 2 edits at any moment | `OncePerRun`, `TeardownFollowsBody`, `ExitCodeIsHonest`, `PrerequisitesFirst`, `SkippedIsCurrent`, `FailureIsSaved`, `RunEnds` |
| `npm_tools` | 2 processes that install and uninstall one version, 2 trees, torn and hollow damage, 2 commands, 1 kill, 2 errors | `InstalledIsKept`, `SelectedIsThere`, `FailureIsUndone`, `ImplementsGlobalTool`, `CommandsEnd` |
| `self_update` | 1 upgrader, 2 programs of which one may be absent, 3 releases, 3 upgrades, 1 kill, 2 errors | `OldIsRecoverable`, `AllOrNothing` |
| `model_store` | 2 processes, 2 snapshots, publications and removals, 3 commands, 1 edit at any moment, 1 kill, 1 error | `PointersAreWhole`, `NothingIsDestroyed`, `EditsAreKept`, `FailureRestores`, `CommandsEnd` |
| `native_tool` | 2 processes (symmetric), cargo and go, late writes of both, 2 builds, 5 commands, 2 kills, 2 errors, 2 edits, 2 changes of the runtime | `OnlyBuiltIsUsed`, `PublishedIsUsable`, `LeftoversNeverBlock` |

Bounds. Three commands are enough for the longest interplay the code of the pipeline
and of models is written against: one leaves residue, and two race over it or
one recovers it and another builds on that. Two commands of npm are an install and an
uninstall, two installs or two uninstalls of one version that race, are killed and fail
at every step, and each begins with the recovery of what the other left; a third command
is in `refused_rerun`. Two files, one of them shared between the
versions, give a directory that is complete in part and an object that is still live
when one version goes. Two commands and a kill cover a copy that is cut off and
whoever meets it, and two copies to one name. Three blocks and three attempts allow a body to be broken twice and
the last to complete it, or not. Two commands of the cache overlap in every way two
processes can, and each session collects at its beginning and its end. The plans of
`tasks_grouped` have a group in a group, two branches with a common prerequisite, two
with a common grouped task, a group wider than a batch, and a teardown that is a
group. Two errors are needed wherever an undo can itself fail; the properties say
which of them they are about (`errors <= 1`). Three upgrades let one be killed, the
next meet its leftovers and a third meet those of the second. Five commands of a
native tool are an install, what makes it invalid, what removes it and two that race.
The symmetric sets have only safety properties checked with them. Every action
and every disjunct of every module is taken in these runs.

Deadlock is not checked: when all commands are used up nothing is left to do. That
every command ends is `EveryCommandEnds`, `CallEnds`, `RunEnds` and the two
`CommandsEnd`.

Violations. Each run states what a comment says, and TLC finds a behaviour of the code
that breaks it:

| Run | Property | What happens |
| --- | --- | --- |
| `partial_object` | `ConcurrentIngestsSeeWhole` | two installs of one file, the store on another file system: one has copied the file to the temporary name, which is made of the hash alone; the other opens the same name and truncates it; the first renames what is left to be the object and links it into its version. `store/mod.rs` 96-97 says "Use a temp name then atomic rename so concurrent ingests don't see partial objects" |
| `refused_rerun` | `RerunRepairs` | an install is killed right after its journal says `new_promoted`, the version is uninstalled, which does not look at that journal, and from then on every install of that version refuses: recovery finds the journal and no root (`osdk-cli/global_npm_use/promotion.rs` 277-287), and nothing removes it. Lines 245-247 say "A rerun idempotently repairs any config, lock, or shim work that had not yet completed" |

### What the code does not keep

The listed runs exclude two of the cases below by their constants: the second upgrader of
`SelfUpdate`, and plans in which a teardown and a body lead to one task (`TeardownApart`).
Kills, edits, late writes and removals fall anywhere. Where the code does not keep a property in a case,
the property exempts that case by name, with a history variable that says when it has
occurred. Leaving the exemption out, or checking a property that a module states and no
listed run checks, shows the case.

Install pipeline, store, download, cache:

- Without `spoilt`, `MarkerMeansComplete` fails: the default uninstall removes files
  beneath an install that holds the lock, and the install commits its marker over what
  is left (`backend/mod.rs` 194-197); and an uninstall killed before it reaches the
  marker leaves it on an incomplete directory (`backend/http.rs` 369).
- An install killed while it adds evidence to the receipt of a version that is marked
  leaves the receipt truncated, and the marker. A receipt that does not parse makes each
  later install with an attestation fail until one is forced (`pipeline/mod.rs` 917-936).
  `MarkerMeansComplete` asks that the receipt is there, not that it is whole.
- `FailedReinstallKeepsFiles`: a forced reinstall whose sources all fail has removed
  the installed files before the first download (`pipeline/mod.rs` 260).
- Without `shared`, `NoPartialObject` fails as in `partial_object` above.
- `CompleteIsUsable`: with symlinks, two installers and a collector, the collection
  reads the manifests, an install ingests and links an object, and the sweep removes
  it before the install commits (`store/mod.rs` 251).
- `RestartIsSafe`, which is `DeliveredWhole` without `spoilt`: after a kill between the
  new metadata and the truncation of the partial the next run appends the new object to
  the old bytes (`pipeline/download.rs` 322-336). The comment at 113-115 says "Servers
  that ignore ranges or changed the object cause a safe restart".
- What a session leaves that fails after another session has committed the same artifact
  counts as committed, and is not protected for a retry (`cache/downloads.rs` 158, 450,
  478). `FailedRetryKept` is about artifacts whose entry the failing session wrote last.

Tasks:

- `DependenciesStayFirst`: a `wait_for` moves a task behind one that depends on it
  (`tasks/mod.rs` 898).
- `HintsSettle`: four tasks in a row that each wait for the next use up the passes
  before the hints hold (`tasks/mod.rs` 876).
- `SuccessIsSaved`: one task's timeout loses the records of the tasks that succeeded
  (`osdk-cli/commands/maintenance.rs` 687).
- `EveryTeardownStep`: a teardown command that times out takes the steps after it with
  it (`tasks/runner.rs` 725).
- `NoCycleMidRun`: a failed prerequisite of two tasks of a serial group stays in
  `running`, and the second task reports a cycle that is not there
  (`tasks/runner.rs` 1135-1148).
- A teardown group that names a task of a body breaks `OncePerRun` after an `Err` in a
  forked branch: the error is not in the memo that is merged (`tasks/runner.rs` 1026).
- `SkippedIsCurrent` speaks of the sources as a run of the task ended. The hash is taken
  after the run, so an edit while it runs is recorded as built, and the task is skipped
  although no run has seen these sources (`tasks/freshness.rs` 453).

Global npm tools (below `osdk-cli/global_npm_use` unless said):

- `FailureKeepsShims`: what an install rolls back are root, configuration and lock; the
  stale shims it has removed stay away until the next generation (`install.rs` 269).
- Without `hollowed`, `InstalledIsKept` fails with one error: a tree whose removal was cut
  off and that still passes the checks is taken for the install by the recovery, which
  deletes the backup (`promotion.rs` 250-262).
- Without `clashed` or `errors' = 0`, `ImplementsGlobalTool` fails: an abort after an error
  takes back what was replaced or pinned, and of an uninstall over an open promotion the
  next point says what is left.
- An uninstall over an interrupted promotion removes the root and not the backup: the
  next recovery brings the version back.
- With two errors, a rollback whose journal cannot be removed is repeated when the
  guard is dropped, and moves aside the root it has just restored (`mod.rs` 354-358).
- A rollback puts configuration and lockfile back by two renames each: a kill in between
  leaves the file away (`promotion.rs` 52-89).
- An uninstall that fails between pin and record and is then killed may leave one of
  the two; and a kill in one uninstall followed by another leaves shims of a tool that
  is there missing until they are generated again.

Self update, models, native tools:

- `LeftoversAreSpare`: a kill between the rename and the copy of a program leaves its
  only copy in the backup that the next upgrade deletes (`self_update.rs` 456-473).
- Two upgraders at once delete each other's backups; a program that a release adds and
  that was not there before may stay half copied after a failure.
- Without `late`, `EditsAreKept` fails: a publication looks for edits before the rebuild
  (`model/mod.rs` 325) and replaces the directory after it (403-411). What a user changes
  or adds in between is moved aside with it, and deleted when the publication succeeds;
  the comment at 445-446 says that a repair "must not replace extra or edited user
  content".
- `model remove` deletes the lock files of publications at work. A kill between the two
  renames of a repair leaves `current.json` naming a directory that is not there until
  the snapshot is pulled again. Publications of two snapshots may leave `current.json`
  and the link naming different ones.
- go's provider builds in the stage that is published (`backend/go_package.rs` 656-658):
  what a descendant of it writes there after the workspace was deleted makes the published
  root invalid, or stays in it unseen if it was written before the seal. `PublishedIsUsable`
  and `OnlyBuiltIsUsed` exempt such a root ("strayed").
- An uninstall that is killed or fails inside `remove_dir_all` (`native_tool.rs` 1746) may
  leave a root with its marker and without its files. It counts as complete and invalid,
  and every plain install of it is refused (1331-1337) until one is forced;
  `site/en/internals/cargo-tools.md` 170-172 says that an incomplete root "can be removed
  only while that identity lock is held", which no install does with this one.
- The uninstall of a root that does not validate, and that no lockfile names, finds nothing
  installed and reports success (`backend/cargo_package.rs` 442-495); only a forced install
  repairs it. Stages of killed processes are never deleted, and a forced reinstall that
  fails has lost the old install.

## 4. Fairness

- InstallPipeline: every process that can move is run, and a lock that is released
  wakes a waiter. Nobody is obliged to begin, to kill or to edit.
- Download: the process and the servers' answers go on, and a stalled body is given up
  (`ReadTimeout`). Only the client for models sets a read timeout (`http/mod.rs` 29);
  for tool downloads `CallEnds` shows what such a timeout would give, and a stall does
  keep the version's lock and the lease.
- TaskRunner: some thread that can step does. That is weaker than fairness to every
  thread and enough, because every thread's work is finite. A command ends or is
  killed at its time limit, which holds for tasks that have one.
- GlobalNpm, ModelStore: weak fairness of the steps of each process that has begun.
  Locks are waited for, so a process that waits may be passed over while others come
  and go; the commands are finite in number, and that is why each of them gets its turn.
- DownloadCache has such a fairness in `FairCacheSpec`, with `CommandsEnd`; the listed run
  checks its safety only.

## 5. Proofs

`InstallPipelineProofs`:

- `TypeCorrect`: `Spec => []TypeOK`, for all values of the constants.
- `MarkerSound`: `Spec => []MarkerMeansComplete`, for any number of installers,
  uninstallers with and without the lock, collectors, kills and edits.
- `MarkedIsStable`: `Spec => CompleteIsStable`.

`MarkerMeansComplete` is not inductive: a commit keeps it only if the holder of the
lock has done everything before. `IInv` adds `HoldersHold` (who works inside a
directory holds its lock), `InstallProgress` (how much of the directory each place of
an installer has behind it, if the version is not spoilt: no marker while it builds,
links for all files no longer in `todo`, a manifest after `manifest`, a receipt at
`commit`) and `RemovalProgress` (an uninstaller with the lock that has passed the marker
has removed it). The proof has a lemma for each kind of step that says what it may
touch, so that the cases of other processes follow from who holds the lock, or from what
the step has made `spoilt`.

On top of these, about the store:

- `ReinstallRepairs`: if `SameDevice` and `"symlink" \notin Modes`, `Spec =>
  []RepairedAtCommit`, for any number of processes, kills and edits. A symlink's object
  may be swept before the commit, and a copy under a shared temporary name may be
  truncated by another; both are values users do set, and TLC's runs cover them in
  `install_ends` for the other properties. What is left is that between the look at an
  object and its link nobody but an editor can spoil it (`Sound`).
- `ObjectsAreWhole`: `Spec => []NoPartialObject`, with any number of installers, removals,
  collections and kills. The temporary files and the objects have no inode in common, and
  what is about to be renamed has been written to its end, is gone, or is `shared`.

`DownloadsProofs`, about a download:

- `DeliveredIsWhole`: `Spec => []DeliveredWhole`, for any number of sources, blocks,
  generations, attempts, calls and kills at any step.
- `ImplementsFile`: `Spec => WholeFile`'s specification, of what is delivered and not made
  from mislabelled bytes.

The inductive invariant says that a partial with bytes in it, unless `spoilt`, is
described by the metadata beside it (`PartialDescribed`) and has bytes of one object
only, and that the body under way continues it.

`DownloadsProofs`, about the cache, for any sessions, collectors, artifacts, sizes and limits:

- `CacheTypeCorrect`; `AllManaged`: `CacheSpec => []FilesAreManaged`; `Kept`: `CacheSpec
  => InUseIsKept`.
- `CollectionsKeepToThePolicy`: `CacheSpec => CollectsWhatItMust`.
- `FailedRetriesAreKept`: `CacheSpec => FailedRetryKept`, for sessions that share artifacts
  in any way.

`LeaseInv` says who may be where while the lease is shared or exclusive,
`ArtifactInv` what a session has of its artifact at each place, `EntryInv` that
what a session works with is registered, and that what a collection is about to
unregister has no file any more.

The policy walks the candidates in order, a recursion over the subsets of a finite set
whose values are established once (`FoldExists`, by `SubsetInduction`, itself a least
counterexample). `SumFacts` says that a sum of sizes does not depend on the order in
which it is taken, `Accounted` what the walk has come to after any of the candidates: the
bytes still counted are those of the unprotected candidates not selected, so that no
subtraction saturates, and a candidate is selected exactly when it `Goes`. Both halves of
the policy follow without looking at the last candidate. `RetryInv` then says of what has
failed that its entry is that of an unfinished transfer, as whoever commits it takes it
out of what has failed, and of what a collection has selected that it was old
then and is older now, since nobody writes while the lease is held exclusively.

`TasksProofs`, about `TaskPlan`, for every configuration over any set of tasks:

- `PlanTypeCorrect`; `PlannedOnce`: `PlanSpec => []EachOnce`; `PlannedInOrder`: `PlanSpec
  => []DependenciesFirst`; `PlanClosed`: `PlanSpec => []PlanIsClosed`;
  `PrerequisitesListed`: `PlanSpec => []PrerequisitesAreAll`; `CyclesFound`: `PlanSpec =>
  []CyclesAreReported`; `SimpleHintsFollowed`: `PlanSpec => []SimpleHintsHold`: every
  property of the run.
- `PlanInvariant`: `PlanSpec => []PlanInv`, the inductive invariant of all of them.

What a visit returns is without repetition only because a task is never both on the
path and done (`PathDistinct`), and in order only because every dependency that a
frame has behind it is done or is the frame above it (`DependenciesBehind`); at the
moment a task is left there is no frame above it, so all its dependencies are done.
`VisitedInOrder` carries this through the additions of grouped tasks, which leave out
what is planned already. A move is injective but not monotone, so `EachOnce` survives
the hints and `DependenciesFirst` is stated up to the first of them.

`Reached` says that all that is met is something the named task leads to, `Chain` that
each task on the path depends on the next, so that a task met twice depends on itself,
and `Growing` what a walk over groups still owes: what
a planned task names in its groups is planned or in hand, unless it is pending itself.
When nothing is owed the plan is closed, and in a closed plan in order nothing depends
on itself (`Outcome`, from `OrderedIsAcyclic`): that is both halves of
`CyclesAreReported`. `Listing` and `Listed`
say the same of each call that lists prerequisites, with the dependencies alone as the
step. `Moved` counts: the tasks with a hint still to follow (`Behind`) and the moves
made are together no more than the passes, for hints of the simple form.
`Within` is defined as what is in every closed set, which needs no induction to reason
about, and `Among` is a recursive function whose values are established once, by
a counterexample of least length (`AmongDefined`).

`TasksProofs` and `TaskRunnerProofs`, about `TaskRunner`, for any plans, size of a batch,
errors and invocations; the first three are in `TasksProofs`:

- `ThreadsInvariant`: `Spec => []Threads`; `TeardownsFollow`: `Spec =>
  []TeardownFollowsBody`.
- `SkipsAreCurrent`: `Spec => SkippedIsCurrent`, wherever edits fall.
- `PrerequisitesRunFirst`: `Spec => PrerequisitesFirst`, if every plan has each task after
  what is listed for it (`Ordered`); and `PlansAreOrdered`: `PlanSpec` makes such plans
  as long as no hint moves a task. A hint may move a task behind one that depends on it,
  and that one is then started first.
- `BodiesStartOnce`: `Spec => []OncePerRun`, if every plan has each task after what is
  listed for it, or a `wait_for`, which keeps its groups from forking; and if no task has
  a body and a teardown that group what leads to the same task (`TeardownApart`). Without
  the second a body group that an `Err` ends loses what its threads were running, and the
  teardown starts it again; without the first two branches may be given the same task.
- `SuccessesAreSaved`: `Spec => FailureIsSaved`, if every plan has each task after what is
  listed for it, or a `wait_for`, wherever edits fall.
- `ExitCodesAreHonest`: `Spec => []ExitCodeIsHonest`, if every plan has each task after what
  is listed for it: both that no failure is lost on its way to the exit code and that a
  run in which nothing failed ends with zero.

A state has any number of threads with stacks of any depth, so the argument begins with
what they look like. `Threads` says which values each variable may have, what a frame
has in each phase (`Shape`), and that the threads are a tree: only a thread that waits
for its batch has others above it, and each of these was forked for a task of that batch
that has not completed (`Tree`). Every step of one thread replaces its innermost frame,
pushes one on it or takes it off (`Goes`, `Pushes`, `Pops`), and a case of a proof is one
of these; only `Fork` and `Join` change which threads there are, and `Invoke` begins anew.
On it, `Owed` says that a task whose body was started and whose teardown was not is in
some frame that will still begin it. `Recorded` says that a version that is recorded in
any thread is one that the sources had when a run of the task had ended well. `Known` says what a thread knows: the tasks of its frames are
different, marked as running and not completed, those that run in its parent run in it,
it has the outcome of what its parent knows to be over, and what it has as succeeded did
succeed. `ListsInTurn` says of the list a frame has still to run that each task on it
waits only for tasks that have succeeded, that stand before it, or that the frame is at.

For `OncePerRun` the question is which thread may start a task. `Zoned` gives each thread
a zone, all tasks for the first and the branch it was forked for to every other: what a
frame has still to run is in its thread's zone (`Inside`), the zones of the branches of a
group are in that of the thread that forked and have nothing in common (`Divided`), and
with every task of a branch not yet completed the branch has what that task leads to. So a
task that two threads may start is in the zones of two threads of which one waits for the
other (`ZonesNest`, `ZonesApart`). `Nested` says that what a frame lists, every body and
teardown that called it leads to. With these `Once` says what can become of a body that was
started: it is being run, or it is completed, or it was lost to an `Err`, and then that
`Err` is on its way out of every body that leads to the task (`LeavesWithErr`), has left
one whose teardown is run (`TearsDownErr`), or is in the branch of a group that will end
with it (`BranchIsOver`, `BranchIsRun`); each rules out that the task is listed again.

`SuccessesAreSaved` uses the zones too: a success is found in the zone of the thread that
finds it, and the thread that is joined has the last word on its zone, so what succeeded is
known, at every moment, to a living thread in whose zone it is (`FineKnown`), which has
recorded it as the sources were then (`OkRecorded`); at the end only the first thread lives.

A failure has no such owner: a task that fails in one branch may be met, completed, from
another list, a group runs its prerequisites and does not look at their codes, and what a
worker returns is merged with codes that were there before. So `SomeTells` follows the
news and not the task: once something failed some thread tells of it, by its result, by
the code of one of its frames, or by a task it knows to have failed, or one that waits for
such a task, which a frame has still ahead (`Telling`, `Ahead`). A step that drops one of these
makes another: a list that comes to a failed task returns its code, a group that has run
its prerequisites goes on to tasks that list the one that failed (`FailureKnown`, and
`GroupsHold`: what is listed under a group's prerequisites are prerequisites of it), a
worker that is forked has the list the group had ahead, and a join takes the results of
the batch in. Conversely nothing tells of a failure while none was met (`AllClean`),
except that a cycle may be: it ends the threads and groups it is met in, and is a failure
of the body that called them. Only the first list of a run could end with it and no
failure, and it cannot, because what runs there is worked on in a frame of the thread
(`HeldAll`), and a list with no frame below works on nothing (`NoCycleLeft`).

`SelfUpdateProofs`, for any list of programs, releases, kills and errors:

- `TypeCorrect`, for any number of upgraders; `Recoverable`: `OldIsRecoverable`, and
  `Together`: `AllOrNothing`, both under `Solo`, one upgrader at a time, because two
  delete each other's backups.

`Local` says for each place of the upgrader how far it has come: forward, the
programs before `next` are new and those after it old; backward, those after `next`
have been put back.

`ModelStoreProofs`, for any processes and snapshots:

- `TypeCorrect`; `PointersWhole`: `Spec => []PointersAreWhole`, without an assumption,
  although publications of different snapshots and removals overlap.
- `NothingDestroyed`, `EditsKept` and `FailureUndone` (`FailureRestores`), with edits at any
  moment.

`OwnerInv` is what a lock gives to a process no removal has disturbed, `ApartInv` that
two such processes are on different snapshots, `DamageInv` who may have damaged what,
`FoundInv` and `LateInv` what a publication found, and what it has not looked for,
`ParkedInv` and `WholeInv` what is in the two directories of a repair.

`NativeToolProofs`, for any processes, builds, kills, errors, edits and changes:

- `TypeCorrect`; `OnlyBuiltCorrect`, `PublishedCorrect` and `NeverBlocked`, the three
  properties of the run, whatever outlives which provider.

`LockInv` and `StageInv` are what the holder has done at each place, `LateInv` which
stages can still be written to, `RootInv` and `SealInv` which combinations of root and
seal can be met, `WholeInv`, `KeptInv` and `StrayInv` that a stage that is sealed, and a root
that nothing has touched, agree with their metadata, or that descendants of go have
written in between.

`GlobalNpmProofs`, for any processes, versions, trees, commands and kills, wherever they
fall:

- `TypeCorrect`; `FailuresAreUndone`: `Spec => FailureIsUndone`, without an assumption.
- `InstalledAreKept`: `Spec => []InstalledIsKept`, and `SelectedAreThere`: `Spec =>
  []SelectedIsThere`, whatever the damage that a removal cut short may leave.
- `Implements`: `Spec => ImplementsGlobalTool`, for versions that are installed and
  uninstalled at once, and whatever the damage.

Every step is one of about forty, so the argument is in layers, each an invariant of its
own. `Orderly` says who holds which lock at each place and what a command carries: at
most one command at a time is past the state lock. On it, `Sectioned` says, for at most
one error, what the holder finds at each place: its promotion (`PromotionSection`), its
changes of config and lock (`MetadataSection`), its removal (`RemovalSection`), and that
nobody else has touched them. `FailureIsUndone` follows from it. `Kept` adds where the
tree of a version stands while it is reported, pinned or wanted back (`Sound`, `Wanted`,
`Returns`), and `Neat` that a process that is not killed leaves nothing behind and that a
recovery ends with nothing to recover (`Cleaned`, `Ready`). The refinement then has one
case for each step that the next recovery can tell from the one before: the journal's
move to `new_promoted` replaces the tree, the saved config pins, the saved lock records,
the committed removal takes all three, and every other step stutters.

Only model-checked: liveness (fairness and ENABLED are beyond the prover);
`FailureKeepsShims`, `RerunRepairs` and `ConcurrentIngestsSeeWhole` do not hold.

## 6. Not modelled

The repository has about 170 000 lines, and most of them are outside what a state
machine says anything about: parsers, catalogues of tools and their addresses,
formats of lock files and manifests, command lines, messages in several languages,
and the tests of all of these. What keeps state and can be interrupted is a small part,
and it is that part which is modelled.

Within the modelled parts: formats (archives, TOML, lock files, catalogues) and
verification are reduced to "accepted or not". Reflinks are copies. The install of a
single binary (`pipeline/mod.rs` 721-897) repeats the archive's path without the tree.
Process trees of tasks, terminals, output. Modification-time freshness. How npm fills a
tree; specifications that are not exact versions. Views and sources of models. Options
and offline paths of native tools.

The parts with status `not_modelled` in `PROJECT.json` have their reasons there. Of
these, trust, source selection and skills keep state and could be modelled:

1. `TrustStore`: check and use of a project file, read-modify-write of the list.
2. `SourceSelection`: the probe cache of an older candidate list.
3. Composition of the pipeline with the cache: the lease held across an install, with
   `EvictArchive` refined by `DownloadCache`.
4. The single-binary install, as a second tree shape of `InstallPipeline`.
