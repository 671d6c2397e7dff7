# SlashIt in TLA+

SlashIt is a desktop application and headless daemon (Rust, Tauri) that runs coding agents on
*Tasks*, each in a Git worktree of its own, and carries the result through AI review, Human
Review and delivery. Almost all of its hard behaviour is about one question asked at many places:
*what may still be believed after something stopped in the middle* - a failed write, a killed
process, a power loss, an agent that outlives the program, another front door acting on the same
Task.

This directory models the parts of the program that answer that question, checks them with TLC on
small instances and proves the main results with TLAPS for every instance. Every definition is
translated from the source; `PROJECT.json` names the lines each one stands for (`map`), the
hazards of the code with the property that watches each (`hazards`), the runs, the theorems and,
for every checked property, a plausible bug of the code that violates it (`mutants`).

Contents: [Inventory](#1-inventory) · [Modules](#2-modules-and-the-code-they-model) ·
[Runs](#3-runs-and-what-they-show) · [Bounds](#4-bounds-and-why-they-are-enough) ·
[Fairness](#5-fairness) · [Proofs](#6-what-is-proved) · [Findings](#7-where-code-and-comments-differ) ·
[Not modelled](#8-what-is-left-out-and-assumed) · [Plan](#9-plan)

## 1. Inventory

| Part | State it keeps | Operations | What is hard, what must hold |
|---|---|---|---|
| **Admission gate** `queue/admission.rs` | semaphore permits, `total`, `pending_shrink` | `reconcile`, `try_acquire`, permit drop | three critical sections per resize race with drops: capacity is never created or lost, and use comes down to the limit |
| **Task lifecycle** `lifecycle.rs` | the board in memory and in the file, `cleanup_in_flight`, the per-Task lease | `terminalize`, `delete`, `record*`, merged-PR completion, start-up reconciliation | a removal destroys a checkout in several steps: it is announced durably first, never runs under an agent, and never strands a checkout nothing names |
| **Task checkouts** `worktree/manager.rs` | directories, Git's registrations and SlashIt's saved copies | attach, remove, settle a missing one | Git stops halfway; a directory can vanish |
| **Executor: coding runs** `queue/executor.rs` | `running_handles`, cancel channels, the Worker handoff of each Task | start, launch, commit, record, stop, reconcile (3-second poll) | the run's future writes without the lease, each write can fail three ways; nothing starts again on top of a run whose end nobody saw |
| **Provider lease** `agents/provider_lease.rs` | a locked file per checkout, inherited by the provider; a spawn mark or a process group | acquire, mark, record, prove absent | providers survive SlashIt: two must never edit one checkout |
| **Recovery decisions** `commands/worker_recovery.rs`, `worker_new_attempt.rs` | the decision recorded in the Task and its unsaved confirmation | accept a result, authorize a new attempt | what was decided on must be what is there, and survive |
| **Durable files** `crates/slashit-durable-fs` | `DIRECTORY_STATE.owed`, temporary files | `write_atomic`, `stage`/`publish`, `create_dir_all_durable` | threads share directories, each step fails: "fully durable" must survive a power loss |
| **Human Review** `commands/human_review.rs` | the approval with its commit, the column | approve, approve again, request changes, complete locally, deliver | delivers exactly what was approved, however the branch, the decision and the column move meanwhile |
| **Pull requests** `commands/pr.rs`, `pr/unconfirmed.rs` | `pr_create_unconfirmed`, `pr_url`, the executor's reservation of the Task | open, push, announce, create, reconcile, link, discard an unanswered request | GitHub's answer may be lost and its listing late: one request, never forgotten, never twice |
| **Publication** `pr/publication.rs`, `domain/publication.rs` | one durable record per Task | settle, pend, push pinned, read back | the outcome of a push may never be learned |
| **Restack and republication** `worktree/restack.rs`, `pr/republish.rs` | `pending_republish`, backup refs | plan, replay, verify, undo, record, force with lease, discard | interrupted between branch, record and origin; others push |
| **Local integration** `commands/integration.rs`, `worktree/integration.rs` | the plan on the Task, a pin ref, the target branch | plan, advance, observe, finish, resume, discard | compare-and-swap of a branch someone may check out; against deliveries of the same work |
| **Coordinator actions** `conversation_actions.rs`, `domain/conversation.rs` | Conversation file, Task board | propose, approve, change, record; the start under an approval | two files, no transaction, a retry after any stop; the Task changes between what was seen and what runs |
| AI review, fix agents, PR review plans `executor.rs`, `commands/pr.rs` | review stages, plans, cancel channels | review, fix, apply, reply | share leases and permits with runs; stale reviews of a moved branch |
| Project lifecycle `commands/project.rs`, the gate in `lifecycle.rs` | configuration, boards, checkouts | create, delete, move state | creation of Tasks racing deletion |
| State migration, import `config/migration.rs`, `portability/` | two directories, records | migrate, recover, import | interrupted at any point |
| ACP `acp/v1/` | pending requests and permissions | request, answer, time out, close | an answer races a timer and the close |
| Terminals `pty/` | sessions and their records | spawn, register, kill, restore | a record against a live shell |
| PR status cache `pr_status.rs`; updater `commands/updater.rs`; storage accounting | caches, tickets | refresh, check, install, measure | stale results |
| IPC, CLI, daemon, window | none the backend relies on | dispatch to the same commands | - |
| Attention, activity, frontend | none (projections) | - | - |

**How they interact.** All Tasks of a Project live in one board: a map in memory (`AppState.task.tasks`,
a tokio `RwLock`) and one file. Every change of a Task stages the whole board, saves it through
`slashit-durable-fs` and then publishes it to memory, under one write guard. A save has three
outcomes: saved, replaced but not confirmed durable (memory adopts it, the caller is told), or
nothing changed. A Task's *lifecycle lease* serializes long operations on it: finishing, deleting,
moving, starting, stopping, deciding. The executor's run future does not hold that lease; it is
ended through its cancel channel. A permit of the admission gate is held by every run and review.
The provider is a process group of its own; the only thing that ties it to SlashIt is a locked
file it inherits. A delivery to GitHub reserves the Task (a `PrHelperLease`) and takes the lifecycle
lease only to begin, to write and to end, so people decide and move the Task under it; what it may
still do is asked again before each effect. An integration holds the target branch's lock and the
Task's lease to its end. A Coordinator decision holds the Conversation's lock to its end and the Task's
lease for its one write. Start-up reads the board, turns what was interrupted into what a person or the
poll can settle, and saves it.

## 2. Modules and the code they model

```
Admission     <- AdmissionProofs           AtomicFile (abstract)
TaskLifecycle <- TaskLifecycleProofs           ^ Promise == INSTANCE AtomicFile
WorkerRun     <- WorkerRunProofs           DurableFs  <- DurableFsProofs
              <- WorkerEvidenceProofs
Delivery <- PullRequest, Publication, Republish <- DeliverySystem <- DeliveryProofs
LocalIntegration <- IntegrationSystem (with its surroundings) <- IntegrationProofs
Coordinator   <- CoordinatorProofs
MC<Module>: the instance TLC runs
```

All modules that write a Task share one convention for a save: it is `saved`, `unconfirmed` (replaced,
not known durable: memory adopts it and the caller is told of an error) or `failed`, and the variable
`survivors` (`boards`, `convs`) is the set of records a power loss may leave. This is the behaviour
`AtomicFile` states and `DurableFs` implements, with records for publication numbers.

### Admission - the capacity gate

`reconcile` holds the tokio mutex `total` throughout, so one resize runs at a time (`step`, `left`).
It touches the semaphore (`available`) and the mutex `pending_shrink` (`pending`) in separate
critical sections; `try_acquire` and `AdmissionPermit::drop` run between them. One action is one
critical section or one semaphore operation: `BeginGrow`, `CancelDebt`, `AddPermits`; `BeginShrink`,
`ReclaimIdle`, `NothingIdle`, `QueueDebt`; `TryAcquire`; `DropForget` or `DropCheck` then
`DropReturn`. `permit[f]` is the permit of flow `f`.

### TaskLifecycle - finishing, cleaning up and deleting a Task

`work[t]` is the operation that holds `t`'s lease. `Ask` is any front door (complete, clean up,
delete, a merged pull request) up to its first effect, with the refusals of the code; `Stamp` is
`stamp_cleanup_in_flight`; `RefuseRemoval`, `RunGit`, `RemoveMissing`, `RemoveUnregistered` are the
outcomes of the removal, `GitCuts`, `GitEmpties`, `GitUnregisters` what `git worktree remove` does
on disk, `RemovalReported` its answer; `Commit` and `Erase` are the final writes. `BeginAttach`,
`Acquire`, `RecordCheckout` give a Task its checkout again, `Observe`, `CompleteMerged`,
`LatchMerge`, `Decline` are the completion of merged pull requests from the poll and from an explicit
refresh. `Crash`, `PowerLoss` and `Startup` interrupt any of it.

The board is written as a whole: `mem`, `file` and `survivors`, the set of boards a power loss may
leave. A saved write leaves one survivor, an unconfirmed one adds the new board to what was there.
A sibling's save carries the whole board.

### WorkerRun - one Task's coding runs

Three kinds of actor. The *lease holder* `op`: start (`Admit`, `CannotAttach`, `TakeLease`,
`RecordStart`, `GiveUpStart`, `HoldStart`, `Launch`, `FindChanged`), stop (`BeginStop`, `StopTimesOut`,
`SettleStop`), move to another column (`BeginMove`, `Move`, `RefuseMove`), accept a result (`BeginAccept`,
`Accept`, `ConfirmAccept`, `ReturnToRecovery`), authorize a new attempt (`Decide`), promote (`Promote`).
The *run's future* `worker`: `RefuseLaunch`, `MarkSpawning`, `Spawn`, `SpawnFails`, `RecordGroup`,
`Cancelled`, `CommitChanges`, `RecordCommitted`, `RecordUnrecorded`, `RecordCompleted`, `RecordFailed`,
`EndRun`. The *operating system and Git*: `ProviderEnds`, `GroupChanges`, `Edit`, `GitCommit`, `Crash`,
`PowerLoss`. The poll is `ReconcileStarted` and `ReconcileCommitted`; the next start is `Startup`
(with `migrate_task`).

`mem`, `file` and `survivors` hold the Task's record with its Worker handoff (stage, run, commit,
head, reason, acceptance), `confirmed` and `decided` the two confirmations that are never
serialized. `note` is the lease file's record, `held` whether this SlashIt holds its lock, `procs`
each run's process group (holding the lock, alive without it, or gone). `tip` and `tree` are versions
of the branch and of the checkout's files; what matters of them is only which is newer and whether
they differ. `settled` is history: runs that ended in sight or that a person decided on.

### AtomicFile and DurableFs - one durable file

`AtomicFile` is what callers of `write_atomic` rely on, with contents numbered by publication:
readers see whole contents, `survivors` is what a power loss may leave, and what was reported fully
durable (`committed`) is never newer than what is left, until somebody else removes the file (`gone`).

`DurableFs` is the protocol for one destination and any number of threads. `Enter` takes
`DIRECTORY_STATE`'s lock and owes the missing directories, `CreateDirs` makes them and may stop
anywhere, `SyncEntry` synchronizes the shallowest owed entry (synced, unsupported or failed),
`FinishDirs` decides what the write may claim and releases the lock. `WriteTemp`, `SyncTemp`,
`Replace` (also `publish_new`), `SyncDirectory` are the staging and the publication, `NotPublished`
any failure before the replacement or a dropped `StagedFile`. The file system keeps each directory's
`entry` (absent, pending, durable) and what the destination's entry may hold (`entries`; `former` for
a directory that was replaced). `Recreate` is someone else removing the directory and making it again,
which the code allows for at lib.rs:479-484.

### Delivery, PullRequest, Publication, Republish, DeliverySystem - to GitHub

`Delivery` holds what every delivery works on: the Task's record (`approved`, `asked` for
`pr_create_unconfirmed`, `publication`, `pending` for `pending_republish`, `base`), its branch (`tip`),
the backup refs, origin's branch (`remote`), the pull requests (`prs`, each perhaps not yet `listed`),
and the one reservation `op` with the step it is at. A commit is the base it stands on and the sequence
of the Task's own commits; `0` is a commit somebody else pushed. `Surroundings` is everybody else:
`Approve`, `ApproveAgain`, `BeginMove`/`CompleteMove`/`GiveUpMove` (a move waits for the owner it
cancels), `FinishRun`, the terminal's `Commit` and `Amend`, `ForeignPush`, `ForeignDelete`, `ForeignOpen`,
`Close`, `List`, `ParentLands`, `Crash`. History variables: `consented` (every commit a person approved or
confirmed), `reached` (every commit SlashIt put on origin), `waived` (pull requests a person disowned: by
confirming that there is none, or by naming another one as the answer to the request).

Each operation is one action per effect, with every refusal on its way:
- `PullRequest`: `BeginCreate`, `Lookup`, `ToExisting`, `Push`, `ConfirmPush`, `LookupAgain`, `Announce`
  (the durable record before the request), `Create`, `ConfirmCreated` or `Reconcile` and `Retract`, `Link`;
  the restack of a branch not yet published `PlanRestack`, `Replay`, `RecordRestack`; and the recovery of an
  unanswered request `LinkExisting`, `BeginDiscard`, `LookBeforeDiscard`, `DiscardRequest`.
- `Publication`: `BeginPublication`, `Settle`, `Observe`, `RefusePublication`, `Pend`, `Recheck`, `Send`,
  `ReadBack`, `Verdict`, `SettlePublication`.
- `Republish`: `BeginRestack`, `PlanRewrite`, `Resume`, `Advance`, `ReplayPublished`, `RecordRewrite`,
  `AdoptRewrite`, `ClearPending`, `CheckRemote`, `ForcePush`, `Finish`; `BeginDiscardRestack`, `GoBack`,
  `DropRecord`.

`DeliverySystem` puts the three together and states what they promise.

### LocalIntegration and IntegrationSystem - into a local branch

`op` is the request that holds the target's lock: `Ask` (with or without completing the Task), `Plan` (or
`PlanMade`, `PlanRefused`), `RecordPlan`, `Advance` to `UpdateRef` (checked out nowhere) or `Merge` and
`MergeRef` (in a checkout), `Observe` what the target now is, `Finish`, `Complete`; `AskResume`, `Resume`,
`Discard`, `Clear`. A commit is the set of names in its history, so ancestry is inclusion. `where` and
`files` are the checkout that has the target and what it holds, `pins` the refs that keep planned results.
`IntegrationSystem` adds approvals, the move back to work, local completion, the terminal, other users of
the target and its checkout, crashes, and the delivery of the same Task as a pull request in the four
steps that matter to an integration (`Deliver`, `Reserve`, `Request`, `Link` or `LoseAnswer`).

### Coordinator - a decision over two files

`conv` is the Conversation file's actions, `task` the Task on the board, `op` the one decision under way at
step 2 (`Create`, `Edit`, `Move`, `Enqueue`, `EnqueueAlready` with `Check`) or step 3 (`Record`). `Propose`
takes any proposal the constructors allow of the Task as it is, under an id nothing carries yet (`Unused`:
each proposal is given a fresh UUID); `Approve` is step 1 and also its retry.
`QueueEntry` is `queue_entry_check`. The executor's `Promote`, `StaleApproval`, `RecordStart`, `HoldStart`
and `FinishRun` carry the approval to the run it admits (`launched` is the history of what ran under it),
and people edit, move, enqueue, accept and delete the Task between any two steps.

## 3. Runs and what they show

| Run | Shows |
|---|---|
| `admission` | `Conservation`: permits free and out are the limit plus the debt at every point of every resize. `BoundedOverrun`: between resizes use exceeds the limit by at most the debt. `Converges`: when the limit rests, use comes down to it for good. |
| `lifecycle_crash` | one Task, all kinds of evidence, three faults: `InterruptedIsFlagged` (durable before destructive), `AgentOutOfRemoval`, `NeverStranded`, `AnswersAreDurable`, `MemoryFollowsFile`, `EvidenceKeepsCheckout`, `AutomaticOnce` (with one observer). |
| `worker_safety` | two runs, one edit, two faults: `OneProvider`, `LaunchIsDurable`, `NoSilentRerun`, `ConfirmedIsDurable`, `CommitEvidenceKept`. |
| `worker_settles` | `Settles`: a run whose future is gone is settled by the poll, whatever failed to be written. |
| `durable_fs` | `CommittedSurvives`, `Owed`, and `KeepsPromise`: DurableFs implements AtomicFile. |
| `delivery` | opening and publishing: `RemoteIsConsented` and `NothingPublishedAtWork` (nothing goes out that nobody agreed to, or after the Task went back to work), `PublishedReached` and `PublicationIsKnown` (what the record says of origin is true, and it is known before a push what it will say), `RequestIsKept` and `NoSecondRequest`. |
| `republish` | a stacked branch whose parent lands: `RewriteIsDurable` (after one fault), `RewriteIsReversible`, `ForeignWorkSurvives` (a forced push replaces nobody's work), `DeliveryMatchesApproval`. |
| `restack_commits` (violation) | a commit made during a restack is dropped by its undo, see section 7. |
| `integration` | `RecordIsTrue`, `TargetMovesAsPlanned`, `OneDelivery`: the target moves only as the durable plan says, records stay true through any crash, and work is delivered one way. |
| `integration_delivery` (violation) | an unanswered pull request does not keep its Task from local completion, see section 7. |
| `coordinator` | `ApprovedRunOnce`: one approval admits one run, with the input, request and checkout the person saw. |
| `coordinator_decision` (violation) | an unconfirmed approval that is retried is not durable before its effect, see section 7. |

Every passing run also checks its module's `TypeOK`, except `worker_settles` and `republish`, whose
specifications another run types. `CHECK_DEADLOCK FALSE` is given for TaskLifecycle and Coordinator only: a
board whose Tasks are all deleted has nothing left to do.

## 4. Bounds and why they are enough

- **Admission**: five flows and limits 1..4. A race needs one resize and two drops; two flows beyond
  the largest limit leave room for a debt and for an admission after it. Liveness is among the
  properties, so flows are not declared symmetric.
- **TaskLifecycle**: one Task with every kind of evidence and three faults (`MaxFaults` counts failed or
  unconfirmed writes and crashes), so that a write can fail, the process die and the next start's own
  save fail. What Tasks on one board do to each other is proved for any number of them
  (TaskLifecycleProofs), so no run repeats it with two. `Counting` keeps the history variable
  `attempts`, which only `AutomaticOnce` reads, at two or less. The theorems have no such bounds.
- **WorkerRun**: one Task, because runs of different Tasks share nothing but permits (Admission) and
  the board file (TaskLifecycle). `MaxRuns = 2` gives a run and the one that must not be started on top of
  it; `MaxEdits = 1` gives one version to commit, to lose or to find changed; `MaxFaults = 2` lets an
  unconfirmed write be followed by a crash. The liveness run has one run: what settles it does not
  depend on others.
- **DurableFs**: two threads (one finds what the other has just made), three directories (a path that
  breaks in the middle, above and at the destination) and three publications (one to commit, one to
  overwrite it, one after a loss). `MaxWrites` bounds `Replace`.

- **Delivery**: two commits (the approved one and one made afterwards), one pull request, two foreign
  changes when opening (a push and a deletion, or a pull request of somebody else's and its close) and
  one when restacking, and one fault: every property of these runs is about one interruption and what the
  next request makes of it. Larger instances passed once each and are not kept: three operations
  together (9.4 million states), and opening with two pull requests (7.4 million), where a second request
  has a second pull request to open.
- **Integration**: one Task, one checkout, two commits beyond the first (one on the branch or the target
  after the approval, one merge) and one fault. Two faults passed once (10.9 million states); two Tasks with
  one commit and no deliveries were searched through 11 million states without an error and not finished.
- **Coordinator**: two actions (a creation or an edit and a request, or two requests of one Task), two
  inputs, two runs and one fault. Two faults, and a Task of either input at first, passed once (9.9 million
  states). The actions are symmetric: no constant names one, and the run checks no liveness.

## 5. Fairness

- **Admission**: the steps of a started `reconcile` (it never waits while holding anything another step
  needs) and the release of each held permit: a flow ends because agents have timeouts, and `drop` is on
  every path out of it, unwinding included. Nothing is assumed of `try_acquire`.
- **WorkerRun**: weak fairness of a start that was begun, of the run's future and of the lease holder's
  next step - futures that are polled to completion - and strong fairness of the poll's reconciliation,
  because the 3-second loop takes the Task's lease with `try_acquire` and may find it taken any number of
  times. A provider need not end, a person need not decide, nobody need restart SlashIt.
- The other modules state safety only. A delivery, an integration and a decision are requests of a person
  that end with an answer; nothing repeats them but the person, so there is no progress the code promises.

## 6. What is proved

TLAPS checks every theorem for all values of the constants, under the named assumptions in the modules
(`FlowsAssumption`, `LimitAssumption`, `EvidenceAssumption`, `TasksAssumption`, `RunsAssumption`, ... `WritersAssumption`,
`DepthAssumption`, `BoundsAssumption`, `IntegrationAssumption`, `CoordinatorAssumption`), which TLC evaluates in the runs.

**AdmissionProofs.** `AdmissionTypeOK`, `AdmissionConserves`, `AdmissionBounded`. `Conservation` is an
equation with a cardinality; it is inductive together with the type invariant and bounds on `left` at
each `step` (what is still owed by the resize under way). `BoundedOverrun` follows from it: holders are
among the permits out.

**TaskLifecycleProofs.** `Invariance`, and from it `TypeCorrect`, `DurableBeforeDestructive`,
`AgentsExcludeRemovals`, `AnswersSurvive`, `NoDrift`, `EvidenceIsKept`, and the action property
`NothingStranded`. None of these is inductive alone: whether a flag may be cleared depends on where the
operation holding the lease is and on whether Git is still at work. `Inv` is the type invariant, the
file being among the survivors, `MemoryFollowsFile` and, for every Task, `Good(t)`: `Leased` (what each
step of an operation has established about the record, and no agent beside a removal), `Removing`
(who a removal in progress belongs to), `Recorded` (the flag and the absence of evidence in memory and
in *every* surviving board) and `Answered` (what was told still holds). `WriteEffect` says once what a
write does under each outcome; every action that writes cites it. The step from survivors to memory is
why `MemoryFollowsFile` is in the invariant: a sibling's save republishes memory.

A second inductive invariant on top of `Inv`, `Spending`, says what automatic completion costs. An observer of
merges decides with the record it read and acts later under the lease, where `complete_merged_task` does not
look at the recorded merge again. `Spent(t)` therefore counts: the first automatic removal begins only once
the merge is in every surviving board and in memory (`Latched`, which no later write takes back), and from then
on the removals so far and the observers whose decision is still open (`Pending(t)`) are together no more than
the observers. `OneAnswer` says a decision is taken up by one operation. So `AutomaticBounded`: a Task sees at
most as many automatic removals as there are observers, over any number of crashes, restarts and failed writes.
`OneAutomaticRemoval` is the promise itself, for one observer (the poll); with the poll and a refresh sharing one
answer the bound is two and TLC reaches it (section 7). Both are hypotheses on `Observers` only.

**WorkerRunProofs.** `Invariance`, and from it `TypeCorrect`, `ProvidersExclude`, `LaunchSurvives`, `RerunIsDecided`
and `ConfirmationsHold`, for any number of runs, edits and faults. `SoundRecord` says of memory and of *every*
surviving record what it must know of each run with a process group: the run is counted and is settled,
or is the last one and named by the handoff. It is the same for the record a start is about to replace, so a
start that passed `MayStart` either finds no handoff or a resolved one (the run is settled), or uses up a decision
about that very run. The run's future writes without the lease, so `SoundWorker` says that as long as it is
registered every record names its run, and `SoundOperation` that whoever goes on to start, hold or accept
found no such future. `SoundLease` bounds who may be alive by the lease file's content: at the steps between
taking the lease and the spawn nobody is, and afterwards only the run the file marks or names.
`SoundConfirmations` ties the two confirmations that are never serialized to what a power loss can leave.
A publication is reasoned about once (`PublishedSound`, `Rewritten`, `SamePublished`), so each action only shows
what its new record says of the run.

**WorkerEvidenceProofs.** The action property `CommitEvidenceKept` (`CommitsSurvive`). It needs `Evidence` on top of
`Inv`: how a record numbers its runs (a new run's number is in no record yet, and a record without a handoff
names no run) and that memory knows every commit the file cannot lose, also after a start whose save failed.

**DurableFsProofs.** `Invariance`, `TypeCorrect`, `PathIsOwed`, `NeverTorn`, the refinement
`Implements` (`Spec => KeepsPromise`), and `AcknowledgedSurvives`. `Inv` adds to `Owed` the `Layout` of the
file system (nothing exists below a missing directory, every content around was published, a durable
directory has no former one) and `Established`, what a thread knows at each step (from `Enter` on the missing
directories are owed; a staged file is flushed). With it every step maps to a step of AtomicFile:
`Replace` to `Publish`, `SyncEntry` and `SyncDirectory` to `Settle`, `Recreate` to `Remove`, `PowerLoss` to
`PowerLoss`, and the rest to stuttering. `CommittedSurvives` is then proved of the abstract steps alone.

**IntegrationProofs.** `Invariance`, and from it `TypeCorrect`, `RecordsAreTrue`, `PlansExclude` (`OnePlan`, a
property of several Tasks) and `TargetMoves`. What the step of a request has established is the
heart of `Inv`: `SoundRequest` says, per step, that the plan in memory is the one it was made for, that
its result holds the target it was planned against and the approved commit and adds at most one merge,
and that the result is pinned; `SoundBoard` and `SoundRecord` say of *every* surviving board that no two plans
are unfinished and that an integrated record is of work the target has held. A failed write ends the
request, so a surviving board that is behind is one the invariant already covered. `TargetMoves` assumes
`{"updateRef", "mergeRef"} \subseteq Undisturbed`: that nobody checks the target out or edits its checkout
between Git's own look at it and the move of the ref, which no lock could keep out and the code
documents. `RecordsAreTrue` and `PlansExclude` need no such assumption.

`OneWayOnly` (`OneDelivery`) needs a second inductive invariant, `Delivering`, and no hypothesis either.
`Single(t)` follows a delivery through the code: while it is reserved or its request is out, no plan in the
record stands for the current approval or for the branch a new approval would name (`Apart`); once its answer
is known, every surviving board has the pull request (`Linked`), unless the link is still to be written; and a
plan about to be recorded was made while there was neither. `NamesKnown` bounds the names of commits given
so far, which is what makes a new commit on the branch different from every plan's.

**DeliveryProofs.** `Invariance`, and from it `TypeCorrect`, `RequestKept`, `SecondRequestRefused` and
`PublicationKnown`, for any number of commits, pull requests, foreign changes and faults. `Inv` says of *every*
surviving record that it `Remembers` the requests made so far: one that knows no pull request and no
unanswered request would let a second be sent, and after a power loss any survivor may become the record. A
record without an unanswered request has the newest of our pull requests, or GitHub lists one of the branch by
now, and then none is asked for again. `SoundOpening` carries this through the steps of opening one
(announced durably before `create`; nothing was opened where `retract` takes the announcement back; what is
linked is the newest or listed), `SoundPublication` does so for the pending record of a push, and `Numbered`
is GitHub's: numbers are given in order. Steps that concern no request are dealt with once
(`QuietStep`, `KeptStep`), so that each action of the three operations adds only what is its own.

Four more inductive invariants stand on `Inv`, each proved over the actions of all three operations:

- `History` (what the commits around can be, where origin's commit came from, what every surviving record may
  say of a publication, and what a step knows of the answer it awaits) gives `PublicationsReached`,
  `ForeignWorkKept` and `NothingPublishedDuringWork`. No hypothesis.
- `Backed`: from the plan of a restack on, a backup ref holds the commit to go back to, and `RewriteIsReversible`
  with it (`RewriteReversible`). No hypothesis; any number of faults.
- `Consent`: origin never received anything but an approved or confirmed commit or its replay, and what an
  operation carries from its decision to its push is that commit (`Carried`). `RemoteConsented` and
  `ApprovalDelivered` follow.
- `Prepared` and `Recoverable`: what every surviving record says of a rewrite, at each stage, with no fault so far
  and with one. `RewriteDurable` follows.

`RemoteConsented`, `ApprovalDelivered` and `RewriteDurable` assume `Calm`: nothing else writes the Task's branch
between a restack's rebase and its record, nor under the forced push. It is a hypothesis on the environment
and a real one: the code pushes the branch by name in `republish.rs:902`, so a commit made by the Task's
terminal at that instant goes out with it, and the lease of the push protects origin only. The passing runs close the
same windows; the other steps, and the two rebases, stay open in the theorems. `RewriteDurable` speaks of
at most one failed write or crash because two break it (section 7); the invariant says which of its parts fall
with the second.

`OwnCommitsKept` is the exact reverse side of the run `restack_commits`. The run finds a commit of the Task's
terminal dropped by an undo; the theorem says that if nobody writes the branch during the two rebases (`Still`),
no step of any operation takes a commit of the Task off its branch, the undo included. So those two windows
are the only ones. `AsPlanned` (the rebase finds the branch where the plan left it) is its invariant.

**CoordinatorProofs.** `Invariance`, and from it `TypeCorrect` and `ApprovalRunsOnce`, for any number of actions,
inputs, runs and faults. The two files are not written together, so `Sound` relates every board to every
Conversation a power loss may leave, in any combination: a binding agrees with each Conversation that still
knows the action, every record of the Task remembers every approval a run was launched under, and no run
was launched twice under one. `ConversationWrite` and `BoardWrite` say once what each write does to it. It holds
only because each proposal has an id of its own: with an id used again, a binding of a forgotten proposal would
pass for the new one.

**Only model-checked.** `Converges` and `Settles` are liveness under fairness, out of the prover's reach. Every
type invariant, safety invariant and action property of a passing run is stated by a theorem, under the
hypotheses named above. The theorems quantify over all values of the constants but are about the modules as they
are: what section 8 leaves out they do not cover.

## 7. Where code and comments differ

Each is a run that TLC must find violated; the property is what the comment or the document promises.

- `restack_commits`, `worktree/restack.rs:887`: `commands/pr.rs:5963-5966` says "A commit, checkout or edit from
  the task's own terminal while the restack runs is detected and never undone, with these exceptions". A
  commit made after the checks of the worktree and before Git's rebase reads the branch is none of the
  exceptions listed: it is rebased along, fails the verification of the replay, and the undo moves the
  branch back to the commit the restack planned from. The commit is left in the reflog only.
- `integration_delivery`, `commands/integration.rs:334`: a request whose answer was lost
  (`pr_create_unconfirmed`) does not keep its Task from being integrated or completed locally, where
  `docs/architecture/product-model.md:266` says "A Task that has, or is getting, a pull request is not
  completed locally."
- `coordinator_decision`, `conversation_actions.rs:318`: an approval whose write was not confirmed is found
  Approved by the retry, which changes the board without writing it again, where line 314 says "the decision
  is durable before any effect".

Observed while modelling, without a run of their own. *Admission*: between finding nothing idle and queueing
the debt a drop can put a permit back, and the next `try_acquire` exceeds the new limit although
`admission.rs:76` says it respects it; bounded (`BoundedOverrun`) and temporary (`Converges`). *Lifecycle*: an
announcement that replaced the board and was not confirmed is reported as "nothing reached the disk at all"
(`executor.rs:3632`) while merge and flag are in the file; a removal Git abandons halfway is recorded as kept
over a half-deleted checkout (`lifecycle.rs:1732`); the poll and a refresh that share one answer can each run
an automatic removal (`executor.rs:3566`, `pr.rs:7428`), which is all they can do (`AutomaticBounded`). *Worker*: after a failure that could not be recorded
a restart puts the Task in recovery where the user was told it returns to Queue (`executor.rs:8768`,
`app_core.rs:857`). *Delivery*: an unpublished restack whose record was not confirmed and is rolled back leaves
the new base in the record of a branch that was put back; linking an existing request made for one
approval moves the Task to PR Created although another was approved meanwhile; an unpublished restack
interrupted between rebase and record may be delivered with the old base recorded (why `RewriteIsDurable`
exempts an approved commit); two faults break `RewriteIsDurable` also for a commit nobody approved: a crash
between the rebase of a published branch and its record, then the resumed restack records the rewrite in a
write that is not confirmed, the next request finds it recorded and forces the push, and a power loss puts back
the record from before (`planned`, old base), so that origin has a rewrite which `discard` takes for "done
locally and not yet published" (`republish.rs:970`) and undoes on the branch. *Integration*: an unconfirmed record of a plan removes its pin; a plan whose
commit is already contained is recorded without another look at the target. *Coordinator*: a board write that
was not confirmed is found applied by the retry, which records Applied without writing the board again; a move or an edit that
was undone by somebody between a crash and the retry is done again.

Also: `accept_result` does not ask the provider lease,
so a provider that survived may still be editing; a Resolved Task moved from Backlog to Queue after a
restart is sent back to AI review by the reconciliation; no operation clears a spawn mark left by a
crash (`provider_lease.rs` says it needs a person); a promotion that was not confirmed durable leaves
InProgress in memory without its permit; a crash after a failed directory synchronization forgets
`owed` (the crate documents that older ancestors are assumed durable).

## 8. What is left out, and assumed

- **TaskLifecycle.** A power loss does not undo Git's deletions. A `git worktree remove` orphaned by a
  crash has ended before anyone asks again about that Task (`Settled`). Locked registrations and a Git
  that cannot answer are folded into a refused removal. A pull request is linked once. Statuses are
  InProgress, Human Review, Done; agents do not outlive a crash here (they do in WorkerRun). Task
  creation is not in the module.
- **WorkerRun.** Approvals and stale evidence, membership, the disk guard and the backoff after an
  unrecorded start; capacity (Admission); AI review itself; fix agents and pull request helpers that
  share the lease; process-id reuse; Windows, which has no leases; hand-attached checkouts; the loss of
  the lease file's own directory entry; a run future that panics. A branch is never rewound. Stops and
  moves are asked of Tasks that are InProgress. The reconciliation's check and its write are one step,
  as is a decision.
- **DurableFs.** One path; a synchronization that failed is reported again until it succeeds (no file
  system that drops dirty data after an error); colliding temporary names are one of the failures of
  `NotPublished`; directories are removed by others only between writes, and only the last one. A
  `Crash` finds no ancestor pending, which is the assumption the crate states ("older ancestors are
  assumed to have been durable since an earlier run"). `sync_tree` and Windows are left out.
- **Delivery.** `RestackWindows` closes, for the passing runs, the windows in which the Task's own terminal
  is rebased along or pushed by a restack: `git rebase` itself, the record after it, and the leased push,
  which pushes the branch by name (`republish.rs:902`). `restack_commits` opens them. Left out: which base a pull
  request gets and its retargeting (one step with `Finish`), the link to a pull request that was already
  merged, approvals without a commit, a rebase a crash leaves stopped inside Git, the state of the worktree,
  repository resolution. Git's and GitHub's answers may be lost, never wrong; the listing may be late and
  only ever gains.
- **Integration.** `CheckoutWindows` closes the two windows named under `TargetMoves`. Left out: a second target
  branch, the checks against the branch's recorded origin and upstream, the recovery of a missing branch,
  reconfirmation, the refusal while an agent runs. A commit on a branch is always a new one: a `git reset` back to a
  commit that was integrated before is not modelled, and `OneWayOnly` rests on that. A delivery is the four steps that meet an integration; its
  own steps are PullRequest's.
- **Coordinator.** One Task. The checkout a request names is identified by the run it was shown for; the
  re-read of Git's state of it is not modelled, nor that reuse waits for a Human Review decision. A
  start that is refused for another reason than its approval, and an authorized new attempt, are WorkerRun's.
  A Task deleted and created again under its reserved id starts over, as the code documents.
- **The rest of the inventory** is listed in `PROJECT.json` with a reason each: planned below, or pure I/O,
  text, display or test infrastructure.

## 9. Plan

In order of what a mistake would cost:

1. **ReviewPlan**: plans of fixes and replies on a pull request: a durable record per reply, a pinned push
   per fix, a comment that may have been posted without an answer.
2. **ProjectLifecycle**: the per-Project gate, Task creation against deletion, and start-up of a deletion
   interrupted between configuration and board.
3. **AI review**: rounds, a fix agent, and a review of a branch that moved.
4. **Migration and import** on AtomicFile; **ACP** permissions and close; **Updater** tickets; **PTY** records.
5. TaskLifecycle's board file as an instance of AtomicFile with boards for contents, so that `survivors` is
   the same object in both, and its refinement.
