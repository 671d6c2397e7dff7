------------------------------ MODULE WorkerRun ------------------------------
(***************************************************************************)
(* One task's coding runs: how a run is started, launched, recorded, stopped*)
(* and recovered (src-tauri/src/queue/executor.rs), the lease a provider    *)
(* process holds on the task's checkout (agents/provider_lease.rs), and the *)
(* two decisions a person can take about an interrupted run: accept what it *)
(* committed (commands/worker_recovery.rs) or authorize a new attempt       *)
(* (commands/worker_new_attempt.rs).                                        *)
(*                                                                         *)
(* Three kinds of actor interleave.  `op` is the operation that holds the   *)
(* task's lifecycle lease.  `worker` is the future that owns the run; it    *)
(* writes its outcome without that lease.  The provider processes in        *)
(* `procs` belong to the operating system: a SlashIt that dies leaves them  *)
(* running.                                                                 *)
(***************************************************************************)
EXTENDS Integers, FiniteSets

CONSTANTS
  MaxRuns,    \* runs a behaviour may start
  MaxEdits,   \* changes made to the checkout in a behaviour
  MaxFaults   \* failed writes and crashes in a behaviour

ASSUME RunsAssumption == MaxRuns \in Nat
ASSUME EditsAssumption == MaxEdits \in Nat
ASSUME FaultsAssumption == MaxFaults \in Nat

VARIABLES
  mem,        \* the task in AppState.task.tasks
  file,       \* the task in the board file, as a process on this machine reads it
  survivors,  \* the records a power loss may leave in that file
  confirmed,  \* worker_handoff_confirmed: never serialized
  decided,    \* new_attempt_confirmed: never serialized
  op,         \* the operation holding the task's lifecycle lease
  worker,     \* the run in running_handles
  cancel,     \* its cancel channel has fired
  held,       \* SlashIt itself holds the provider lease's lock
  note,       \* what the lease file records
  procs,      \* each run's provider process group
  tip,        \* the commit the task's branch is at
  tree,       \* the checkout's files; uncommitted when not the tip's
  settled,    \* runs that ended in sight, or that a person decided on
  up, faults

board == <<mem, file, survivors, confirmed, decided, faults>>
leaseFile == <<held, note>>
checkout == <<tip, tree>>
vars == <<mem, file, survivors, confirmed, decided, op, worker, cancel, held, note,
          procs, tip, tree, settled, up, faults>>

Runs == 1 .. MaxRuns

\* Contents of the checkout and the commits made of them, by version.
Versions == 0 .. MaxEdits
NoCommit == -1

\* The lease file does not exist; records nothing; records a spawn mark, or what
\* a failed write left of a record.  A run's number stands for its group's pid.
Missing == -2
Mark == -1
Empty == 0

Statuses == {"Backlog", "Queue", "InProgress", "AiReview", "Error"}
Phases == {"Idle", "Coding", "QaReview", "Failed"}
Stages == {"none", "Started", "Committed", "Resolved", "Recovery"}

\* The reason a run is held for recovery: one value for each text of the code.
Whys == {"none", "unowned", "stopped", "ended", "unconfirmed", "changed", "restart",
         "previous", "legacy", "commit", "mismatch", "moved"}

\* A person's authorization of a new attempt, with what they were shown.
NoDecision == [run |-> 0, why |-> "none", commit |-> NoCommit, tip |-> 0, tree |-> 0]
Decisions == [run : 0 .. MaxRuns, why : Whys, commit : Versions \cup {NoCommit},
              tip : Versions, tree : Versions]

\* run, head, why, commit, accepted: the Worker handoff's (commit is the recorded
\* or the observed one).  runs counts the RunStarted entries; failed, completed
\* and authorized are the runs of the other entries.
TaskRecord == [status : Statuses, phase : Phases, stage : Stages, why : Whys,
               run : 0 .. MaxRuns, head : Versions \cup {NoCommit},
               commit : Versions \cup {NoCommit}, accepted : BOOLEAN,
               runs : 0 .. MaxRuns, failed : SUBSET Runs, completed : SUBSET Runs,
               authorized : SUBSET Runs, decision : Decisions]

NewTask == [status |-> "Backlog", phase |-> "Idle", stage |-> "none", why |-> "none",
            run |-> 0, head |-> NoCommit, commit |-> NoCommit, accepted |-> FALSE,
            runs |-> 0, failed |-> {}, completed |-> {}, authorized |-> {},
            decision |-> NoDecision]

\* tip, tree: the checkout a person decided on.
Free == [step |-> "free", kind |-> "none", from |-> "none", to |-> "none",
         tip |-> 0, tree |-> 0]
Operations ==
  [step : {"free", "admitted", "leased", "recorded", "hold", "changed", "stop", "move",
           "accepting", "accepted", "moved"},
   kind : {"none", "Pending", "Direct", "NewAttempt"},
   from : Statuses \cup {"none"}, to : Statuses \cup {"none"},
   tip : Versions, tree : Versions]

NoWorker == [step |-> "none", run |-> 0, commit |-> NoCommit]
Workers ==
  [step : {"none", "launch", "marked", "spawned", "running", "exited", "committed",
           "unrecorded", "completing", "failed", "broken", "ending"},
   run : 0 .. MaxRuns, commit : Versions \cup {NoCommit}]

Outcomes == {"saved", "unconfirmed", "failed"}

TypeOK ==
  /\ mem \in TaskRecord
  /\ file \in TaskRecord
  /\ survivors \in SUBSET TaskRecord
  /\ confirmed \in BOOLEAN
  /\ decided \in BOOLEAN
  /\ op \in Operations
  /\ worker \in Workers
  /\ cancel \in BOOLEAN
  /\ held \in BOOLEAN
  /\ note \in {Missing, Mark, Empty} \cup Runs
  /\ procs \in [Runs -> {"none", "holds", "stray", "gone"}]
  /\ tip \in Versions
  /\ tree \in Versions
  /\ settled \in SUBSET Runs
  /\ up \in BOOLEAN
  /\ faults \in 0 .. MaxFaults

Init ==
  /\ mem = NewTask
  /\ file = NewTask
  /\ survivors = {NewTask}
  /\ confirmed = FALSE
  /\ decided = FALSE
  /\ op = Free
  /\ worker = NoWorker
  /\ cancel = FALSE
  /\ held = FALSE
  /\ note = Missing
  /\ procs = [n \in Runs |-> "none"]
  /\ tip = 0
  /\ tree = 0
  /\ settled = {}
  /\ up = TRUE
  /\ faults = 0

------------------------------------------------------------------------------
(* Durable writes *)

Fault == faults < MaxFaults /\ faults' = faults + 1

\* save_project_tasks: the record is on stable storage; it replaced the file and
\* was not confirmed durable; or nothing was replaced.
Save(r, o) ==
  /\ o \in Outcomes
  /\ IF o = "saved" THEN UNCHANGED faults ELSE Fault
  /\ file' = IF o = "failed" THEN file ELSE r
  /\ survivors' = IF o = "saved" THEN {r}
                  ELSE IF o = "unconfirmed" THEN survivors \cup {r}
                  ELSE survivors

\* publish_typed: persist, then adopt in memory what the file holds.
Publish(r, o) ==
  /\ Save(r, o)
  /\ mem' = IF o = "failed" THEN mem ELSE r

\* The staged record withdraws the acknowledgement; an unpublished one changes
\* nothing.
Withdraw(o) == confirmed' = (confirmed /\ o = "failed")

------------------------------------------------------------------------------
(* The task's record *)

Recovery_forgets_commit(r, n, c, w) ==
  [r EXCEPT !.stage = "Recovery", !.why = w, !.run = IF n = 0 THEN @ ELSE n,
            !.commit = c, !.status = "Error", !.phase = "Idle"]

\* stage_recovery_required, mark_worker_recovery_required: n = 0 keeps the run of
\* the record, and without an explicit commit the recorded one is kept.
Recovery(r, n, c, w) ==
  [r EXCEPT !.stage = "Recovery", !.why = w, !.run = IF n = 0 THEN @ ELSE n,
            !.commit = IF c = NoCommit THEN @ ELSE c,
            !.status = "Error", !.phase = "Idle"]

WithoutHandoff(r) ==
  [r EXCEPT !.stage = "none", !.why = "none", !.run = 0, !.head = NoCommit,
            !.commit = NoCommit, !.accepted = FALSE]

\* QueueManager::apply_promotion.
Promoted(r) == [r EXCEPT !.status = "InProgress", !.phase = "Idle"]

Ready_by_column(r) == r.status = "InProgress" /\ r.phase = "Idle"

\* Task::is_ready_to_execute.
Ready(r) ==
  /\ r.status = "InProgress"
  /\ r.phase = "Idle"
  /\ r.stage = "none" \/ (r.stage = "Resolved" /\ confirmed)

\* Task::worker_recovery_refusal.
RecoveryRefused(r) ==
  \/ r.stage \in {"Started", "Committed", "Recovery"}
  \/ /\ r.stage = "Resolved"
     /\ ~confirmed
     /\ r.status \in {"InProgress", "AiReview"}

\* Task::never_checked_out.
NeverCheckedOut(r) == r.stage = "none" /\ r.runs = 0

\* Task::new_attempt_admits.
NewAttemptAdmits(r) ==
  /\ decided
  /\ r.decision # NoDecision
  /\ r.stage = "Recovery"
  /\ r.decision.run = r.run
  /\ r.decision.why = r.why
  /\ r.decision.commit = r.commit

\* worktree::new_attempt::confirm: the checkout is the one the person was shown.
AsShown(d) == d.tip = tip /\ d.tree = tree

------------------------------------------------------------------------------
(* The provider lease *)

Alive(n) == procs[n] \in {"holds", "stray"}

\* A flock is free once every copy of the descriptor is closed.
LockFree == ~held /\ \A n \in Runs : procs[n] # "holds"

RecordAbsent_by_lock == note \in {Empty} \cup Runs

\* judge_record: an empty record, or a group that is gone.
RecordAbsent == note = Empty \/ (note \in Runs /\ ~Alive(note))

\* prove_absent.
ProvedAbsent == note # Missing /\ LockFree /\ RecordAbsent

\* prove_absent_for_start.
ProvedAbsentForStart == IF note = Missing THEN NeverCheckedOut(mem) ELSE ProvedAbsent

\* start_lease_admits: asked before a promotion, without the lock.
LeaseAdmits == IF note = Missing THEN NeverCheckedOut(mem) ELSE RecordAbsent

------------------------------------------------------------------------------
(* Starting a run, under the lifecycle lease *)

LeaseFree == up /\ op = Free
Owned == worker # NoWorker      \* is_task_running
Release == op' = Free

\* What start_execution_under_lease asks first, by who asks.
MayStart(kind) ==
  \/ kind = "Pending" /\ Ready(mem) /\ ProvedAbsentForStart
  \/ /\ kind = "Direct"
     /\ ~RecoveryRefused(mem)
     /\ mem.status \in {"InProgress", "Queue"}
     /\ ProvedAbsentForStart
  \/ /\ kind = "NewAttempt"
     /\ mem.status \in {"Error", "Backlog"}
     /\ NewAttemptAdmits(mem)
     /\ ProvedAbsent

\* A direct start of a task that is not waiting to run first makes it wait; the
\* pass ends here when no admission permit is free.
Admit(kind, permit, o) ==
  /\ LeaseFree
  /\ ~Owned
  /\ MayStart(kind)
  /\ LET promote == kind = "Direct" /\ ~Ready(mem)
     IN /\ IF promote THEN Publish(Promoted(mem), o)
           ELSE o = "saved" /\ UNCHANGED <<mem, file, survivors, faults>>
        /\ op' = IF permit /\ (promote => o = "saved")
                 THEN [Free EXCEPT !.step = "admitted", !.kind = kind] ELSE Free
  /\ UNCHANGED <<confirmed, decided, worker, cancel, leaseFile, procs, checkout, settled, up>>

\* set_task_error before any run: no checkout, or no repository, for this task.
\* A new attempt that is refused leaves the recovery as it is.
CannotAttach(o) ==
  /\ op.step = "admitted"
  /\ IF op.kind = "NewAttempt"
     THEN o = "saved" /\ UNCHANGED <<mem, file, survivors, confirmed, faults>>
     ELSE Publish([mem EXCEPT !.status = "Error", !.phase = "Failed"], o) /\ Withdraw(o)
  /\ Release
  /\ UNCHANGED <<decided, worker, cancel, leaseFile, procs, checkout, settled, up>>

\* acquire_proven, after a new attempt's checkout was found as the person saw it.
TakeLease ==
  /\ op.step = "admitted"
  /\ IF /\ op.kind = "NewAttempt" => AsShown(mem.decision)
        /\ LockFree
        /\ note = Missing \/ RecordAbsent
     THEN /\ op' = [op EXCEPT !.step = "leased", !.tip = mem.decision.tip,
                              !.tree = mem.decision.tree]
          /\ held' = TRUE
          /\ note' = IF note = Missing THEN Empty ELSE note
     ELSE Release /\ UNCHANGED leaseFile
  /\ UNCHANGED <<board, worker, cancel, procs, checkout, settled, up>>

\* The record of a start: the run's number, its handoff and, for a new attempt,
\* the decision it uses up, in one write.
Started(r, kind) ==
  [(IF kind = "NewAttempt" THEN [Promoted(r) EXCEPT !.decision = NoDecision] ELSE r) EXCEPT
     !.phase = "Coding", !.runs = @ + 1, !.stage = "Started", !.why = "none",
     !.run = r.runs + 1, !.head = tip, !.commit = NoCommit, !.accepted = FALSE]

RecordStart_trusts_unconfirmed(o) ==
  /\ op.step = "leased"
  /\ mem.runs < MaxRuns
  /\ op.kind = "NewAttempt" => op.tip = tip
  /\ Publish(Started(mem, op.kind), o)
  /\ Withdraw(o)
  /\ decided' = (decided /\ (o = "failed" \/ op.kind # "NewAttempt"))
  /\ settled' = IF o # "failed" /\ op.kind = "NewAttempt"
                THEN settled \cup {mem.decision.run} ELSE settled
  /\ op' = IF o = "failed" THEN Free ELSE [op EXCEPT !.step = "recorded"]
  /\ held' = (held /\ o # "failed")
  /\ UNCHANGED <<worker, cancel, note, procs, checkout, up>>

\* record_run_start_for: only a confirmed record goes on to a launch.
RecordStart(o) ==
  /\ op.step = "leased"
  /\ mem.runs < MaxRuns
  /\ op.kind = "NewAttempt" => op.tip = tip
  /\ Publish(Started(mem, op.kind), o)
  /\ Withdraw(o)
  /\ decided' = (decided /\ (o = "failed" \/ op.kind # "NewAttempt"))
  /\ settled' = IF o # "failed" /\ op.kind = "NewAttempt"
                THEN settled \cup {mem.decision.run} ELSE settled
  /\ op' = IF o = "failed" THEN Free
           ELSE [op EXCEPT !.step = IF o = "saved" THEN "recorded" ELSE "hold"]
  /\ held' = (held /\ o # "failed")
  /\ UNCHANGED <<worker, cancel, note, procs, checkout, up>>

\* The branch moved, or no further run is wanted: the lease is dropped unused.
GiveUpStart ==
  /\ op.step = "leased"
  /\ held' = FALSE
  /\ Release
  /\ UNCHANGED <<board, worker, cancel, note, procs, checkout, settled, up>>

\* record_recovery_required on behalf of a start that goes no further: its record
\* is visible and unconfirmed, or the checkout changed under it.
HoldStart(o) ==
  /\ op.step \in {"hold", "changed"}
  /\ Publish(Recovery(mem, mem.run, NoCommit,
                      IF op.step = "hold" THEN "unconfirmed" ELSE "changed"), o)
  /\ Withdraw(o)
  /\ held' = FALSE
  /\ Release
  /\ UNCHANGED <<decided, worker, cancel, note, procs, checkout, settled, up>>

\* The future is spawned and registered under one lock, unless a new attempt's
\* checkout is no longer what was authorized.
Launch ==
  /\ op.step = "recorded"
  /\ op.kind = "NewAttempt" => AsShown(op)
  /\ worker' = [step |-> "launch", run |-> mem.run, commit |-> NoCommit]
  /\ cancel' = FALSE
  /\ Release
  /\ UNCHANGED <<board, leaseFile, procs, checkout, settled, up>>

FindChanged ==
  /\ op.step = "recorded"
  /\ op.kind = "NewAttempt"
  /\ ~AsShown(op)
  /\ op' = [op EXCEPT !.step = "changed"]
  /\ UNCHANGED <<board, worker, cancel, leaseFile, procs, checkout, settled, up>>

------------------------------------------------------------------------------
(* The run's future *)

At(step) == up /\ worker.step = step
Goto(step) == worker' = [worker EXCEPT !.step = step]

\* A launch refused before anything was spawned.
RefuseLaunch ==
  /\ At("launch")
  /\ Goto("failed")
  /\ held' = FALSE
  /\ UNCHANGED <<board, op, cancel, note, procs, checkout, settled, up>>

\* mark_spawning: a mark that cannot be written means nothing is spawned, and may
\* be there in part.
MarkSpawning(ok) ==
  /\ At("launch")
  /\ IF ok THEN note' = Mark /\ Goto("marked") /\ UNCHANGED <<held, faults>>
     ELSE note' \in {note, Mark} /\ Goto("broken") /\ held' = FALSE /\ Fault
  /\ UNCHANGED <<mem, file, survivors, confirmed, decided, op, cancel, procs,
                 checkout, settled, up>>

\* The provider inherits the lease's descriptor, and with it the lock.
Spawn ==
  /\ At("marked")
  /\ procs' = [procs EXCEPT ![worker.run] = "holds"]
  /\ Goto("spawned")
  /\ UNCHANGED <<board, op, cancel, leaseFile, checkout, settled, up>>

\* The spawn itself failed: clear_spawn_mark, which may fail too.
SpawnFails(cleared) ==
  /\ At("marked")
  /\ Fault
  /\ note' = IF cleared THEN Empty ELSE Mark
  /\ held' = FALSE
  /\ Goto("broken")
  /\ UNCHANGED <<mem, file, survivors, confirmed, decided, op, cancel, procs,
                 checkout, settled, up>>

\* record_group, and SlashIt lets its own copy go.  When the record cannot be
\* written the whole group is killed under the lock.
RecordGroup(ok) ==
  /\ At("spawned")
  /\ held' = FALSE
  /\ IF ok THEN note' = worker.run /\ Goto("running") /\ UNCHANGED <<procs, faults>>
     ELSE /\ note' = Mark
          /\ procs' = [procs EXCEPT ![worker.run] = "gone"]
          /\ Goto("broken")
          /\ Fault
  /\ UNCHANGED <<mem, file, survivors, confirmed, decided, op, cancel, checkout,
                 settled, up>>

\* runner.wait: the leader has exited and its group is killed before it is
\* reaped.  A clean end with refused permissions and no work is an error too.
ProviderEnds(step) ==
  /\ At("running")
  /\ step \in {"exited", "failed", "broken"}
  /\ procs' = [procs EXCEPT ![worker.run] = "gone"]
  /\ settled' = IF step = "failed" THEN settled \cup {worker.run} ELSE settled
  /\ Goto(step)
  /\ UNCHANGED <<board, op, cancel, leaseFile, checkout, up>>

\* The select is biased: a provider that has already exited is not cancelled.
Cancelled ==
  /\ At("running")
  /\ cancel
  /\ Alive(worker.run)
  /\ Goto("ending")
  /\ UNCHANGED <<board, op, cancel, leaseFile, procs, checkout, settled, up>>

\* commit_changes: what the checkout holds, or the unchanged HEAD.
CommitChanges(ok) ==
  /\ At("exited")
  /\ IF ok THEN /\ tip' = tree
                /\ worker' = [worker EXCEPT !.step = "committed", !.commit = tree]
     ELSE Goto("broken") /\ UNCHANGED tip
  /\ UNCHANGED <<board, op, cancel, leaseFile, procs, tree, settled, up>>

\* record_committed_handoff: only the run's own Started record takes the commit.
RecordCommitted(o) ==
  /\ At("committed")
  /\ LET current == mem.stage = "Started" /\ mem.run = worker.run
         r == IF current THEN [mem EXCEPT !.stage = "Committed", !.commit = worker.commit]
              ELSE mem
     IN /\ Publish(r, o)
        /\ IF current THEN Withdraw(o) ELSE UNCHANGED confirmed
        /\ Goto(IF o = "unconfirmed" THEN "ending"
                ELSE IF o = "saved" /\ current THEN "completing" ELSE "unrecorded")
  /\ UNCHANGED <<decided, op, cancel, leaseFile, procs, checkout, settled, up>>

\* The commit exists and no record of it does.
RecordUnrecorded(o) ==
  /\ At("unrecorded")
  /\ Publish(Recovery(mem, worker.run, worker.commit, "commit"), o)
  /\ Withdraw(o)
  /\ Goto("ending")
  /\ UNCHANGED <<decided, op, cancel, leaseFile, procs, checkout, settled, up>>

Resolved(r, c) ==
  [r EXCEPT !.stage = "Resolved", !.why = "none", !.commit = c, !.status = "AiReview",
            !.phase = "QaReview", !.completed = @ \cup {r.run}]

RecordCompleted_confirms_visible(o) ==
  /\ At("completing")
  /\ LET current == mem.stage = "Committed" /\ mem.run = worker.run
     IN /\ Publish(IF current THEN Resolved(mem, mem.commit) ELSE mem, o)
        /\ confirmed' = (confirmed \/ (current /\ o # "failed"))
        /\ settled' = IF current /\ o # "failed" THEN settled \cup {worker.run} ELSE settled
  /\ Goto("ending")
  /\ UNCHANGED <<decided, op, cancel, leaseFile, procs, checkout, up>>

\* record_run_completed: the acknowledgement follows a confirmed write only.
RecordCompleted(o) ==
  /\ At("completing")
  /\ LET current == mem.stage = "Committed" /\ mem.run = worker.run
     IN /\ Publish(IF current THEN Resolved(mem, mem.commit) ELSE mem, o)
        /\ confirmed' = IF ~current \/ o = "failed" THEN confirmed ELSE o = "saved"
        /\ settled' = IF current /\ o # "failed" THEN settled \cup {worker.run} ELSE settled
  /\ Goto("ending")
  /\ UNCHANGED <<decided, op, cancel, leaseFile, procs, checkout, up>>

Failed_names_previous(r, n, exited) ==
  LET e == [r EXCEPT !.status = "Error", !.phase = "Failed", !.failed = @ \cup {n - 1}]
  IN IF ~(r.stage = "Started" /\ r.run = n) THEN e
     ELSE IF exited /\ n - 1 \notin r.authorized THEN WithoutHandoff(e)
     ELSE [e EXCEPT !.stage = "Recovery", !.why = "ended"]

\* set_task_error: an exit that was seen, of a run no person authorized, leaves
\* an ordinary retry; anything else is held for recovery.
Failed(r, n, exited) ==
  LET e == [r EXCEPT !.status = "Error", !.phase = "Failed", !.failed = @ \cup {n}]
  IN IF ~(r.stage = "Started" /\ r.run = n) THEN e
     ELSE IF exited /\ n - 1 \notin r.authorized THEN WithoutHandoff(e)
     ELSE [e EXCEPT !.stage = "Recovery", !.why = "ended"]

RecordFailed(o) ==
  /\ up
  /\ worker.step \in {"failed", "broken"}
  /\ Save(Failed(mem, worker.run, worker.step = "failed"), o)
  /\ mem' = IF o = "failed" THEN mem
            ELSE Failed(mem, worker.run, worker.step = "failed")
  /\ Withdraw(o)
  /\ Goto("ending")
  /\ UNCHANGED <<decided, op, cancel, leaseFile, procs, checkout, settled, up>>

\* runner.kill, and the run leaves running_handles.
EndRun ==
  /\ At("ending")
  /\ procs' = [procs EXCEPT ![worker.run] = IF @ = "none" THEN @ ELSE "gone"]
  /\ worker' = NoWorker
  /\ cancel' = FALSE
  /\ UNCHANGED <<board, op, leaseFile, checkout, settled, up>>

------------------------------------------------------------------------------
(* Stopping and moving the task *)

\* end_task_owners_under_lease: the owner is asked to end and joined.
BeginStop ==
  /\ LeaseFree
  /\ op' = [Free EXCEPT !.step = "stop"]
  /\ cancel' = Owned
  /\ UNCHANGED <<board, worker, leaseFile, procs, checkout, settled, up>>

\* The join timed out: the owner is put back where it was and the caller refused.
StopTimesOut ==
  /\ op.step \in {"stop", "move"}
  /\ Owned
  /\ Release
  /\ UNCHANGED <<board, worker, cancel, leaseFile, procs, checkout, settled, up>>

\* settle_stopped_static: only from the column the run was found in.
Stopped(r) ==
  LET s == [r EXCEPT !.status = "Backlog", !.phase = "Idle"]
  IN IF r.stage = "Started" THEN [s EXCEPT !.stage = "Recovery", !.why = "stopped"] ELSE s

SettleStop(o) ==
  /\ op.step = "stop"
  /\ ~Owned
  /\ IF mem.status = "InProgress"
     THEN /\ Publish(Stopped(mem), o)
          /\ IF mem.stage = "Started" THEN Withdraw(o) ELSE UNCHANGED confirmed
     ELSE o = "saved" /\ UNCHANGED <<mem, file, survivors, confirmed, faults>>
  /\ Release
  /\ UNCHANGED <<decided, worker, cancel, leaseFile, procs, checkout, settled, up>>

\* queue_move_refusal.
QueueRefused(r, to) == to = "Queue" /\ r.status # "Queue" /\ RecoveryRefused(r)

\* set_task_status: a move to another column ends the owner first.
BeginMove(to) ==
  /\ LeaseFree
  /\ ~(mem.status = "Queue" /\ to = "Queue")
  /\ ~QueueRefused(mem, to)
  /\ op' = [Free EXCEPT !.step = "move", !.from = mem.status, !.to = to]
  /\ cancel' = (cancel \/ (Owned /\ mem.status # to))
  /\ UNCHANGED <<board, worker, leaseFile, procs, checkout, settled, up>>

\* classify_status_transition.
MovedTo(r, from, to) ==
  [r EXCEPT !.status = to,
            !.phase = IF from = "Error" \/ to \in {"Backlog", "Queue", "InProgress"}
                      THEN "Idle" ELSE @]

Move(o) ==
  /\ op.step = "move"
  /\ op.from # op.to => ~Owned /\ ~QueueRefused(mem, op.to)
  /\ IF op.from = "Queue" /\ op.to = "InProgress"
     THEN mem.status = "Queue" /\ LeaseAdmits /\ Publish(Promoted(mem), o)
     ELSE Publish(MovedTo(mem, op.from, op.to), o)
  /\ Release
  /\ UNCHANGED <<confirmed, decided, worker, cancel, leaseFile, procs, checkout, settled, up>>

\* The owner's end left the task in recovery, or a promotion is not admitted.
RefuseMove ==
  /\ op.step = "move"
  /\ ~Owned
  /\ \/ QueueRefused(mem, op.to)
     \/ op.from = "Queue" /\ op.to = "InProgress" /\ ~(mem.status = "Queue" /\ LeaseAdmits)
  /\ Release
  /\ UNCHANGED <<board, worker, cancel, leaseFile, procs, checkout, settled, up>>

\* promote_queued from the poll: the board's write guard is its only lock.
Promote(o) ==
  /\ up
  /\ mem.status = "Queue"
  /\ LeaseAdmits
  /\ Publish(Promoted(mem), o)
  /\ UNCHANGED <<confirmed, decided, op, worker, cancel, leaseFile, procs, checkout,
                 settled, up>>

------------------------------------------------------------------------------
(* Recovery *)

\* reconcile_unattributed_worker_starts.
ReconcileStarted(o) ==
  /\ LeaseFree
  /\ ~Owned
  /\ mem.stage = "Started"
  /\ Publish(Recovery(mem, mem.run, NoCommit, "unowned"), o)
  /\ Withdraw(o)
  /\ UNCHANGED <<decided, op, worker, cancel, leaseFile, procs, checkout, settled, up>>

\* verify_worker_checkout with ExactTip: the branch is at the commit and the
\* checkout is clean.
Verified(c) == tip = c /\ tree = tip

Unreconciled_committed_only(r) ==
  /\ r.status \in {"InProgress", "AiReview"}
  /\ r.stage = "Committed"

\* reconcile_committed_worker_handoffs.
Unreconciled(r) ==
  /\ r.status \in {"InProgress", "AiReview"}
  /\ r.stage = "Committed" \/ (r.stage = "Resolved" /\ ~confirmed)

ReconcileCommitted(o) ==
  /\ LeaseFree
  /\ ~Owned
  /\ Unreconciled(mem)
  /\ IF Verified(mem.commit)
     THEN /\ Publish(Resolved(mem, mem.commit), o)
          /\ confirmed' = IF o = "failed" THEN confirmed ELSE o = "saved"
          /\ settled' = IF o = "failed" THEN settled ELSE settled \cup {mem.run}
     ELSE /\ Publish(Recovery(mem, mem.run, NoCommit, "mismatch"), o)
          /\ Withdraw(o)
          /\ UNCHANGED settled
  /\ UNCHANGED <<decided, op, worker, cancel, leaseFile, procs, checkout, up>>

\* worker_recovery::evaluate, with the tip the person approved.
MayAccept(r) ==
  /\ r.stage = "Recovery"
  /\ r.status \in {"Error", "Backlog"}
  /\ r.run # 0
  /\ r.head # NoCommit
  /\ r.run \notin r.failed
  /\ r.run \in r.completed => (r.accepted \/ r.commit # NoCommit)
  /\ tip = r.head => r.commit = tip
  /\ Verified(tip)

BeginAccept ==
  /\ LeaseFree
  /\ ~Owned
  /\ MayAccept(mem)
  /\ op' = [Free EXCEPT !.step = "accepting", !.tip = tip]
  /\ UNCHANGED <<board, worker, cancel, leaseFile, procs, checkout, settled, up>>

\* apply_acceptance.
Accept(o) ==
  /\ op.step = "accepting"
  /\ Publish([Resolved(mem, op.tip) EXCEPT !.accepted = TRUE], o)
  /\ Withdraw(o)
  /\ settled' = IF o = "failed" THEN settled ELSE settled \cup {mem.run}
  /\ op' = IF o = "saved" THEN [op EXCEPT !.step = "accepted"] ELSE Free
  /\ UNCHANGED <<decided, worker, cancel, leaseFile, procs, checkout, up>>

\* The acknowledgement is earned only while the branch is still at that commit.
ConfirmAccept ==
  /\ op.step = "accepted"
  /\ IF tip = op.tip THEN confirmed' = TRUE /\ Release
     ELSE op' = [op EXCEPT !.step = "moved"] /\ UNCHANGED confirmed
  /\ UNCHANGED <<mem, file, survivors, decided, faults, worker, cancel, leaseFile,
                 procs, checkout, settled, up>>

ReturnToRecovery(o) ==
  /\ op.step = "moved"
  /\ Publish(Recovery(mem, mem.run, NoCommit, "moved"), o)
  /\ Withdraw(o)
  /\ Release
  /\ UNCHANGED <<decided, worker, cancel, leaseFile, procs, checkout, settled, up>>

\* worker_new_attempt::record_decision: the person authorizes an attempt on the
\* recovery and the checkout they were shown.
Decide(o) ==
  /\ LeaseFree
  /\ ~Owned
  /\ mem.stage = "Recovery"
  /\ mem.status \in {"Error", "Backlog"}
  /\ mem.run # 0
  /\ mem.head # NoCommit
  /\ Publish([mem EXCEPT !.authorized = @ \cup {mem.run},
                         !.decision = [run |-> mem.run, why |-> mem.why,
                                       commit |-> mem.commit, tip |-> tip, tree |-> tree]], o)
  /\ decided' = IF o = "failed" THEN decided ELSE o = "saved"
  /\ UNCHANGED <<confirmed, op, worker, cancel, leaseFile, procs, checkout, settled, up>>

------------------------------------------------------------------------------
(* The rest of the machine *)

\* A provider, or anyone else, works in the checkout and commits there.
Edit ==
  /\ tree < MaxEdits
  /\ tree' = tree + 1
  /\ UNCHANGED <<board, op, worker, cancel, leaseFile, procs, tip, settled, up>>

GitCommit ==
  /\ tip # tree
  /\ tip' = tree
  /\ UNCHANGED <<board, op, worker, cancel, leaseFile, procs, tree, settled, up>>

\* The last process with the lease's descriptor is gone, leaving a descendant that
\* had closed it, or nothing.
GroupChanges(n) ==
  /\ \/ procs[n] = "holds" /\ procs' = [procs EXCEPT ![n] = "stray"]
     \/ Alive(n) /\ procs' = [procs EXCEPT ![n] = "gone"]
  /\ UNCHANGED <<board, op, worker, cancel, leaseFile, checkout, settled, up>>

\* SlashIt dies: its locks go with it, the providers do not.
Dies ==
  /\ up
  /\ up' = FALSE
  /\ Fault
  /\ op' = Free
  /\ worker' = NoWorker
  /\ cancel' = FALSE
  /\ held' = FALSE
  /\ confirmed' = FALSE
  /\ decided' = FALSE
  /\ UNCHANGED <<mem, note, checkout, settled>>

Crash == Dies /\ UNCHANGED <<file, survivors, procs>>

PowerLoss ==
  /\ Dies
  /\ file' \in survivors
  /\ survivors' = {file'}
  /\ procs' = [n \in Runs |-> IF procs[n] = "none" THEN "none" ELSE "gone"]

\* migrate_task.  A run is open while its start is its last entry.
Migrated(r) ==
  LET d == [r EXCEPT !.decision = NoDecision]
      open == d.runs # 0 /\ d.runs \notin d.failed \cup d.completed
      m == IF d.status = "InProgress" /\ d.stage = "Started"
           THEN Recovery(d, IF open THEN d.runs ELSE 0, NoCommit, "restart")
           ELSE IF d.status = "InProgress" /\ d.stage = "none"
           THEN IF open \/ d.phase = "Coding"
                THEN Recovery(d, IF open THEN d.runs ELSE 0, NoCommit, "legacy")
                ELSE [d EXCEPT !.status = "Queue"]
           ELSE IF d.stage = "Started" THEN Recovery(d, d.run, NoCommit, "previous")
           ELSE d
  IN IF m.status \in {"Backlog", "Queue"} THEN [m EXCEPT !.phase = "Idle"] ELSE m

\* build_state: the migrated board is what runs, saved or not.
Startup(o) ==
  /\ ~up
  /\ up' = TRUE
  /\ mem' = Migrated(file)
  /\ IF Migrated(file) = file
     THEN o = "saved" /\ UNCHANGED <<file, survivors, faults>>
     ELSE Save(Migrated(file), o)
  /\ UNCHANGED <<confirmed, decided, op, worker, cancel, leaseFile, procs, checkout, settled>>

------------------------------------------------------------------------------

StartStep == TakeLease \/ GiveUpStart \/ Launch \/ FindChanged
             \/ \E o \in Outcomes : CannotAttach(o) \/ RecordStart(o) \/ HoldStart(o)

WorkerStep == \/ Spawn \/ Cancelled \/ EndRun \/ RefuseLaunch
              \/ \E ok \in BOOLEAN : \/ MarkSpawning(ok) \/ SpawnFails(ok) \/ RecordGroup(ok)
                                     \/ CommitChanges(ok)
              \/ \E o \in Outcomes : \/ RecordCommitted(o) \/ RecordUnrecorded(o)
                                     \/ RecordCompleted(o) \/ RecordFailed(o)

LeaseStep == \/ StopTimesOut \/ RefuseMove \/ ConfirmAccept
             \/ \E o \in Outcomes : \/ SettleStop(o) \/ Move(o) \/ Accept(o)
                                    \/ ReturnToRecovery(o)

Request == \/ BeginStop \/ BeginAccept
           \/ \E to \in Statuses : BeginMove(to)
           \/ \E o \in Outcomes : \/ Promote(o) \/ Decide(o)
                                  \/ \E kind \in {"Pending", "Direct", "NewAttempt"},
                                        permit \in BOOLEAN : Admit(kind, permit, o)

Poll == \E o \in Outcomes : ReconcileStarted(o) \/ ReconcileCommitted(o)

Environment == \/ Edit \/ GitCommit \/ Crash \/ PowerLoss
               \/ \E n \in Runs : GroupChanges(n)
               \/ \E step \in {"exited", "failed", "broken"} : ProviderEnds(step)

Next == \/ StartStep \/ WorkerStep \/ LeaseStep \/ Request \/ Poll \/ Environment
        \/ \E o \in Outcomes : Startup(o)

Spec == Init /\ [][Next]_vars

\* Steps that were begun are finished, and the poll comes back every three
\* seconds, so one of its passes finds the lease free.
FairSpec == Spec /\ WF_vars(StartStep) /\ WF_vars(WorkerStep) /\ WF_vars(LeaseStep)
                 /\ SF_vars(Poll)


------------------------------------------------------------------------------
(* Properties *)

\* The lease and its record keep two providers out of one checkout, whoever
\* started them and however often SlashIt died in between: a second run's process
\* group exists only once no member of the first one's is left.
OneProvider == Cardinality({n \in Runs : Alive(n)}) <= 1

\* A provider runs only after its start can no longer be forgotten: whatever a
\* power loss leaves of the board counts the run, and unless it ended in sight or
\* was decided on, names it as the one whose work the checkout holds.
LaunchIsDurable ==
  \A n \in Runs : procs[n] # "none" =>
    \A r \in survivors :
      /\ r.runs >= n
      /\ r.runs = n /\ n \notin settled => r.run = n /\ r.stage # "none"

\* Nothing runs again on top of a run whose end nobody saw: before the next
\* provider is spawned, the earlier run ended in sight, reached review, or a
\* person decided about it.
NoSilentRerun ==
  \A m, n \in Runs : m < n /\ procs[m] # "none" /\ procs[n] # "none" => m \in settled

\* worker_handoff_confirmed lets a task out of recovery without asking again, so
\* it is true only when every record a power loss may leave is resolved at the
\* same commit; likewise new_attempt_confirmed and the decision it stands for.
ConfirmedIsDurable ==
  /\ confirmed => \A r \in survivors : r.stage = "Resolved" /\ r.commit = mem.commit
  /\ decided => \A r \in survivors : r.decision = mem.decision

\* The commit recorded for a run is evidence: once it is durable, every later
\* record of that run carries one, through failures, stops, moves, restarts and
\* power losses.
CommitEvidenceKept ==
  [][\A n \in Runs :
       (\A r \in survivors : r.run = n /\ r.commit # NoCommit)
         => \A r \in survivors' : r.run = n => r.commit # NoCommit]_vars

\* A run that nobody owns and whose outcome is not settled.
Dangling ==
  /\ up
  /\ ~Owned
  /\ \/ mem.stage = "Started"
     \/ /\ mem.status \in {"InProgress", "AiReview"}
        /\ mem.stage = "Committed" \/ (mem.stage = "Resolved" /\ ~confirmed)

\* The poll settles every run whose future is gone, whatever failed to be written
\* on the way: it ends in recovery, or in review with a confirmed record, unless
\* someone moves the task or SlashIt goes down first.
Settles == Dangling ~> ~Dangling
=============================================================================
