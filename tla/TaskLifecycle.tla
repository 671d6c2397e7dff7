---------------------------- MODULE TaskLifecycle ----------------------------
(***************************************************************************)
(* How a task is finished, cleaned up or deleted, and what of that survives *)
(* a crash: src-tauri/src/lifecycle.rs, with the worktree removal it runs   *)
(* (worktree/manager.rs), the completion of merged pull requests            *)
(* (queue/executor.rs) and the reconciliation of the next start             *)
(* (app_core.rs).                                                           *)
(*                                                                         *)
(* A task's lifecycle lease serializes the operations on it: `work[t]` is   *)
(* the operation that holds it.  Every durable write replaces the project's *)
(* whole board, under one write guard, from the board in memory.            *)
(***************************************************************************)
EXTENDS Naturals, FiniteSets

CONSTANTS
  Tasks,      \* the tasks of one project, one board file
  Observers,  \* who learns of a merged pull request: the poll, an explicit refresh
  Evidence,   \* the kinds of unfinished work a task may record
  MaxFaults   \* failed writes and crashes in a behaviour

ASSUME EvidenceAssumption == Evidence \subseteq {"republish", "recovery", "integration"}
ASSUME FaultAssumption == MaxFaults \in Nat

NoOne == "no one"

ASSUME TasksAssumption == NoOne \notin Tasks
ASSUME ObserversAssumption == "user" \notin Observers

VARIABLES
  mem,        \* AppState.task.tasks
  file,       \* the board file, as a process on this machine reads it
  survivors,  \* the boards a power loss may leave in the file
  unsaved,    \* startup reconciled the board and could not save it
  work,       \* the operation holding each task's lease
  checkout,   \* what is on disk for each task's worktree
  git,        \* a `git worktree remove` is running on the task's checkout
  agents,     \* the tasks an execution or an AI review owns
  seen,       \* the task an observer has decided to complete
  told,       \* what the last answer claimed about each task
  attempts,   \* automatic removals tried so far, for AutomaticOnce only
  up,         \* the process is running
  faults

disk == <<file, survivors>>
vars == <<mem, file, survivors, unsaved, work, checkout, git, agents, seen, told,
          attempts, up, faults>>

Statuses == {"InProgress", "HumanReview", "Done"}

\* wt: worktree_path is set; flag: cleanup_in_flight; hold: pending_republish, a
\* Worker handoff to recover, or a pending local_integration; merged: the pull
\* request is recorded MERGED.
TaskRecord == [status : Statuses, wt : BOOLEAN, flag : BOOLEAN,
               hold : Evidence \cup {"none"}, merged : BOOLEAN]

\* A task the board does not have.
NoTask == [status |-> "none", wt |-> FALSE, flag |-> FALSE, hold |-> "none", merged |-> FALSE]

Boards == [Tasks -> TaskRecord \cup {NoTask}]

\* dir: "cut" is partly deleted by a removal that has reported nothing yet,
\* "left" partly deleted by one that reported its failure; reg: git registers
\* the checkout; saved: SlashIt's own copy of that registration exists.
Checkouts == [dir : {"whole", "cut", "left", "absent"}, reg : BOOLEAN, saved : BOOLEAN]

Goals == {"done", "cleanup", "delete", "attach", "run"}
Steps == {"stamp", "remove", "git", "cleaned", "kept", "erase", "acquire", "created", "found"}
Free == [pc |-> "free", who |-> "user", goal |-> "none"]
Operations == {Free} \cup [pc : Steps, who : {"user"} \cup Observers, goal : Goals]

Outcomes == {"saved", "unconfirmed", "failed"}

TypeOK ==
  /\ mem \in Boards
  /\ file \in Boards
  /\ survivors \in SUBSET Boards
  /\ unsaved \in BOOLEAN
  /\ work \in [Tasks -> Operations]
  /\ checkout \in [Tasks -> Checkouts]
  /\ git \in [Tasks -> BOOLEAN]
  /\ agents \in SUBSET Tasks
  /\ seen \in [Observers -> Tasks \cup {NoOne}]
  /\ told \in [Tasks -> {"nothing", "finished", "deleted"}]
  /\ attempts \in [Tasks -> Nat]
  /\ up \in BOOLEAN
  /\ faults \in 0 .. MaxFaults

Init ==
  /\ mem = [t \in Tasks |-> [status |-> "InProgress", wt |-> FALSE, flag |-> FALSE,
                             hold |-> "none", merged |-> FALSE]]
  /\ file = mem
  /\ survivors = {mem}
  /\ unsaved = FALSE
  /\ work = [t \in Tasks |-> Free]
  /\ checkout = [t \in Tasks |-> [dir |-> "absent", reg |-> FALSE, saved |-> FALSE]]
  /\ git = [t \in Tasks |-> FALSE]
  /\ agents = {}
  /\ seen = [p \in Observers |-> NoOne]
  /\ told = [t \in Tasks |-> "nothing"]
  /\ attempts = [t \in Tasks |-> 0]
  /\ up = TRUE
  /\ faults = 0

------------------------------------------------------------------------------
(* Durable writes *)

\* save_project_tasks and what it reports: the board is on stable storage; it
\* replaced the file and was not confirmed durable; or nothing was replaced.
Save(board, o) ==
  /\ o \in Outcomes
  /\ faults' = IF o = "saved" THEN faults ELSE faults + 1
  /\ o # "saved" => faults < MaxFaults
  /\ file' = IF o = "failed" THEN file ELSE board
  /\ survivors' = IF o = "saved" THEN {board}
                  ELSE IF o = "unconfirmed" THEN survivors \cup {board}
                  ELSE survivors

\* publish_typed: persist, then adopt in memory exactly what the file holds.
Publish(board, o) ==
  /\ Save(board, o)
  /\ mem' = IF o = "failed" THEN mem ELSE board
  /\ unsaved' = IF o = "failed" THEN unsaved ELSE FALSE

------------------------------------------------------------------------------
(* Refusals *)

Exists(t) == mem[t] # NoTask
LeaseFree(t) == up /\ work[t] = Free

\* Task::integration_unfinished_refusal: only where the person can resume it.
IntegrationRefused(r) == r.hold = "integration" /\ r.status \in {"HumanReview", "Done"}

\* task_deletion_refusal, wherever the task's status put it.
DeletionRefused(r) == r.hold \in {"republish", "integration"}

\* What terminalize_leased refuses before anything is written.
TerminalizeRefused(t, who) ==
  \/ mem[t].hold \in {"republish", "recovery"}
  \/ IntegrationRefused(mem[t])
  \/ t \in agents
  \/ mem[t].flag /\ who # "user"

Enter(t, who, goal, pc) == work' = [work EXCEPT ![t] = [pc |-> pc, who |-> who, goal |-> goal]]
Goto(t, pc) == work' = [work EXCEPT ![t].pc = pc]
Release(t) == work' = [work EXCEPT ![t] = Free]

\* The removal a dead process left behind is over before anyone asks again.
Settled(t) == ~git[t]

------------------------------------------------------------------------------
(* terminalize and delete *)

\* Mutated form: a live run is not asked about.
Terminalize_under_agent(t, who, goal) ==
  /\ ~(mem[t].hold \in {"republish", "recovery"}) /\ ~IntegrationRefused(mem[t])
  /\ ~(mem[t].flag /\ who # "user")
  /\ Enter(t, who, goal, IF mem[t].wt THEN "stamp" ELSE "cleaned")

\* Mutated form: a pending restack or recovery does not hold the checkout.
Terminalize_ignores_evidence(t, who, goal) ==
  /\ t \notin agents /\ ~(mem[t].flag /\ who # "user")
  /\ Enter(t, who, goal, IF mem[t].wt THEN "stamp" ELSE "cleaned")

\* The head of terminalize_leased: nothing to remove goes straight to commit.
Terminalize(t, who, goal) ==
  /\ ~TerminalizeRefused(t, who)
  /\ Enter(t, who, goal, IF mem[t].wt THEN "stamp" ELSE "cleaned")

\* update_task_status to Done, cleanup_worktree, delete: a refusal changes
\* nothing, so only what is admitted is an action.
Ask(t, goal) ==
  /\ LeaseFree(t) /\ Settled(t) /\ Exists(t)
  /\ goal \in {"done", "cleanup", "delete"}
  /\ goal = "cleanup" => mem[t].wt
  /\ goal = "delete" => ~DeletionRefused(mem[t])
  /\ Terminalize(t, "user", goal)
  /\ told' = [told EXCEPT ![t] = "nothing"]
  /\ UNCHANGED <<mem, disk, unsaved, checkout, git, agents, seen, attempts, up, faults>>

\* Mutated form: the merge is recorded only once the task is finished.
Stamp_without_merge(t, o) ==
  /\ up /\ work[t].pc = "stamp"
  /\ Publish([mem EXCEPT ![t].flag = TRUE], o)
  /\ IF o = "saved" THEN Goto(t, "remove") ELSE Release(t)
  /\ UNCHANGED <<checkout, git, agents, seen, told, attempts, up>>

\* Mutated form: a stamp that is only in the file counts as durable.
Stamp_trusts_unconfirmed(t, o) ==
  /\ up /\ work[t].pc = "stamp"
  /\ Publish([mem EXCEPT ![t].flag = TRUE,
                         ![t].merged = @ \/ work[t].who # "user"], o)
  /\ IF o # "failed" THEN Goto(t, "remove") ELSE Release(t)
  /\ UNCHANGED <<checkout, git, agents, seen, told, attempts, up>>

\* stamp_cleanup_in_flight: durable before destructive.  An automatic caller
\* has the merge recorded in the same write (record_first).
Stamp(t, o) ==
  /\ up /\ work[t].pc = "stamp"
  /\ Publish([mem EXCEPT ![t].flag = TRUE,
                         ![t].merged = @ \/ work[t].who # "user"], o)
  /\ IF o = "saved" THEN Goto(t, "remove") ELSE Release(t)
  /\ UNCHANGED <<checkout, git, agents, seen, told, attempts, up>>

\* Mutated form: a kept checkout is committed as if it were gone.
Commit_ignores_kept(t, o) ==
  LET op == work[t]
  IN /\ up /\ op.pc \in {"cleaned", "kept"}
     /\ Publish([mem EXCEPT ![t].flag = FALSE, ![t].wt = FALSE,
                            ![t].merged = @ \/ op.who # "user",
                            ![t].status = IF op.goal = "done" THEN "Done" ELSE @], o)
     /\ IF o = "saved" /\ op.goal = "delete" THEN Goto(t, "erase") ELSE Release(t)
     /\ told' = [told EXCEPT ![t] = IF o = "saved" /\ op.goal = "done" THEN "finished" ELSE @]
     /\ UNCHANGED <<checkout, git, agents, seen, attempts, up>>

\* Mutated form: an unconfirmed write is reported as success.
Commit_reports_unconfirmed(t, o) ==
  LET op == work[t]
      cleaned == op.pc = "cleaned"
  IN /\ up /\ op.pc \in {"cleaned", "kept"}
     /\ Publish([mem EXCEPT ![t].flag = FALSE,
                            ![t].merged = @ \/ op.who # "user",
                            ![t].wt = @ /\ ~cleaned,
                            ![t].status = IF cleaned /\ op.goal = "done" THEN "Done" ELSE @], o)
     /\ IF o # "failed" /\ cleaned /\ op.goal = "delete" THEN Goto(t, "erase") ELSE Release(t)
     /\ told' = [told EXCEPT ![t] =
                   IF o # "failed" /\ cleaned /\ op.goal = "done" THEN "finished" ELSE @]
     /\ UNCHANGED <<checkout, git, agents, seen, attempts, up>>

\* commit: one write ends the operation.  Cleaned clears the path and sets the
\* status it was asked for; Kept clears only the flag.
Commit(t, o) ==
  LET op == work[t]
      cleaned == op.pc = "cleaned"
  IN /\ up /\ op.pc \in {"cleaned", "kept"}
     /\ Publish([mem EXCEPT ![t].flag = FALSE,
                            ![t].merged = @ \/ op.who # "user",
                            ![t].wt = @ /\ ~cleaned,
                            ![t].status = IF cleaned /\ op.goal = "done" THEN "Done" ELSE @], o)
     /\ IF o = "saved" /\ cleaned /\ op.goal = "delete" THEN Goto(t, "erase") ELSE Release(t)
     /\ told' = [told EXCEPT ![t] =
                   IF o = "saved" /\ cleaned /\ op.goal = "done" THEN "finished" ELSE @]
     /\ UNCHANGED <<checkout, git, agents, seen, attempts, up>>

\* Mutated form: memory keeps a task the file already lacks.
Erase_keeps_unconfirmed(t, o) ==
  /\ up /\ work[t].pc = "erase"
  /\ LET board == [mem EXCEPT ![t] = NoTask]
     IN Save(board, o) /\ mem' = IF o = "saved" THEN board ELSE mem
  /\ unsaved' = IF o = "failed" THEN unsaved ELSE FALSE
  /\ Release(t)
  /\ told' = [told EXCEPT ![t] = IF o = "saved" THEN "deleted" ELSE @]
  /\ UNCHANGED <<checkout, git, agents, seen, attempts, up>>

\* The tail of delete, under the same lease.
Erase(t, o) ==
  /\ up /\ work[t].pc = "erase"
  /\ Publish([mem EXCEPT ![t] = NoTask], o)
  /\ Release(t)
  /\ told' = [told EXCEPT ![t] = IF o = "saved" THEN "deleted" ELSE @]
  /\ UNCHANGED <<checkout, git, agents, seen, attempts, up>>

------------------------------------------------------------------------------
(* WorktreeManager::remove *)

Counted(t) == attempts' = IF work[t].who # "user" THEN [attempts EXCEPT ![t] = @ + 1] ELSE attempts

\* refuse_to_drop_detached_commit, or a git that refuses before it touches
\* anything: the checkout is dirty, locked, or cannot be examined.
RefuseRemoval(t) ==
  /\ up /\ work[t].pc = "remove"
  /\ Counted(t)
  /\ checkout' = [checkout EXCEPT ![t].dir = IF @ = "cut" THEN "left" ELSE @]
  /\ Goto(t, "kept")
  /\ UNCHANGED <<mem, disk, unsaved, git, agents, seen, told, up, faults>>

\* A registered directory: git's record is copied aside and git starts.
RunGit(t) ==
  /\ up /\ work[t].pc = "remove"
  /\ checkout[t].dir # "absent" /\ checkout[t].reg
  /\ Counted(t)
  /\ checkout' = [checkout EXCEPT ![t].saved = TRUE]
  /\ git' = [git EXCEPT ![t] = TRUE]
  /\ Goto(t, "git")
  /\ UNCHANGED <<mem, disk, unsaved, agents, seen, told, up, faults>>

\* The directory is gone already: git drops the registration it holds, if any,
\* and settle_missing_checkout calls that a removal.
RemoveMissing(t) ==
  /\ up /\ work[t].pc = "remove"
  /\ checkout[t].dir = "absent"
  /\ Counted(t)
  /\ checkout' = [checkout EXCEPT ![t].reg = FALSE, ![t].saved = FALSE]
  /\ Goto(t, "cleaned")
  /\ UNCHANGED <<mem, disk, unsaved, git, agents, seen, told, up, faults>>

\* WorktreeRecord::restore inside finish_removal; it may fail, and then the copy
\* is kept for the next attempt.
PutBack(c) ==
  {[c EXCEPT !.dir = "left", !.reg = @ \/ c.saved, !.saved = FALSE],
   [c EXCEPT !.dir = "left"]}

\* A directory git does not register: git fails at once and the copy an earlier
\* attempt saved is put back.
RemoveUnregistered(t) ==
  /\ up /\ work[t].pc = "remove"
  /\ checkout[t].dir # "absent" /\ ~checkout[t].reg
  /\ Counted(t)
  /\ \E c \in PutBack(checkout[t]) :
       checkout' = [checkout EXCEPT ![t] = [c EXCEPT !.dir = IF checkout[t].dir = "cut"
                                                             THEN "left" ELSE checkout[t].dir]]
  /\ Goto(t, "kept")
  /\ UNCHANGED <<mem, disk, unsaved, git, agents, seen, told, up, faults>>

\* git has exited: absence decides, and a registration lost on the way to a
\* failure is put back.
RemovalReported(t) ==
  /\ up /\ work[t].pc = "git" /\ ~git[t]
  /\ IF checkout[t].dir = "absent"
     THEN /\ checkout' = [checkout EXCEPT ![t].saved = FALSE]
          /\ Goto(t, "cleaned")
     ELSE /\ \E c \in PutBack(checkout[t]) : checkout' = [checkout EXCEPT ![t] = c]
          /\ Goto(t, "kept")
  /\ UNCHANGED <<mem, disk, unsaved, git, agents, seen, told, attempts, up, faults>>

\* git deletes the contents first ...
GitCuts(t) ==
  /\ git[t] /\ checkout[t].dir \in {"whole", "left"}
  /\ checkout' = [checkout EXCEPT ![t].dir = "cut"]
  /\ UNCHANGED <<mem, disk, unsaved, work, git, agents, seen, told, attempts, up, faults>>

GitEmpties(t) ==
  /\ git[t] /\ checkout[t].dir = "cut"
  /\ checkout' = [checkout EXCEPT ![t].dir = "absent"]
  /\ UNCHANGED <<mem, disk, unsaved, work, git, agents, seen, told, attempts, up, faults>>

\* ... and its registration last, also when it gives up partway.
GitUnregisters(t) ==
  /\ git[t] /\ checkout[t].dir \in {"cut", "absent"}
  /\ checkout' = [checkout EXCEPT ![t].reg = FALSE]
  /\ git' = [git EXCEPT ![t] = FALSE]
  /\ UNCHANGED <<mem, disk, unsaved, work, agents, seen, told, attempts, up, faults>>

GitStep(t) == GitCuts(t) \/ GitEmpties(t) \/ GitUnregisters(t)

------------------------------------------------------------------------------
(* Checkouts and their owners *)

\* Mutated form: the task is not looked up again under the lease.
BeginAttach_unchecked(t, goal) ==
  /\ LeaseFree(t) /\ Settled(t)
  /\ goal \in {"attach", "run"}
  /\ ~mem[t].flag
  /\ goal = "run" => mem[t].status = "InProgress" /\ t \notin agents
  /\ Enter(t, "user", goal, "acquire")
  /\ told' = [told EXCEPT ![t] = "nothing"]
  /\ UNCHANGED <<mem, disk, unsaved, checkout, git, agents, seen, attempts, up, faults>>

\* create_worktree, and the start of an execution: both take the lease, refuse a
\* quarantined task and acquire the checkout the same way; a start also asks
\* Task::is_ready_to_execute.
BeginAttach(t, goal) ==
  /\ LeaseFree(t) /\ Settled(t) /\ Exists(t)
  /\ goal \in {"attach", "run"}
  /\ ~mem[t].flag
  /\ goal = "run" => /\ mem[t].status = "InProgress" /\ t \notin agents
                     /\ mem[t].hold \notin {"republish", "recovery"}
  /\ Enter(t, "user", goal, "acquire")
  /\ told' = [told EXCEPT ![t] = "nothing"]
  /\ UNCHANGED <<mem, disk, unsaved, checkout, git, agents, seen, attempts, up, faults>>

\* acquire_task_worktree: a registered directory is reattached, a missing one is
\* created.
Acquire(t) ==
  /\ up /\ work[t].pc = "acquire"
  /\ \/ /\ checkout[t].dir # "absent" /\ checkout[t].reg
        /\ Goto(t, "found")
        /\ UNCHANGED checkout
     \/ /\ checkout[t].dir = "absent"
        /\ checkout' = [checkout EXCEPT ![t].dir = "whole", ![t].reg = TRUE]
        /\ Goto(t, "created")
     \/ /\ Release(t)
        /\ UNCHANGED checkout
  /\ UNCHANGED <<mem, disk, unsaved, git, agents, seen, told, attempts, up, faults>>

\* The record names the checkout, and only a confirmed record starts an agent;
\* release_unrecorded takes a new checkout back when nothing was published.
RecordCheckout(t, o) ==
  /\ up /\ work[t].pc \in {"created", "found"}
  /\ Publish([mem EXCEPT ![t].wt = TRUE], o)
  /\ agents' = IF o = "saved" /\ work[t].goal = "run" THEN agents \cup {t} ELSE agents
  /\ IF o = "failed" /\ work[t].pc = "created"
     THEN \/ checkout' = [checkout EXCEPT ![t].dir = "absent", ![t].reg = FALSE]
          \/ UNCHANGED checkout
     ELSE UNCHANGED checkout
  /\ Release(t)
  /\ UNCHANGED <<git, seen, told, attempts, up>>

AgentEnds(t) ==
  /\ up /\ t \in agents
  /\ agents' = agents \ {t}
  /\ UNCHANGED <<mem, disk, unsaved, work, checkout, git, seen, told, attempts, up, faults>>

\* The checkout's directory is deleted, or its drive unmounted, by hand.
DirectoryVanishes(t) ==
  /\ checkout[t].dir \in {"whole", "left"}
  /\ checkout' = [checkout EXCEPT ![t].dir = "absent"]
  /\ UNCHANGED <<mem, disk, unsaved, work, git, agents, seen, told, attempts, up, faults>>

\* set_task_status to any column but Done: the owner ends before the write,
\* whatever becomes of the write.
SetStatus(t, s, o) ==
  /\ LeaseFree(t) /\ Exists(t) /\ s \in Statuses \ {"Done", mem[t].status}
  /\ ~IntegrationRefused(mem[t])
  /\ agents' = agents \ {t}
  /\ Publish([mem EXCEPT ![t].status = s], o)
  /\ told' = [told EXCEPT ![t] = "nothing"]
  /\ UNCHANGED <<work, checkout, git, seen, attempts, up>>

\* A restack, an integration or a Worker run records that it began, or that it
\* ended, on a task with a checkout and under the lease.
SetEvidence(t, h, o) ==
  /\ LeaseFree(t) /\ Settled(t) /\ Exists(t) /\ h \in Evidence \cup {"none"}
  /\ IF h = "none" THEN mem[t].hold # "none" ELSE mem[t].hold = "none" /\ mem[t].wt
  /\ Publish([mem EXCEPT ![t].hold = h], o)
  /\ UNCHANGED <<work, checkout, git, agents, seen, told, attempts, up>>

------------------------------------------------------------------------------
(* Merged pull requests *)

InPrLifecycle(r) == r # NoTask /\ r.status \in {"HumanReview", "Done"}

\* polled_pull_requests and apply_polled_pr_state, up to the lease; an observer
\* applies one answer at a time.
Observe(p, t) ==
  /\ up /\ seen[p] = NoOne /\ \A u \in Tasks : work[u].who # p
  /\ InPrLifecycle(mem[t]) /\ ~mem[t].merged /\ ~mem[t].flag
  /\ seen' = [seen EXCEPT ![p] = t]
  /\ UNCHANGED <<mem, disk, unsaved, work, checkout, git, agents, told, attempts, up, faults>>

\* complete_merged_task under its lease: the column is read again, and the task
\* terminalized.
CompleteMerged(p) ==
  LET t == seen[p]
  IN /\ up /\ t # NoOne
     /\ LeaseFree(t) /\ Settled(t) /\ InPrLifecycle(mem[t])
     /\ Terminalize(t, p, "done")
     /\ seen' = [seen EXCEPT ![p] = NoOne]
     /\ told' = [told EXCEPT ![t] = "nothing"]
     /\ UNCHANGED <<mem, disk, unsaved, checkout, git, agents, attempts, up, faults>>

\* A stable blocker: the merge is recorded, so that the poll stops asking.
LatchMerge(p, o) ==
  LET t == seen[p]
  IN /\ up /\ t # NoOne
     /\ LeaseFree(t) /\ InPrLifecycle(mem[t])
     /\ mem[t].hold = "republish" \/ IntegrationRefused(mem[t])
     /\ Publish([mem EXCEPT ![t].merged = TRUE], o)
     /\ seen' = [seen EXCEPT ![p] = NoOne]
     /\ UNCHANGED <<work, checkout, git, agents, told, attempts, up>>

\* A passing condition (the lease is taken, an agent owns the task, it is
\* quarantined, moved away or gone): declining is free.
Decline(p) ==
  LET t == seen[p]
  IN /\ up /\ t # NoOne
     /\ \/ ~LeaseFree(t) \/ ~InPrLifecycle(mem[t])
        \/ mem[t].hold = "recovery" \/ t \in agents \/ mem[t].flag
     /\ seen' = [seen EXCEPT ![p] = NoOne]
     /\ UNCHANGED <<mem, disk, unsaved, work, checkout, git, agents, told, attempts, up, faults>>

------------------------------------------------------------------------------
(* Crashes and the next start *)

\* The process dies; a `git` it started may run on, and no agent outlives it
\* here (WorkerRun is about those).
Crash ==
  /\ up /\ faults < MaxFaults
  /\ up' = FALSE
  /\ faults' = faults + 1
  /\ work' = [t \in Tasks |-> Free]
  /\ agents' = {}
  /\ seen' = [p \in Observers |-> NoOne]
  /\ \E dies \in SUBSET Tasks : git' = [t \in Tasks |-> git[t] /\ t \notin dies]
  /\ UNCHANGED <<mem, disk, unsaved, checkout, told, attempts>>

\* Everything stops, and of the unconfirmed boards any may be the one left.
PowerLoss ==
  /\ faults < MaxFaults
  /\ up' = FALSE
  /\ faults' = faults + 1
  /\ work' = [t \in Tasks |-> Free]
  /\ agents' = {}
  /\ seen' = [p \in Observers |-> NoOne]
  /\ git' = [t \in Tasks |-> FALSE]
  /\ \E b \in survivors : file' = b /\ survivors' = {b}
  /\ UNCHANGED <<mem, unsaved, checkout, told, attempts>>

\* The worktree reconciliation of build_state_with_paths for one task; answers:
\* git could be asked.
Reconciled(r, c, answers) ==
  IF r = NoTask \/ r.hold = "recovery" THEN r
  ELSE IF ~r.wt THEN [r EXCEPT !.flag = FALSE]
  ELSE IF r.flag
       THEN IF c.dir = "absent" /\ ~c.reg /\ answers
            THEN [r EXCEPT !.wt = FALSE, !.flag = FALSE]
            ELSE r
  ELSE IF c.dir = "absent" /\ answers THEN [r EXCEPT !.wt = FALSE]
  ELSE r

\* A save that fails leaves the reconciled board in memory only.
Startup(o) ==
  /\ ~up
  /\ \E answers \in BOOLEAN :
       LET board == [t \in Tasks |-> Reconciled(file[t], checkout[t], answers)]
       IN /\ Save(board, o)
          /\ mem' = board
          /\ unsaved' = (o = "failed")
  /\ up' = TRUE
  /\ UNCHANGED <<work, checkout, git, agents, seen, told, attempts>>

------------------------------------------------------------------------------
Operation(t) ==
  \/ \E goal \in Goals : Ask(t, goal) \/ BeginAttach(t, goal)
  \/ \E o \in Outcomes : Stamp(t, o) \/ Commit(t, o) \/ Erase(t, o) \/ RecordCheckout(t, o)
  \/ RefuseRemoval(t) \/ RunGit(t) \/ RemoveMissing(t) \/ RemoveUnregistered(t)
  \/ RemovalReported(t)
  \/ Acquire(t) \/ AgentEnds(t)
  \/ \E o \in Outcomes, s \in Statuses : SetStatus(t, s, o)
  \/ \E o \in Outcomes, h \in Evidence \cup {"none"} : SetEvidence(t, h, o)

Observer(p) ==
  \/ \E t \in Tasks : Observe(p, t)
  \/ CompleteMerged(p) \/ Decline(p)
  \/ \E o \in Outcomes : LatchMerge(p, o)

Next ==
  \/ \E t \in Tasks : Operation(t) \/ GitStep(t) \/ DirectoryVanishes(t)
  \/ \E p \in Observers : Observer(p)
  \/ Crash \/ PowerLoss
  \/ \E o \in Outcomes : Startup(o)

Spec == Init /\ [][Next]_vars

------------------------------------------------------------------------------
(* Properties *)

FlaggedIn(board, t) == board[t] # NoTask /\ board[t].wt /\ board[t].flag

\* Durable before destructive: a checkout that a removal is taking apart, or was
\* when the process or the machine stopped, is flagged cleanup_in_flight in
\* every board a restart may read, so no restart can take it for a healthy one.
InterruptedIsFlagged ==
  \A t \in Tasks : git[t] \/ checkout[t].dir = "cut" => \A b \in survivors : FlaggedIn(b, t)

\* No agent owns a task whose checkout a removal is touching or has left in the
\* middle, and the board never calls such a checkout trustworthy.
AgentOutOfRemoval ==
  \A t \in agents : /\ ~git[t] /\ checkout[t].dir # "cut"
                    /\ mem[t] # NoTask /\ ~mem[t].flag

\* A write that stops naming a checkout (Done, cleaned up, deleted, reconciled)
\* is made only when the directory is gone: no board ever strands one.
NeverStranded ==
  [][ \A t \in Tasks, b \in survivors' \ survivors :
        checkout[t].dir # "absent" /\ (b[t] = NoTask \/ ~b[t].wt)
          => \E old \in survivors \cup {mem} : old[t] = NoTask \/ ~old[t].wt ]_vars

\* What the user was told is finished or deleted stays so through any power loss.
AnswersAreDurable ==
  \A t \in Tasks, b \in survivors :
    /\ told[t] = "deleted" => b[t] = NoTask
    /\ told[t] = "finished" => b[t] # NoTask /\ b[t].status = "Done" /\ ~b[t].wt /\ ~b[t].flag

\* Memory and the file never drift apart while the process runs: a sibling's
\* next save writes back exactly what the file holds.  A startup whose save
\* failed is the one exception, and then the file is the more cautious of the two.
MemoryFollowsFile ==
  up => \A t \in Tasks :
          IF unsaved
          THEN mem[t] # NoTask => /\ file[t] # NoTask
                                  /\ mem[t].flag => file[t].flag
                                  /\ mem[t].wt => file[t].wt
          ELSE mem[t] = file[t]

\* The evidence of a pending restack or an interrupted Worker keeps its checkout:
\* no removal runs against it, whoever asked and whatever crashed in between.
EvidenceKeepsCheckout ==
  \A t \in Tasks : git[t] \/ work[t].pc \in {"remove", "git"} =>
    \A b \in survivors : b[t] # NoTask => b[t].hold \notin {"republish", "recovery"}

\* "once the merge is durable, only an explicit lifecycle action finishes the
\* task": a merged pull request is worth one automatic removal, ever.
AutomaticOnce == \A t \in Tasks : attempts[t] <= 1
==============================================================================
