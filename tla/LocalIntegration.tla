---------------------------- MODULE LocalIntegration ----------------------------
(***************************************************************************)
(* Integrating approved work into a local branch, commands/integration.rs    *)
(* over worktree/integration.rs: a plan is recorded on the task, the target   *)
(* branch is moved from the commit the plan was made against, and the record  *)
(* becomes Integrated.  Anything may stop it in between; a person resumes or  *)
(* discards what is left.                                                     *)
(*                                                                           *)
(* Every request holds the target branch's lock, then its task's lifecycle    *)
(* lease, to its end: `op` is the one request there can be.  Around it move   *)
(* the target branch and its checkout, the other tasks, and the deliveries of *)
(* Approve & Create PR, which hold the lease only to begin and to end.        *)
(***************************************************************************)
EXTENDS Naturals, FiniteSets

CONSTANTS
  Tasks,        \* tasks of one project, with one target branch
  Checkouts,    \* checkouts the target branch may be checked out in
  MaxNames,     \* commits made on any branch after the first ones
  MaxFaults,    \* failed or unconfirmed writes, and crashes
  Delivered,    \* tasks a person asks a pull request of
  Undisturbed   \* steps during which no one touches the target's checkout

ASSUME IntegrationAssumption ==
  /\ IsFiniteSet(Tasks) /\ Tasks \cap Nat = {}
  /\ Delivered \subseteq Tasks /\ "none" \notin Checkouts
  /\ MaxNames \in Nat /\ MaxFaults \in Nat

VARIABLES
  task,       \* the tasks in memory and in the board file
  survivors,  \* the boards a power loss may leave
  faults,
  tip,        \* each task's branch
  made,       \* names given to commits so far
  target,     \* the target branch
  where,      \* the checkout that has it checked out
  files,      \* what that checkout's index and files hold
  pins,       \* refs/slashit/integration/<task>: tasks whose planned result is kept
  op,         \* the integration request under way
  delivery,   \* each task's delivery as a pull request
  opened,     \* tasks whose pull request exists on GitHub
  lost,       \* tasks whose request's outcome was once not learned or not recorded
  held        \* every commit the target has had in its history

board == <<task, survivors, faults>>
repository == <<tip, made, target, held>>
checkout == <<where, files>>
github == <<delivery, opened, lost>>
vars == <<board, repository, checkout, pins, op, github>>

\* A commit is the names in its history.  0 is the commit every branch starts
\* from, a task names the first commit on its branch.
Names == Tasks \cup 0 .. MaxNames
Commits == SUBSET Names
NoCommit == {}
Root == {0}

\* merge-base --is-ancestor.
Includes(c, ancestor) == ancestor # NoCommit /\ ancestor \subseteq c

\* Files somebody edited are at no commit.
Edited == NoCommit

\* domain::LocalIntegration; the strategy follows from the commits.
Plans == [state : {"none", "pending", "integrated"}, old : Commits, approved : Commits,
          result : Commits, checkout : Checkouts \cup {"none"}, completes : BOOLEAN]
NoPlan == [state |-> "none", old |-> NoCommit, approved |-> NoCommit, result |-> NoCommit,
           checkout |-> "none", completes |-> FALSE]

\* asked: pr_create_unconfirmed.  "done" is Done by a local completion.
TaskRecords == [status : {"work", "review", "done", "created"}, approved : Commits,
                local : Plans, asked : BOOLEAN, pr : BOOLEAN]
Boards == [Tasks -> TaskRecords]

Steps == {"idle", "plan", "record", "advance", "updateRef", "merge", "mergeRef", "observe",
          "finish", "complete", "clear", "resume"}

\* completes: Complete and Integrate.  tip, checkout: what the person was shown.
Idle == [step |-> "idle", task |-> "none", completes |-> FALSE, tip |-> NoCommit,
         checkout |-> "none", plan |-> NoPlan]

TypeOK ==
  /\ task \in Boards
  /\ survivors \subseteq Boards
  /\ task \in survivors
  /\ faults \in 0 .. MaxFaults
  /\ tip \in [Tasks -> Commits]
  /\ made \in 0 .. MaxNames
  /\ target \in Commits
  /\ where \in Checkouts \cup {"none"}
  /\ files \in Commits
  /\ pins \subseteq Tasks
  /\ op \in [step : Steps, task : Tasks \cup {"none"}, completes : BOOLEAN, tip : Commits,
             checkout : Checkouts \cup {"none"}, plan : Plans]
  /\ op.step # "idle" => op.task \in Tasks
  /\ delivery \in [Tasks -> {"no", "marked", "reserved", "requested"}]
  /\ opened \subseteq Tasks
  /\ lost \subseteq Tasks
  /\ held \in Commits

\* A run has put every task in Human Review, one commit ahead of the target.
Init ==
  /\ task = [t \in Tasks |-> [status |-> "review", approved |-> NoCommit, local |-> NoPlan,
                              asked |-> FALSE, pr |-> FALSE]]
  /\ survivors = {task}
  /\ faults = 0
  /\ tip = [t \in Tasks |-> Root \cup {t}]
  /\ made = 0
  /\ target = Root
  /\ where = "none"
  /\ files = NoCommit
  /\ pins = {}
  /\ op = Idle
  /\ delivery = [t \in Tasks |-> "no"]
  /\ opened = {}
  /\ lost = {}
  /\ held = Root

------------------------------------------------------------------------------
(* Writing a task, and what a request is refused for *)

Outcomes == {"saved", "unconfirmed", "failed"}

\* Mutated form: memory takes the new record whatever became of the write.
Save_ignores_failure(t, r, o) ==
  LET b == [task EXCEPT ![t] = r] IN
  /\ o \in Outcomes
  /\ o # "saved" => faults < MaxFaults
  /\ faults' = IF o = "saved" THEN faults ELSE faults + 1
  /\ task' = b
  /\ survivors' = IF o = "saved" THEN {b}
                  ELSE IF o = "unconfirmed" THEN survivors \cup {b}
                  ELSE survivors

\* lifecycle::record: memory takes exactly what the file holds, and anything
\* but a confirmed write is reported as an error.
Save(t, r, o) ==
  LET b == [task EXCEPT ![t] = r] IN
  /\ o \in Outcomes
  /\ o # "saved" => faults < MaxFaults
  /\ faults' = IF o = "saved" THEN faults ELSE faults + 1
  /\ task' = IF o = "failed" THEN task ELSE b
  /\ survivors' = IF o = "saved" THEN {b}
                  ELSE IF o = "unconfirmed" THEN survivors \cup {b}
                  ELSE survivors

\* The lifecycle lease of a task is free: its holders are one step long, but
\* for an integration.
Free(t) == op.task # t

Pending(t) == task[t].local.state = "pending"

\* Task::integrating_current_approval.
Integrating(t) ==
  /\ task[t].local.state # "none"
  /\ Pending(t) \/ (task[t].approved # NoCommit /\ task[t].local.approved = task[t].approved)

\* Task::integration_unfinished_refusal: the columns a plan is resumed from.
Pinned(t) ==
  /\ Pending(t)
  /\ task[t].status = "done" \/ (task[t].status = "review" /\ task[t].approved # NoCommit)

\* Mutated form: a delivery that has not recorded its pull request is not seen.
Eligible_ignores_deliveries(t, completes) ==
  /\ task[t].status = IF completes THEN "review" ELSE "done"
  /\ task[t].approved # NoCommit
  /\ ~task[t].pr

\* eligible, for the task's own intent.
Eligible(t, completes) ==
  /\ task[t].status = IF completes THEN "review" ELSE "done"
  /\ task[t].approved # NoCommit
  /\ ~task[t].pr /\ delivery[t] = "no"

\* human_review::check_completable.
Completable(t) ==
  /\ task[t].status = "review" /\ task[t].approved # NoCommit
  /\ ~task[t].pr /\ delivery[t] = "no"
  /\ ~Pending(t)

\* worktree::integration::observe; `result` is `old` when nothing has to move.
Applied(plan) == Includes(target, IF plan.result = plan.old THEN plan.approved ELSE plan.result)
Unmoved(plan) == target = plan.old

\* What inspect_checkout says of the checkout at `path`.
Ready(path, plan) == where = path /\ target = plan.old /\ files = target
FilesAlreadyUpdated(path, plan) ==
  where = path /\ target = plan.old /\ files = plan.result /\ files # target

Goto(step) == op' = [op EXCEPT !.step = step]
End == op' = Idle
Refuse == End /\ UNCHANGED <<board, repository, checkout, pins, github>>
Step(step) == Goto(step) /\ UNCHANGED <<board, repository, checkout, pins, github>>

MoveTarget(c) == target' = c /\ held' = held \cup c /\ UNCHANGED <<tip, made>>

------------------------------------------------------------------------------
(* An integration *)

\* integrate, and complete_and_integrate from Human Review.  The person was
\* shown the target and its checkout as they are; both may change before the
\* plan.
Ask(t, completes) ==
  /\ op = Idle
  /\ completes => task[t].status = "review"
  /\ op' = [step |-> IF Pending(t) THEN "resume"
                     ELSE IF completes /\ Integrating(t) /\ Includes(target, task[t].approved)
                       THEN "complete"   \* completion_pending
                       ELSE "plan",
            task |-> t, completes |-> completes, tip |-> target, checkout |-> where,
            plan |-> NoPlan]
  /\ UNCHANGED <<board, repository, checkout, pins, github>>

Contained(t) == Includes(target, task[t].approved)

\* Mutated form: the branch as it is, not the commit that was approved.
Result_of_branch(t) ==
  IF Contained(t) THEN target
  ELSE IF Includes(tip[t], target) THEN tip[t]
  ELSE target \cup tip[t] \cup {made + 1}

\* worktree::integration::plan: nothing, a fast-forward, or a merge commit.
Result(t) ==
  IF Contained(t) THEN target
  ELSE IF Includes(task[t].approved, target) THEN task[t].approved
  ELSE target \cup task[t].approved \cup {made + 1}
NeedsMerge(t) == ~Contained(t) /\ ~Includes(task[t].approved, target)

\* sweep_orphan_pins: of tasks with no plan, whose lease is free.
Swept == {t \in pins : Pending(t) \/ ~Free(t)}

\* integrate_locked up to its record, for a plan that is not made already.
Plan ==
  LET t == op.task IN
  /\ op.step = "plan"
  /\ Eligible(t, op.completes) /\ target # NoCommit
  /\ Includes(tip[t], task[t].approved)
  /\ ~(Integrating(t) /\ Contained(t))
  /\ \A u \in Tasks : ~Pending(u)                         \* other_pending_on
  /\ target = op.tip
  /\ ~Contained(t) => where = op.checkout
  /\ NeedsMerge(t) => made < MaxNames
  /\ LET plan == [state |-> "pending", old |-> target, approved |-> task[t].approved,
                  result |-> Result(t), completes |-> op.completes,
                  checkout |-> IF Contained(t) THEN "none" ELSE where]
     IN /\ (~Contained(t) /\ where # "none") =>
             Ready(where, plan) \/ FilesAlreadyUpdated(where, plan)
        /\ op' = [Idle EXCEPT !.step = "record", !.task = t, !.plan = plan]
  /\ pins' = IF Contained(t) THEN Swept ELSE Swept \cup {t}
  /\ made' = IF NeedsMerge(t) THEN made + 1 ELSE made
  /\ UNCHANGED <<board, tip, target, held, checkout, github>>

\* The approved commit was integrated already: the task answers, or completes.
PlanMade ==
  LET t == op.task IN
  /\ op.step = "plan"
  /\ Eligible(t, op.completes) /\ Includes(tip[t], task[t].approved)
  /\ Integrating(t) /\ Contained(t)
  /\ IF op.completes THEN Step("complete") ELSE Refuse

\* Anything the person was shown changed, or the plan cannot be made.
PlanRefused == op.step = "plan" /\ Refuse

\* The record is on disk before the target moves; when that is not known, the
\* request stops and its pin goes.
RecordPlan(o) ==
  LET t == op.task IN
  /\ op.step = "record"
  /\ Save(t, [task[t] EXCEPT !.local = op.plan], o)
  /\ IF o = "saved" THEN Goto("advance") /\ pins' = pins ELSE End /\ pins' = pins \ {t}
  /\ UNCHANGED <<repository, checkout, github>>

\* advance: where the target is checked out decides how it moves.
Advance ==
  LET plan == op.plan IN
  /\ op.step = "advance"
  /\ \/ plan.result = plan.old /\ Step("finish")
     \/ plan.result # plan.old /\ where = "none" /\ Step("updateRef")
     \/ /\ plan.result # plan.old /\ where # "none"
        /\ IF where # plan.checkout THEN Step("observe")
           ELSE IF Ready(where, plan) THEN Step("merge")
           ELSE IF FilesAlreadyUpdated(where, plan) THEN Step("updateRef")
           ELSE Step("observe")

\* git update-ref <target> <result> <old>.
UpdateRef ==
  /\ op.step = "updateRef"
  /\ IF target = op.plan.old
     THEN Goto("finish") /\ MoveTarget(op.plan.result)
     ELSE Goto("observe") /\ UNCHANGED repository
  /\ UNCHANGED <<board, checkout, pins, github>>

\* git merge --ff-only in the checkout: the files, unless somebody edited them...
Merge ==
  /\ op.step = "merge"
  /\ IF where = op.plan.checkout /\ target = op.plan.old /\ files = target
     THEN Goto("mergeRef") /\ files' = op.plan.result
     ELSE Goto("observe") /\ UNCHANGED files
  /\ UNCHANGED <<board, repository, where, pins, github>>

\* ...then the branch, from where git read it.
MergeRef ==
  /\ op.step = "mergeRef"
  /\ IF where = op.plan.checkout /\ target = op.plan.old
     THEN Goto("finish") /\ MoveTarget(op.plan.result)
     ELSE Goto("observe") /\ UNCHANGED repository
  /\ UNCHANGED <<board, checkout, pins, github>>

\* Mutated form: a move that was attempted is taken to have been made.
Observe_assumes == op.step = "observe" /\ Step("finish")

\* apply, when the move failed: the target itself says what happened.
Observe ==
  /\ op.step = "observe"
  /\ IF Applied(op.plan) THEN Step("finish")
     ELSE IF Unmoved(op.plan) THEN Refuse
     ELSE Step("clear")

\* finish: the pin goes once the record is known to be on disk.
Finish(o) ==
  LET t == op.task IN
  /\ op.step = "finish"
  /\ Save(t, [task[t] EXCEPT !.local.state = "integrated"], o)
  /\ IF o = "saved"
     THEN /\ pins' = pins \ {t}
          /\ IF op.plan.completes /\ task[t].status = "review" THEN Goto("complete") ELSE End
     ELSE End /\ pins' = pins
  /\ UNCHANGED <<repository, checkout, github>>

\* complete_after_integration: Done, unless git will not remove the checkout.
Complete(o) ==
  LET t == op.task IN
  /\ op.step = "complete"
  /\ Completable(t)
  /\ Save(t, [task[t] EXCEPT !.status = "done"], o)
  /\ End
  /\ UNCHANGED <<repository, checkout, pins, github>>

CompleteRefused == op.step = "complete" /\ Refuse

\* clear_pending.
Clear(o) ==
  LET t == op.task IN
  /\ op.step = "clear"
  /\ Save(t, [task[t] EXCEPT !.local = NoPlan], o)
  /\ pins' = IF o = "saved" THEN pins \ {t} ELSE pins
  /\ End
  /\ UNCHANGED <<repository, checkout, github>>

\* resume_locked: what the target says, then everything the plan rested on.
Resume ==
  LET t == op.task plan == task[t].local IN
  /\ op.step = "resume"
  /\ op' = [op EXCEPT !.plan = plan,
                      !.step = IF Applied(plan) THEN "finish"
                               ELSE IF ~Unmoved(plan) THEN "clear" ELSE "advance"]
  /\ (~Applied(plan) /\ Unmoved(plan)) =>
       /\ Eligible(t, task[t].status = "review")
       /\ task[t].approved = plan.approved /\ Includes(tip[t], plan.approved)
  /\ pins' = IF ~Applied(plan) /\ Unmoved(plan) /\ plan.result # plan.old
             THEN pins \cup {t} ELSE pins
  /\ UNCHANGED <<board, repository, checkout, github>>

ResumeRefused == op.step = "resume" /\ Unmoved(task[op.task].local) /\ Refuse

AskResume(t) ==
  /\ op = Idle /\ Pending(t)
  /\ op' = [Idle EXCEPT !.step = "resume", !.task = t]
  /\ UNCHANGED <<board, repository, checkout, pins, github>>

\* discard: refused once the target holds the work.
Discard(t) ==
  /\ op = Idle /\ Pending(t) /\ ~Applied(task[t].local)
  /\ op' = [Idle EXCEPT !.step = "clear", !.task = t, !.plan = task[t].local]
  /\ UNCHANGED <<board, repository, checkout, pins, github>>

Integration ==
  \/ \E t \in Tasks : AskResume(t) \/ Discard(t) \/ \E completes \in BOOLEAN : Ask(t, completes)
  \/ Plan \/ PlanMade \/ PlanRefused
  \/ Advance \/ UpdateRef \/ Merge \/ MergeRef \/ Observe
  \/ CompleteRefused \/ Resume \/ ResumeRefused
  \/ \E o \in Outcomes : RecordPlan(o) \/ Finish(o) \/ Complete(o) \/ Clear(o)
=============================================================================
