------------------------------ MODULE Coordinator ------------------------------
(***************************************************************************)
(* Task changes proposed in a Project Conversation, conversation_actions.rs,  *)
(* through lifecycle.rs to the start of the run an approval admits             *)
(* (queue/executor.rs).  A decision is written in three steps over two files   *)
(* that cannot be written together: the approval in the Conversation, the      *)
(* change in the board, the outcome in the Conversation.  Anything may stop it *)
(* between two of them; the person repeats the approval.                       *)
(*                                                                           *)
(* A decision holds the Project's Conversation lock to its end, and the Task's *)
(* lifecycle lease for its board write alone: `op` is the one decision there   *)
(* can be, and people and the executor act on the Task between its steps.      *)
(* One Task; a start that is refused or fails, and what a run does to the      *)
(* checkout, are WorkerRun's.                                                  *)
(***************************************************************************)
EXTENDS Naturals, FiniteSets

CONSTANTS
  Actions,     \* ids of the proposed actions
  Inputs,      \* coding inputs of the Task: what its digest covers
  MaxRuns,     \* runs of the Task
  MaxFaults    \* failed or unconfirmed writes, and crashes

ASSUME CoordinatorAssumption ==
  "none" \notin Actions /\ Inputs # {} /\ MaxRuns \in Nat /\ MaxFaults \in Nat

VARIABLES
  task,        \* the Task in memory and in the board file
  boards,      \* the records of it a power loss may leave
  conv,        \* the actions in the Conversation file, which every decision reloads
  convs,       \* what a power loss may leave of them
  op,          \* the decision under way
  live,        \* the executor drives a run of the Task
  launched,    \* runs of the Task a provider was launched for
  faults

board == <<task, boards>>
conversation == <<conv, convs>>
vars == <<board, conversation, op, live, launched, faults>>

\* The one approved_execution; run 0 stands for none.
Bindings == [approval : Actions \cup {"none"}, input : Inputs, request : BOOLEAN,
             reuses : BOOLEAN, run : 0 .. MaxRuns + 1]

\* "work" is In Progress before the start is recorded, "running" after it.
\* A Task that has run holds a checkout.  recovery: worker_recovery_refusal.
Statuses == {"unborn", "deleted", "backlog", "queue", "work", "running", "review", "error"}
Tasks == [status : Statuses, input : Inputs, runs : 0 .. MaxRuns, bound : Bindings,
          executed : SUBSET Actions, recovery : BOOLEAN]

NoInput == CHOOSE i \in Inputs : TRUE
NoBinding == [approval |-> "none", input |-> NoInput, request |-> FALSE, reuses |-> FALSE,
              run |-> 0]

Fresh(status, input) == [status |-> status, input |-> input, runs |-> 0, bound |-> NoBinding,
                         executed |-> {}, recovery |-> FALSE]
Exists(t) == t.status \notin {"unborn", "deleted"}

\* domain::conversation::ProjectAction: what the proposal named (TaskMutation),
\* the run the named checkout was shown for, and where the decision is.
Kinds == {"none", "create", "edit", "move", "enqueue", "execute"}
Mutations == [kind : Kinds, from : Statuses, input : Inputs, to : Inputs,
              reuses : BOOLEAN, run : 0 .. MaxRuns + 1,
              status : {"none", "proposed", "approved", "rejected", "applied", "refused"}]
Unproposed == [kind |-> "none", from |-> "unborn", input |-> NoInput, to |-> NoInput,
               reuses |-> FALSE, run |-> 0, status |-> "none"]

\* The forms of a proposal; each holds what its kind names and no more.
Shown ==
  {m \in Mutations :
     /\ m.kind # "none" /\ m.status = "proposed"
     /\ m.kind # "edit" => m.to = NoInput
     /\ IF m.kind = "move" THEN m.from \in {"queue", "error"} /\ m.input = NoInput
                           ELSE m.from = "unborn"
     /\ IF m.kind = "execute" THEN m.run > 0 /\ (m.reuses <=> m.run > 1)
                              ELSE m.run = 0 /\ ~m.reuses}

Idle == [step |-> "idle", action |-> "none", outcome |-> "none"]

TypeOK ==
  /\ task \in Tasks /\ boards \subseteq Tasks /\ task \in boards
  /\ conv \in [Actions -> Mutations] /\ convs \subseteq [Actions -> Mutations]
  /\ conv \in convs
  /\ op \in [step : {"idle", "execute", "check", "record"}, action : Actions \cup {"none"},
             outcome : {"none", "applied", "refused"}]
  /\ op.step # "idle" => conv[op.action].status = "approved"
  /\ live \in BOOLEAN
  /\ launched \subseteq [run : 1 .. MaxRuns, under : Bindings, input : Inputs]
  /\ faults \in 0 .. MaxFaults

\* The Task is on the board already, or one of the actions will create it.
Init ==
  /\ task \in {Fresh(s, NoInput) : s \in {"unborn", "backlog"}}
  /\ boards = {task}
  /\ conv = [a \in Actions |-> Unproposed]
  /\ convs = {conv}
  /\ op = Idle
  /\ live = FALSE
  /\ launched = {}
  /\ faults = 0

------------------------------------------------------------------------------
(* The two files *)

Outcomes == {"saved", "unconfirmed", "failed"}

Count(o) ==
  /\ o # "saved" => faults < MaxFaults
  /\ faults' = IF o = "saved" THEN faults ELSE faults + 1

After(o, old, new) == IF o = "failed" THEN old ELSE new
Survive(o, possible, new) ==
  IF o = "saved" THEN {new} ELSE IF o = "unconfirmed" THEN possible \cup {new} ELSE possible

\* lifecycle::publish: memory takes what the file holds; all but a confirmed
\* write is an error to the caller.
Save(t, o) == Count(o) /\ task' = After(o, task, t) /\ boards' = Survive(o, boards, t)

\* Mutated form: the caller goes on with what it could not write.
Persist_ignores_failure(c, o) == Count(o) /\ conv' = c /\ convs' = Survive(o, convs, c)

\* persist_then_commit.  The caller's copy goes with its error, and the next
\* decision loads the file.
Persist(c, o) == Count(o) /\ conv' = After(o, conv, c) /\ convs' = Survive(o, convs, c)

------------------------------------------------------------------------------
(* Proposals and decisions *)

\* What may be proposed of the Task as it is: TaskMutation::create (a Task of its
\* own), edit, move_task with coordinator_may_move, enqueue_task, execute_request.
Proposable(m) ==
  /\ m.status = "proposed"
  /\ m.kind # "move" => m.input = task.input
  /\ \/ m.kind = "create" /\ task.status = "unborn" /\ \A x \in Actions : conv[x].kind # "create"
     \/ m.kind = "edit" /\ Exists(task) /\ m.to # task.input
     \/ m.kind = "move" /\ task.status \in {"queue", "error"} /\ m.from = task.status
     \/ m.kind = "enqueue" /\ task.status = "backlog"
     \/ /\ m.kind = "execute" /\ task.status = "backlog" /\ ~task.recovery
        /\ m.run = task.runs + 1 /\ m.reuses = (task.runs > 0)

\* ProjectAction::proposed draws a new id: nothing on disk names it, nor did a run.
Unused(a) ==
  /\ \A c \in convs : c[a] = Unproposed
  /\ \A b \in boards : a # b.bound.approval /\ a \notin b.executed
  /\ \A l \in launched : a # l.under.approval

\* record_proposal.
Propose(a, m, o) ==
  /\ op = Idle /\ Unused(a)
  /\ Proposable(m)
  /\ Persist([conv EXCEPT ![a] = m], o)
  /\ UNCHANGED <<board, op, live, launched>>

Decided(a, status) == [conv EXCEPT ![a].status = status]

\* decide, to the end of step 1.  An action found Approved is a retry, and
\* nothing is written before its change.
Approve(a, o) ==
  /\ op = Idle
  /\ \/ conv[a].status = "proposed" /\ Persist(Decided(a, "approved"), o)
     \/ conv[a].status = "approved" /\ o = "saved" /\ UNCHANGED <<conversation, faults>>
  /\ op' = IF o = "saved" THEN [Idle EXCEPT !.step = "execute", !.action = a] ELSE Idle
  /\ UNCHANGED <<board, live, launched>>

Reject(a, o) ==
  /\ op = Idle
  /\ conv[a].status = "proposed" /\ Persist(Decided(a, "rejected"), o)
  /\ UNCHANGED <<board, op, live, launched>>

Mutation == conv[op.action]
Executing(kinds) == op.step = "execute" /\ Mutation.kind \in kinds

\* The outcome is known, and nothing was written.
Found(outcome) ==
  /\ op' = [op EXCEPT !.step = "record", !.outcome = outcome]
  /\ UNCHANGED <<board, conversation, live, launched, faults>>

\* Step 2's write: an error leaves the action Approved.
Change(t, o) ==
  /\ Save(t, o)
  /\ op' = IF o = "saved" THEN [op EXCEPT !.step = "record", !.outcome = "applied"] ELSE Idle
  /\ UNCHANGED <<conversation, live, launched>>

\* lifecycle::create, unless a Task with the reserved id is there.
Create(o) ==
  /\ Executing({"create"})
  /\ IF Exists(task) THEN o = "saved" /\ Found("applied")
     ELSE Change(Fresh("backlog", Mutation.input), o)

\* edit_task: at the approved value, at neither, or changed.
Edit(o) ==
  /\ Executing({"edit"})
  /\ IF Exists(task) /\ task.input = Mutation.to THEN o = "saved" /\ Found("applied")
     ELSE IF ~Exists(task) \/ task.input # Mutation.input THEN o = "saved" /\ Found("refused")
     ELSE Change([task EXCEPT !.input = Mutation.to], o)

\* record_move and reset_execution_state.
Moved(t, status) == [t EXCEPT !.status = status,
                              !.bound = IF status = t.status THEN @ ELSE NoBinding]

\* move_task.
Move(o) ==
  /\ Executing({"move"})
  /\ IF task.status = "backlog" THEN o = "saved" /\ Found("applied")
     ELSE IF task.status # Mutation.from THEN o = "saved" /\ Found("refused")
     ELSE Change(Moved(task, "backlog"), o)

\* Mutated form: that a run has been started under the approval is not asked.
QueueEntry_again(a) ==
  LET m == conv[a] IN
  /\ task.status = "backlog" /\ ~task.recovery
  /\ task.input = m.input
  /\ (m.kind = "execute" /\ task.runs > 0) => m.reuses /\ m.run = task.runs + 1

\* queue_entry_check: the Task is the one that was shown, no run was started
\* under this approval, and a checkout it holds is the one the request names.
QueueEntry(a) ==
  LET m == conv[a] IN
  /\ task.status = "backlog" /\ ~task.recovery
  /\ task.input = m.input
  /\ a \notin task.executed
  /\ m.reuses => task.runs > 0
  /\ (m.kind = "execute" /\ task.runs > 0) => m.reuses /\ m.run = task.runs + 1

Binding(a) == [approval |-> a, input |-> conv[a].input, request |-> conv[a].kind = "execute",
               reuses |-> conv[a].reuses, run |-> task.runs + 1]

\* enqueue_leased, with its binding in the same write.
Enqueue(o) ==
  /\ Executing({"enqueue", "execute"}) /\ task.status # "queue"
  /\ IF QueueEntry(op.action)
     THEN Change([Moved(task, "queue") EXCEPT !.bound = Binding(op.action)], o)
     ELSE o = "saved" /\ Found("refused")

\* Already in Queue: recorded as found queued, and for a request only once
\* another look, without the lease, finds this approval on the Task.
EnqueueAlready ==
  /\ Executing({"enqueue", "execute"}) /\ task.status = "queue"
  /\ IF Mutation.kind = "enqueue" THEN Found("applied")
     ELSE op' = [op EXCEPT !.step = "check"]
          /\ UNCHANGED <<board, conversation, live, launched, faults>>

Check ==
  /\ op.step = "check"
  /\ Found(IF Exists(task) /\ (task.bound.approval = op.action \/ op.action \in task.executed)
           THEN "applied" ELSE "refused")

\* Step 3.
Record(o) ==
  /\ op.step = "record"
  /\ Persist(Decided(op.action, op.outcome), o)
  /\ op' = Idle
  /\ UNCHANGED <<board, live, launched>>

------------------------------------------------------------------------------
(* The executor *)

Amend(t, o) == Save(t, o) /\ UNCHANGED <<conversation, op>>

\* commit_selected and apply_promotion: no binding is touched.
Promote(o) ==
  /\ task.status = "queue" /\ ~live
  /\ Amend([task EXCEPT !.status = "work"], o)
  /\ UNCHANGED <<live, launched>>

\* check_approved_input: Superseded or Differs.
Refused_at_start ==
  /\ task.bound # NoBinding
  /\ task.bound.run # task.runs + 1 \/ task.bound.input # task.input

\* fail_stale_approval.
StaleApproval(o) ==
  /\ task.status = "work" /\ Refused_at_start
  /\ Amend(Moved(task, "error"), o)
  /\ UNCHANGED <<live, launched>>

Started ==
  [task EXCEPT !.status = "running", !.runs = @ + 1, !.bound = NoBinding,
               !.executed = @ \cup ({task.bound.approval} \ {"none"})]

\* The start's record ends the binding and names the approval that admitted it.
\* A provider is launched only when the record is known to be on disk.
RecordStart(o) ==
  /\ task.status = "work" /\ ~Refused_at_start /\ task.runs < MaxRuns
  /\ Amend(Started, o)
  /\ live' = (o = "saved")
  /\ launched' = IF o = "saved"
                 THEN launched \cup {[run |-> task.runs + 1, under |-> task.bound,
                                      input |-> task.input]}
                 ELSE launched

\* record_recovery_required, of a start that was not launched.
HoldStart(o) ==
  /\ task.status = "running" /\ ~live
  /\ Amend([task EXCEPT !.status = "error", !.recovery = TRUE], o)
  /\ UNCHANGED <<live, launched>>

\* The run ends, whatever is recorded of it.
FinishRun(to, o) ==
  /\ live
  /\ Amend(Moved(task, to), o)
  /\ live' = FALSE
  /\ UNCHANGED launched

------------------------------------------------------------------------------
(* People at the board, and the process *)

Settled == task.status \in {"backlog", "queue", "review", "error"}

EditTask(input, o) ==
  /\ Exists(task) /\ input # task.input
  /\ Amend([task EXCEPT !.input = input], o)
  /\ UNCHANGED <<live, launched>>

MoveTask(o) ==
  /\ Settled /\ task.status # "backlog"
  /\ Amend(Moved(task, "backlog"), o)
  /\ UNCHANGED <<live, launched>>

\* enqueue_current: no approval, no binding.
EnqueueTask(o) ==
  /\ Settled /\ task.status # "queue" /\ ~task.recovery
  /\ Amend(Moved(task, "queue"), o)
  /\ UNCHANGED <<live, launched>>

\* apply_acceptance: a person takes what the interrupted run left (a new attempt
\* is WorkerRun's).
Accept(o) ==
  /\ task.recovery /\ task.status \in {"error", "backlog"}
  /\ Amend([task EXCEPT !.status = "review", !.recovery = FALSE], o)
  /\ UNCHANGED <<live, launched>>

\* What a Task's record said of its runs goes with it.
Delete(o) ==
  /\ Settled
  /\ Amend(Fresh("deleted", NoInput), o)
  /\ launched' = IF o = "failed" THEN launched ELSE {}
  /\ UNCHANGED live

\* migrate_task.
Migrated(t) ==
  IF t.status = "running" THEN [t EXCEPT !.status = "error", !.recovery = TRUE]
  ELSE IF t.status = "work" THEN [t EXCEPT !.status = "queue"]
  ELSE t

\* The process ends, or the power fails and each file holds what it may hold.
Crash ==
  /\ faults < MaxFaults
  /\ faults' = faults + 1
  /\ \/ task' = Migrated(task) /\ boards' = boards \cup {task'} /\ UNCHANGED conversation
     \/ /\ \E t \in boards : task' = Migrated(t) /\ boards' = {t, task'}
        /\ conv' \in convs /\ convs' = {conv'}
  /\ op' = Idle
  /\ live' = FALSE
  /\ UNCHANGED launched

Decisions ==
  \/ EnqueueAlready \/ Check
  \/ \E o \in Outcomes :
       \/ \E a \in Actions : \/ \E m \in Shown : Propose(a, m, o)
                             \/ Approve(a, o) \/ Reject(a, o)
       \/ Create(o) \/ Edit(o) \/ Move(o) \/ Enqueue(o) \/ Record(o)

Executor ==
  \E o \in Outcomes : \/ Promote(o) \/ StaleApproval(o) \/ RecordStart(o) \/ HoldStart(o)
                      \/ \E to \in {"review", "error"} : FinishRun(to, o)

People ==
  \E o \in Outcomes : \/ \E input \in Inputs : EditTask(input, o)
                      \/ MoveTask(o) \/ EnqueueTask(o) \/ Accept(o) \/ Delete(o)

Next == Decisions \/ Executor \/ People \/ Crash

Spec == Init /\ [][Next]_vars

------------------------------------------------------------------------------
(* Properties *)

Under(a) == {l \in launched : l.under.approval = a}

\* One approval admits one run of the Task, however often it is repeated after
\* crashes, lost writes and moves, and that run gets what the person saw: the
\* Task's input, the request, and the checkout for this very run
\* (queue_entry_check, check_approved_input, executed_approvals).
ApprovedRunOnce ==
  \A a \in Actions : \A l \in Under(a) :
    /\ Under(a) = {l}
    /\ a \in task.executed
    /\ l.under.run = l.run /\ l.under.input = l.input
    /\ \A c \in convs : c[a].kind # "none" =>
         /\ l.input = c[a].input
         /\ l.under.request = (c[a].kind = "execute")
         /\ l.under.request => l.run = c[a].run

\* "Step 1 of the protocol: the decision is durable before any effect"
\* (conversation_actions.rs): whatever a power loss leaves of the two files, a
\* Task bound to an approval, or run under it, has a Conversation that says so.
DecisionIsDurable ==
  \A b \in boards, c \in convs, a \in Actions :
    (a = b.bound.approval \/ a \in b.executed) =>
      c[a].status \in {"approved", "applied", "refused"}
==============================================================================
