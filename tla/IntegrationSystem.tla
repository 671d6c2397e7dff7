---------------------------- MODULE IntegrationSystem ----------------------------
(***************************************************************************)
(* LocalIntegration with what moves around it: decisions in Human Review,     *)
(* completion without a pull request, deliveries through one, work on the     *)
(* branches and in the target's checkout, and crashes.                        *)
(***************************************************************************)
EXTENDS LocalIntegration

------------------------------------------------------------------------------
(* Human Review: each takes its task's lease for one step *)

\* record_approval: the commit the person was shown, and the branch is at it.
Approve(t, o) ==
  /\ Free(t)
  /\ task[t].status = "review" /\ task[t].approved = NoCommit
  /\ Save(t, [task[t] EXCEPT !.approved = tip[t]], o)
  /\ UNCHANGED <<repository, checkout, pins, op, github>>

ApproveAgain(t, o) ==
  /\ Free(t)
  /\ task[t].status = "review" /\ task[t].approved \notin {NoCommit, tip[t]}
  /\ ~task[t].pr /\ delivery[t] = "no" /\ ~Integrating(t)
  /\ Save(t, [task[t] EXCEPT !.approved = tip[t]], o)
  /\ UNCHANGED <<repository, checkout, pins, op, github>>

CompleteLocally(t, o) ==
  /\ Free(t)
  /\ Completable(t) /\ tip[t] = task[t].approved
  /\ Save(t, [task[t] EXCEPT !.status = "done"], o)
  /\ UNCHANGED <<repository, checkout, pins, op, github>>

\* A move back to work, refused where the plan would be left unreachable.  It
\* ends a delivery that owns the task, and waits for it (Delivery).
BeginWork(t, o) ==
  /\ Free(t) /\ delivery[t] \in {"no", "marked"}
  /\ task[t].status # "work" /\ ~Pinned(t)
  /\ Save(t, [task[t] EXCEPT !.status = "work", !.approved = NoCommit], o)
  /\ UNCHANGED <<repository, checkout, pins, op, github>>

FinishRun(t, o) ==
  /\ Free(t) /\ task[t].status = "work"
  /\ Save(t, [task[t] EXCEPT !.status = "review", !.approved = NoCommit], o)
  /\ UNCHANGED <<repository, checkout, pins, op, github>>

------------------------------------------------------------------------------
(* A delivery through a pull request (PullRequest has its steps) *)

\* approve with a pull request, or retry_delivery: the mark, without a lease.
Deliver(t) ==
  /\ t \in Delivered /\ delivery[t] = "no"
  /\ task[t].status = "review" /\ task[t].approved # NoCommit
  /\ delivery' = [delivery EXCEPT ![t] = "marked"]
  /\ UNCHANGED <<board, repository, checkout, pins, op, opened, lost>>

\* create_pr_for_approved_task, under the lease.
Admitted(t) ==
  task[t].status = "review" /\ task[t].approved = tip[t] /\ ~Integrating(t)

Reserve(t) ==
  /\ Free(t) /\ delivery[t] = "marked"
  /\ delivery' = [delivery EXCEPT ![t] = IF Admitted(t) THEN "reserved" ELSE "no"]
  /\ UNCHANGED <<board, repository, checkout, pins, op, opened, lost>>

\* A request is recorded before it is sent.  An earlier one with no answer is
\* followed up by looking for its pull request, and none is sent.
Request(t, o) ==
  /\ delivery[t] = "reserved"
  /\ IF task[t].asked
     THEN /\ o = "saved"
          /\ delivery' = [delivery EXCEPT ![t] = IF t \in opened THEN "requested" ELSE "no"]
          /\ UNCHANGED <<board, opened>>
     ELSE /\ Save(t, [task[t] EXCEPT !.asked = TRUE], o)
          /\ delivery' = [delivery EXCEPT ![t] = IF o = "saved" THEN "requested" ELSE "no"]
          /\ opened' = IF o = "saved" THEN opened \cup {t} ELSE opened
  /\ UNCHANGED <<repository, checkout, pins, op, lost>>

\* GitHub's answer does not come, and the listing does not show it yet.
LoseAnswer(t) ==
  /\ delivery[t] = "requested" /\ faults < MaxFaults
  /\ faults' = faults + 1
  /\ delivery' = [delivery EXCEPT ![t] = "no"]
  /\ lost' = lost \cup {t}
  /\ UNCHANGED <<task, survivors, repository, checkout, pins, op, opened>>

\* link_pr_to_task_reserved, under the lease.
Link(t, o) ==
  /\ Free(t) /\ delivery[t] = "requested"
  /\ Save(t, [task[t] EXCEPT !.pr = TRUE, !.asked = FALSE,
                             !.status = IF Pinned(t) THEN @ ELSE "created"], o)
  /\ delivery' = [delivery EXCEPT ![t] = "no"]
  /\ lost' = IF o = "saved" THEN lost ELSE lost \cup {t}
  /\ UNCHANGED <<repository, checkout, pins, op, opened>>

------------------------------------------------------------------------------
(* The branches, the target's checkout, and the process *)

Name == made < MaxNames /\ made' = made + 1

Commit(t) ==
  /\ Name
  /\ tip' = [tip EXCEPT ![t] = @ \cup {made'}]
  /\ UNCHANGED <<board, target, held, checkout, pins, op, github>>

\* Amended or rebased: the old commits are not on the branch any more.
Rewrite(t) ==
  /\ Name
  /\ tip' = [tip EXCEPT ![t] = Root \cup {made'}]
  /\ UNCHANGED <<board, target, held, checkout, pins, op, github>>

Calm == op.step \notin Undisturbed

\* Somebody commits on the target, wherever it is.
TargetGrows ==
  /\ target # NoCommit /\ (where # "none" => Calm)
  /\ Name
  /\ target' = target \cup {made'}
  /\ held' = held \cup target'
  /\ files' = IF where = "none" THEN files ELSE target'
  /\ UNCHANGED <<board, tip, where, pins, op, github>>

\* Somebody resets it to where it started, or deletes it when nothing has it.
TargetReset ==
  /\ where # "none" => Calm
  /\ target' \in {Root, NoCommit} \ {target}
  /\ target' = NoCommit => where = "none"
  /\ files' = IF where = "none" THEN files ELSE target'
  /\ UNCHANGED <<board, tip, made, held, where, pins, op, github>>

CheckOut(path) ==
  /\ Calm /\ where = "none" /\ target # NoCommit
  /\ where' = path /\ files' = target
  /\ UNCHANGED <<board, repository, pins, op, github>>

\* Its checkout goes to another branch.
Leave ==
  /\ Calm /\ where # "none"
  /\ where' = "none" /\ files' = NoCommit
  /\ UNCHANGED <<board, repository, pins, op, github>>

Edit ==
  /\ Calm /\ where # "none" /\ files # Edited
  /\ files' = Edited
  /\ UNCHANGED <<board, repository, where, pins, op, github>>

\* The person commits nothing and restores the files.
Restore ==
  /\ Calm /\ where # "none" /\ files # target
  /\ files' = target
  /\ UNCHANGED <<board, repository, where, pins, op, github>>

\* The process dies, or power is lost and the file holds any board it may hold.
Crash ==
  /\ faults < MaxFaults
  /\ faults' = faults + 1
  /\ \/ UNCHANGED <<task, survivors>>
     \/ task' \in survivors /\ survivors' = {task'}
  /\ op' = Idle
  /\ delivery' = [t \in Tasks |-> "no"]
  /\ lost' = lost \cup {t \in Tasks : delivery[t] = "requested"}
  /\ UNCHANGED <<repository, checkout, pins, opened>>

Surroundings ==
  \/ \E t \in Tasks :
       \/ \E o \in Outcomes : \/ Approve(t, o) \/ ApproveAgain(t, o) \/ CompleteLocally(t, o)
                              \/ BeginWork(t, o) \/ FinishRun(t, o) \/ Request(t, o) \/ Link(t, o)
       \/ Deliver(t) \/ Reserve(t) \/ LoseAnswer(t) \/ Commit(t) \/ Rewrite(t)
  \/ TargetGrows \/ TargetReset
  \/ \E path \in Checkouts : CheckOut(path)
  \/ Leave \/ Edit \/ Restore
  \/ Crash

Next == Integration \/ Surroundings

Spec == Init /\ [][Next]_vars

------------------------------------------------------------------------------
(* Properties *)

\* A record is true of the repository whatever survives a power loss: work
\* recorded as integrated was on the target, and a task that an integration
\* completes is completed only after its record said so (finish,
\* complete_after_integration, check_completable).
RecordIsTrue ==
  \A b \in survivors, t \in Tasks :
    LET local == b[t].local IN
    /\ local.state = "integrated" => Includes(held, local.approved)
    /\ (b[t].status = "done" /\ local.completes) => local.state = "integrated"

\* What one request plans, no other plans against: whatever board survives, the
\* target has one unfinished plan at most (other_pending_on, under the lock).
OnePlan ==
  \A b \in survivors, t \in Tasks :
    b[t].local.state = "pending" => \A u \in Tasks : b[u].local.state = "pending" => u = t

\* SlashIt moves the target only from where the person saw it, to a commit that
\* keeps everything on it and adds exactly the commit approved now, and never
\* under a checkout left at the old commit (apply, advance).
TargetMovesAsPlanned ==
  [][(op.step # "idle" /\ op' # op /\ target' # target) =>
       /\ Pending(op.task) /\ op.task \in pins
       /\ \E n \in 0 .. made : target' = target \cup task[op.task].approved \cup {n}
       /\ where # "none" => files # target]_vars

\* Work is integrated or delivered as a pull request, never both, as long as
\* SlashIt learned what became of its request (create_pr_for_approved_task,
\* eligible, DeliveriesInFlight).
OneDelivery == \A t \in opened \ lost : ~Integrating(t)

\* "A Task that has, or is getting, a pull request is not completed locally"
\* (product-model.md), and its work is not integrated ("One delivery per task").
LocalOrPullRequest ==
  \A t \in opened : ~Integrating(t) /\ (task[t].status # "done")
=============================================================================
