----------------------------- MODULE PullRequest -----------------------------
(***************************************************************************)
(* Opening the pull request of an approved task, one step for each answer   *)
(* the code waits for: create_pr_for_approved_task and create_pr_reserved   *)
(* (commands/pr.rs), the restack of an unpublished stacked branch they run  *)
(* (worktree/restack.rs), and the recovery of a request GitHub never        *)
(* answered (commands/pr/unconfirmed.rs).                                   *)
(***************************************************************************)
EXTENDS Delivery

\* create_pr_for_approved_task: the approval binds the branch's tip, and the
\* task is reserved under the lease that checked it.
BeginCreate ==
  /\ MayBegin("create") /\ task.status = "review"
  /\ task.approved # NoCommit /\ task.approved = tip
  /\ task.pending = NoRestack
  /\ op' = [Idle EXCEPT !.step = "lookup", !.commit = tip, !.bound = tip]
  /\ UNCHANGED <<record, branch, github, Rest>>

\* The branch's pull request is looked up before anything is pushed.  An
\* earlier request that was never answered refuses a second one; a parent that
\* landed asks for a restack.
Lookup ==
  /\ At("lookup")
  /\ IF NewestListed # 0
     THEN op' = [op EXCEPT !.step = "toExisting", !.pr = NewestListed]
     ELSE IF task.asked # NoCommit THEN End
     ELSE IF task.base = "old" /\ landed THEN Goto("restack") ELSE Goto("push")
  /\ UNCHANGED <<record, branch, github, Rest>>

------------------------------------------------------------------------------
(* A pull request that exists already *)

\* Mutated form: a pull request that exists is linked as it is.
ToExisting_links(sent) ==
  /\ At("toExisting") /\ sent \in BOOLEAN
  /\ Step("link")

\* publish_approved_to_existing_pr: linked as it is when the remote has the
\* commit, and otherwise pushed to, if it is open and the gate lets it.
ToExisting(sent) ==
  /\ At("toExisting")
  /\ IF Cancelled \/ task.approved = NoCommit THEN Refuse
     ELSE IF Includes(remote, op.commit) THEN Step("link")
     ELSE IF prs[op.pr].state = "open" /\ tip = op.commit /\ FastForward(op.commit) /\ sent
     THEN /\ RemoteAt(op.commit)
          /\ Goto("link")
          /\ UNCHANGED <<record, branch, prs, landed, outside, moving, consented, waived>>
     ELSE Refuse

------------------------------------------------------------------------------
(* Restacking the unpublished branch of a parent that landed *)

\* restack_onto_landed_parent up to its backup, with recover_unfinished_restack:
\* a backup an earlier restack left is dropped at its own tip and refused
\* anywhere else.  A branch already on the remote is never rewritten here.
PlanRestack ==
  /\ At("restack")
  /\ IF tip # op.commit \/ oldBackup \notin {NoCommit, tip} THEN Refuse
     ELSE IF remote # NoCommit \/ Cancelled
     THEN /\ oldBackup' = NoCommit
          /\ End
          /\ UNCHANGED <<record, tip, made, backup, github, Rest>>
     ELSE /\ oldBackup' = tip
          /\ Goto("restackReplay")
          /\ UNCHANGED <<record, tip, made, backup, github, Rest>>

\* Restack::replay.  The rebase takes the branch as it then is; a replay that
\* stops, or is not the planned commits again, is undone: the branch goes back
\* to the tip the restack started from, and its backup is dropped.
Replay(clean) ==
  /\ At("restackReplay")
  /\ IF clean /\ tip = op.commit
     THEN /\ tip' = Replayed(tip)
          /\ Goto("restackRecord")
          /\ UNCHANGED oldBackup
     ELSE /\ End
          /\ IF clean \/ tip = op.commit
             THEN tip' = op.commit /\ oldBackup' = NoCommit
             ELSE UNCHANGED <<tip, oldBackup>>
  /\ UNCHANGED <<record, made, backup, github, Rest>>

\* Mutated form: the backup is retired before the restack is recorded.
RecordRestack_drops_backup(o) ==
  /\ At("restackRecord")
  /\ Save([task EXCEPT !.base = "landed"], o)
  /\ IF o = "saved"
     THEN op' = [op EXCEPT !.step = "push", !.commit = tip]
     ELSE End
  /\ oldBackup' = NoCommit
  /\ UNCHANGED <<tip, made, backup, github, Rest>>

\* base_commit and branch_origin in one durable write.  Any error of that write
\* rolls the branch back while it is still where the rebase left it, and the
\* commit to deliver is read from the branch again.
RecordRestack(o) ==
  /\ At("restackRecord")
  /\ Save([task EXCEPT !.base = "landed"], o)
  /\ IF o = "saved"
     THEN /\ op' = [op EXCEPT !.step = "push", !.commit = tip]
          /\ oldBackup' = NoCommit
          /\ UNCHANGED tip
     ELSE /\ End
          /\ IF tip = Replayed(op.commit)
             THEN tip' = op.commit /\ oldBackup' = NoCommit
             ELSE UNCHANGED <<tip, oldBackup>>
  /\ UNCHANGED <<made, backup, github, Rest>>

------------------------------------------------------------------------------
(* Pushing, and asking GitHub to open the pull request *)

\* push_branch_pinned_gated, by object ID.  A push git reports as failed may
\* have landed, so what follows is read from the remote either way.
Push(sent, answered) ==
  /\ At("push")
  /\ IF tip # op.commit \/ task.approved = NoCommit \/ Cancelled THEN Refuse
     ELSE IF FastForward(op.commit) /\ sent
     THEN /\ RemoteAt(op.commit)
          /\ op' = [op EXCEPT !.step = "confirmPush",
                              !.verdict = IF answered THEN "accepted" ELSE "error"]
          /\ UNCHANGED <<record, branch, prs, landed, outside, moving, consented, waived>>
     ELSE /\ op' = [op EXCEPT !.step = "confirmPush", !.verdict = "error"]
          /\ UNCHANGED <<record, branch, github, Rest>>

\* confirm_push.
ConfirmPush(read) ==
  /\ At("confirmPush")
  /\ IF read /\ remote = op.commit THEN Step("lookupAgain") ELSE Refuse

LookupAgain ==
  /\ At("lookupAgain")
  /\ op' = IF NewestListed # 0
           THEN [op EXCEPT !.step = "link", !.verdict = "none", !.pr = NewestListed]
           ELSE IF Cancelled THEN Idle ELSE [op EXCEPT !.step = "announce", !.verdict = "none"]
  /\ UNCHANGED <<record, branch, github, Rest>>

\* Mutated form: a request whose record may be lost is sent all the same.
Announce_trusts_unconfirmed(o) ==
  /\ At("announce")
  /\ IF task.asked # NoCommit THEN Refuse
     ELSE /\ Save([task EXCEPT !.asked = op.commit], o)
          /\ IF o = "failed" THEN End ELSE Goto("create")
          /\ UNCHANGED <<branch, github, Rest>>

\* record_pr_create_started: durable before the request is sent; a record that
\* is only in the file is taken back.
Announce(o) ==
  /\ At("announce")
  /\ IF task.asked # NoCommit THEN Refuse
     ELSE /\ Save([task EXCEPT !.asked = op.commit], o)
          /\ CASE o = "saved" -> Goto("create")
               [] o = "unconfirmed" -> Goto("retract")
               [] OTHER -> End
          /\ UNCHANGED <<branch, github, Rest>>

\* refuse_before_pr_create, then `gh pr create`: GitHub opens the pull request
\* and answers, opens it and the answer is lost, or opens none.
Create(answer) ==
  /\ At("create")
  /\ IF Cancelled \/ task.approved # op.bound \/ answer = "not sent" THEN Step("retract")
     ELSE \/ /\ answer \in {"opened", "lost"}
             /\ remote # NoCommit
             /\ \E n \in 1 .. MaxPrs :
                  /\ NextPr(n)
                  /\ prs' = [prs EXCEPT ![n] = [state |-> "open", ours |-> TRUE, listed |-> FALSE]]
                  /\ op' = [op EXCEPT !.step = IF answer = "opened" THEN "confirmCreated"
                                               ELSE "reconcile",
                                      !.pr = n, !.verdict = "unknown"]
             /\ UNCHANGED <<record, branch, remote, landed, outside, Rest>>
          \/ /\ answer \in {"lost", "rejected"}
             /\ op' = [op EXCEPT !.step = "reconcile",
                                 !.verdict = IF answer = "lost" THEN "unknown" ELSE "rejected"]
             /\ UNCHANGED <<record, branch, github, Rest>>

\* confirm_created_pr: the branch GitHub opened it from is still at the commit.
ConfirmCreated(read) ==
  /\ At("confirmCreated")
  /\ IF read /\ remote = op.commit THEN Step("link") ELSE Refuse

\* Mutated form: a listing that shows none proves that none was opened.
Reconcile_trusts_listing(read) ==
  /\ At("reconcile")
  /\ IF ~read THEN Refuse
     ELSE /\ op' = IF NewestListed # 0
                   THEN [op EXCEPT !.step = "confirmCreated", !.pr = NewestListed]
                   ELSE [op EXCEPT !.step = "retract"]
          /\ UNCHANGED <<record, branch, github, Rest>>

\* reconcile_failed_pr_create: only a refusal GitHub gave, with a listing that
\* shows none, takes the record of the request back.
Reconcile(read) ==
  /\ At("reconcile")
  /\ IF ~read THEN Refuse
     ELSE /\ op' = IF NewestListed # 0
                   THEN [op EXCEPT !.step = "confirmCreated", !.pr = NewestListed]
                   ELSE IF op.verdict = "rejected" THEN [op EXCEPT !.step = "retract"] ELSE Idle
          /\ UNCHANGED <<record, branch, github, Rest>>

\* retract_pr_create_attempt: no request was made.
Retract(o) ==
  /\ At("retract")
  /\ Save([task EXCEPT !.asked = IF @ = op.commit THEN NoCommit ELSE @], o)
  /\ End
  /\ UNCHANGED <<branch, github, Rest>>

\* link_pr_to_task_reserved: the pull request, the end of the request and the
\* column in one write.
Link(o) ==
  /\ At("link")
  /\ IF Cancelled THEN Refuse
     ELSE /\ Save([task EXCEPT !.pr = op.pr, !.asked = NoCommit, !.status = "created"], o)
          /\ End
          /\ UNCHANGED <<branch, github, Rest>>

------------------------------------------------------------------------------
(* A request that was never answered: resolve_unconfirmed_pr_create *)

MayRecover ==
  /\ MayBegin("create") /\ task.asked # NoCommit
  /\ task.status # "work" /\ task.pending = NoRestack

\* link_existing: the pull request a person names, once verify_pull_request
\* has shown that its head contains the commit the request was made for.  They
\* say that this one answers the request, and no other.
LinkExisting(n) ==
  /\ MayRecover
  /\ prs[n].state # "none" /\ Includes(remote, task.asked)
  /\ op' = [Idle EXCEPT !.step = "link", !.pr = n]
  /\ waived' = waived \cup {m \in 1 .. MaxPrs : prs[m].ours /\ m # n}
  /\ UNCHANGED <<record, branch, github, moving, consented, reached>>

\* confirm_none, on the person's word that GitHub has no such pull request.
BeginDiscard ==
  /\ MayRecover
  /\ op' = [Idle EXCEPT !.step = "discard", !.commit = task.asked]
  /\ UNCHANGED <<record, branch, github, Rest>>

LookBeforeDiscard ==
  /\ At("discard")
  /\ IF NewestListed # 0 \/ Cancelled THEN Refuse ELSE Step("discardWrite")

DiscardRequest(o) ==
  /\ At("discardWrite")
  /\ Save([task EXCEPT !.asked = IF @ = op.commit THEN NoCommit ELSE @], o)
  /\ waived' = IF o = "failed" THEN waived ELSE {n \in 1 .. MaxPrs : prs[n].ours}
  /\ End
  /\ UNCHANGED <<branch, github, moving, consented, reached>>

PullRequestNext ==
  \/ BeginCreate \/ Lookup
  \/ \E yes \in BOOLEAN : \/ ToExisting(yes) \/ Replay(yes) \/ ConfirmPush(yes)
                          \/ ConfirmCreated(yes) \/ Reconcile(yes)
                          \/ \E answered \in BOOLEAN : Push(yes, answered)
  \/ PlanRestack \/ LookupAgain
  \/ \E o \in Outcomes : \/ RecordRestack(o) \/ Announce(o) \/ Retract(o) \/ Link(o)
                         \/ DiscardRequest(o)
  \/ \E answer \in {"opened", "lost", "rejected", "not sent"} : Create(answer)
  \/ \E n \in 1 .. MaxPrs : LinkExisting(n)
  \/ BeginDiscard \/ LookBeforeDiscard
=============================================================================
