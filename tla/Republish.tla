------------------------------ MODULE Republish ------------------------------
(***************************************************************************)
(* Restacking a branch that is published already, when the parent it was    *)
(* stacked on has landed: restack, advance and discard                      *)
(* (commands/pr/republish.rs) over the rewrite of worktree/restack.rs.  The *)
(* pending record says how far a restack got, so that one a crash           *)
(* interrupted is carried on or taken back from what the repository shows.  *)
(***************************************************************************)
EXTENDS Delivery

Approved == task.pending.previous
Rewritten == Replayed(task.pending.previous)

\* restack, of a task with no restack pending: what observe finds is all it
\* goes by, and it changes nothing.  The branch is on the old base, on origin at
\* the same tip, and its pull request, if it has one, is open.
BeginRestack ==
  /\ MayBegin("restack") /\ task.pending = NoRestack
  /\ landed /\ task.base = "old"
  /\ remote = tip /\ tip.base = "old"
  /\ IF NewestListed = 0 THEN task.pr = 0 ELSE prs[NewestListed].state = "open"
  /\ op' = [Idle EXCEPT !.step = "plan", !.commit = tip, !.pr = NewestListed]
  /\ consented' = consented \cup {tip}
  /\ UNCHANGED <<record, branch, github, moving, reached, waived>>

PlanRewrite(o) ==
  /\ At("plan")
  /\ IF Cancelled THEN Refuse
     ELSE /\ Save([task EXCEPT !.pending = [state |-> "planned", previous |-> op.commit,
                                            pr |-> op.pr]], o)
          /\ IF o = "saved" THEN Goto("advance") ELSE End
          /\ UNCHANGED <<branch, github, Rest>>

\* The same request again, with a restack pending.
Resume ==
  /\ MayBegin("restack") /\ task.pending # NoRestack
  /\ op' = [Idle EXCEPT !.step = "advance", !.commit = Approved]
  /\ UNCHANGED <<record, branch, github, Rest>>

\* advance, up to the rewrite: the branch is at the approved tip and is still to
\* be rewritten, or a rewrite was made and never recorded.  A branch that is
\* anywhere else was moved by somebody.
Advance ==
  /\ At("advance")
  /\ IF task.pending.state = "rewritten" THEN Step("checkRemote")
     ELSE IF tip = Rewritten /\ tip # Approved THEN Step("adopt")
     ELSE IF \/ tip # Approved \/ remote # Approved
             \/ backup \notin {NoCommit, tip} \/ Cancelled
     THEN Refuse
     ELSE /\ backup' = tip
          /\ Goto("replay")
          /\ UNCHANGED <<record, tip, made, oldBackup, github, Rest>>

\* Restack::replay and, for a replay that is not what was planned, its undo:
\* the branch is put back and its backup dropped.
ReplayPublished(clean) ==
  /\ At("replay")
  /\ IF Cancelled THEN Refuse
     ELSE /\ CASE clean /\ tip = Approved ->
                    /\ tip' = Replayed(tip)
                    /\ Goto("recordRewrite")
                    /\ UNCHANGED backup
               [] clean # (tip = Approved) ->
                    /\ tip' = Approved
                    /\ backup' = NoCommit
                    /\ Goto("clear")
               [] OTHER -> End /\ UNCHANGED <<tip, backup>>
          /\ UNCHANGED <<record, made, oldBackup, github, Rest>>

RewriteRecorded == [task EXCEPT !.pending.state = "rewritten", !.base = "landed"]

\* Mutated form: an unconfirmed record of the rewrite is published on.
RecordRewrite_trusts_unconfirmed(o) ==
  /\ At("recordRewrite")
  /\ Save(RewriteRecorded, o)
  /\ IF o # "failed" THEN Goto("checkRemote") ELSE End
  /\ UNCHANGED <<branch, github, Rest>>

\* record_rewrite: the rewrite and the base it stands on in one write.  Any
\* error of it rolls the branch back.
RecordRewrite(o) ==
  /\ At("recordRewrite")
  /\ Save(RewriteRecorded, o)
  /\ IF o = "saved" THEN Goto("checkRemote") /\ UNCHANGED <<tip, backup>>
     ELSE IF tip = Rewritten
     THEN tip' = Approved /\ backup' = NoCommit /\ Goto("clear")
     ELSE End /\ UNCHANGED <<tip, backup>>
  /\ UNCHANGED <<made, oldBackup, github, Rest>>

\* A rewrite an interrupted restack left is recorded as it is.
AdoptRewrite(o) ==
  /\ At("adopt")
  /\ Save(RewriteRecorded, o)
  /\ IF o = "saved" THEN Goto("checkRemote") ELSE End
  /\ UNCHANGED <<branch, github, Rest>>

\* clear_pending after a replay that was undone: only the record it was for.
ClearPending(o) ==
  /\ At("clear")
  /\ Save(IF task.pending.state = "planned" THEN [task EXCEPT !.pending = NoRestack] ELSE task, o)
  /\ End
  /\ UNCHANGED <<branch, github, Rest>>

------------------------------------------------------------------------------
(* Publishing the rewritten branch *)

\* Origin has the rewritten branch already, or still has the approved tip and
\* the pull request is as it was approved; anything else is somebody's.
CheckRemote ==
  /\ At("checkRemote")
  /\ IF tip # Rewritten THEN Refuse
     ELSE IF remote = Rewritten THEN Step("finish")
     ELSE IF /\ remote = Approved /\ ~Cancelled
             /\ IF task.pending.pr = 0 THEN NewestListed = 0
                ELSE prs[task.pending.pr].state = "open"
     THEN Step("force")
     ELSE Refuse

\* Mutated form: --force, whatever the remote branch is at by now.
ForcePush_without_lease(sent, answered) ==
  /\ At("force")
  /\ IF ~sent THEN Refuse
     ELSE /\ RemoteAt(tip)
          /\ IF answered THEN Goto("finish") ELSE End
          /\ UNCHANGED <<record, branch, prs, landed, outside, moving, consented, waived>>

\* push_with_lease: the remote branch is replaced only while it is the approved
\* tip.  The refspec names the branch, so git sends what it is at.
ForcePush(sent, answered) ==
  /\ At("force")
  /\ IF ~sent \/ remote # Approved THEN Refuse
     ELSE /\ RemoteAt(tip)
          /\ IF answered THEN Goto("finish") ELSE End
          /\ UNCHANGED <<record, branch, prs, landed, outside, moving, consented, waived>>

\* The pull request is retargeted, the record cleared and the backup dropped.
Finish(retargeted, o) ==
  /\ At("finish")
  /\ IF Cancelled \/ ~retargeted THEN Refuse
     ELSE /\ Save([task EXCEPT !.pending = NoRestack], o)
          /\ backup' = IF o = "saved" THEN NoCommit ELSE backup
          /\ End
          /\ UNCHANGED <<tip, made, oldBackup, github, Rest>>

------------------------------------------------------------------------------
(* discard *)

BeginDiscardRestack ==
  /\ MayBegin("restack") /\ task.pending # NoRestack
  /\ op' = [Idle EXCEPT !.step = "goBack", !.commit = Approved]
  /\ UNCHANGED <<record, branch, github, Rest>>

\* Not once origin has the rewritten branch, and never from a tip the restack
\* did not produce.
GoBack ==
  /\ At("goBack")
  /\ IF task.pending.state = "rewritten" /\ remote = Rewritten THEN Refuse
     ELSE IF tip = Approved THEN Step("dropRecord")
     ELSE IF tip # Rewritten \/ Cancelled THEN Refuse
     ELSE /\ tip' = Approved
          /\ Goto("dropRecord")
          /\ UNCHANGED <<record, made, backup, oldBackup, github, Rest>>

DropRecord(o) ==
  /\ At("dropRecord")
  /\ Save([task EXCEPT !.pending = NoRestack,
                       !.base = IF task.pending.state = "rewritten" THEN "old" ELSE @], o)
  /\ backup' = IF o = "saved" THEN NoCommit ELSE backup
  /\ End
  /\ UNCHANGED <<tip, made, oldBackup, github, Rest>>

RepublishNext ==
  \/ BeginRestack \/ Resume \/ Advance \/ CheckRemote
  \/ \E o \in Outcomes : \/ PlanRewrite(o) \/ RecordRewrite(o) \/ AdoptRewrite(o)
                         \/ ClearPending(o) \/ DropRecord(o)
                         \/ \E retargeted \in BOOLEAN : Finish(retargeted, o)
  \/ \E clean \in BOOLEAN : ReplayPublished(clean)
  \/ \E sent, answered \in BOOLEAN : ForcePush(sent, answered)
  \/ BeginDiscardRestack \/ GoBack
=============================================================================
