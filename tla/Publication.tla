----------------------------- MODULE Publication -----------------------------
(***************************************************************************)
(* Publishing one commit a person confirmed to the task's pull request:     *)
(* publish (commands/pr/publication.rs) and the rules it applies            *)
(* (domain/publication.rs).  The record is durable before the push, and a   *)
(* record whose outcome is not known is settled against the remote first.   *)
(***************************************************************************)
EXTENDS Delivery

\* The compare-and-set of write_publication finds the record the operation
\* read: only an operation writes it, and the task has one at a time.
Publish(state, o) ==
  Save([task EXCEPT !.publication = [state |-> state, commit |-> op.commit, pr |-> op.pr]], o)

\* Mutated form: a task that is being worked on is published too.
BeginPublication_while_running(c) ==
  /\ MayBegin("publish")
  /\ c \in {tip, task.publication.commit} \ {NoCommit}
  /\ task.pr # 0 /\ task.pending = NoRestack
  /\ op' = [Idle EXCEPT !.step = IF task.publication.state \in {"pending", "unknown"}
                                 THEN "settle" ELSE "observe",
                        !.commit = c, !.pr = task.pr]
  /\ consented' = consented \cup {c}
  /\ UNCHANGED <<record, branch, github, moving, reached, waived>>

\* The commit is the one on the screen, or one an earlier record names.  The
\* person's confirmation stands in for an approval.
BeginPublication(c) ==
  /\ MayBegin("publish")
  /\ c \in {tip, task.publication.commit} \ {NoCommit}
  /\ task.status # "work" /\ task.pr # 0 /\ task.pending = NoRestack
  /\ ~(/\ task.publication.state = "published"
       /\ task.publication.commit = c /\ task.publication.pr = task.pr)
  /\ op' = [Idle EXCEPT !.step = IF task.publication.state \in {"pending", "unknown"}
                                 THEN "settle" ELSE "observe",
                        !.commit = c, !.pr = task.pr]
  /\ consented' = consented \cup {c}
  /\ UNCHANGED <<record, branch, github, moving, reached, waived>>

\* reconcile: an earlier record is settled by what the remote contains, and
\* nothing is pushed for it.
Settle(read) ==
  /\ At("settle")
  /\ IF ~read THEN Refuse
     ELSE LET p == task.publication
          IN /\ op' = [op EXCEPT !.step = "verdict", !.commit = p.commit, !.pr = p.pr,
                                 !.verdict = IF Includes(remote, p.commit)
                                             THEN "published" ELSE "refused"]
             /\ UNCHANGED <<record, branch, github, Rest>>

\* The pull request a publication may push to.
Publishable == prs[op.pr].state = "open" /\ NewestListed = op.pr

\* start_refusal: the pull request is open and the branch's own, the branch is
\* at the commit, and the remote branch is there and is its ancestor.
Observe(read) ==
  /\ At("observe")
  /\ IF ~read \/ Cancelled THEN Refuse
     ELSE /\ op' = [op EXCEPT !.before = remote,
                              !.step = IF /\ Publishable /\ tip = op.commit
                                          /\ Includes(op.commit, remote)
                                       THEN "pend" ELSE "refuse"]
          /\ UNCHANGED <<record, branch, github, Rest>>

RefusePublication(o) ==
  /\ At("refuse")
  /\ Publish("refused", o)
  /\ End
  /\ UNCHANGED <<branch, github, Rest>>

\* Mutated form: an unconfirmed record is taken for a durable one.
Pend_trusts_unconfirmed(o) ==
  /\ At("pend")
  /\ IF Cancelled THEN Refuse
     ELSE /\ Publish("pending", o)
          /\ IF o = "failed" THEN End ELSE Goto("recheck")
          /\ UNCHANGED <<branch, github, Rest>>

\* The record is durable before the push, or nothing is pushed.
Pend(o) ==
  /\ At("pend")
  /\ IF Cancelled THEN Refuse
     ELSE /\ Publish("pending", o)
          /\ IF o = "saved" THEN Goto("recheck") ELSE End
          /\ UNCHANGED <<branch, github, Rest>>

\* The pull request is read again, now that the record is durable.
Recheck(read) ==
  /\ At("recheck")
  /\ Step(IF read /\ Publishable THEN "send" ELSE "refuse")

\* Mutated form: the branch is pushed by its name, wherever it is by then.
Send_by_name(sent, answered) ==
  /\ At("send") /\ answered \in BOOLEAN
  /\ IF Cancelled THEN Step("refuse")
     ELSE IF FastForward(tip) /\ sent
     THEN /\ RemoteAt(tip)
          /\ op' = [op EXCEPT !.step = "readBack", !.verdict = "accepted"]
          /\ UNCHANGED <<record, branch, prs, landed, outside, moving, consented, waived>>
     ELSE /\ op' = [op EXCEPT !.step = "readBack", !.verdict = "error"]
          /\ UNCHANGED <<record, branch, github, Rest>>

\* push_branch_pinned_gated: the gate is the last thing before git runs, and a
\* branch that moved is an error of the push.
Send(sent, answered) ==
  /\ At("send")
  /\ IF tip = op.commit /\ Cancelled THEN Step("refuse")
     ELSE IF tip = op.commit /\ FastForward(op.commit) /\ sent
     THEN /\ RemoteAt(op.commit)
          /\ op' = [op EXCEPT !.step = "readBack",
                              !.verdict = IF answered THEN "accepted" ELSE "error"]
          /\ UNCHANGED <<record, branch, prs, landed, outside, moving, consented, waived>>
     ELSE /\ op' = [op EXCEPT !.step = "readBack", !.verdict = "error"]
          /\ UNCHANGED <<record, branch, github, Rest>>

Verdict(v) == /\ op' = [op EXCEPT !.step = "verdict", !.verdict = v, !.before = NoCommit]
              /\ UNCHANGED <<record, branch, github, Rest>>

\* Mutated form: a remote that cannot be read is taken to hold the commit.
ReadBack_assumes(read) ==
  /\ At("readBack")
  /\ Verdict(IF ~read \/ remote = op.commit THEN "published"
             ELSE IF op.verdict = "error" /\ remote = op.before THEN "refused"
             ELSE "unknown")

\* classify_outcome: only what the remote shows counts.
ReadBack(read) ==
  /\ At("readBack")
  /\ Verdict(IF ~read THEN "unknown"
             ELSE IF remote = op.commit THEN "published"
             ELSE IF op.verdict = "error" /\ remote = op.before THEN "refused"
             ELSE "unknown")

\* write_publication_settling, of a new outcome and of an earlier record's.
SettlePublication(o) ==
  /\ At("verdict")
  /\ Publish(op.verdict, o)
  /\ End
  /\ UNCHANGED <<branch, github, Rest>>

PublicationNext ==
  \/ \E c \in {tip, task.publication.commit} : BeginPublication(c)
  \/ \E read \in BOOLEAN : \/ Settle(read) \/ Observe(read) \/ Recheck(read) \/ ReadBack(read)
                           \/ \E answered \in BOOLEAN : Send(read, answered)
  \/ \E o \in Outcomes : RefusePublication(o) \/ Pend(o) \/ SettlePublication(o)
=============================================================================
