------------------------------ MODULE Delivery ------------------------------
(***************************************************************************)
(* What every delivery of a task to GitHub works on, and what moves under   *)
(* it: the task's durable record, its branch here and on the remote, the    *)
(* pull requests of that branch, the decisions a person takes in Human      *)
(* Review (commands/human_review.rs) and the moves that end a delivery.     *)
(* PullRequest, Publication and Republish extend this module, one for each  *)
(* operation; DeliverySystem puts them together.                            *)
(*                                                                         *)
(* One operation at a time owns the task: `op` is the reservation (a        *)
(* PrHelperLease), which outlives the lifecycle lease it was taken under.   *)
(***************************************************************************)
EXTENDS Naturals, Sequences, SequencesExt

CONSTANTS
  MaxCommits,   \* commits made on the task's branch
  MaxOutside,   \* what others do on GitHub: pushes, deletions, pull requests
  MaxPrs,       \* pull requests of the branch
  MaxFaults,    \* failed or unconfirmed writes, and crashes
  Operations,   \* what a person asks for: "create", "publish", "restack"
  Stacked,      \* whether the branch was started from a parent's that may land
  Undisturbed   \* steps during which nothing else writes the task's branch

ASSUME BoundsAssumption ==
  /\ MaxCommits \in Nat \ {0}
  /\ MaxOutside \in Nat /\ MaxPrs \in Nat /\ MaxFaults \in Nat
  /\ Stacked \in BOOLEAN /\ Operations \subseteq {"create", "publish", "restack"}

VARIABLES
  task,       \* the task in memory and in its board file: they differ only in a write
  survivors,  \* the records a power loss may leave in the file
  faults,
  tip,        \* refs/heads/<branch>
  made,       \* commits made so far, the name of the next one
  backup,     \* refs/slashit/republish-backup/<task>, the published restack's
  oldBackup,  \* the unpublished restack's backup ref
  remote,     \* the branch on origin
  prs,        \* its pull requests on GitHub, by number
  landed,     \* the parent's pull request is merged into the default branch
  outside,    \* what others did so far
  op,         \* the operation that owns the task
  moving,     \* the column a move waits to put the task in
  consented,  \* every commit a person approved or confirmed
  reached,    \* every commit SlashIt has put the remote branch at
  waived      \* pull requests a person asked SlashIt to disregard

record == <<task, survivors, faults>>
branch == <<tip, made, backup, oldBackup>>
github == <<remote, prs, landed, outside>>
history == <<consented, reached, waived>>
vars == <<record, branch, github, op, moving, history>>

\* A commit is the base its branch grew from and the task's own commits on it,
\* by name; 0 names a commit somebody else pushed.
Commits == [base : {"old", "landed", "none"}, own : Seq(Nat)]
NoCommit == [base |-> "none", own |-> <<>>]

\* merge-base --is-ancestor.
Includes(c, ancestor) ==
  /\ c # NoCommit /\ ancestor # NoCommit
  /\ c.base = ancestor.base
  /\ IsPrefix(ancestor.own, c.own)

\* What `git rebase --onto <landed default>` makes of a branch.
Replayed(c) == [c EXCEPT !.base = "landed"]

PublicationStates == {"none", "pending", "published", "refused", "unknown"}
NoPublication == [state |-> "none", commit |-> NoCommit, pr |-> 0]
NoRestack == [state |-> "none", previous |-> NoCommit, pr |-> 0]

PrNumbers == 0 .. MaxPrs

\* status: "work" is every column before Human Review.  approved: the commit of
\* the current approval.  asked: pr_create_unconfirmed.  base: base_commit and
\* branch_origin.  publication: pr_publication.  pending: pending_republish; it
\* is "rewritten" once rewritten_tip, the replay of `previous`, is recorded.
TaskRecords ==
  [status : {"work", "review", "created"}, approved : Commits, pr : PrNumbers,
   asked : Commits, base : {"old", "landed"},
   publication : [state : PublicationStates, commit : Commits, pr : PrNumbers],
   pending : [state : {"none", "planned", "rewritten"}, previous : Commits, pr : PrNumbers]]

\* listed: GitHub's listing shows it by now.
PullRequests == [state : {"none", "open", "closed"}, ours : BOOLEAN, listed : BOOLEAN]
NoPr == [state |-> "none", ours |-> FALSE, listed |-> FALSE]

CreateSteps == {"lookup", "toExisting", "restack", "restackReplay", "restackRecord", "push",
                "confirmPush", "lookupAgain", "announce", "create", "confirmCreated",
                "reconcile", "retract", "link", "discard", "discardWrite"}
PublishSteps == {"settle", "observe", "refuse", "pend", "recheck", "send", "readBack", "verdict"}
RestackSteps == {"plan", "advance", "replay", "recordRewrite", "adopt", "clear", "checkRemote",
                 "force", "finish", "goBack", "dropRecord"}

\* commit: what the operation delivers.  bound: the approved commit it was
\* admitted for.  before: the remote as it read it.  verdict: an answer it holds.
Owners ==
  [step : {"idle"} \cup CreateSteps \cup PublishSteps \cup RestackSteps,
   commit : Commits, bound : Commits, before : Commits, pr : PrNumbers,
   verdict : PublicationStates \cup {"accepted", "rejected", "error"}, cancelled : BOOLEAN]
Idle == [step |-> "idle", commit |-> NoCommit, bound |-> NoCommit, before |-> NoCommit,
         verdict |-> "none", pr |-> 0, cancelled |-> FALSE]

TypeOK ==
  /\ task \in TaskRecords
  /\ survivors \subseteq TaskRecords
  /\ task \in survivors
  /\ faults \in 0 .. MaxFaults
  /\ {tip, backup, oldBackup, remote} \subseteq Commits
  /\ made \in 1 .. MaxCommits
  /\ prs \in [1 .. MaxPrs -> PullRequests]
  /\ landed \in BOOLEAN
  /\ outside \in 0 .. MaxOutside
  /\ op \in Owners
  /\ moving \in {"no", "work", "review"}
  /\ consented \subseteq Commits
  /\ reached \subseteq Commits
  /\ waived \subseteq 1 .. MaxPrs

\* A run has just put the task in Human Review, its branch not published yet.
Init ==
  /\ tip = [base |-> "old", own |-> <<1>>]
  /\ task = [status |-> "review", approved |-> NoCommit, pr |-> 0, asked |-> NoCommit,
             base |-> "old", publication |-> NoPublication, pending |-> NoRestack]
  /\ survivors = {task}
  /\ faults = 0
  /\ made = 1
  /\ backup = NoCommit
  /\ oldBackup = NoCommit
  /\ remote = NoCommit
  /\ prs = [n \in 1 .. MaxPrs |-> NoPr]
  /\ landed = FALSE
  /\ outside = 0
  /\ op = Idle
  /\ moving = "no"
  /\ consented = {}
  /\ reached = {}
  /\ waived = {}

------------------------------------------------------------------------------
(* Writing the task, owning it, and asking git and GitHub *)

Outcomes == {"saved", "unconfirmed", "failed"}

\* Mutated form: memory takes the new record whatever became of the write.
Save_ignores_failure(t, o) ==
  /\ o \in Outcomes
  /\ o # "saved" => faults < MaxFaults
  /\ faults' = IF o = "saved" THEN faults ELSE faults + 1
  /\ task' = t
  /\ survivors' = IF o = "saved" THEN {t}
                  ELSE IF o = "unconfirmed" THEN survivors \cup {t}
                  ELSE survivors

\* lifecycle::record_typed: memory takes exactly what the file holds, so an
\* unconfirmed write (PublishedNotDurable) changes the task and still reports
\* an error; a failed one (NotPublished) changes nothing.
Save(t, o) ==
  /\ o \in Outcomes
  /\ o # "saved" => faults < MaxFaults
  /\ faults' = IF o = "saved" THEN faults ELSE faults + 1
  /\ task' = IF o = "failed" THEN task ELSE t
  /\ survivors' = IF o = "saved" THEN {t}
                  ELSE IF o = "unconfirmed" THEN survivors \cup {t}
                  ELSE survivors

At(step) == op.step = step
Goto(step) == op' = [op EXCEPT !.step = step]
End == op' = Idle

\* What no step of an operation changes, unless it says so.
Rest == <<moving, history>>

\* The operation goes on, or ends with an error: nothing else changed.
Step(step) == Goto(step) /\ UNCHANGED <<record, branch, github, Rest>>
Refuse == End /\ UNCHANGED <<record, branch, github, Rest>>

\* refuse_if_pr_operation_cancelled.
Cancelled == op.cancelled

\* Under the lifecycle lease, which a move holds until it is over.
MayBegin(operation) == operation \in Operations /\ op = Idle /\ moving = "no"

\* What `gh pr list --head <branch> --state all` shows first.
NewestListed ==
  LET listed == {n \in 1 .. MaxPrs : prs[n].listed}
  IN IF listed = {} THEN 0 ELSE CHOOSE n \in listed : \A m \in listed : m <= n

\* The number GitHub gives the next pull request.
NextPr(n) == prs[n] = NoPr /\ \A m \in 1 .. n - 1 : prs[m] # NoPr

\* git without --force.
FastForward(c) == remote = NoCommit \/ Includes(c, remote)
RemoteAt(c) == remote' = c /\ reached' = reached \cup {c}

------------------------------------------------------------------------------
(* Human Review *)

\* record_approval: the commit the person was shown, and the branch is at it.
Approve(o) ==
  /\ moving = "no" /\ task.status = "review" /\ task.approved = NoCommit
  /\ Save([task EXCEPT !.approved = tip], o)
  /\ consented' = IF o = "failed" THEN consented ELSE consented \cup {tip}
  /\ UNCHANGED <<branch, github, op, moving, reached, waived>>

\* approve_again: the branch moved past the approved commit, no pull request
\* is recorded and nothing is delivering.
ApproveAgain(o) ==
  /\ op = Idle /\ moving = "no"
  /\ task.status = "review" /\ task.approved \notin {NoCommit, tip} /\ task.pr = 0
  /\ Save([task EXCEPT !.approved = tip], o)
  /\ consented' = IF o = "failed" THEN consented ELSE consented \cup {tip}
  /\ UNCHANGED <<branch, github, op, moving, reached, waived>>

\* A status move first asks the owner to end, and holds the lease until it has.
\* Nothing is queued while a restack is pending (queue_entry_refusal).
BeginMove(column) ==
  /\ moving = "no"
  /\ \/ column = "work" /\ task.status # "work" /\ task.pending = NoRestack
     \/ column = "review" /\ task.status = "created"
  /\ moving' = column
  /\ op' = IF op = Idle THEN Idle ELSE [op EXCEPT !.cancelled = TRUE]
  /\ UNCHANGED <<record, branch, github, history>>

\* The owner is gone.  Going back to work withdraws the approval.
CompleteMove(o) ==
  /\ moving # "no" /\ op = Idle
  /\ Save([task EXCEPT !.status = moving,
                       !.approved = IF moving = "work" THEN NoCommit ELSE @], o)
  /\ moving' = "no"
  /\ UNCHANGED <<branch, github, op, history>>

\* The owner did not let go in time: the move is refused, and the operation
\* stays cancelled.
GiveUpMove ==
  /\ moving # "no" /\ op # Idle
  /\ moving' = "no"
  /\ UNCHANGED <<record, branch, github, op, history>>

\* A run ends in Human Review: a new arrival, with no decision on it.
FinishRun(o) ==
  /\ op = Idle /\ moving = "no" /\ task.status = "work"
  /\ Save([task EXCEPT !.status = "review", !.approved = NoCommit], o)
  /\ UNCHANGED <<branch, github, op, moving, history>>

------------------------------------------------------------------------------
(* The task's terminal, its agents, and GitHub *)

Writable == made < MaxCommits /\ op.step \notin Undisturbed

Commit ==
  /\ Writable
  /\ made' = made + 1
  /\ tip' = [tip EXCEPT !.own = Append(@, made')]
  /\ UNCHANGED <<record, backup, oldBackup, github, op, moving, history>>

\* git commit --amend.
Amend ==
  /\ Writable
  /\ made' = made + 1
  /\ tip' = [tip EXCEPT !.own = Append(Front(@), made')]
  /\ UNCHANGED <<record, backup, oldBackup, github, op, moving, history>>

Others == outside < MaxOutside /\ outside' = outside + 1

ForeignPush ==
  /\ Others /\ remote # NoCommit
  /\ remote' = [remote EXCEPT !.own = Append(@, 0)]
  /\ UNCHANGED <<record, branch, prs, landed, op, moving, history>>

ForeignDelete ==
  /\ Others /\ remote # NoCommit
  /\ remote' = NoCommit
  /\ UNCHANGED <<record, branch, prs, landed, op, moving, history>>

\* Somebody else opens a pull request for the branch.
ForeignOpen(n) ==
  /\ Others /\ remote # NoCommit /\ NextPr(n)
  /\ prs' = [prs EXCEPT ![n] = [state |-> "open", ours |-> FALSE, listed |-> TRUE]]
  /\ UNCHANGED <<record, branch, remote, landed, op, moving, history>>

Close(n) ==
  /\ Others /\ prs[n].state = "open"
  /\ prs' = [prs EXCEPT ![n].state = "closed"]
  /\ UNCHANGED <<record, branch, remote, landed, op, moving, history>>

\* GitHub's listing catches up with a pull request that was just opened.
List(n) ==
  /\ prs[n].state # "none" /\ ~prs[n].listed
  /\ prs' = [prs EXCEPT ![n].listed = TRUE]
  /\ UNCHANGED <<record, branch, remote, landed, outside, op, moving, history>>

ParentLands ==
  /\ Stacked /\ ~landed
  /\ landed' = TRUE
  /\ UNCHANGED <<record, branch, remote, prs, outside, op, moving, history>>

\* The process dies, or the machine loses power and the file holds any record
\* it may still hold.
Crash ==
  /\ faults < MaxFaults
  /\ faults' = faults + 1
  /\ \/ UNCHANGED <<task, survivors>>
     \/ task' \in survivors /\ survivors' = {task'}
  /\ op' = Idle
  /\ moving' = "no"
  /\ UNCHANGED <<branch, github, history>>

Surroundings ==
  \/ \E o \in Outcomes : Approve(o) \/ ApproveAgain(o) \/ CompleteMove(o) \/ FinishRun(o)
  \/ \E column \in {"work", "review"} : BeginMove(column)
  \/ GiveUpMove
  \/ Commit \/ Amend
  \/ ForeignPush \/ ForeignDelete
  \/ \E n \in 1 .. MaxPrs : ForeignOpen(n) \/ Close(n) \/ List(n)
  \/ ParentLands
  \/ Crash
=============================================================================
