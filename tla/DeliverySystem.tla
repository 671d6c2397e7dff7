--------------------------- MODULE DeliverySystem ---------------------------
(***************************************************************************)
(* Everything that delivers one task to GitHub, and everything that moves   *)
(* under it: the operations of PullRequest, Publication and Republish, one  *)
(* at a time, with the person, the task's own terminal, other people on     *)
(* GitHub, failed writes and crashes between any two of their steps.        *)
(***************************************************************************)
EXTENDS PullRequest, Publication, Republish

DeliveryNext == Surroundings \/ PullRequestNext \/ PublicationNext \/ RepublishNext

DeliverySpec == Init /\ [][DeliveryNext]_vars

------------------------------------------------------------------------------
(* What nobody agreed to is not published *)

\* A branch that is at a commit made here, or at what others pushed on it.
PushedOn(c, from) ==
  /\ IsPrefix(from.own, c.own)
  /\ \A i \in Len(from.own) + 1 .. Len(c.own) : c.own[i] = 0

\* What origin holds is a commit a person approved or confirmed, or that commit
\* replayed on the landed parent, and then only what others pushed on it: no
\* commit made between a decision and its push goes out with it.
RemoteIsConsented ==
  remote # NoCommit =>
    \E c \in consented : PushedOn(remote, c) /\ remote.base \in {c.base, "landed"}

\* A push never replaces a commit somebody else put on the branch: not the
\* restack's forced one either, whatever happened since origin was read.
ForeignWorkSurvives ==
  [][0 \in Range(remote.own) => remote' = NoCommit \/ Includes(remote', remote)]_vars

\* While the task is worked on again, origin's branch gets nothing from a
\* delivery that was admitted before: only others, or a restack a person
\* asked for since, change it.
NothingPublishedAtWork ==
  [][task.status = "work" /\ remote' # remote => outside' # outside \/ op.step = "force"]_vars

------------------------------------------------------------------------------
(* What the task records of GitHub is true, also after a power loss *)

\* Whatever the disk still holds: a publication recorded as published put its
\* commit, or one that contains it, on origin.
PublishedReached ==
  \A t \in survivors :
    t.publication.state = "published" => \E c \in reached : Includes(c, t.publication.commit)

\* When a publication pushes and waits for the outcome, whatever the disk still
\* holds names its commit, so that the next request settles it first.
PublicationIsKnown ==
  op.step \in {"send", "readBack"} =>
    \A t \in survivors : /\ t.publication.commit = op.commit
                         /\ t.publication.state \notin {"none", "refused"}

\* A pull request SlashIt had GitHub open is never forgotten: whatever the disk
\* holds, the task has a pull request or an unanswered request, unless a person
\* confirmed that there is none.
RequestIsKept ==
  \A n \in 1 .. MaxPrs : prs[n].ours /\ n \notin waived =>
    \A t \in survivors : t.asked # NoCommit \/ t.pr # 0

\* A request is about to be sent only if the task records the pull request of
\* every earlier one, or a newer one, or a person said that there is none.
NoSecondRequest ==
  At("create") => \A n \in 1 .. MaxPrs : prs[n].ours => n \in waived \/ n <= task.pr

\* A delivery that puts the task in PR Created did publish the commit of the
\* approval it was admitted for, or its replay, and that approval still stands.
DeliveryMatchesApproval ==
  [][At("link") /\ op.bound # NoCommit /\ task.status # "created" /\ task'.status = "created" =>
       /\ task.approved = op.bound
       /\ \E c \in reached : Includes(c, op.bound) \/ Includes(c, Replayed(op.bound))]_vars

------------------------------------------------------------------------------
(* A rewritten branch *)

\* Once a rewritten branch that was never approved as such is on origin,
\* whatever the disk still holds knows the base it stands on; with the old one,
\* the next restack would start over.  This is so after one failed write or
\* crash: see the README for what a second one does.
RewriteIsDurable ==
  faults <= 1 /\ remote.base = "landed" /\ 0 \notin Range(remote.own) /\ remote \notin consented =>
    \A t \in survivors : t.base = "landed"

\* Until the rewrite is durable, a backup holds the approved tip it replaced.
RewriteIsReversible ==
  tip.base = "landed" /\ (\E t \in survivors : t.base = "old") =>
    \E c \in {backup, oldBackup} : c.base = "old" /\ c \in consented

\* A commit from the task's own terminal is "never undone": which commits the
\* branch holds is changed by nothing but the terminal.
OwnCommitsStay == [][made' = made => tip'.own = tip.own]_vars
=============================================================================
