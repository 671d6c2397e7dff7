--------------------------- MODULE DeliveryProofs ---------------------------
(***************************************************************************)
(* DeliverySystem for any number of commits, pull requests, faults and      *)
(* things others do: its type, that no request to GitHub is forgotten or    *)
(* sent twice, that what is on origin was agreed to, and what is recorded   *)
(* of it and of a rewritten branch.  A request is answered by whatever the  *)
(* disk may still hold, so the invariants speak of every surviving record,  *)
(* and of what an operation knows at each step between two answers.         *)
(***************************************************************************)
EXTENDS DeliverySystem, TLAPS, WellFoundedInduction

\* Every pull request opened from here has a number up to n, or a person asked
\* for it to be disregarded.
Answered(n) == \A m \in 1 .. MaxPrs : prs[m].ours => m \in waived \/ m <= n

SomeListed == \E n \in 1 .. MaxPrs : prs[n].listed

\* What a record must know of the requests made so far.  Once GitHub lists a
\* pull request of the branch, no further one is asked for.
Remembers(t) ==
  /\ (\E n \in 1 .. MaxPrs : prs[n].ours /\ n \notin waived) =>
       t.asked # NoCommit \/ t.pr # 0
  /\ t.asked = NoCommit => Answered(t.pr) \/ SomeListed

\* GitHub numbers pull requests one after the other.
Numbered ==
  \A n \in 1 .. MaxPrs : prs[n] = NoPr => \A m \in n .. MaxPrs : prs[m] = NoPr

\* The steps at which an operation delivers a commit nobody asked a pull
\* request for yet.
Opening == {"lookup", "restack", "restackReplay", "push", "confirmPush", "lookupAgain",
            "announce", "create"}

\* What opening a pull request has established, step by step.
SoundOpening ==
  /\ op.step \in Opening => op.commit # NoCommit
  /\ op.step = "restackRecord" => tip.base = "landed"
  /\ op.step = "toExisting" => op.pr # 0 /\ SomeListed
  /\ op.step = "announce" => task.asked # NoCommit \/ Answered(task.pr)
  /\ op.step = "create" => \A t \in survivors : t.asked = op.commit
  /\ \/ op.step \in {"create", "retract"}
     \/ op.step = "reconcile" /\ op.verdict = "rejected"
     => Answered(task.pr)
  /\ op.step \in {"confirmCreated", "link"} => op.pr # 0 /\ (Answered(op.pr) \/ SomeListed)

\* What publishing a commit has established.
SoundPublication ==
  /\ op.step = "verdict" => op.verdict \in {"published", "refused", "unknown"}
  /\ op.step \in {"recheck", "send", "readBack"} =>
       \A t \in survivors : t.publication.commit = op.commit /\ t.publication.state = "pending"

\* The inductive invariant.
Inv ==
  /\ TypeOK
  /\ Numbered
  /\ \A t \in survivors : Remembers(t)
  /\ SoundOpening
  /\ SoundPublication

------------------------------------------------------------------------------
(* Facts about the operators *)

LEMMA Least ==
  ASSUME NEW T, T \subseteq Nat, T # {}
  PROVE  \E x \in T : \A y \in T : x <= y
<1>1. PICK x \in T : \A y \in T : ~ (<<y, x>> \in OpToRel(<, Nat))
  BY NatLessThanWellFounded, WFMin, Zenon
<1>2. \A y \in T : ~ (y < x)
  BY <1>1 DEF OpToRel
<1> QED BY <1>2

\* The listing shows a pull request of the branch, or has none to show.
LEMMA Newest ==
  /\ NewestListed \in PrNumbers
  /\ NewestListed # 0 <=> SomeListed
<1> DEFINE L == {n \in 1 .. MaxPrs : prs[n].listed}
<1>1. CASE L = {}
  BY <1>1, BoundsAssumption DEF NewestListed, PrNumbers, SomeListed
<1>2. CASE L # {}
  <2> DEFINE D == {MaxPrs - n : n \in L}
  <2>1. D \subseteq Nat /\ D # {}
    BY <1>2, BoundsAssumption
  <2>2. PICK d \in D : \A e \in D : d <= e
    BY <2>1, Least
  <2>3. PICK n \in L : d = MaxPrs - n
    BY <2>2
  <2>4. ASSUME NEW m \in L PROVE m <= n
    <3>1. MaxPrs - m \in D
      OBVIOUS
    <3>2. MaxPrs - n <= MaxPrs - m
      BY <2>2, <2>3, <3>1
    <3>3. m \in Nat /\ n \in Nat
      OBVIOUS
    <3> HIDE DEF L, D
    <3> QED BY <3>2, <3>3, BoundsAssumption
  <2>5. NewestListed \in L
    BY <1>2, <2>3, <2>4, Zenon DEF NewestListed
  <2> QED BY <2>5, BoundsAssumption DEF PrNumbers, SomeListed
<1> QED BY <1>1, <1>2

LEMMA PrNumber == 1 .. MaxPrs \subseteq PrNumbers
BY BoundsAssumption DEF PrNumbers

LEMMA PrIndex == \A n \in 1 .. MaxPrs : n \in Nat /\ n # 0
BY BoundsAssumption

LEMMA CommitTypes ==
  /\ NoCommit \in Commits
  /\ \A c \in Commits : Replayed(c) \in Commits /\ Replayed(c).base = "landed"
BY DEF Commits, NoCommit, Replayed

LEMMA NoCommitType == NoCommit \in Commits
BY CommitTypes

LEMMA NoRestackType ==
  NoRestack \in [state : {"none", "planned", "rewritten"}, previous : Commits, pr : PrNumbers]
BY NoCommitType, BoundsAssumption DEF NoRestack, PrNumbers

LEMMA Grown ==
  ASSUME NEW c \in Commits, NEW n \in Nat
  PROVE  /\ [c EXCEPT !.own = Append(@, n)] \in Commits
         /\ [c EXCEPT !.own = Append(Front(@), n)] \in Commits
         /\ [c EXCEPT !.own = Append(@, n)].base = c.base
         /\ [c EXCEPT !.own = Append(Front(@), n)].base = c.base
<1>1. \A s \in Seq(Nat) : Front(s) \in Seq(Nat)
  BY DEF Front
<1>2. \A s \in Seq(Nat) : [c EXCEPT !.own = s] \in Commits /\ [c EXCEPT !.own = s].base = c.base
  BY DEF Commits
<1>3. c.own \in Seq(Nat)
  BY DEF Commits
<1>4. Append(c.own, n) \in Seq(Nat) /\ Append(Front(c.own), n) \in Seq(Nat)
  BY <1>1, <1>3
<1> QED BY <1>2, <1>4

LEMMA IdleOwner == Idle \in Owners
BY CommitTypes, BoundsAssumption DEF Owners, Idle, PrNumbers, PublicationStates

LEMMA IdleStep == Idle.step = "idle"
BY DEF Idle

LEMMA OwnerParts ==
  ASSUME op \in Owners
  PROVE  /\ {op.commit, op.bound, op.before} \subseteq Commits
         /\ op.pr \in PrNumbers /\ op.cancelled \in BOOLEAN
BY DEF Owners

LEMMA SaveFacts ==
  ASSUME NEW t, NEW o, Save(t, o), task \in survivors
  PROVE  /\ task' \in {task, t} /\ task' \in survivors'
         /\ survivors' \subseteq survivors \cup {t}
         /\ o = "saved" => task' = t /\ survivors' = {t}
         /\ o = "failed" => task' = task /\ survivors' = survivors
BY DEF Save, Outcomes

LEMMA SaveType ==
  ASSUME TypeOK, NEW t \in TaskRecords, NEW o, Save(t, o)
  PROVE  /\ task' \in TaskRecords /\ survivors' \subseteq TaskRecords
         /\ task' \in survivors' /\ faults' \in 0 .. MaxFaults
BY BoundsAssumption DEF TypeOK, Save, Outcomes

------------------------------------------------------------------------------
(* Types *)

LEMMA SurroundingsType == ASSUME TypeOK, Surroundings PROVE TypeOK'
<1>1. ASSUME GiveUpMove PROVE TypeOK'
  <2> QED
    BY <1>1 DEF GiveUpMove, TypeOK, record, branch, github, history
<1>2. ASSUME Commit PROVE TypeOK'
  <2>1. made' \in 1 .. MaxCommits /\ made' \in Nat
    BY <1>2, BoundsAssumption DEF Commit, TypeOK, Writable
  <2>2. [tip EXCEPT !.own = Append(@, made')] \in Commits
    BY <2>1, Grown, Zenon DEF TypeOK
  <2> QED
    BY <1>2, <2>1, <2>2 DEF Commit, TypeOK, record, github, history
<1>3. ASSUME Amend PROVE TypeOK'
  <2>1. made' \in 1 .. MaxCommits /\ made' \in Nat
    BY <1>3, BoundsAssumption DEF Amend, TypeOK, Writable
  <2>2. [tip EXCEPT !.own = Append(Front(@), made')] \in Commits
    BY <2>1, Grown, Zenon DEF TypeOK
  <2> QED
    BY <1>3, <2>1, <2>2 DEF Amend, TypeOK, record, github, history
<1>4. ASSUME ForeignPush PROVE TypeOK'
  <2>1. outside' \in 0 .. MaxOutside
    BY <1>4, BoundsAssumption DEF ForeignPush, TypeOK, Others
  <2>2. [remote EXCEPT !.own = Append(@, 0)] \in Commits
    BY <1>4, Grown DEF ForeignPush, TypeOK
  <2> QED
    BY <1>4, <2>1, <2>2 DEF ForeignPush, TypeOK, record, branch, history
<1>5. ASSUME ForeignDelete PROVE TypeOK'
  <2>1. outside' \in 0 .. MaxOutside
    BY <1>5, BoundsAssumption DEF ForeignDelete, TypeOK, Others
  <2> QED
    BY <1>5, <2>1, NoCommitType DEF ForeignDelete, TypeOK, record, branch, history
<1>6. ASSUME NEW n \in 1 .. MaxPrs, ForeignOpen(n) PROVE TypeOK'
  <2>1. outside' \in 0 .. MaxOutside
    BY <1>6, BoundsAssumption DEF ForeignOpen, TypeOK, Others
  <2>2. prs' \in [1 .. MaxPrs -> PullRequests]
    BY <1>6 DEF ForeignOpen, TypeOK, PullRequests
  <2> QED
    BY <1>6, <2>1, <2>2 DEF ForeignOpen, TypeOK, record, branch, history
<1>7. ASSUME NEW n \in 1 .. MaxPrs, Close(n) PROVE TypeOK'
  <2>1. outside' \in 0 .. MaxOutside
    BY <1>7, BoundsAssumption DEF Close, TypeOK, Others
  <2>2. prs' \in [1 .. MaxPrs -> PullRequests]
    BY <1>7 DEF Close, TypeOK, PullRequests
  <2> QED
    BY <1>7, <2>1, <2>2 DEF Close, TypeOK, record, branch, history
<1>8. ASSUME NEW n \in 1 .. MaxPrs, List(n) PROVE TypeOK'
  <2>1. prs' \in [1 .. MaxPrs -> PullRequests]
    BY <1>8 DEF List, TypeOK, PullRequests
  <2> QED
    BY <1>8, <2>1 DEF List, TypeOK, record, branch, history
<1>9. ASSUME ParentLands PROVE TypeOK'
  <2> QED
    BY <1>9 DEF ParentLands, TypeOK, record, branch, history
<1>10. ASSUME Crash PROVE TypeOK'
  <2>1. faults' \in 0 .. MaxFaults
    BY <1>10, BoundsAssumption DEF Crash, TypeOK
  <2> QED
    BY <1>10, <2>1, IdleOwner DEF Crash, TypeOK, branch, github, history
<1>11. ASSUME NEW column \in {"work", "review"}, BeginMove(column) PROVE TypeOK'
  <2>1. \/ op' = Idle
        \/ op' = [op EXCEPT !.cancelled = TRUE]
    BY <1>11 DEF BeginMove, Step, Refuse, Goto, End
  <2>2. op' \in Owners
    BY <2>1, IdleOwner DEF TypeOK, Owners
  <2> QED
    BY <1>11, <2>2 DEF BeginMove, TypeOK, record, branch, github, history
<1>12. ASSUME NEW o \in Outcomes, Approve(o) PROVE TypeOK'
  <2>1. [task EXCEPT !.approved = tip] \in TaskRecords
    BY <1>12 DEF Approve, TypeOK, TaskRecords
  <2>2. Save([task EXCEPT !.approved = tip], o) =>
          /\ task' \in TaskRecords /\ survivors' \subseteq TaskRecords
          /\ task' \in survivors' /\ faults' \in 0 .. MaxFaults
    BY <2>1, SaveType, Zenon
  <2> QED
    BY <1>12, <2>2 DEF Approve, TypeOK, branch, github
<1>13. ASSUME NEW o \in Outcomes, ApproveAgain(o) PROVE TypeOK'
  <2>1. [task EXCEPT !.approved = tip] \in TaskRecords
    BY <1>13 DEF ApproveAgain, TypeOK, TaskRecords
  <2>2. Save([task EXCEPT !.approved = tip], o) =>
          /\ task' \in TaskRecords /\ survivors' \subseteq TaskRecords
          /\ task' \in survivors' /\ faults' \in 0 .. MaxFaults
    BY <2>1, SaveType, Zenon
  <2> QED
    BY <1>13, <2>2 DEF ApproveAgain, TypeOK, branch, github
<1>14. ASSUME NEW o \in Outcomes, FinishRun(o) PROVE TypeOK'
  <2>1. [task EXCEPT !.status = "review", !.approved = NoCommit] \in TaskRecords
    BY <1>14, NoCommitType DEF FinishRun, TypeOK, TaskRecords
  <2>2. Save([task EXCEPT !.status = "review", !.approved = NoCommit], o) =>
          /\ task' \in TaskRecords /\ survivors' \subseteq TaskRecords
          /\ task' \in survivors' /\ faults' \in 0 .. MaxFaults
    BY <2>1, SaveType, Zenon
  <2> QED
    BY <1>14, <2>2 DEF FinishRun, TypeOK, branch, github, history
<1>15. ASSUME NEW o \in Outcomes, CompleteMove(o) PROVE TypeOK'
  <2>1. [task EXCEPT !.status = moving,
                       !.approved = IF moving = "work" THEN NoCommit ELSE @] \in TaskRecords
    BY <1>15, NoCommitType DEF CompleteMove, TypeOK, TaskRecords
  <2>2. Save([task EXCEPT !.status = moving,
                       !.approved = IF moving = "work" THEN NoCommit ELSE @], o) =>
          /\ task' \in TaskRecords /\ survivors' \subseteq TaskRecords
          /\ task' \in survivors' /\ faults' \in 0 .. MaxFaults
    BY <2>1, SaveType, Zenon
  <2> QED
    BY <1>15, <2>2 DEF CompleteMove, TypeOK, branch, github, history
<1> QED
  BY <1>1, <1>2, <1>3, <1>4, <1>5, <1>6, <1>7, <1>8, <1>9, <1>10, <1>11, <1>12, <1>13, <1>14,
  <1>15 DEF Surroundings

LEMMA PullRequestType == ASSUME TypeOK, PullRequestNext PROVE TypeOK'
<1>1. ASSUME BeginCreate PROVE TypeOK'
  <2>1. op' = [Idle EXCEPT !.step = "lookup", !.commit = tip, !.bound = tip]
    BY <1>1 DEF BeginCreate, MayBegin, Step, Refuse, Goto, End
  <2>2. op' \in Owners
    BY <2>1, IdleOwner DEF TypeOK, Owners, CreateSteps
  <2> QED
    BY <1>1, <2>2 DEF BeginCreate, MayBegin, TypeOK, record, branch, github, Rest, history
<1>2. ASSUME Lookup PROVE TypeOK'
  <2>1. \/ op' = Idle
        \/ op' = [op EXCEPT !.step = "toExisting", !.pr = NewestListed]
        \/ op' = [op EXCEPT !.step = "restack"]
        \/ op' = [op EXCEPT !.step = "push"]
    BY <1>2 DEF Lookup, Step, Refuse, Goto, End
  <2>2. op' \in Owners
    BY <2>1, IdleOwner, Newest DEF TypeOK, Owners, CreateSteps
  <2> QED
    BY <1>2, <2>2 DEF Lookup, TypeOK, record, branch, github, Rest, history, At, Goto, End
<1>3. ASSUME NEW sent \in BOOLEAN, ToExisting(sent) PROVE TypeOK'
  <2>1. \/ op' = Idle
        \/ op' = [op EXCEPT !.step = "link"]
    BY <1>3 DEF ToExisting, RemoteAt, Step, Refuse, Goto, End
  <2>2. op' \in Owners
    BY <2>1, IdleOwner DEF TypeOK, Owners, CreateSteps
  <2> QED
    BY <1>3, <2>2, OwnerParts DEF ToExisting, RemoteAt, TypeOK, record, branch, github, Rest,
    history, At, Step, Refuse, Goto, End
<1>4. ASSUME PlanRestack PROVE TypeOK'
  <2>1. \/ op' = Idle
        \/ op' = [op EXCEPT !.step = "restackReplay"]
    BY <1>4 DEF PlanRestack, Step, Refuse, Goto, End
  <2>2. op' \in Owners
    BY <2>1, IdleOwner DEF TypeOK, Owners, CreateSteps
  <2> QED
    BY <1>4, <2>2, NoCommitType DEF PlanRestack, TypeOK, record, branch, github, Rest, history,
    At, Refuse, Goto, End
<1>5. ASSUME NEW clean \in BOOLEAN, Replay(clean) PROVE TypeOK'
  <2>1. \/ op' = Idle
        \/ op' = [op EXCEPT !.step = "restackRecord"]
    BY <1>5 DEF Replay, Step, Refuse, Goto, End
  <2>2. op' \in Owners
    BY <2>1, IdleOwner DEF TypeOK, Owners, CreateSteps
  <2> QED
    BY <1>5, <2>2, NoCommitType, OwnerParts, CommitTypes DEF Replay, TypeOK, record, github,
    Rest, history, At, Goto, End
<1>6. ASSUME NEW o \in Outcomes, RecordRestack(o) PROVE TypeOK'
  <2>1. [task EXCEPT !.base = "landed"] \in TaskRecords
    BY <1>6 DEF RecordRestack, TypeOK, TaskRecords
  <2>2. Save([task EXCEPT !.base = "landed"], o) =>
          /\ task' \in TaskRecords /\ survivors' \subseteq TaskRecords
          /\ task' \in survivors' /\ faults' \in 0 .. MaxFaults
    BY <2>1, SaveType, Zenon
  <2>3. \/ op' = Idle
        \/ op' = [op EXCEPT !.step = "push", !.commit = tip]
    BY <1>6 DEF RecordRestack, Step, Refuse, Goto, End
  <2>4. op' \in Owners
    BY <2>3, IdleOwner DEF TypeOK, Owners, CreateSteps
  <2> QED
    BY <1>6, <2>2, <2>4, NoCommitType, OwnerParts DEF RecordRestack, TypeOK, github, Rest,
    history, At, End
<1>7. ASSUME NEW sent \in BOOLEAN, NEW answered \in BOOLEAN, Push(sent, answered) PROVE TypeOK'
  <2>1. \/ op' = Idle
        \/ op' = [op EXCEPT !.step = "confirmPush", !.verdict = "accepted"]
        \/ op' = [op EXCEPT !.step = "confirmPush", !.verdict = "error"]
    BY <1>7 DEF Push, RemoteAt, Step, Refuse, Goto, End
  <2>2. op' \in Owners
    BY <2>1, IdleOwner DEF TypeOK, Owners, CreateSteps
  <2> QED
    BY <1>7, <2>2, OwnerParts DEF Push, RemoteAt, TypeOK, record, branch, github, Rest, history,
    At, Refuse, End
<1>8. ASSUME NEW read \in BOOLEAN, ConfirmPush(read) PROVE TypeOK'
  <2>1. \/ op' = Idle
        \/ op' = [op EXCEPT !.step = "lookupAgain"]
    BY <1>8 DEF ConfirmPush, Step, Refuse, Goto, End
  <2>2. op' \in Owners
    BY <2>1, IdleOwner DEF TypeOK, Owners, CreateSteps
  <2> QED
    BY <1>8, <2>2 DEF ConfirmPush, TypeOK, record, branch, github, Rest, history, At, Step,
    Refuse, Goto, End
<1>9. ASSUME LookupAgain PROVE TypeOK'
  <2>1. \/ op' = Idle
        \/ op' = [op EXCEPT !.step = "link", !.verdict = "none", !.pr = NewestListed]
        \/ op' = [op EXCEPT !.step = "announce", !.verdict = "none"]
    BY <1>9 DEF LookupAgain, Step, Refuse, Goto, End
  <2>2. op' \in Owners
    BY <2>1, IdleOwner, Newest DEF TypeOK, Owners, CreateSteps, PublicationStates
  <2> QED
    BY <1>9, <2>2 DEF LookupAgain, TypeOK, record, branch, github, Rest, history, At
<1>10. ASSUME NEW o \in Outcomes, Announce(o) PROVE TypeOK'
  <2>1. [task EXCEPT !.asked = op.commit] \in TaskRecords
    BY <1>10, OwnerParts DEF Announce, TypeOK, TaskRecords
  <2>2. Save([task EXCEPT !.asked = op.commit], o) =>
          /\ task' \in TaskRecords /\ survivors' \subseteq TaskRecords
          /\ task' \in survivors' /\ faults' \in 0 .. MaxFaults
    BY <2>1, SaveType, Zenon
  <2>3. \/ op' = Idle
        \/ op' = [op EXCEPT !.step = "create"]
        \/ op' = [op EXCEPT !.step = "retract"]
    BY <1>10 DEF Announce, Step, Refuse, Goto, End
  <2>4. op' \in Owners
    BY <2>3, IdleOwner DEF TypeOK, Owners, CreateSteps
  <2> QED
    BY <1>10, <2>2, <2>4 DEF Announce, TypeOK, record, branch, github, Rest, history, At,
    Refuse, Goto, End
<1>11. ASSUME NEW answer \in {"opened", "lost", "rejected", "not sent"}, Create(answer) PROVE TypeOK'
  <2>1. CASE prs' = prs /\ UNCHANGED <<record, branch, remote, landed, outside, Rest>>
    <3>1. \/ op' = [op EXCEPT !.step = "retract"]
          \/ op' = [op EXCEPT !.step = "reconcile", !.verdict = "unknown"]
          \/ op' = [op EXCEPT !.step = "reconcile", !.verdict = "rejected"]
          \/ \E n \in 1 .. MaxPrs :
               \/ op' = [op EXCEPT !.step = "confirmCreated", !.pr = n, !.verdict = "unknown"]
               \/ op' = [op EXCEPT !.step = "reconcile", !.pr = n, !.verdict = "unknown"]
      BY <1>11 DEF Create, Step, Goto
    <3>2. op' \in Owners
      <4>1. ASSUME NEW n \in PrNumbers,
                   \/ op' = [op EXCEPT !.step = "confirmCreated", !.pr = n, !.verdict = "unknown"]
                   \/ op' = [op EXCEPT !.step = "reconcile", !.pr = n, !.verdict = "unknown"]
            PROVE  op' \in Owners
        BY <4>1 DEF TypeOK, Owners, CreateSteps, PublicationStates
      <4>2. ASSUME \/ op' = [op EXCEPT !.step = "retract"]
                   \/ op' = [op EXCEPT !.step = "reconcile", !.verdict = "unknown"]
                   \/ op' = [op EXCEPT !.step = "reconcile", !.verdict = "rejected"]
            PROVE  op' \in Owners
        BY <4>2 DEF TypeOK, Owners, CreateSteps, PublicationStates
      <4> QED BY <3>1, PrNumber, <4>1, <4>2
    <3> QED
      BY <2>1, <3>2 DEF TypeOK, record, branch, Rest, history
  <2>2. CASE /\ UNCHANGED <<record, branch, remote, landed, outside, Rest>>
             /\ \E n \in 1 .. MaxPrs :
                  /\ prs' = [prs EXCEPT ![n] = [state |-> "open", ours |-> TRUE, listed |-> FALSE]]
                  /\ \/ op' = [op EXCEPT !.step = "confirmCreated", !.pr = n, !.verdict = "unknown"]
                     \/ op' = [op EXCEPT !.step = "reconcile", !.pr = n, !.verdict = "unknown"]
    <3>1. op' \in Owners
      <4>1. ASSUME NEW n \in PrNumbers,
                   \/ op' = [op EXCEPT !.step = "confirmCreated", !.pr = n, !.verdict = "unknown"]
                   \/ op' = [op EXCEPT !.step = "reconcile", !.pr = n, !.verdict = "unknown"]
            PROVE  op' \in Owners
        BY <4>1 DEF TypeOK, Owners, CreateSteps, PublicationStates
      <4> QED BY <2>2, PrNumber, <4>1
    <3>2. prs' \in [1 .. MaxPrs -> PullRequests]
      <4>1. [state |-> "open", ours |-> TRUE, listed |-> FALSE] \in PullRequests
        BY DEF PullRequests
      <4> QED BY <2>2, <4>1 DEF TypeOK
    <3> QED
      BY <2>2, <3>1, <3>2 DEF TypeOK, record, branch, Rest, history
  <2>3. \/ prs' = prs /\ UNCHANGED <<record, branch, remote, landed, outside, Rest>>
        \/ /\ UNCHANGED <<record, branch, remote, landed, outside, Rest>>
           /\ \E n \in 1 .. MaxPrs :
                /\ prs' = [prs EXCEPT ![n] = [state |-> "open", ours |-> TRUE, listed |-> FALSE]]
                /\ \/ op' = [op EXCEPT !.step = "confirmCreated", !.pr = n, !.verdict = "unknown"]
                   \/ op' = [op EXCEPT !.step = "reconcile", !.pr = n, !.verdict = "unknown"]
    BY <1>11 DEF Create, Step, Goto, github
  <2> QED BY <2>1, <2>2, <2>3
<1>12. ASSUME NEW read \in BOOLEAN, ConfirmCreated(read) PROVE TypeOK'
  <2>1. \/ op' = Idle
        \/ op' = [op EXCEPT !.step = "link"]
    BY <1>12 DEF ConfirmCreated, Step, Refuse, Goto, End
  <2>2. op' \in Owners
    BY <2>1, IdleOwner DEF TypeOK, Owners, CreateSteps
  <2> QED
    BY <1>12, <2>2 DEF ConfirmCreated, TypeOK, record, branch, github, Rest, history, At, Step,
    Refuse, Goto, End
<1>13. ASSUME NEW read \in BOOLEAN, Reconcile(read) PROVE TypeOK'
  <2>1. \/ op' = Idle
        \/ op' = [op EXCEPT !.step = "confirmCreated", !.pr = NewestListed]
        \/ op' = [op EXCEPT !.step = "retract"]
    BY <1>13 DEF Reconcile, Step, Refuse, Goto, End
  <2>2. op' \in Owners
    BY <2>1, IdleOwner, Newest DEF TypeOK, Owners, CreateSteps
  <2> QED
    BY <1>13, <2>2 DEF Reconcile, TypeOK, record, branch, github, Rest, history, At, Refuse, End
<1>14. ASSUME NEW o \in Outcomes, Retract(o) PROVE TypeOK'
  <2>1. [task EXCEPT !.asked = IF @ = op.commit THEN NoCommit ELSE @] \in TaskRecords
    BY <1>14, NoCommitType, OwnerParts DEF Retract, TypeOK, TaskRecords
  <2>2. Save([task EXCEPT !.asked = IF @ = op.commit THEN NoCommit ELSE @], o) =>
          /\ task' \in TaskRecords /\ survivors' \subseteq TaskRecords
          /\ task' \in survivors' /\ faults' \in 0 .. MaxFaults
    BY <2>1, SaveType, Zenon
  <2> QED
    BY <1>14, <2>2, IdleOwner DEF Retract, TypeOK, branch, github, Rest, history, At, End
<1>15. ASSUME NEW o \in Outcomes, Link(o) PROVE TypeOK'
  <2>1. [task EXCEPT !.pr = op.pr, !.asked = NoCommit, !.status = "created"] \in TaskRecords
    BY <1>15, NoCommitType, OwnerParts DEF Link, TypeOK, TaskRecords
  <2>2. Save([task EXCEPT !.pr = op.pr, !.asked = NoCommit, !.status = "created"], o) =>
          /\ task' \in TaskRecords /\ survivors' \subseteq TaskRecords
          /\ task' \in survivors' /\ faults' \in 0 .. MaxFaults
    BY <2>1, SaveType, Zenon
  <2> QED
    BY <1>15, <2>2, IdleOwner DEF Link, TypeOK, record, branch, github, Rest, history, At,
    Refuse, End
<1>16. ASSUME NEW n \in 1 .. MaxPrs, LinkExisting(n) PROVE TypeOK'
  <2>1. n \in PrNumbers
    BY <1>16, PrNumber DEF LinkExisting, MayRecover, MayBegin, TypeOK
  <2>2. op' = [Idle EXCEPT !.step = "link", !.pr = n]
    BY <1>16 DEF LinkExisting, MayRecover, MayBegin, Step, Refuse, Goto, End
  <2>3. op' \in Owners
    BY <2>2, IdleOwner, <2>1 DEF TypeOK, Owners, CreateSteps
  <2> QED
    BY <1>16, <2>1, <2>3 DEF LinkExisting, MayRecover, MayBegin, TypeOK, record, branch, github
<1>17. ASSUME BeginDiscard PROVE TypeOK'
  <2>1. task.asked \in Commits
    BY <1>17 DEF BeginDiscard, MayRecover, MayBegin, TypeOK, TaskRecords
  <2>2. op' = [Idle EXCEPT !.step = "discard", !.commit = task.asked]
    BY <1>17 DEF BeginDiscard, MayRecover, MayBegin, Step, Refuse, Goto, End
  <2>3. op' \in Owners
    BY <2>2, IdleOwner, <2>1 DEF TypeOK, Owners, CreateSteps
  <2> QED
    BY <1>17, <2>1, <2>3 DEF BeginDiscard, MayRecover, MayBegin, TypeOK, record, branch, github,
    Rest, history
<1>18. ASSUME LookBeforeDiscard PROVE TypeOK'
  <2>1. \/ op' = Idle
        \/ op' = [op EXCEPT !.step = "discardWrite"]
    BY <1>18 DEF LookBeforeDiscard, Step, Refuse, Goto, End
  <2>2. op' \in Owners
    BY <2>1, IdleOwner DEF TypeOK, Owners, CreateSteps
  <2> QED
    BY <1>18, <2>2 DEF LookBeforeDiscard, TypeOK, record, branch, github, Rest, history, At,
    Step, Refuse, Goto, End
<1>19. ASSUME NEW o \in Outcomes, DiscardRequest(o) PROVE TypeOK'
  <2>1. [task EXCEPT !.asked = IF @ = op.commit THEN NoCommit ELSE @] \in TaskRecords
    BY <1>19, NoCommitType, OwnerParts DEF DiscardRequest, TypeOK, TaskRecords
  <2>2. Save([task EXCEPT !.asked = IF @ = op.commit THEN NoCommit ELSE @], o) =>
          /\ task' \in TaskRecords /\ survivors' \subseteq TaskRecords
          /\ task' \in survivors' /\ faults' \in 0 .. MaxFaults
    BY <2>1, SaveType, Zenon
  <2> QED
    BY <1>19, <2>2, IdleOwner DEF DiscardRequest, TypeOK, branch, github, At, End
<1> QED
  BY <1>1, <1>2, <1>3, <1>4, <1>5, <1>6, <1>7, <1>8, <1>9, <1>10, <1>11, <1>12, <1>13, <1>14,
  <1>15, <1>16, <1>17, <1>18, <1>19 DEF PullRequestNext

LEMMA PublicationType == ASSUME TypeOK, SoundPublication, PublicationNext PROVE TypeOK'
<1>1. ASSUME NEW c \in {tip, task.publication.commit}, BeginPublication(c) PROVE TypeOK'
  <2>1. c \in Commits /\ task.pr \in PrNumbers
    BY <1>1 DEF BeginPublication, MayBegin, TypeOK, TaskRecords
  <2>2. \/ op' = [Idle EXCEPT !.step = "settle", !.commit = c, !.pr = task.pr]
        \/ op' = [Idle EXCEPT !.step = "observe", !.commit = c, !.pr = task.pr]
    BY <1>1 DEF BeginPublication, MayBegin, Step, Refuse, Goto, End
  <2>3. op' \in Owners
    BY <2>2, IdleOwner, <2>1 DEF TypeOK, Owners, PublishSteps
  <2> QED
    BY <1>1, <2>1, <2>3 DEF BeginPublication, MayBegin, TypeOK, record, branch, github
<1>2. ASSUME NEW read \in BOOLEAN, Settle(read) PROVE TypeOK'
  <2>1. task.publication.commit \in Commits /\ task.publication.pr \in PrNumbers
    BY <1>2 DEF Settle, TypeOK, TaskRecords
  <2>2. \/ op' = Idle
        \/ op' = [op EXCEPT !.step = "verdict", !.commit = task.publication.commit, !.pr = task.publication.pr,
            !.verdict = "published"]
        \/ op' = [op EXCEPT !.step = "verdict", !.commit = task.publication.commit, !.pr = task.publication.pr,
            !.verdict = "refused"]
    BY <1>2 DEF Settle, Step, Refuse, Goto, End
  <2>3. op' \in Owners
    BY <2>2, IdleOwner, <2>1 DEF TypeOK, Owners, PublishSteps, PublicationStates
  <2> QED
    BY <1>2, <2>1, <2>3 DEF Settle, TypeOK, record, branch, github, Rest, history, At, Refuse,
    End
<1>3. ASSUME NEW read \in BOOLEAN, Observe(read) PROVE TypeOK'
  <2>1. \/ op' = Idle
        \/ op' = [op EXCEPT !.before = remote, !.step = "pend"]
        \/ op' = [op EXCEPT !.before = remote, !.step = "refuse"]
    BY <1>3 DEF Observe, Step, Refuse, Goto, End
  <2>2. op' \in Owners
    BY <2>1, IdleOwner DEF TypeOK, Owners, PublishSteps
  <2> QED
    BY <1>3, <2>2 DEF Observe, TypeOK, record, branch, github, Rest, history, At, Refuse, End
<1>4. ASSUME NEW read \in BOOLEAN, Recheck(read) PROVE TypeOK'
  <2>1. \/ op' = [op EXCEPT !.step = "send"]
        \/ op' = [op EXCEPT !.step = "refuse"]
    BY <1>4 DEF Recheck, Step, Refuse, Goto, End
  <2>2. op' \in Owners
    BY <2>1, IdleOwner DEF TypeOK, Owners, PublishSteps
  <2> QED
    BY <1>4, <2>2 DEF Recheck, TypeOK, record, branch, github, Rest, history, At, Step, Goto
<1>5. ASSUME NEW sent \in BOOLEAN, NEW answered \in BOOLEAN, Send(sent, answered) PROVE TypeOK'
  <2>1. \/ op' = [op EXCEPT !.step = "refuse"]
        \/ op' = [op EXCEPT !.step = "readBack", !.verdict = "accepted"]
        \/ op' = [op EXCEPT !.step = "readBack", !.verdict = "error"]
    BY <1>5 DEF Send, RemoteAt, Step, Refuse, Goto, End
  <2>2. op' \in Owners
    BY <2>1, IdleOwner DEF TypeOK, Owners, PublishSteps
  <2> QED
    BY <1>5, <2>2, OwnerParts DEF Send, RemoteAt, TypeOK, record, branch, github, Rest, history,
    At, Step, Goto
<1>6. ASSUME NEW read \in BOOLEAN, ReadBack(read) PROVE TypeOK'
  <2>1. \/ op' = [op EXCEPT !.step = "verdict", !.verdict = "published", !.before = NoCommit]
        \/ op' = [op EXCEPT !.step = "verdict", !.verdict = "refused", !.before = NoCommit]
        \/ op' = [op EXCEPT !.step = "verdict", !.verdict = "unknown", !.before = NoCommit]
    BY <1>6 DEF ReadBack, Verdict, Step, Refuse, Goto, End
  <2>2. op' \in Owners
    BY <2>1, IdleOwner, NoCommitType DEF TypeOK, Owners, PublishSteps, PublicationStates
  <2> QED
    BY <1>6, <2>2 DEF ReadBack, Verdict, TypeOK, record, branch, github, Rest, history, At
<1>7. ASSUME NEW o \in Outcomes, RefusePublication(o) PROVE TypeOK'
  <2>1. [task EXCEPT !.publication = [state |-> "refused", commit |-> op.commit, pr |-> op.pr]] \in TaskRecords
    BY <1>7, OwnerParts DEF RefusePublication, Publish, TypeOK, TaskRecords, PublicationStates
  <2>2. Save([task EXCEPT !.publication = [state |-> "refused", commit |-> op.commit, pr |-> op.pr]], o) =>
          /\ task' \in TaskRecords /\ survivors' \subseteq TaskRecords
          /\ task' \in survivors' /\ faults' \in 0 .. MaxFaults
    BY <2>1, SaveType, Zenon
  <2> QED
    BY <1>7, <2>2, IdleOwner DEF RefusePublication, Publish, TypeOK, branch, github, Rest,
    history, At, End
<1>8. ASSUME NEW o \in Outcomes, Pend(o) PROVE TypeOK'
  <2>1. [task EXCEPT !.publication = [state |-> "pending", commit |-> op.commit, pr |-> op.pr]] \in TaskRecords
    BY <1>8, OwnerParts DEF Pend, Publish, TypeOK, TaskRecords, PublicationStates
  <2>2. Save([task EXCEPT !.publication = [state |-> "pending", commit |-> op.commit, pr |-> op.pr]], o) =>
          /\ task' \in TaskRecords /\ survivors' \subseteq TaskRecords
          /\ task' \in survivors' /\ faults' \in 0 .. MaxFaults
    BY <2>1, SaveType, Zenon
  <2>3. \/ op' = Idle
        \/ op' = [op EXCEPT !.step = "recheck"]
    BY <1>8 DEF Pend, Publish, Step, Refuse, Goto, End
  <2>4. op' \in Owners
    BY <2>3, IdleOwner DEF TypeOK, Owners, PublishSteps
  <2> QED
    BY <1>8, <2>2, <2>4 DEF Pend, Publish, TypeOK, record, branch, github, Rest, history, At,
    Refuse, Goto, End
<1>9. ASSUME NEW o \in Outcomes, SettlePublication(o) PROVE TypeOK'
  <2>1. op.verdict \in PublicationStates
    BY <1>9 DEF SettlePublication, Publish, TypeOK, SoundPublication, At, PublicationStates
  <2>2. [task EXCEPT !.publication = [state |-> op.verdict, commit |-> op.commit, pr |-> op.pr]] \in TaskRecords
    BY <1>9, <2>1, OwnerParts DEF SettlePublication, Publish, TypeOK, TaskRecords,
    PublicationStates
  <2>3. Save([task EXCEPT !.publication = [state |-> op.verdict, commit |-> op.commit, pr |-> op.pr]], o) =>
          /\ task' \in TaskRecords /\ survivors' \subseteq TaskRecords
          /\ task' \in survivors' /\ faults' \in 0 .. MaxFaults
    BY <2>2, SaveType, Zenon
  <2> QED
    BY <1>9, <2>1, <2>3, IdleOwner DEF SettlePublication, Publish, TypeOK, branch, github, Rest,
    history, At, End
<1> QED
  BY <1>1, <1>2, <1>3, <1>4, <1>5, <1>6, <1>7, <1>8, <1>9 DEF PublicationNext

LEMMA RepublishType == ASSUME TypeOK, RepublishNext PROVE TypeOK'
<1>1. ASSUME BeginRestack PROVE TypeOK'
  <2>1. op' = [Idle EXCEPT !.step = "plan", !.commit = tip, !.pr = NewestListed]
    BY <1>1 DEF BeginRestack, MayBegin, Step, Refuse, Goto, End
  <2>2. op' \in Owners
    BY <2>1, IdleOwner, Newest DEF TypeOK, Owners, RestackSteps
  <2> QED
    BY <1>1, <2>2 DEF BeginRestack, MayBegin, TypeOK, record, branch, github
<1>2. ASSUME NEW o \in Outcomes, PlanRewrite(o) PROVE TypeOK'
  <2>1. [task EXCEPT !.pending = [state |-> "planned", previous |-> op.commit,
                                 pr |-> op.pr]] \in TaskRecords
    BY <1>2, OwnerParts DEF PlanRewrite, TypeOK, TaskRecords
  <2>2. Save([task EXCEPT !.pending = [state |-> "planned", previous |-> op.commit,
                                 pr |-> op.pr]], o) =>
          /\ task' \in TaskRecords /\ survivors' \subseteq TaskRecords
          /\ task' \in survivors' /\ faults' \in 0 .. MaxFaults
    BY <2>1, SaveType, Zenon
  <2>3. \/ op' = Idle
        \/ op' = [op EXCEPT !.step = "advance"]
    BY <1>2 DEF PlanRewrite, Step, Refuse, Goto, End
  <2>4. op' \in Owners
    BY <2>3, IdleOwner DEF TypeOK, Owners, RestackSteps
  <2> QED
    BY <1>2, <2>2, <2>4 DEF PlanRewrite, TypeOK, record, branch, github, Rest, history, At,
    Refuse, Goto, End
<1>3. ASSUME Resume PROVE TypeOK'
  <2>1. Approved \in Commits /\ Rewritten \in Commits
    BY <1>3, CommitTypes DEF Resume, MayBegin, TypeOK, Approved, Rewritten, TaskRecords
  <2>2. op' = [Idle EXCEPT !.step = "advance", !.commit = Approved]
    BY <1>3 DEF Resume, MayBegin, Step, Refuse, Goto, End
  <2>3. op' \in Owners
    BY <2>2, IdleOwner, <2>1 DEF TypeOK, Owners, RestackSteps
  <2> QED
    BY <1>3, <2>1, <2>3 DEF Resume, MayBegin, TypeOK, record, branch, github, Rest, history
<1>4. ASSUME Advance PROVE TypeOK'
  <2>1. \/ op' = Idle
        \/ op' = [op EXCEPT !.step = "checkRemote"]
        \/ op' = [op EXCEPT !.step = "adopt"]
        \/ op' = [op EXCEPT !.step = "replay"]
    BY <1>4 DEF Advance, Step, Refuse, Goto, End
  <2>2. op' \in Owners
    BY <2>1, IdleOwner DEF TypeOK, Owners, RestackSteps
  <2> QED
    BY <1>4, <2>2 DEF Advance, TypeOK, record, branch, github, Rest, history, At, Step, Refuse,
    Goto, End
<1>5. ASSUME NEW clean \in BOOLEAN, ReplayPublished(clean) PROVE TypeOK'
  <2>1. Approved \in Commits /\ Rewritten \in Commits
    BY <1>5, CommitTypes DEF ReplayPublished, TypeOK, Approved, Rewritten, TaskRecords
  <2>2. \/ op' = Idle
        \/ op' = [op EXCEPT !.step = "recordRewrite"]
        \/ op' = [op EXCEPT !.step = "clear"]
    BY <1>5 DEF ReplayPublished, Step, Refuse, Goto, End
  <2>3. op' \in Owners
    BY <2>2, IdleOwner DEF TypeOK, Owners, RestackSteps
  <2> QED
    BY <1>5, <2>1, <2>3, NoCommitType, CommitTypes DEF ReplayPublished, TypeOK, record, branch,
    github, Rest, history, At, Refuse, Goto, End
<1>6. ASSUME NEW o \in Outcomes, RecordRewrite(o) PROVE TypeOK'
  <2>1. Approved \in Commits /\ Rewritten \in Commits
    BY <1>6, CommitTypes DEF RecordRewrite, TypeOK, Approved, Rewritten, TaskRecords
  <2>2. RewriteRecorded \in TaskRecords
    BY <1>6 DEF RecordRewrite, TypeOK, TaskRecords, RewriteRecorded
  <2>3. Save(RewriteRecorded, o) =>
          /\ task' \in TaskRecords /\ survivors' \subseteq TaskRecords
          /\ task' \in survivors' /\ faults' \in 0 .. MaxFaults
    BY <2>2, SaveType, Zenon
  <2>4. \/ op' = Idle
        \/ op' = [op EXCEPT !.step = "checkRemote"]
        \/ op' = [op EXCEPT !.step = "clear"]
    BY <1>6 DEF RecordRewrite, Step, Refuse, Goto, End
  <2>5. op' \in Owners
    BY <2>4, IdleOwner DEF TypeOK, Owners, RestackSteps
  <2> QED
    BY <1>6, <2>1, <2>3, <2>5, NoCommitType DEF RecordRewrite, TypeOK, github, Rest, history,
    At, Goto, End
<1>7. ASSUME NEW o \in Outcomes, AdoptRewrite(o) PROVE TypeOK'
  <2>1. RewriteRecorded \in TaskRecords
    BY <1>7 DEF AdoptRewrite, TypeOK, TaskRecords, RewriteRecorded
  <2>2. Save(RewriteRecorded, o) =>
          /\ task' \in TaskRecords /\ survivors' \subseteq TaskRecords
          /\ task' \in survivors' /\ faults' \in 0 .. MaxFaults
    BY <2>1, SaveType, Zenon
  <2>3. \/ op' = Idle
        \/ op' = [op EXCEPT !.step = "checkRemote"]
    BY <1>7 DEF AdoptRewrite, Step, Refuse, Goto, End
  <2>4. op' \in Owners
    BY <2>3, IdleOwner DEF TypeOK, Owners, RestackSteps
  <2> QED
    BY <1>7, <2>2, <2>4 DEF AdoptRewrite, TypeOK, branch, github, Rest, history, At, Goto, End
<1>8. ASSUME NEW o \in Outcomes, ClearPending(o) PROVE TypeOK'
  <2>1. (IF task.pending.state = "planned" THEN [task EXCEPT !.pending = NoRestack] ELSE task) \in TaskRecords
    BY <1>8, NoRestackType DEF ClearPending, TypeOK, TaskRecords
  <2>2. Save((IF task.pending.state = "planned" THEN [task EXCEPT !.pending = NoRestack] ELSE task), o) =>
          /\ task' \in TaskRecords /\ survivors' \subseteq TaskRecords
          /\ task' \in survivors' /\ faults' \in 0 .. MaxFaults
    BY <2>1, SaveType, Zenon
  <2> QED
    BY <1>8, <2>2, IdleOwner DEF ClearPending, TypeOK, branch, github, Rest, history, At, End
<1>9. ASSUME CheckRemote PROVE TypeOK'
  <2>1. \/ op' = Idle
        \/ op' = [op EXCEPT !.step = "finish"]
        \/ op' = [op EXCEPT !.step = "force"]
    BY <1>9 DEF CheckRemote, Step, Refuse, Goto, End
  <2>2. op' \in Owners
    BY <2>1, IdleOwner DEF TypeOK, Owners, RestackSteps
  <2> QED
    BY <1>9, <2>2 DEF CheckRemote, TypeOK, record, branch, github, Rest, history, At, Step,
    Refuse, Goto, End
<1>10. ASSUME NEW sent \in BOOLEAN, NEW answered \in BOOLEAN, ForcePush(sent, answered) PROVE
     TypeOK'
  <2>1. \/ op' = Idle
        \/ op' = [op EXCEPT !.step = "finish"]
    BY <1>10 DEF ForcePush, RemoteAt, Step, Refuse, Goto, End
  <2>2. op' \in Owners
    BY <2>1, IdleOwner DEF TypeOK, Owners, RestackSteps
  <2> QED
    BY <1>10, <2>2 DEF ForcePush, RemoteAt, TypeOK, record, branch, github, Rest, history, At,
    Refuse, Goto, End
<1>11. ASSUME NEW retargeted \in BOOLEAN, NEW o \in Outcomes, Finish(retargeted, o) PROVE
     TypeOK'
  <2>1. [task EXCEPT !.pending = NoRestack] \in TaskRecords
    BY <1>11, NoRestackType DEF Finish, TypeOK, TaskRecords
  <2>2. Save([task EXCEPT !.pending = NoRestack], o) =>
          /\ task' \in TaskRecords /\ survivors' \subseteq TaskRecords
          /\ task' \in survivors' /\ faults' \in 0 .. MaxFaults
    BY <2>1, SaveType, Zenon
  <2> QED
    BY <1>11, <2>2, NoCommitType, IdleOwner DEF Finish, TypeOK, record, branch, github, Rest,
    history, At, Refuse, End
<1>12. ASSUME BeginDiscardRestack PROVE TypeOK'
  <2>1. Approved \in Commits /\ Rewritten \in Commits
    BY <1>12, CommitTypes DEF BeginDiscardRestack, MayBegin, TypeOK, Approved, Rewritten,
    TaskRecords
  <2>2. op' = [Idle EXCEPT !.step = "goBack", !.commit = Approved]
    BY <1>12 DEF BeginDiscardRestack, MayBegin, Step, Refuse, Goto, End
  <2>3. op' \in Owners
    BY <2>2, IdleOwner, <2>1 DEF TypeOK, Owners, RestackSteps
  <2> QED
    BY <1>12, <2>1, <2>3 DEF BeginDiscardRestack, MayBegin, TypeOK, record, branch, github,
    Rest, history
<1>13. ASSUME GoBack PROVE TypeOK'
  <2>1. Approved \in Commits /\ Rewritten \in Commits
    BY <1>13, CommitTypes DEF GoBack, TypeOK, Approved, Rewritten, TaskRecords
  <2>2. \/ op' = Idle
        \/ op' = [op EXCEPT !.step = "dropRecord"]
    BY <1>13 DEF GoBack, Step, Refuse, Goto, End
  <2>3. op' \in Owners
    BY <2>2, IdleOwner DEF TypeOK, Owners, RestackSteps
  <2> QED
    BY <1>13, <2>1, <2>3 DEF GoBack, TypeOK, record, branch, github, Rest, history, At, Step,
    Refuse, Goto, End
<1>14. ASSUME NEW o \in Outcomes, DropRecord(o) PROVE TypeOK'
  <2>1. [task EXCEPT !.pending = NoRestack,
                       !.base = IF task.pending.state = "rewritten" THEN "old" ELSE @] \in TaskRecords
    BY <1>14, NoRestackType DEF DropRecord, TypeOK, TaskRecords
  <2>2. Save([task EXCEPT !.pending = NoRestack,
                       !.base = IF task.pending.state = "rewritten" THEN "old" ELSE @], o) =>
          /\ task' \in TaskRecords /\ survivors' \subseteq TaskRecords
          /\ task' \in survivors' /\ faults' \in 0 .. MaxFaults
    BY <2>1, SaveType, Zenon
  <2> QED
    BY <1>14, <2>2, NoCommitType, IdleOwner DEF DropRecord, TypeOK, github, Rest, history, At,
    End
<1> QED
  BY <1>1, <1>2, <1>3, <1>4, <1>5, <1>6, <1>7, <1>8, <1>9, <1>10, <1>11, <1>12, <1>13, <1>14 DEF
  RepublishNext

------------------------------------------------------------------------------
(* Steps that concern no request to GitHub *)

Quiet ==
  /\ prs' = prs /\ waived \subseteq waived'
  /\ \A s \in survivors' : \E t \in survivors : s.asked = t.asked /\ s.pr = t.pr

LEMMA QuietRecords ==
  ASSUME Inv, Quiet
  PROVE  Numbered' /\ \A s \in survivors' : Remembers(s)'
<1>1. SUFFICES ASSUME NEW s \in survivors' PROVE Remembers(s)'
  BY DEF Inv, Quiet, Numbered
<1>2. PICK t \in survivors : s.asked = t.asked /\ s.pr = t.pr
  BY DEF Quiet
<1>3. Remembers(t)
  BY DEF Inv
<1> QED BY <1>2, <1>3 DEF Remembers, Answered, SomeListed, Quiet

LEMMA QuietStep ==
  ASSUME Inv, Quiet, op'.step \in {"idle"} \cup PublishSteps \cup RestackSteps,
         TypeOK', SoundPublication'
  PROVE  Inv'
<1>1. SoundOpening'
  BY DEF SoundOpening, Opening, PublishSteps, RestackSteps
<1> QED BY <1>1, QuietRecords DEF Inv

LEMMA SameRecord == ASSUME UNCHANGED <<survivors, prs, waived>> PROVE Quiet
BY DEF Quiet

LEMMA QuietSave ==
  ASSUME Inv, NEW t, t.asked = task.asked, t.pr = task.pr, NEW o, Save(t, o),
         prs' = prs, waived' = waived
  PROVE  Quiet
<1>1. task \in survivors
  BY DEF Inv, TypeOK
<1>2. survivors' \subseteq survivors \cup {t}
  BY <1>1, SaveFacts
<1> QED BY <1>1, <1>2 DEF Quiet

\* The write of a publication leaves the rest of the record.
LEMMA Published ==
  ASSUME Inv, NEW state, NEW o, Publish(state, o), prs' = prs, waived' = waived
  PROVE  /\ Quiet
         /\ o = "saved" => \A s \in survivors' : /\ s.publication.commit = op.commit
                                                 /\ s.publication.state = state
<1> DEFINE t == [task EXCEPT !.publication = [state |-> state, commit |-> op.commit, pr |-> op.pr]]
<1>1. t.asked = task.asked /\ t.pr = task.pr
      /\ t.publication.commit = op.commit /\ t.publication.state = state
  BY DEF Inv, TypeOK, TaskRecords
<1>2. Save(t, o) /\ task \in survivors
  BY DEF Publish, Inv, TypeOK
<1> HIDE DEF t
<1>3. Quiet
  BY <1>1, <1>2, QuietSave
<1>4. o = "saved" => survivors' = {t}
  BY <1>2, SaveFacts
<1> QED BY <1>1, <1>3, <1>4

LEMMA PublicationInvariant == ASSUME Inv, PublicationNext PROVE Inv'
<1>1. TypeOK /\ SoundPublication /\ op \in Owners
  BY DEF Inv, TypeOK
<1>2. TypeOK'
  BY <1>1, PublicationType
<1>3. ASSUME NEW c \in {tip, task.publication.commit}, BeginPublication(c) PROVE Inv'
  <2>1. op'.step \in {"settle", "observe"} /\ Quiet
    BY <1>3, SameRecord DEF BeginPublication, record, github, Idle
  <2> QED BY <1>2, <2>1, QuietStep DEF SoundPublication, PublishSteps
<1>4. ASSUME NEW read \in BOOLEAN, Settle(read) PROVE Inv'
  <2>1. Quiet
    BY <1>4, SameRecord DEF Settle, Refuse, record, github, Rest, history
  <2>2. \/ op' = Idle
        \/ \E c, n, v : /\ v \in {"published", "refused"}
                        /\ op' = [op EXCEPT !.step = "verdict", !.commit = c, !.pr = n,
                                            !.verdict = v]
    BY <1>4 DEF Settle, Refuse, End
  <2>3. \/ op'.step = "idle"
        \/ op'.step = "verdict" /\ op'.verdict \in {"published", "refused"}
    BY <1>1, <2>2, IdleStep DEF Owners
  <2> QED BY <1>2, <2>1, <2>3, QuietStep DEF SoundPublication, PublishSteps
<1>5. ASSUME NEW read \in BOOLEAN, Observe(read) PROVE Inv'
  <2>1. Quiet
    BY <1>5, SameRecord DEF Observe, Refuse, record, github, Rest, history
  <2>2. \/ op' = Idle
        \/ op' = [op EXCEPT !.before = remote, !.step = "pend"]
        \/ op' = [op EXCEPT !.before = remote, !.step = "refuse"]
    BY <1>5 DEF Observe, Refuse, End
  <2>3. op'.step \in {"idle", "pend", "refuse"}
    BY <1>1, <2>2, IdleStep DEF Owners
  <2> QED BY <1>2, <2>1, <2>3, QuietStep DEF SoundPublication, PublishSteps
<1>6. ASSUME NEW o \in Outcomes, RefusePublication(o) \/ SettlePublication(o) PROVE Inv'
  <2>1. op'.step = "idle" /\ Quiet
    BY <1>6, Published DEF RefusePublication, SettlePublication, End, Idle, github, Rest, history
  <2> QED BY <1>2, <2>1, QuietStep DEF SoundPublication
<1>7. ASSUME NEW o \in Outcomes, Pend(o) PROVE Inv'
  <2>1. CASE Cancelled
    <3>1. op'.step = "idle" /\ Quiet
      BY <1>7, <2>1, SameRecord DEF Pend, Refuse, End, Idle, record, github, Rest, history
    <3> QED BY <1>2, <3>1, QuietStep DEF SoundPublication
  <2>2. CASE ~Cancelled
    <3>1. Publish("pending", o) /\ prs' = prs /\ waived' = waived
      BY <1>7, <2>2 DEF Pend, github, Rest, history
    <3>2. \/ op'.step = "idle"
          \/ o = "saved" /\ op'.step = "recheck" /\ op'.commit = op.commit
      BY <1>1, <1>7, <2>2 DEF Pend, Goto, End, Idle, Owners
    <3>3. Quiet /\ SoundPublication'
      BY <3>1, <3>2, Published DEF SoundPublication
    <3> QED BY <1>2, <3>2, <3>3, QuietStep DEF PublishSteps
  <2> QED BY <2>1, <2>2
<1>8. ASSUME NEW read \in BOOLEAN, Recheck(read) PROVE Inv'
  <2>1. op'.step \in {"send", "refuse"} /\ op'.commit = op.commit /\ Quiet /\ survivors' = survivors
    BY <1>1, <1>8, SameRecord DEF Recheck, Step, Goto, record, github, Rest, history, Owners
  <2>2. SoundPublication'
    BY <1>1, <1>8, <2>1 DEF SoundPublication, Recheck, At
  <2> QED BY <1>2, <2>1, <2>2, QuietStep DEF PublishSteps
<1>9. ASSUME NEW sent \in BOOLEAN, NEW answered \in BOOLEAN, Send(sent, answered) PROVE Inv'
  <2>1. /\ op'.step \in {"refuse", "readBack"} /\ op'.commit = op.commit
        /\ Quiet /\ survivors' = survivors
    BY <1>1, <1>9, SameRecord DEF Send, Step, Goto, RemoteAt, record, github, Rest, history, Owners
  <2>2. SoundPublication'
    BY <1>1, <1>9, <2>1 DEF SoundPublication, Send, At
  <2> QED BY <1>2, <2>1, <2>2, QuietStep DEF PublishSteps
<1>10. ASSUME NEW read \in BOOLEAN, ReadBack(read) PROVE Inv'
  <2>1. /\ op'.step = "verdict" /\ op'.verdict \in {"published", "refused", "unknown"}
        /\ Quiet
    BY <1>1, <1>10, SameRecord
    DEF ReadBack, Verdict, record, github, Rest, history, Owners
  <2> QED BY <1>2, <2>1, QuietStep DEF SoundPublication, PublishSteps
<1> QED BY <1>3, <1>4, <1>5, <1>6, <1>7, <1>8, <1>9, <1>10 DEF PublicationNext

LEMMA RestackStep ==
  ASSUME Inv, Quiet, TypeOK', op'.step \in {"idle"} \cup RestackSteps
  PROVE  Inv'
BY QuietStep DEF SoundPublication, RestackSteps

LEMMA GotoStep ==
  ASSUME op \in Owners, NEW s, Goto(s)
  PROVE  op'.step = s /\ op'.commit = op.commit /\ op'.pr = op.pr /\ op'.verdict = op.verdict
BY DEF Owners, Goto

LEMMA StepCommit ==
  ASSUME op \in Owners, NEW s, NEW c, op' = [op EXCEPT !.step = s, !.commit = c]
  PROVE  op'.step = s /\ op'.commit = c
BY DEF Owners

LEMMA StepVerdict ==
  ASSUME op \in Owners, NEW s, NEW v, op' = [op EXCEPT !.step = s, !.verdict = v]
  PROVE  op'.step = s /\ op'.commit = op.commit
BY DEF Owners

LEMMA EndStep == ASSUME End PROVE op'.step = "idle"
BY IdleStep DEF End

\* A restack writes its own part of the record, and the base.
LEMMA RestackRecords ==
  ASSUME Inv
  PROVE  /\ \A p : LET t == [task EXCEPT !.pending = p]
                   IN t.asked = task.asked /\ t.pr = task.pr
         /\ \A p, b : LET t == [task EXCEPT !.pending = p, !.base = b]
                      IN t.asked = task.asked /\ t.pr = task.pr
         /\ RewriteRecorded.asked = task.asked /\ RewriteRecorded.pr = task.pr
BY DEF Inv, TypeOK, TaskRecords, RewriteRecorded

LEMMA RepublishInvariant == ASSUME Inv, RepublishNext PROVE Inv'
<1>1. TypeOK /\ op \in Owners
  BY DEF Inv, TypeOK
<1>2. TypeOK'
  BY <1>1, RepublishType
<1>3. ASSUME BeginRestack PROVE Inv'
  <2>1. Quiet
    BY <1>3, SameRecord DEF BeginRestack, Step, Refuse, record, branch, github, Rest, history
  <2>2. op'.step \in {"plan"}
    BY <1>3, <1>1, GotoStep, EndStep DEF BeginRestack, Step, Refuse, Idle
  <2> QED BY <1>2, <2>1, <2>2, RestackStep DEF RestackSteps
<1>4. ASSUME NEW o \in Outcomes, PlanRewrite(o) PROVE Inv'
  <2>1. Quiet
    <3>1. CASE UNCHANGED <<survivors, prs, waived>>
      BY <3>1, SameRecord
    <3>2. CASE Save([task EXCEPT !.pending = [state |-> "planned", previous |-> op.commit,
                                             pr |-> op.pr]], o) /\ prs' = prs /\ waived' = waived
      BY <3>2, RestackRecords, QuietSave
    <3> QED BY <1>4, <3>1, <3>2 DEF PlanRewrite, Refuse, record, branch, github, Rest, history
  <2>2. op'.step \in {"idle", "advance"}
    BY <1>4, <1>1, GotoStep, EndStep DEF PlanRewrite, Step, Refuse
  <2> QED BY <1>2, <2>1, <2>2, RestackStep DEF RestackSteps
<1>5. ASSUME Resume PROVE Inv'
  <2>1. Quiet
    BY <1>5, SameRecord DEF Resume, Step, Refuse, record, branch, github, Rest, history
  <2>2. op'.step \in {"advance"}
    BY <1>5, <1>1, GotoStep, EndStep DEF Resume, Step, Refuse, Idle
  <2> QED BY <1>2, <2>1, <2>2, RestackStep DEF RestackSteps
<1>6. ASSUME Advance PROVE Inv'
  <2>1. Quiet
    BY <1>6, SameRecord DEF Advance, Step, Refuse, record, branch, github, Rest, history
  <2>2. op'.step \in {"idle", "checkRemote", "adopt", "replay"}
    BY <1>6, <1>1, GotoStep, EndStep DEF Advance, Step, Refuse, Idle
  <2> QED BY <1>2, <2>1, <2>2, RestackStep DEF RestackSteps
<1>7. ASSUME NEW clean \in BOOLEAN, ReplayPublished(clean) PROVE Inv'
  <2>1. Quiet
    BY <1>7, SameRecord DEF ReplayPublished, Step, Refuse, record, branch, github, Rest, history
  <2>2. op'.step \in {"idle", "recordRewrite", "clear"}
    BY <1>7, <1>1, GotoStep, EndStep DEF ReplayPublished, Step, Refuse, Idle
  <2> QED BY <1>2, <2>1, <2>2, RestackStep DEF RestackSteps
<1>8. ASSUME NEW o \in Outcomes, RecordRewrite(o) PROVE Inv'
  <2>1. Quiet
    BY <1>8, RestackRecords, QuietSave DEF RecordRewrite, github, Rest, history
  <2>2. op'.step \in {"idle", "checkRemote", "clear"}
    BY <1>8, <1>1, GotoStep, EndStep DEF RecordRewrite, Step, Refuse
  <2> QED BY <1>2, <2>1, <2>2, RestackStep DEF RestackSteps
<1>9. ASSUME NEW o \in Outcomes, AdoptRewrite(o) PROVE Inv'
  <2>1. Quiet
    BY <1>9, RestackRecords, QuietSave DEF AdoptRewrite, github, Rest, history
  <2>2. op'.step \in {"idle", "checkRemote"}
    BY <1>9, <1>1, GotoStep, EndStep DEF AdoptRewrite, Step, Refuse
  <2> QED BY <1>2, <2>1, <2>2, RestackStep DEF RestackSteps
<1>10. ASSUME NEW o \in Outcomes, ClearPending(o) PROVE Inv'
  <2>1. Quiet
    BY <1>10, RestackRecords, QuietSave DEF ClearPending, github, Rest, history
  <2>2. op'.step \in {"idle"}
    BY <1>10, <1>1, GotoStep, EndStep DEF ClearPending, Step, Refuse
  <2> QED BY <1>2, <2>1, <2>2, RestackStep DEF RestackSteps
<1>11. ASSUME CheckRemote PROVE Inv'
  <2>1. Quiet
    BY <1>11, SameRecord DEF CheckRemote, Step, Refuse, record, branch, github, Rest, history
  <2>2. op'.step \in {"idle", "finish", "force"}
    BY <1>11, <1>1, GotoStep, EndStep DEF CheckRemote, Step, Refuse, Idle
  <2> QED BY <1>2, <2>1, <2>2, RestackStep DEF RestackSteps
<1>12. ASSUME NEW sent \in BOOLEAN, NEW answered \in BOOLEAN, ForcePush(sent, answered) PROVE Inv'
  <2>1. Quiet
    BY <1>12, SameRecord DEF ForcePush, RemoteAt, Step, Refuse, record, branch, github, Rest, history
  <2>2. op'.step \in {"idle", "finish"}
    BY <1>12, <1>1, GotoStep, EndStep DEF ForcePush, Step, Refuse, Idle
  <2> QED BY <1>2, <2>1, <2>2, RestackStep DEF RestackSteps
<1>13. ASSUME NEW retargeted \in BOOLEAN, NEW o \in Outcomes, Finish(retargeted, o) PROVE Inv'
  <2>1. Quiet
    <3>1. CASE UNCHANGED <<survivors, prs, waived>>
      BY <3>1, SameRecord
    <3>2. CASE Save([task EXCEPT !.pending = NoRestack], o) /\ prs' = prs /\ waived' = waived
      BY <3>2, RestackRecords, QuietSave
    <3> QED BY <1>13, <3>1, <3>2 DEF Finish, Refuse, record, branch, github, Rest, history
  <2>2. op'.step \in {"idle"}
    BY <1>13, <1>1, GotoStep, EndStep DEF Finish, Step, Refuse
  <2> QED BY <1>2, <2>1, <2>2, RestackStep DEF RestackSteps
<1>14. ASSUME BeginDiscardRestack PROVE Inv'
  <2>1. Quiet
    BY <1>14, SameRecord DEF BeginDiscardRestack, Step, Refuse, record, branch, github, Rest, history
  <2>2. op'.step \in {"goBack"}
    BY <1>14, <1>1, GotoStep, EndStep DEF BeginDiscardRestack, Step, Refuse, Idle
  <2> QED BY <1>2, <2>1, <2>2, RestackStep DEF RestackSteps
<1>15. ASSUME GoBack PROVE Inv'
  <2>1. Quiet
    BY <1>15, SameRecord DEF GoBack, Step, Refuse, record, branch, github, Rest, history
  <2>2. op'.step \in {"idle", "dropRecord"}
    BY <1>15, <1>1, GotoStep, EndStep DEF GoBack, Step, Refuse, Idle
  <2> QED BY <1>2, <2>1, <2>2, RestackStep DEF RestackSteps
<1>16. ASSUME NEW o \in Outcomes, DropRecord(o) PROVE Inv'
  <2>1. Quiet
    BY <1>16, RestackRecords, QuietSave DEF DropRecord, github, Rest, history
  <2>2. op'.step \in {"idle"}
    BY <1>16, <1>1, GotoStep, EndStep DEF DropRecord, Step, Refuse
  <2> QED BY <1>2, <2>1, <2>2, RestackStep DEF RestackSteps
<1> QED
  BY <1>3, <1>4, <1>5, <1>6, <1>7, <1>8, <1>9, <1>10, <1>11, <1>12, <1>13, <1>14, <1>15, <1>16
  DEF RepublishNext

------------------------------------------------------------------------------
(* What happens around the operations *)

\* Nothing the operation under way rests on has changed.
LEMMA KeptStep ==
  ASSUME Inv, TypeOK', prs' = prs, waived' = waived, tip'.base = tip.base,
         op'.step = op.step, op'.commit = op.commit, op'.pr = op.pr, op'.verdict = op.verdict,
         task'.asked = task.asked, task'.pr = task.pr,
         \A s \in survivors' : \E t \in survivors :
           s.asked = t.asked /\ s.pr = t.pr /\ s.publication = t.publication
  PROVE  Inv'
<1>1. Quiet
  BY DEF Quiet
<1>2. SoundPublication'
  BY DEF Inv, SoundPublication
<1>3. SomeListed' = SomeListed /\ \A n : Answered(n)' = Answered(n)
  BY DEF SomeListed, Answered
<1>4. Answered(task.pr)' = Answered(task.pr) /\ Answered(op.pr)' = Answered(op.pr)
  BY DEF Answered
<1>5. SoundOpening'
  BY <1>3, <1>4 DEF Inv, SoundOpening
<1> QED BY <1>1, <1>2, <1>5, QuietRecords DEF Inv

\* A write that concerns neither a request nor a publication, of a record that
\* an operation may be at work on.
LEMMA KeptSave ==
  ASSUME Inv, TypeOK', NEW t, NEW o, Save(t, o),
         t.asked = task.asked, t.pr = task.pr, t.publication = task.publication,
         UNCHANGED <<op, tip, prs, waived>>
  PROVE  Inv'
<1>1. task \in survivors
  BY DEF Inv, TypeOK
<1>2. survivors' \subseteq survivors \cup {t} /\ task' \in {task, t}
  BY <1>1, SaveFacts
<1> QED BY <1>1, <1>2, KeptStep

\* The branch's pull requests change: none of ours is added, and none is taken
\* off the listing.
LEMMA OutsideStep ==
  ASSUME Inv, TypeOK', Numbered', UNCHANGED <<task, survivors, tip, op, waived>>,
         \A n \in 1 .. MaxPrs : prs'[n].ours => prs[n].ours,
         \A n \in 1 .. MaxPrs : prs[n].listed => prs'[n].listed
  PROVE  Inv'
<1>1. /\ SomeListed => SomeListed'
      /\ \A n : Answered(n) => Answered(n)'
  BY DEF SomeListed, Answered
<1>2. ASSUME NEW t \in survivors' PROVE Remembers(t)'
  <2>1. Remembers(t)
    BY DEF Inv
  <2>2. Answered(t.pr) => Answered(t.pr)'
    BY DEF Answered
  <2> QED BY <1>1, <2>1, <2>2 DEF Remembers
<1>3. (Answered(task.pr) => Answered(task.pr)') /\ (Answered(op.pr) => Answered(op.pr)')
  BY DEF Answered
<1>4. SoundOpening'
  BY <1>1, <1>3 DEF Inv, SoundOpening
<1>5. SoundPublication'
  BY DEF Inv, SoundPublication
<1> QED BY <1>2, <1>4, <1>5 DEF Inv

\* Numbers are given out one after the other, to whoever opens a pull request.
LEMMA Opened ==
  ASSUME Inv, NEW n \in 1 .. MaxPrs, NextPr(n), NEW p, p # NoPr,
         prs' = [prs EXCEPT ![n] = p]
  PROVE  /\ Numbered'
         /\ \A m \in 1 .. MaxPrs : prs'[m].ours => m <= n
<1>1. prs \in [1 .. MaxPrs -> PullRequests] /\ Numbered /\ NoPr.ours = FALSE
  BY DEF Inv, TypeOK, NoPr
<1>2. \A m \in 1 .. MaxPrs : prs[m] # NoPr => m < n
  BY <1>1, BoundsAssumption DEF Numbered, NextPr
<1>3. \A m \in 1 .. MaxPrs : prs[m] = NoPr => m >= n
  BY <1>1, BoundsAssumption DEF NextPr
<1>4. Numbered'
  BY <1>1, <1>2, <1>3, BoundsAssumption DEF Numbered
<1>5. ASSUME NEW m \in 1 .. MaxPrs, prs'[m].ours PROVE m <= n
  <2>1. m # n => prs'[m] = prs[m]
    BY <1>1
  <2>2. m # n => m < n
    BY <1>1, <1>2, <1>5, <2>1
  <2> QED BY <2>2, BoundsAssumption
<1> QED BY <1>4, <1>5

LEMMA SurroundingsInvariant == ASSUME Inv, Surroundings PROVE Inv'
<1>1. TypeOK /\ op \in Owners /\ task \in survivors /\ task \in TaskRecords
  BY DEF Inv, TypeOK
<1>2. TypeOK'
  BY <1>1, SurroundingsType
<1>3. ASSUME NEW o \in Outcomes, Approve(o) PROVE Inv'
  <2> DEFINE t == [task EXCEPT !.approved = tip]
  <2>1. t.asked = task.asked /\ t.pr = task.pr /\ t.publication = task.publication
    BY <1>1 DEF TaskRecords
  <2>2. Save(t, o) /\ UNCHANGED <<op, tip, prs, waived>>
    BY <1>3 DEF Approve, branch, github
  <2> QED BY <1>2, <2>1, <2>2, KeptSave
<1>4. ASSUME NEW o \in Outcomes, ApproveAgain(o) PROVE Inv'
  <2> DEFINE t == [task EXCEPT !.approved = tip]
  <2>1. t.asked = task.asked /\ t.pr = task.pr /\ t.publication = task.publication
    BY <1>1 DEF TaskRecords
  <2>2. Save(t, o) /\ UNCHANGED <<op, tip, prs, waived>>
    BY <1>4 DEF ApproveAgain, branch, github
  <2> QED BY <1>2, <2>1, <2>2, KeptSave
<1>5. ASSUME NEW o \in Outcomes, FinishRun(o) PROVE Inv'
  <2> DEFINE t == [task EXCEPT !.status = "review", !.approved = NoCommit]
  <2>1. t.asked = task.asked /\ t.pr = task.pr /\ t.publication = task.publication
    BY <1>1 DEF TaskRecords
  <2>2. Save(t, o) /\ UNCHANGED <<op, tip, prs, waived>>
    BY <1>5 DEF FinishRun, branch, github, history
  <2> QED BY <1>2, <2>1, <2>2, KeptSave
<1>6. ASSUME NEW o \in Outcomes, CompleteMove(o) PROVE Inv'
  <2> DEFINE t == [task EXCEPT !.status = moving,
                               !.approved = IF moving = "work" THEN NoCommit ELSE @]
  <2>1. t.asked = task.asked /\ t.pr = task.pr /\ t.publication = task.publication
    BY <1>1 DEF TaskRecords
  <2>2. Save(t, o) /\ UNCHANGED <<op, tip, prs, waived>>
    BY <1>6 DEF CompleteMove, branch, github, history
  <2> QED BY <1>2, <2>1, <2>2, KeptSave
<1>7. ASSUME NEW column \in {"work", "review"}, BeginMove(column) PROVE Inv'
  <2>1. op' = Idle \/ op' = [op EXCEPT !.cancelled = TRUE]
    BY <1>7 DEF BeginMove
  <2>2. CASE op' = [op EXCEPT !.cancelled = TRUE]
    <3>1. op'.step = op.step /\ op'.commit = op.commit /\ op'.pr = op.pr /\ op'.verdict = op.verdict
      BY <1>1, <2>2 DEF Owners
    <3> QED BY <1>2, <1>7, <3>1, KeptStep DEF BeginMove, record, branch, github, history
  <2>3. CASE op' = Idle
    <3>1. Quiet
      BY <1>7, SameRecord DEF BeginMove, record, github, history
    <3> QED BY <1>2, <2>3, <3>1, IdleStep, RestackStep
  <2> QED BY <2>1, <2>2, <2>3
<1>8. ASSUME Crash PROVE Inv'
  <2>1. Quiet
    BY <1>1, <1>8 DEF Crash, Quiet, github, history
  <2>2. op'.step = "idle"
    BY <1>8, IdleStep DEF Crash
  <2> QED BY <1>2, <2>1, <2>2, RestackStep
<1>9. ASSUME Commit \/ Amend PROVE Inv'
  <2>1. tip \in Commits /\ made' \in Nat
    BY <1>1, <1>9, BoundsAssumption DEF TypeOK, Commit, Amend
  <2>2. tip'.base = tip.base
    <3>1. [tip EXCEPT !.own = Append(@, made')].base = tip.base
      BY <2>1, Grown, Zenon
    <3>2. [tip EXCEPT !.own = Append(Front(@), made')].base = tip.base
      BY <2>1, Grown, Zenon
    <3> QED BY <1>9, <3>1, <3>2 DEF Commit, Amend
  <2> QED BY <1>2, <1>9, <2>2, KeptStep DEF Commit, Amend, record, github, history
<1>10. ASSUME GiveUpMove \/ ForeignPush \/ ForeignDelete \/ ParentLands PROVE Inv'
  BY <1>2, <1>10, KeptStep
  DEF GiveUpMove, ForeignPush, ForeignDelete, ParentLands, record, branch, github, history
<1>11. ASSUME NEW n \in 1 .. MaxPrs, ForeignOpen(n) PROVE Inv'
  <2> DEFINE p == [state |-> "open", ours |-> FALSE, listed |-> TRUE]
  <2>1. p # NoPr /\ NextPr(n) /\ prs' = [prs EXCEPT ![n] = p]
    BY <1>11 DEF ForeignOpen, NoPr
  <2>2. Numbered'
    BY <2>1, Opened
  <2>3. \A m \in 1 .. MaxPrs : (prs'[m].ours => prs[m].ours) /\ (prs[m].listed => prs'[m].listed)
    BY <1>1, <2>1 DEF TypeOK
  <2> QED
    BY <1>2, <1>11, <2>2, <2>3, OutsideStep DEF ForeignOpen, record, branch, history
<1>12. ASSUME NEW n \in 1 .. MaxPrs, Close(n) \/ List(n) PROVE Inv'
  <2>1. /\ prs[n] # NoPr /\ prs'[n] # NoPr /\ prs[n].ours = prs'[n].ours
        /\ prs[n].listed => prs'[n].listed
        /\ \A m \in (1 .. MaxPrs) \ {n} : prs'[m] = prs[m]
    <3>1. prs \in [1 .. MaxPrs -> PullRequests]
      BY <1>1 DEF TypeOK
    <3>2. \/ prs[n].state = "open" /\ prs' = [prs EXCEPT ![n] = [prs[n] EXCEPT !.state = "closed"]]
          \/ prs[n].state # "none" /\ prs' = [prs EXCEPT ![n] = [prs[n] EXCEPT !.listed = TRUE]]
      BY <1>12 DEF Close, List
    <3>3. CASE /\ prs[n].state = "open"
               /\ prs' = [prs EXCEPT ![n] = [prs[n] EXCEPT !.state = "closed"]]
      BY <3>1, <3>3 DEF NoPr, PullRequests
    <3>4. CASE /\ prs[n].state # "none"
               /\ prs' = [prs EXCEPT ![n] = [prs[n] EXCEPT !.listed = TRUE]]
      BY <3>1, <3>4 DEF NoPr, PullRequests
    <3> QED BY <3>2, <3>3, <3>4
  <2>2. Numbered'
    BY <2>1, BoundsAssumption DEF Inv, Numbered
  <2> QED
    BY <1>2, <1>12, <2>1, <2>2, OutsideStep DEF Close, List, record, branch, history
<1> QED
  BY <1>3, <1>4, <1>5, <1>6, <1>7, <1>8, <1>9, <1>10, <1>11, <1>12 DEF Surroundings

------------------------------------------------------------------------------
(* Opening a pull request *)

\* A step of this operation: what it must establish.
LEMMA OpeningStep ==
  ASSUME TypeOK', Numbered', \A t \in survivors' : Remembers(t)', SoundOpening',
         op'.step \in {"idle"} \cup CreateSteps
  PROVE  Inv'
BY DEF Inv, SoundPublication, CreateSteps

LEMMA QuietOpening ==
  ASSUME Inv, Quiet, TypeOK', SoundOpening', op'.step \in {"idle"} \cup CreateSteps
  PROVE  Inv'
BY QuietRecords, OpeningStep

LEMMA QuietEnd == ASSUME Inv, Quiet, TypeOK', op'.step = "idle" PROVE Inv'
BY RestackStep

LEMMA PullRequestInvariant == ASSUME Inv, PullRequestNext PROVE Inv'
<1>1. TypeOK /\ op \in Owners /\ task \in survivors /\ task \in TaskRecords
  BY DEF Inv, TypeOK
<1>0. op \in Owners
  BY <1>1
<1>2. TypeOK' /\ SoundOpening /\ Remembers(task)
  BY <1>1, PullRequestType DEF Inv
<1>3. ASSUME BeginCreate PROVE Inv'
  <2>1. Quiet
    BY <1>3, SameRecord DEF BeginCreate, record, github, Rest, history
  <2>2. op'.step = "lookup" /\ op'.commit # NoCommit
    BY <1>3 DEF BeginCreate, Idle
  <2> QED BY <1>2, <2>1, <2>2, QuietOpening DEF SoundOpening, CreateSteps
<1>4. ASSUME Lookup PROVE Inv'
  <2>1. Quiet /\ SomeListed' = SomeListed
    BY <1>4, SameRecord DEF Lookup, record, github, Rest, history, SomeListed
  <2>2. \/ op' = Idle \/ Goto("restack") \/ Goto("push")
        \/ /\ NewestListed # 0
           /\ op' = [op EXCEPT !.step = "toExisting", !.pr = NewestListed]
    BY <1>4 DEF Lookup, End
  <2>3. \/ op'.step = "idle"
        \/ op'.step \in {"restack", "push"} /\ op'.commit = op.commit
        \/ op'.step = "toExisting" /\ op'.pr # 0 /\ SomeListed
    BY <1>1, <2>2, IdleStep, GotoStep, Newest DEF Owners
  <2>4. op.commit # NoCommit
    BY <1>2, <1>4 DEF Lookup, At, SoundOpening, Opening
  <2>5. SoundOpening'
    BY <2>1, <2>3, <2>4 DEF SoundOpening, Opening
  <2> QED BY <1>2, <2>1, <2>3, <2>5, QuietOpening DEF CreateSteps
<1>5. ASSUME NEW sent \in BOOLEAN, ToExisting(sent) PROVE Inv'
  <2>1. Quiet /\ SomeListed' = SomeListed
    BY <1>5, SameRecord DEF ToExisting, Step, Refuse, RemoteAt, record, github, Rest, history, SomeListed
  <2>2. \/ op'.step = "idle"
        \/ op'.step = "link" /\ op'.pr = op.pr
    <3>1. End \/ Goto("link")
      BY <1>5 DEF ToExisting, Step, Refuse
    <3> QED BY <1>0, <3>1, EndStep, GotoStep, Zenon
  <2>3. op.pr # 0 /\ SomeListed
    BY <1>2, <1>5 DEF ToExisting, At, SoundOpening
  <2> QED BY <1>2, <2>1, <2>2, <2>3, QuietOpening DEF SoundOpening, Opening, CreateSteps
<1>6. ASSUME PlanRestack PROVE Inv'
  <2>1. Quiet
    BY <1>6, SameRecord DEF PlanRestack, Refuse, record, github, Rest, history
  <2>2. \/ op'.step = "idle"
        \/ op'.step = "restackReplay" /\ op'.commit = op.commit
    <3>1. End \/ Goto("restackReplay")
      BY <1>6 DEF PlanRestack, Refuse
    <3> QED BY <1>0, <3>1, EndStep, GotoStep, Zenon
  <2>3. op.commit # NoCommit
    BY <1>2, <1>6 DEF PlanRestack, At, SoundOpening, Opening
  <2> QED BY <1>2, <2>1, <2>2, <2>3, QuietOpening DEF SoundOpening, Opening, CreateSteps
<1>7. ASSUME NEW clean \in BOOLEAN, Replay(clean) PROVE Inv'
  <2>1. Quiet
    BY <1>7, SameRecord DEF Replay, record, github, Rest, history
  <2>2. \/ op'.step = "idle"
        \/ op'.step = "restackRecord" /\ tip' = Replayed(tip)
    <3>1. \/ End
          \/ Goto("restackRecord") /\ tip' = Replayed(tip)
      BY <1>7 DEF Replay
    <3> QED BY <1>0, <3>1, EndStep, GotoStep, Zenon
  <2>3. Replayed(tip).base = "landed"
    BY <1>1, CommitTypes DEF TypeOK
  <2> QED BY <1>2, <2>1, <2>2, <2>3, QuietOpening DEF SoundOpening, Opening, CreateSteps
<1>8. ASSUME NEW o \in Outcomes, RecordRestack(o) PROVE Inv'
  <2> DEFINE t == [task EXCEPT !.base = "landed"]
  <2>1. t.asked = task.asked /\ t.pr = task.pr
    BY <1>1 DEF TaskRecords
  <2>2. Save(t, o) /\ prs' = prs /\ waived' = waived
    BY <1>8 DEF RecordRestack, github, Rest, history
  <2>3. Quiet
    BY <2>1, <2>2, QuietSave
  <2>4. op' = Idle \/ op' = [op EXCEPT !.step = "push", !.commit = tip]
    BY <1>8 DEF RecordRestack, End
  <2>5. \/ op'.step = "idle"
        \/ op'.step = "push" /\ op'.commit = tip
    BY <1>0, <2>4, IdleStep, StepCommit, Zenon
  <2>6. tip # NoCommit
    BY <1>2, <1>8 DEF RecordRestack, At, SoundOpening, NoCommit
  <2> QED BY <1>2, <2>3, <2>5, <2>6, QuietOpening DEF SoundOpening, Opening, CreateSteps
<1>9. ASSUME NEW sent \in BOOLEAN, NEW answered \in BOOLEAN, Push(sent, answered) PROVE Inv'
  <2>1. Quiet
    BY <1>9, SameRecord DEF Push, Refuse, RemoteAt, record, github, Rest, history
  <2>2. op' = Idle \/ \E v : op' = [op EXCEPT !.step = "confirmPush", !.verdict = v]
    BY <1>9 DEF Push, Refuse, End
  <2>3. \/ op'.step = "idle"
        \/ op'.step = "confirmPush" /\ op'.commit = op.commit
    BY <1>0, <2>2, IdleStep, StepVerdict, Zenon
  <2>4. op.commit # NoCommit
    BY <1>2, <1>9 DEF Push, At, SoundOpening, Opening
  <2> QED BY <1>2, <2>1, <2>3, <2>4, QuietOpening DEF SoundOpening, Opening, CreateSteps
<1>10. ASSUME NEW read \in BOOLEAN, ConfirmPush(read) PROVE Inv'
  <2>1. Quiet
    BY <1>10, SameRecord DEF ConfirmPush, Step, Refuse, record, github, Rest, history
  <2>2. \/ op'.step = "idle"
        \/ op'.step = "lookupAgain" /\ op'.commit = op.commit
    <3>1. End \/ Goto("lookupAgain")
      BY <1>10 DEF ConfirmPush, Step, Refuse
    <3> QED BY <1>0, <3>1, EndStep, GotoStep, Zenon
  <2>3. op.commit # NoCommit
    BY <1>2, <1>10 DEF ConfirmPush, At, SoundOpening, Opening
  <2> QED BY <1>2, <2>1, <2>2, <2>3, QuietOpening DEF SoundOpening, Opening, CreateSteps
<1>11. ASSUME LookupAgain PROVE Inv'
  <2>1. Quiet /\ SomeListed' = SomeListed /\ task' = task /\ Answered(task.pr)' = Answered(task.pr)
    BY <1>11, SameRecord
    DEF LookupAgain, record, github, Rest, history, SomeListed, Answered
  <2>2. \/ op' = Idle
        \/ NewestListed # 0 /\ op' = [op EXCEPT !.step = "link", !.verdict = "none", !.pr = NewestListed]
        \/ NewestListed = 0 /\ op' = [op EXCEPT !.step = "announce", !.verdict = "none"]
    BY <1>11 DEF LookupAgain
  <2>3. \/ op'.step = "idle"
        \/ op'.step = "link" /\ op'.pr # 0 /\ SomeListed
        \/ op'.step = "announce" /\ op'.commit = op.commit /\ ~SomeListed
    BY <1>1, <2>2, IdleStep, Newest DEF Owners
  <2>4. op.commit # NoCommit
    BY <1>2, <1>11 DEF LookupAgain, At, SoundOpening, Opening
  <2>5. ~SomeListed => task.asked # NoCommit \/ Answered(task.pr)
    BY <1>2 DEF Remembers
  <2>6. SoundOpening'
    BY <2>1, <2>3, <2>4, <2>5 DEF SoundOpening, Opening
  <2> QED BY <1>2, <2>1, <2>3, <2>6, QuietOpening DEF CreateSteps
<1>12. ASSUME NEW o \in Outcomes, Announce(o) PROVE Inv'
  <2>1. CASE task.asked # NoCommit
    <3>1. Quiet
      BY <1>12, <2>1, SameRecord DEF Announce, Refuse, record, github, Rest, history
    <3>2. op'.step = "idle"
      BY <1>12, <2>1, EndStep DEF Announce, Refuse
    <3> QED BY <1>2, <3>1, <3>2, QuietEnd
  <2>2. CASE task.asked = NoCommit
    <3> DEFINE t == [task EXCEPT !.asked = op.commit]
    <3>1. t.asked = op.commit /\ t.pr = task.pr /\ op.commit # NoCommit /\ Answered(task.pr)
      BY <1>1, <1>2, <1>12, <2>2 DEF TaskRecords, Announce, At, SoundOpening, Opening
    <3>2. Save(t, o) /\ prs' = prs /\ waived' = waived
      BY <1>12, <2>2 DEF Announce, github, Rest, history
    <3> HIDE DEF t
    <3>3. /\ task' \in {task, t} /\ survivors' \subseteq survivors \cup {t}
          /\ o = "saved" => survivors' = {t}
      BY <1>1, <3>2, SaveFacts
    <3>4. \A n : Answered(n)' = Answered(n)
      BY <3>2 DEF Answered
    <3>5. ASSUME NEW s \in survivors' PROVE Remembers(s)'
      <4>1. CASE s \in survivors
        <5>1. Remembers(s)
          BY <4>1 DEF Inv
        <5> QED BY <3>2, <5>1 DEF Remembers, Answered, SomeListed
      <4>2. CASE s = t
        BY <3>1, <4>2 DEF Remembers
      <4> QED BY <3>3, <4>1, <4>2
    <3>6. \/ op'.step = "create" /\ op'.commit = op.commit /\ o = "saved"
          \/ op'.step \in {"retract", "idle"}
      BY <1>1, <1>12, <2>2, GotoStep, EndStep DEF Announce
    <3>7. task'.pr = task.pr
      BY <3>1, <3>3
    <3>8. Answered(task.pr)'
      BY <3>1, <3>2, <3>7 DEF Answered
    <3>9. SoundOpening'
      BY <3>1, <3>3, <3>6, <3>8 DEF SoundOpening, Opening
    <3>10. Numbered'
      BY <3>2 DEF Inv, Numbered
    <3> QED BY <1>2, <3>5, <3>6, <3>9, <3>10, OpeningStep DEF CreateSteps
  <2> QED BY <2>1, <2>2
<1>13. ASSUME NEW answer \in {"opened", "lost", "rejected", "not sent"}, Create(answer) PROVE Inv'
  <2>1. /\ op.commit # NoCommit /\ Answered(task.pr)
        /\ \A t \in survivors : t.asked = op.commit
    BY <1>2, <1>13 DEF Create, At, SoundOpening, Opening
  <2>2. CASE prs' = prs /\ op'.step \in {"retract", "reconcile"}
    <3>1. Quiet /\ task' = task /\ Answered(task.pr)'
      BY <1>13, <2>1, <2>2, SameRecord
      DEF Create, Step, record, github, Rest, history, Answered
    <3>2. SoundOpening'
      BY <2>2, <3>1 DEF SoundOpening, Opening
    <3> QED BY <1>2, <2>2, <3>1, <3>2, QuietOpening DEF CreateSteps
  <2>3. ASSUME NEW n \in 1 .. MaxPrs, NextPr(n),
               prs' = [prs EXCEPT ![n] = [state |-> "open", ours |-> TRUE, listed |-> FALSE]],
               UNCHANGED <<record, Rest>>,
               \/ op' = [op EXCEPT !.step = "confirmCreated", !.pr = n, !.verdict = "unknown"]
               \/ op' = [op EXCEPT !.step = "reconcile", !.pr = n, !.verdict = "unknown"]
        PROVE  Inv'
    <3>1. [state |-> "open", ours |-> TRUE, listed |-> FALSE] # NoPr
      BY DEF NoPr
    <3>2. Numbered' /\ \A m \in 1 .. MaxPrs : prs'[m].ours => m <= n
      BY <2>3, <3>1, Opened
    <3>3. ASSUME NEW t \in survivors' PROVE Remembers(t)'
      BY <2>1, <2>3 DEF Remembers, record
    <3>4. /\ op'.step \in {"confirmCreated", "reconcile"} /\ op'.pr = n /\ op'.verdict = "unknown"
      BY <1>1, <2>3 DEF Owners
    <3>5. Answered(op.pr)'
      BY <3>2, <3>4 DEF Answered
    <3>6. op'.pr # 0
      <4>1. n # 0
        BY <2>3, PrIndex, Zenon
      <4> QED BY <3>4, <4>1
    <3>7. SoundOpening'
      BY <3>4, <3>5, <3>6 DEF SoundOpening, Opening
    <3> QED BY <1>2, <3>2, <3>3, <3>4, <3>7, OpeningStep DEF CreateSteps
  <2>4. CASE \/ Step("retract")
             \/ /\ \E v : op' = [op EXCEPT !.step = "reconcile", !.verdict = v]
                /\ UNCHANGED <<record, branch, github, Rest>>
    <3>1. prs' = prs /\ op'.step \in {"retract", "reconcile"}
      BY <1>1, <2>4 DEF Step, Goto, github, Owners
    <3> QED BY <2>2, <3>1
  <2>5. \/ Step("retract")
        \/ /\ \E v : op' = [op EXCEPT !.step = "reconcile", !.verdict = v]
           /\ UNCHANGED <<record, branch, github, Rest>>
        \/ /\ UNCHANGED <<record, Rest>>
           /\ \E n \in 1 .. MaxPrs :
                /\ NextPr(n)
                /\ prs' = [prs EXCEPT ![n] = [state |-> "open", ours |-> TRUE, listed |-> FALSE]]
                /\ \/ op' = [op EXCEPT !.step = "confirmCreated", !.pr = n, !.verdict = "unknown"]
                   \/ op' = [op EXCEPT !.step = "reconcile", !.pr = n, !.verdict = "unknown"]
    BY <1>13 DEF Create
  <2> QED BY <2>3, <2>4, <2>5
<1>14. ASSUME NEW read \in BOOLEAN, ConfirmCreated(read) PROVE Inv'
  <2>1. /\ Quiet /\ SomeListed' = SomeListed
        /\ \A n : Answered(n)' = Answered(n)
    BY <1>14, SameRecord
    DEF ConfirmCreated, Step, Refuse, record, github, Rest, history, SomeListed, Answered
  <2>2. \/ op'.step = "idle"
        \/ op'.step = "link" /\ op'.pr = op.pr
    <3>1. End \/ Goto("link")
      BY <1>14 DEF ConfirmCreated, Step, Refuse
    <3> QED BY <1>0, <3>1, EndStep, GotoStep, Zenon
  <2>3. op.pr # 0 /\ (Answered(op.pr) \/ SomeListed)
    BY <1>2, <1>14 DEF ConfirmCreated, At, SoundOpening
  <2>4. op'.step = "link" => op'.pr # 0 /\ (Answered(op.pr)' \/ SomeListed')
    BY <2>1, <2>2, <2>3, <1>14 DEF Answered, ConfirmCreated, Step, Refuse, github, Rest, history
  <2>5. SoundOpening'
    BY <2>2, <2>4 DEF SoundOpening, Opening
  <2> QED BY <1>2, <2>1, <2>2, <2>5, QuietOpening DEF CreateSteps
<1>15. ASSUME NEW read \in BOOLEAN, Reconcile(read) PROVE Inv'
  <2>1. Quiet /\ SomeListed' = SomeListed /\ task' = task /\ Answered(task.pr)' = Answered(task.pr)
    BY <1>15, SameRecord
    DEF Reconcile, Refuse, record, github, Rest, history, SomeListed, Answered
  <2>2. \/ op' = Idle
        \/ NewestListed # 0 /\ op' = [op EXCEPT !.step = "confirmCreated", !.pr = NewestListed]
        \/ op.verdict = "rejected" /\ op' = [op EXCEPT !.step = "retract"]
    BY <1>15 DEF Reconcile, Refuse, End
  <2>3. \/ op'.step = "idle"
        \/ op'.step = "confirmCreated" /\ op'.pr # 0 /\ SomeListed
        \/ op'.step = "retract" /\ op.verdict = "rejected"
    BY <1>1, <2>2, IdleStep, Newest DEF Owners
  <2>4. op.verdict = "rejected" => Answered(task.pr)
    BY <1>2, <1>15 DEF Reconcile, At, SoundOpening
  <2>5. SoundOpening'
    BY <2>1, <2>3, <2>4 DEF SoundOpening, Opening
  <2> QED BY <1>2, <2>1, <2>3, <2>5, QuietOpening DEF CreateSteps
<1>16. ASSUME NEW o \in Outcomes, Retract(o) PROVE Inv'
  <2> DEFINE t == [task EXCEPT !.asked = IF @ = op.commit THEN NoCommit ELSE @]
  <2>1. Answered(task.pr) /\ t.pr = task.pr
    BY <1>1, <1>2, <1>16 DEF Retract, At, SoundOpening, TaskRecords
  <2>2. Save(t, o) /\ prs' = prs /\ waived' = waived
    BY <1>16 DEF Retract, github, Rest, history
  <2> HIDE DEF t
  <2>3. survivors' \subseteq survivors \cup {t}
    BY <1>1, <2>2, SaveFacts
  <2>4. ASSUME NEW s \in survivors' PROVE Remembers(s)'
    <3>1. CASE s \in survivors
      <4>1. Remembers(s)
        BY <3>1 DEF Inv
      <4> QED BY <2>2, <4>1 DEF Remembers, Answered, SomeListed
    <3>2. CASE s = t
      <4>1. \A n \in 1 .. MaxPrs : prs[n].ours /\ n \notin waived => task.pr # 0
        BY <2>1, BoundsAssumption DEF Answered
      <4> QED BY <2>1, <2>2, <3>2, <4>1 DEF Remembers, Answered
    <3> QED BY <2>3, <3>1, <3>2
  <2>5. op'.step = "idle" /\ Numbered'
    BY <1>16, <2>2, EndStep DEF Retract, Inv, Numbered
  <2> QED BY <1>2, <2>4, <2>5, OpeningStep DEF SoundOpening, Opening
<1>17. ASSUME NEW o \in Outcomes, Link(o) PROVE Inv'
  <2>1. CASE Cancelled
    <3>1. Quiet /\ op'.step = "idle"
      BY <1>17, <2>1, SameRecord, EndStep DEF Link, Refuse, record, github, Rest, history
    <3> QED BY <1>2, <3>1, QuietEnd
  <2>2. CASE ~Cancelled
    <3> DEFINE t == [task EXCEPT !.pr = op.pr, !.asked = NoCommit, !.status = "created"]
    <3>1. t.pr = op.pr /\ op.pr # 0 /\ (Answered(op.pr) \/ SomeListed)
      BY <1>1, <1>2, <1>17 DEF Link, At, SoundOpening, TaskRecords
    <3>2. Save(t, o) /\ prs' = prs /\ waived' = waived
      BY <1>17, <2>2 DEF Link, github, Rest, history
    <3> HIDE DEF t
    <3>3. survivors' \subseteq survivors \cup {t}
      BY <1>1, <3>2, SaveFacts
    <3>4. ASSUME NEW s \in survivors' PROVE Remembers(s)'
      <4>1. CASE s \in survivors
        <5>1. Remembers(s)
          BY <4>1 DEF Inv
        <5> QED BY <3>2, <5>1 DEF Remembers, Answered, SomeListed
      <4>2. CASE s = t
        BY <3>1, <3>2, <4>2 DEF Remembers, Answered, SomeListed
      <4> QED BY <3>3, <4>1, <4>2
    <3>5. op'.step = "idle" /\ Numbered'
      BY <1>17, <2>2, <3>2, EndStep DEF Link, Inv, Numbered
    <3> QED BY <1>2, <3>4, <3>5, OpeningStep DEF SoundOpening, Opening
  <2> QED BY <2>1, <2>2
<1>18. ASSUME NEW n \in 1 .. MaxPrs, LinkExisting(n) PROVE Inv'
  <2>1. Quiet /\ prs' = prs /\ waived' = waived \cup {m \in 1 .. MaxPrs : prs[m].ours /\ m # n}
    BY <1>18 DEF LinkExisting, Quiet, record, github
  <2>2. op'.step = "link" /\ op'.pr = n
    BY <1>18 DEF LinkExisting, Idle
  <2>3. Answered(op.pr)' /\ op'.pr # 0
    BY <2>1, <2>2, BoundsAssumption DEF Answered
  <2>4. SoundOpening'
    BY <2>2, <2>3 DEF SoundOpening, Opening
  <2> QED BY <1>2, <2>1, <2>2, <2>4, QuietOpening DEF CreateSteps
<1>19. ASSUME BeginDiscard \/ LookBeforeDiscard PROVE Inv'
  <2>1. Quiet
    BY <1>19, SameRecord
    DEF BeginDiscard, LookBeforeDiscard, Step, Refuse, record, github, Rest, history
  <2>2. op'.step \in {"idle", "discard", "discardWrite"}
    BY <1>1, <1>19, EndStep, GotoStep DEF BeginDiscard, LookBeforeDiscard, Step, Refuse, Idle
  <2> QED BY <1>2, <2>1, <2>2, QuietOpening DEF SoundOpening, Opening, CreateSteps
<1>20. ASSUME NEW o \in Outcomes, DiscardRequest(o) PROVE Inv'
  <2> DEFINE t == [task EXCEPT !.asked = IF @ = op.commit THEN NoCommit ELSE @]
  <2>1. /\ Save(t, o) /\ prs' = prs /\ op'.step = "idle"
        /\ o = "failed" => waived' = waived
        /\ o # "failed" => waived' = {n \in 1 .. MaxPrs : prs[n].ours}
    BY <1>20, EndStep DEF DiscardRequest, github
  <2>2. CASE o = "failed"
    <3>1. Quiet
      BY <1>1, <2>1, <2>2, SaveFacts, SameRecord
    <3> QED BY <1>2, <2>1, <3>1, QuietEnd
  <2>3. CASE o # "failed"
    <3>1. \A s \in survivors' : Remembers(s)'
      BY <2>1, <2>3 DEF Remembers, Answered
    <3>2. Numbered'
      BY <2>1 DEF Inv, Numbered
    <3> QED BY <1>2, <2>1, <3>1, <3>2, OpeningStep DEF SoundOpening, Opening
  <2> QED BY <2>2, <2>3
<1> QED
  BY <1>3, <1>4, <1>5, <1>6, <1>7, <1>8, <1>9, <1>10, <1>11, <1>12, <1>13, <1>14, <1>15,
     <1>16, <1>17, <1>18, <1>19, <1>20 DEF PullRequestNext

------------------------------------------------------------------------------
(* The theorems *)

LEMMA InitInvariant == ASSUME Init PROVE Inv
<1>1. tip \in Commits /\ tip # NoCommit
  BY DEF Init, Commits, NoCommit
<1>2. NoPublication \in [state : PublicationStates, commit : Commits, pr : PrNumbers]
  BY NoCommitType, BoundsAssumption DEF NoPublication, PublicationStates, PrNumbers
<1>3. task \in TaskRecords
  BY <1>2, NoCommitType, NoRestackType, BoundsAssumption DEF Init, TaskRecords, PrNumbers
<1>4. prs \in [1 .. MaxPrs -> PullRequests]
  BY DEF Init, PullRequests, NoPr
<1>5. TypeOK
  <2>1. /\ survivors = {task} /\ backup = NoCommit /\ oldBackup = NoCommit
        /\ remote = NoCommit /\ op = Idle
    BY DEF Init
  <2>2. /\ faults = 0 /\ made = 1 /\ outside = 0 /\ landed = FALSE /\ moving = "no"
        /\ consented = {} /\ reached = {} /\ waived = {}
    BY DEF Init
  <2>3. /\ survivors \subseteq TaskRecords /\ task \in survivors
        /\ {tip, backup, oldBackup, remote} \subseteq Commits /\ op \in Owners
    BY <1>1, <1>3, <2>1, IdleOwner, NoCommitType
  <2>4. /\ faults \in 0 .. MaxFaults /\ made \in 1 .. MaxCommits /\ outside \in 0 .. MaxOutside
        /\ landed \in BOOLEAN /\ moving \in {"no", "work", "review"}
    <3>1. 0 \in 0 .. MaxFaults /\ 1 \in 1 .. MaxCommits /\ 0 \in 0 .. MaxOutside
      BY BoundsAssumption
    <3>2. FALSE \in BOOLEAN /\ "no" \in {"no", "work", "review"}
      OBVIOUS
    <3> QED BY <2>2, <3>1, <3>2, Zenon
  <2>5. consented \subseteq Commits /\ reached \subseteq Commits /\ waived \subseteq 1 .. MaxPrs
    BY <2>2
  <2> QED
    BY <1>3, <1>4, <2>3, <2>4, <2>5 DEF TypeOK
<1>6. \A n \in 1 .. MaxPrs : prs[n] = NoPr /\ ~prs[n].ours
  BY DEF Init, NoPr
<1>7. Numbered /\ \A t \in survivors : Remembers(t)
  BY <1>6, BoundsAssumption DEF Numbered, Remembers, Answered, Init
<1>8. op.step = "idle"
  BY IdleStep DEF Init
<1>9. SoundOpening /\ SoundPublication
  BY <1>8 DEF SoundOpening, SoundPublication, Opening
<1> QED BY <1>5, <1>7, <1>9 DEF Inv

LEMMA NextInvariant == ASSUME Inv, [DeliveryNext]_vars PROVE Inv'
<1>1. CASE UNCHANGED vars
  <2>1. TypeOK'
    BY <1>1 DEF Inv, TypeOK, vars, record, branch, github, history
  <2> QED BY <1>1, <2>1, KeptStep DEF vars, record, branch, github, history
<1>2. CASE DeliveryNext
  BY <1>2, SurroundingsInvariant, PullRequestInvariant, PublicationInvariant,
     RepublishInvariant DEF DeliveryNext
<1> QED BY <1>1, <1>2

\* Every reachable state of a task's delivery satisfies the inductive invariant.
THEOREM Invariance == DeliverySpec => []Inv
<1>1. Init => Inv
  BY InitInvariant
<1>2. Inv /\ [DeliveryNext]_vars => Inv'
  BY NextInvariant
<1> QED BY <1>1, <1>2, PTL DEF DeliverySpec

\* The record of the task, every record a power loss may leave, the branch, the
\* pull requests and the operation under way are always of their types.
THEOREM TypeCorrect == DeliverySpec => []TypeOK
<1>1. Inv => TypeOK
  BY DEF Inv
<1> QED BY <1>1, Invariance, PTL

\* No crash, failed or unconfirmed write, lost answer or late listing makes the
\* task forget a request to open a pull request (pr_create_unconfirmed).
THEOREM RequestKept == DeliverySpec => []RequestIsKept
<1>1. Inv => RequestIsKept
  BY DEF Inv, Remembers, RequestIsKept
<1> QED BY <1>1, Invariance, PTL

\* `gh pr create` is about to run only when every pull request SlashIt had
\* GitHub open for the branch is recorded, outdated by the recorded one, or
\* disowned by a person.
THEOREM SecondRequestRefused == DeliverySpec => []NoSecondRequest
<1>1. Inv => NoSecondRequest
  BY DEF Inv, SoundOpening, NoSecondRequest, Answered, At
<1> QED BY <1>1, Invariance, PTL

\* A push is sent, and its outcome awaited, only while whatever the disk holds
\* names the commit pushed (pr_publication), so that it is settled after a crash.
THEOREM PublicationKnown == DeliverySpec => []PublicationIsKnown
<1>1. Inv => PublicationIsKnown
  BY DEF Inv, SoundPublication, PublicationIsKnown
<1> QED BY <1>1, Invariance, PTL

------------------------------------------------------------------------------
(* The history of a delivery: what is recorded, what was agreed to and what is *)
(* on origin                                                                  *)

\* A commit made here: nobody else's is part of it, nor one made later.
NamedUpTo(c, n) == \A i \in 1 .. Len(c.own) : c.own[i] \in 1 .. n
Clean(c) == NamedUpTo(c, made)

CleanRecord(t) == /\ Clean(t.approved) /\ Clean(t.asked)
                  /\ Clean(t.publication.commit) /\ Clean(t.pending.previous)

\* What SlashIt handles and records are commits made here.
Known ==
  /\ Clean(tip) /\ Clean(op.commit)
  /\ \A c \in consented : Clean(c)
  /\ \A t \in survivors : CleanRecord(t)

\* Origin is at a commit SlashIt put there, or at what others pushed on it.
Origin ==
  remote # NoCommit => \E c \in reached : PushedOn(remote, c) /\ remote.base = c.base

\* The commit, or one that contains it, was put on origin.
Delivered(commit) == \E c \in reached : Includes(c, commit)

Truthful(t) == t.publication.state = "published" => Delivered(t.publication.commit)

\* The steps of opening a pull request that an approval admits.
Admitted == {"lookup", "toExisting", "restack", "restackReplay", "restackRecord", "push",
             "confirmPush", "lookupAgain", "announce", "create", "confirmCreated", "reconcile",
             "retract"}
Unpushed == {"lookup", "toExisting", "restack", "restackReplay", "restackRecord"}
Pushed == {"lookupAgain", "announce", "create", "confirmCreated", "reconcile", "retract"}
Confirmed == {"settle", "observe", "refuse", "pend", "recheck", "send", "readBack", "plan"}
Pending == {"advance", "replay", "recordRewrite", "adopt", "checkRemote", "force"}

SoundRecord(t) ==
  /\ t.approved # NoCommit => t.approved \in consented
  /\ t.pending # NoRestack =>
       /\ t.pending.state # "none"
       /\ t.pending.previous \in consented /\ t.pending.previous.base = "old"
       /\ t.pending.state = "rewritten" => t.base = "landed"

Records == \A t \in survivors : SoundRecord(t) /\ Truthful(t)

\* What a person decided on, and what an operation knows of it.
Decided ==
  /\ op.bound # NoCommit => op.bound \in consented /\ task.approved = op.bound
  /\ op.step \in Admitted => op.bound # NoCommit
  /\ op.step \in Unpushed => op.commit = op.bound
  /\ op.step \in Confirmed => op.commit \in consented /\ op.commit # NoCommit
  /\ op.step = "plan" => op.commit.base = "old"
  /\ op.step \in Pending => task.pending # NoRestack
  /\ op.step \in {"checkRemote", "force", "finish"} => task.base = "landed"
  /\ op.step \in CreateSteps \cup PublishSteps => task.status # "work"

\* The commit of an admitted delivery has reached origin once it was pushed, and
\* so has the one a publication is found to have published.
Answer ==
  /\ op.step = "verdict" /\ op.verdict = "published" => Delivered(op.commit)
  /\ \/ op.step \in Pushed
     \/ op.step = "link" /\ op.bound # NoCommit
     => Delivered(op.commit)

\* The branch can be put back, unless what it stands on now is durable.
Returnable == tip.base # "none" /\ RewriteIsReversible

Backed ==
  /\ op.step \in {"restackReplay", "restackRecord"} => oldBackup = op.commit
  /\ op.step = "restackReplay" => tip.base = op.commit.base
  /\ op.step = "restackRecord" => op.commit.base # "none"
  /\ op.step = "replay" => backup = Approved
  /\ op.step = "dropRecord" => tip.base = "old"
  /\ op.step = "goBack" => task.pending # NoRestack
  /\ Returnable

\* Nothing else writes the branch while a rebase is recorded or pushed by name.
Calm == {"restackRecord", "force"} \subseteq Undisturbed

Agreed(c) == \E d \in consented : c.own = d.own /\ c.base \in {d.base, "landed"}

Carried ==
  /\ op.bound # NoCommit => op.commit \in {op.bound, Replayed(op.bound)}
  /\ op.step \in PublishSteps => op.bound = NoCommit
  /\ op.step = "restackRecord" => tip = Replayed(op.commit)
  /\ op.step = "force" => tip = Rewritten

Consent == Carried /\ \A c \in reached : Agreed(c)

\* What an operation knows of the restack that is pending, and of the branch.
Prepared ==
  /\ op.step \in Admitted => task.pending = NoRestack
  /\ op.step \in RestackSteps => op.bound = NoCommit
  /\ op.step = "plan" => tip.base = "old" /\ task.base = "old"
  /\ op.step \in {"replay", "recordRewrite", "adopt"} => task.pending.state = "planned"
  /\ op.step = "dropRecord" /\ task.pending.state = "rewritten" => remote # Rewritten

\* The rewritten commit of a pending restack.
RewriteOf(t) == Replayed(t.pending.previous)

\* A rewrite nobody approved as such is on origin, and nothing else.
RewriteIsOut == remote.base = "landed" /\ 0 \notin Range(remote.own) /\ remote \notin consented

Landed(t) == t.base = "landed" /\ t.pending = NoRestack

\* What is recorded of a rewrite, however often the process stops but for the
\* last three, which two faults may break.
Recoverable ==
  /\ \A t \in survivors : t.pending.state = "planned" => t.base = "old"
  /\ op.bound # NoCommit /\ op.commit # op.bound => \A t \in survivors : Landed(t)
  /\ faults = 0 => survivors = {task}
  /\ faults = 0 /\ task.pending.state = "planned" /\ tip = Rewritten => op.step = "recordRewrite"
  /\ op.step = "adopt" => faults # 0
  /\ faults <= 1 /\ task.pending.state = "rewritten" /\ tip = Rewritten =>
       \A t \in survivors : t.base = "landed" /\ t.pending \in {NoRestack, task.pending}
  /\ faults <= 1 /\ RewriteIsOut =>
       \A t \in survivors : t.base = "landed" /\ (t.pending # NoRestack => remote = RewriteOf(t))

------------------------------------------------------------------------------
(* The steps of an operation *)

\* A step of an operation: the one it is taken at, those it may go on with, and
\* what it is about then; or the operation ends.
Turn(from, to, commit, bound) ==
  /\ op.step = from
  /\ op' = Idle \/ (op'.step \in to /\ op'.commit = commit /\ op'.bound = bound)

LEMMA BeginCreateTurn ==
  ASSUME op \in Owners, BeginCreate
  PROVE  Turn("idle", {"lookup"}, tip, tip)
<1>1. op' = [Idle EXCEPT !.step = "lookup", !.commit = tip, !.bound = tip]
  BY DEF BeginCreate, Step, Refuse, Goto, End, Verdict
<1>2. op.step = "idle"
  BY IdleStep DEF BeginCreate, MayBegin
<1> QED BY <1>1, <1>2 DEF Turn, Owners, Idle

LEMMA LookupTurn ==
  ASSUME op \in Owners, Lookup
  PROVE  Turn("lookup", {"toExisting", "restack", "push"}, op.commit, op.bound)
<1>1. \/ op' = Idle
      \/ op' = [op EXCEPT !.step = "toExisting", !.pr = NewestListed]
      \/ op' = [op EXCEPT !.step = "restack"]
      \/ op' = [op EXCEPT !.step = "push"]
  BY DEF Lookup, Step, Refuse, Goto, End, Verdict
<1>2. op.step = "lookup"
  BY IdleStep DEF Lookup, At
<1> QED BY <1>1, <1>2 DEF Turn, Owners

LEMMA ToExistingTurn ==
  ASSUME op \in Owners, NEW sent \in BOOLEAN, ToExisting(sent)
  PROVE  Turn("toExisting", {"link"}, op.commit, op.bound)
<1>1. \/ op' = Idle
      \/ op' = [op EXCEPT !.step = "link"]
  BY DEF ToExisting, Step, Refuse, Goto, End, Verdict
<1>2. op.step = "toExisting"
  BY IdleStep DEF ToExisting, At
<1> QED BY <1>1, <1>2 DEF Turn, Owners

LEMMA PlanRestackTurn ==
  ASSUME op \in Owners, PlanRestack
  PROVE  Turn("restack", {"restackReplay"}, op.commit, op.bound)
<1>1. \/ op' = Idle
      \/ op' = [op EXCEPT !.step = "restackReplay"]
  BY DEF PlanRestack, Step, Refuse, Goto, End, Verdict
<1>2. op.step = "restack"
  BY IdleStep DEF PlanRestack, At
<1> QED BY <1>1, <1>2 DEF Turn, Owners

LEMMA ReplayTurn ==
  ASSUME op \in Owners, NEW clean \in BOOLEAN, Replay(clean)
  PROVE  Turn("restackReplay", {"restackRecord"}, op.commit, op.bound)
<1>1. \/ op' = Idle
      \/ op' = [op EXCEPT !.step = "restackRecord"]
  BY DEF Replay, Step, Refuse, Goto, End, Verdict
<1>2. op.step = "restackReplay"
  BY IdleStep DEF Replay, At
<1> QED BY <1>1, <1>2 DEF Turn, Owners

LEMMA RecordRestackTurn ==
  ASSUME op \in Owners, NEW o \in Outcomes, RecordRestack(o)
  PROVE  Turn("restackRecord", {"push"}, tip, op.bound)
<1>1. \/ op' = Idle
      \/ op' = [op EXCEPT !.step = "push", !.commit = tip]
  BY DEF RecordRestack, Step, Refuse, Goto, End, Verdict
<1>2. op.step = "restackRecord"
  BY IdleStep DEF RecordRestack, At
<1> QED BY <1>1, <1>2 DEF Turn, Owners

LEMMA PushTurn ==
  ASSUME op \in Owners, NEW sent \in BOOLEAN, NEW answered \in BOOLEAN, Push(sent, answered)
  PROVE  Turn("push", {"confirmPush"}, op.commit, op.bound)
<1>1. \/ op' = Idle
      \/ op' = [op EXCEPT !.step = "confirmPush", !.verdict = "accepted"]
      \/ op' = [op EXCEPT !.step = "confirmPush", !.verdict = "error"]
  BY DEF Push, Step, Refuse, Goto, End, Verdict
<1>2. op.step = "push"
  BY IdleStep DEF Push, At
<1> QED BY <1>1, <1>2 DEF Turn, Owners

LEMMA ConfirmPushTurn ==
  ASSUME op \in Owners, NEW read \in BOOLEAN, ConfirmPush(read)
  PROVE  Turn("confirmPush", {"lookupAgain"}, op.commit, op.bound)
<1>1. \/ op' = Idle
      \/ op' = [op EXCEPT !.step = "lookupAgain"]
  BY DEF ConfirmPush, Step, Refuse, Goto, End, Verdict
<1>2. op.step = "confirmPush"
  BY IdleStep DEF ConfirmPush, At
<1> QED BY <1>1, <1>2 DEF Turn, Owners

LEMMA LookupAgainTurn ==
  ASSUME op \in Owners, LookupAgain
  PROVE  Turn("lookupAgain", {"link", "announce"}, op.commit, op.bound)
<1>1. \/ op' = Idle
      \/ op' = [op EXCEPT !.step = "link", !.verdict = "none", !.pr = NewestListed]
      \/ op' = [op EXCEPT !.step = "announce", !.verdict = "none"]
  BY DEF LookupAgain, Step, Refuse, Goto, End, Verdict
<1>2. op.step = "lookupAgain"
  BY IdleStep DEF LookupAgain, At
<1> QED BY <1>1, <1>2 DEF Turn, Owners

LEMMA AnnounceTurn ==
  ASSUME op \in Owners, NEW o \in Outcomes, Announce(o)
  PROVE  Turn("announce", {"create", "retract"}, op.commit, op.bound)
<1>1. \/ op' = Idle
      \/ op' = [op EXCEPT !.step = "create"]
      \/ op' = [op EXCEPT !.step = "retract"]
  BY DEF Announce, Step, Refuse, Goto, End, Verdict
<1>2. op.step = "announce"
  BY IdleStep DEF Announce, At
<1> QED BY <1>1, <1>2 DEF Turn, Owners

LEMMA CreateTurn ==
  ASSUME op \in Owners, NEW answer \in {"opened", "lost", "rejected", "not sent"}, Create(answer)
  PROVE  Turn("create", {"retract", "reconcile", "confirmCreated"}, op.commit, op.bound)
<1>1. \/ op' = [op EXCEPT !.step = "retract"]
      \/ op' = [op EXCEPT !.step = "reconcile", !.verdict = "unknown"]
      \/ op' = [op EXCEPT !.step = "reconcile", !.verdict = "rejected"]
      \/ \E n \in 1 .. MaxPrs :
           \/ op' = [op EXCEPT !.step = "confirmCreated", !.pr = n, !.verdict = "unknown"]
           \/ op' = [op EXCEPT !.step = "reconcile", !.pr = n, !.verdict = "unknown"]
  BY DEF Create, Step, Refuse, Goto, End, Verdict
<1>2. op.step = "create"
  BY IdleStep DEF Create, At
<1> QED BY <1>1, <1>2 DEF Turn, Owners

LEMMA ConfirmCreatedTurn ==
  ASSUME op \in Owners, NEW read \in BOOLEAN, ConfirmCreated(read)
  PROVE  Turn("confirmCreated", {"link"}, op.commit, op.bound)
<1>1. \/ op' = Idle
      \/ op' = [op EXCEPT !.step = "link"]
  BY DEF ConfirmCreated, Step, Refuse, Goto, End, Verdict
<1>2. op.step = "confirmCreated"
  BY IdleStep DEF ConfirmCreated, At
<1> QED BY <1>1, <1>2 DEF Turn, Owners

LEMMA ReconcileTurn ==
  ASSUME op \in Owners, NEW read \in BOOLEAN, Reconcile(read)
  PROVE  Turn("reconcile", {"confirmCreated", "retract"}, op.commit, op.bound)
<1>1. \/ op' = Idle
      \/ op' = [op EXCEPT !.step = "confirmCreated", !.pr = NewestListed]
      \/ op' = [op EXCEPT !.step = "retract"]
  BY DEF Reconcile, Step, Refuse, Goto, End, Verdict
<1>2. op.step = "reconcile"
  BY IdleStep DEF Reconcile, At
<1> QED BY <1>1, <1>2 DEF Turn, Owners

LEMMA RetractTurn ==
  ASSUME op \in Owners, NEW o \in Outcomes, Retract(o)
  PROVE  Turn("retract", {}, NoCommit, NoCommit)
BY DEF Retract, Turn, At, Refuse, End

LEMMA LinkTurn ==
  ASSUME op \in Owners, NEW o \in Outcomes, Link(o)
  PROVE  Turn("link", {}, NoCommit, NoCommit)
BY DEF Link, Turn, At, Refuse, End

LEMMA LinkExistingTurn ==
  ASSUME op \in Owners, NEW n \in 1 .. MaxPrs, LinkExisting(n)
  PROVE  Turn("idle", {"link"}, NoCommit, NoCommit)
<1>1. op' = [Idle EXCEPT !.step = "link", !.pr = n]
  BY DEF LinkExisting, Step, Refuse, Goto, End, Verdict
<1>2. op.step = "idle"
  BY IdleStep DEF LinkExisting, MayRecover, MayBegin
<1> QED BY <1>1, <1>2 DEF Turn, Owners, Idle

LEMMA BeginDiscardTurn ==
  ASSUME op \in Owners, BeginDiscard
  PROVE  Turn("idle", {"discard"}, task.asked, NoCommit)
<1>1. op' = [Idle EXCEPT !.step = "discard", !.commit = task.asked]
  BY DEF BeginDiscard, Step, Refuse, Goto, End, Verdict
<1>2. op.step = "idle"
  BY IdleStep DEF BeginDiscard, MayRecover, MayBegin
<1> QED BY <1>1, <1>2 DEF Turn, Owners, Idle

LEMMA LookBeforeDiscardTurn ==
  ASSUME op \in Owners, LookBeforeDiscard
  PROVE  Turn("discard", {"discardWrite"}, op.commit, op.bound)
<1>1. \/ op' = Idle
      \/ op' = [op EXCEPT !.step = "discardWrite"]
  BY DEF LookBeforeDiscard, Step, Refuse, Goto, End, Verdict
<1>2. op.step = "discard"
  BY IdleStep DEF LookBeforeDiscard, At
<1> QED BY <1>1, <1>2 DEF Turn, Owners

LEMMA DiscardRequestTurn ==
  ASSUME op \in Owners, NEW o \in Outcomes, DiscardRequest(o)
  PROVE  Turn("discardWrite", {}, NoCommit, NoCommit)
BY DEF DiscardRequest, Turn, At, Refuse, End

LEMMA BeginPublicationTurn ==
  ASSUME op \in Owners, NEW c \in {tip, task.publication.commit}, BeginPublication(c)
  PROVE  Turn("idle", {"settle", "observe"}, c, NoCommit)
<1>1. \/ op' = [Idle EXCEPT !.step = "settle", !.commit = c, !.pr = task.pr]
      \/ op' = [Idle EXCEPT !.step = "observe", !.commit = c, !.pr = task.pr]
  BY DEF BeginPublication, Step, Refuse, Goto, End, Verdict
<1>2. op.step = "idle"
  BY IdleStep DEF BeginPublication, MayBegin
<1> QED BY <1>1, <1>2 DEF Turn, Owners, Idle

LEMMA SettleTurn ==
  ASSUME op \in Owners, NEW read \in BOOLEAN, Settle(read)
  PROVE  Turn("settle", {"verdict"}, task.publication.commit, op.bound)
<1>1. \/ op' = Idle
      \/ op' = [op EXCEPT !.step = "verdict", !.commit = task.publication.commit, !.pr = task.publication.pr,
                         !.verdict = IF Includes(remote, task.publication.commit)
                                     THEN "published" ELSE "refused"]
  BY DEF Settle, Step, Refuse, Goto, End, Verdict
<1>2. op.step = "settle"
  BY IdleStep DEF Settle, At
<1> QED BY <1>1, <1>2 DEF Turn, Owners

LEMMA ObserveTurn ==
  ASSUME op \in Owners, NEW read \in BOOLEAN, Observe(read)
  PROVE  Turn("observe", {"pend", "refuse"}, op.commit, op.bound)
<1>1. \/ op' = Idle
      \/ op' = [op EXCEPT !.before = remote, !.step = "pend"]
      \/ op' = [op EXCEPT !.before = remote, !.step = "refuse"]
  BY DEF Observe, Step, Refuse, Goto, End, Verdict
<1>2. op.step = "observe"
  BY IdleStep DEF Observe, At
<1> QED BY <1>1, <1>2 DEF Turn, Owners

LEMMA RefusePublicationTurn ==
  ASSUME op \in Owners, NEW o \in Outcomes, RefusePublication(o)
  PROVE  Turn("refuse", {}, NoCommit, NoCommit)
BY DEF RefusePublication, Turn, At, Refuse, End

LEMMA PendTurn ==
  ASSUME op \in Owners, NEW o \in Outcomes, Pend(o)
  PROVE  Turn("pend", {"recheck"}, op.commit, op.bound)
<1>1. \/ op' = Idle
      \/ op' = [op EXCEPT !.step = "recheck"]
  BY DEF Pend, Step, Refuse, Goto, End, Verdict
<1>2. op.step = "pend"
  BY IdleStep DEF Pend, At
<1> QED BY <1>1, <1>2 DEF Turn, Owners

LEMMA RecheckTurn ==
  ASSUME op \in Owners, NEW read \in BOOLEAN, Recheck(read)
  PROVE  Turn("recheck", {"send", "refuse"}, op.commit, op.bound)
<1>1. \/ op' = [op EXCEPT !.step = "send"]
      \/ op' = [op EXCEPT !.step = "refuse"]
  BY DEF Recheck, Step, Refuse, Goto, End, Verdict
<1>2. op.step = "recheck"
  BY IdleStep DEF Recheck, At, Step
<1> QED BY <1>1, <1>2 DEF Turn, Owners

LEMMA SendTurn ==
  ASSUME op \in Owners, NEW sent \in BOOLEAN, NEW answered \in BOOLEAN, Send(sent, answered)
  PROVE  Turn("send", {"refuse", "readBack"}, op.commit, op.bound)
<1>1. \/ op' = [op EXCEPT !.step = "refuse"]
      \/ op' = [op EXCEPT !.step = "readBack", !.verdict = "accepted"]
      \/ op' = [op EXCEPT !.step = "readBack", !.verdict = "error"]
  BY DEF Send, Step, Refuse, Goto, End, Verdict
<1>2. op.step = "send"
  BY IdleStep DEF Send, At
<1> QED BY <1>1, <1>2 DEF Turn, Owners

LEMMA ReadBackTurn ==
  ASSUME op \in Owners, NEW read \in BOOLEAN, ReadBack(read)
  PROVE  Turn("readBack", {"verdict"}, op.commit, op.bound)
<1>1. \/ op' = [op EXCEPT !.step = "verdict", !.verdict = "published", !.before = NoCommit]
      \/ op' = [op EXCEPT !.step = "verdict", !.verdict = "refused", !.before = NoCommit]
      \/ op' = [op EXCEPT !.step = "verdict", !.verdict = "unknown", !.before = NoCommit]
  BY DEF ReadBack, Step, Refuse, Goto, End, Verdict
<1>2. op.step = "readBack"
  BY IdleStep DEF ReadBack, At
<1> QED BY <1>1, <1>2 DEF Turn, Owners

LEMMA SettlePublicationTurn ==
  ASSUME op \in Owners, NEW o \in Outcomes, SettlePublication(o)
  PROVE  Turn("verdict", {}, NoCommit, NoCommit)
BY DEF SettlePublication, Turn, At, Refuse, End

LEMMA BeginRestackTurn ==
  ASSUME op \in Owners, BeginRestack
  PROVE  Turn("idle", {"plan"}, tip, NoCommit)
<1>1. op' = [Idle EXCEPT !.step = "plan", !.commit = tip, !.pr = NewestListed]
  BY DEF BeginRestack, Step, Refuse, Goto, End, Verdict
<1>2. op.step = "idle"
  BY IdleStep DEF BeginRestack, MayBegin
<1> QED BY <1>1, <1>2 DEF Turn, Owners, Idle

LEMMA PlanRewriteTurn ==
  ASSUME op \in Owners, NEW o \in Outcomes, PlanRewrite(o)
  PROVE  Turn("plan", {"advance"}, op.commit, op.bound)
<1>1. \/ op' = Idle
      \/ op' = [op EXCEPT !.step = "advance"]
  BY DEF PlanRewrite, Step, Refuse, Goto, End, Verdict
<1>2. op.step = "plan"
  BY IdleStep DEF PlanRewrite, At
<1> QED BY <1>1, <1>2 DEF Turn, Owners

LEMMA ResumeTurn ==
  ASSUME op \in Owners, Resume
  PROVE  Turn("idle", {"advance"}, Approved, NoCommit)
<1>1. op' = [Idle EXCEPT !.step = "advance", !.commit = Approved]
  BY DEF Resume, Step, Refuse, Goto, End, Verdict
<1>2. op.step = "idle"
  BY IdleStep DEF Resume, MayBegin
<1> QED BY <1>1, <1>2 DEF Turn, Owners, Idle

LEMMA AdvanceTurn ==
  ASSUME op \in Owners, Advance
  PROVE  Turn("advance", {"checkRemote", "adopt", "replay"}, op.commit, op.bound)
<1>1. \/ op' = Idle
      \/ op' = [op EXCEPT !.step = "checkRemote"]
      \/ op' = [op EXCEPT !.step = "adopt"]
      \/ op' = [op EXCEPT !.step = "replay"]
  BY DEF Advance, Step, Refuse, Goto, End, Verdict
<1>2. op.step = "advance"
  BY IdleStep DEF Advance, At
<1> QED BY <1>1, <1>2 DEF Turn, Owners

LEMMA ReplayPublishedTurn ==
  ASSUME op \in Owners, NEW clean \in BOOLEAN, ReplayPublished(clean)
  PROVE  Turn("replay", {"recordRewrite", "clear"}, op.commit, op.bound)
<1>1. \/ op' = Idle
      \/ op' = [op EXCEPT !.step = "recordRewrite"]
      \/ op' = [op EXCEPT !.step = "clear"]
  BY DEF ReplayPublished, Step, Refuse, Goto, End, Verdict
<1>2. op.step = "replay"
  BY IdleStep DEF ReplayPublished, At
<1> QED BY <1>1, <1>2 DEF Turn, Owners

LEMMA RecordRewriteTurn ==
  ASSUME op \in Owners, NEW o \in Outcomes, RecordRewrite(o)
  PROVE  Turn("recordRewrite", {"checkRemote", "clear"}, op.commit, op.bound)
<1>1. \/ op' = Idle
      \/ op' = [op EXCEPT !.step = "checkRemote"]
      \/ op' = [op EXCEPT !.step = "clear"]
  BY DEF RecordRewrite, Step, Refuse, Goto, End, Verdict
<1>2. op.step = "recordRewrite"
  BY IdleStep DEF RecordRewrite, At
<1> QED BY <1>1, <1>2 DEF Turn, Owners

LEMMA AdoptRewriteTurn ==
  ASSUME op \in Owners, NEW o \in Outcomes, AdoptRewrite(o)
  PROVE  Turn("adopt", {"checkRemote"}, op.commit, op.bound)
<1>1. \/ op' = Idle
      \/ op' = [op EXCEPT !.step = "checkRemote"]
  BY DEF AdoptRewrite, Step, Refuse, Goto, End, Verdict
<1>2. op.step = "adopt"
  BY IdleStep DEF AdoptRewrite, At
<1> QED BY <1>1, <1>2 DEF Turn, Owners

LEMMA ClearPendingTurn ==
  ASSUME op \in Owners, NEW o \in Outcomes, ClearPending(o)
  PROVE  Turn("clear", {}, NoCommit, NoCommit)
BY DEF ClearPending, Turn, At, Refuse, End

LEMMA CheckRemoteTurn ==
  ASSUME op \in Owners, CheckRemote
  PROVE  Turn("checkRemote", {"finish", "force"}, op.commit, op.bound)
<1>1. \/ op' = Idle
      \/ op' = [op EXCEPT !.step = "finish"]
      \/ op' = [op EXCEPT !.step = "force"]
  BY DEF CheckRemote, Step, Refuse, Goto, End, Verdict
<1>2. op.step = "checkRemote"
  BY IdleStep DEF CheckRemote, At
<1> QED BY <1>1, <1>2 DEF Turn, Owners

LEMMA ForcePushTurn ==
  ASSUME op \in Owners, NEW sent \in BOOLEAN, NEW answered \in BOOLEAN, ForcePush(sent, answered)
  PROVE  Turn("force", {"finish"}, op.commit, op.bound)
<1>1. \/ op' = Idle
      \/ op' = [op EXCEPT !.step = "finish"]
  BY DEF ForcePush, Step, Refuse, Goto, End, Verdict
<1>2. op.step = "force"
  BY IdleStep DEF ForcePush, At
<1> QED BY <1>1, <1>2 DEF Turn, Owners

LEMMA FinishTurn ==
  ASSUME op \in Owners, NEW retargeted \in BOOLEAN, NEW o \in Outcomes, Finish(retargeted, o)
  PROVE  Turn("finish", {}, NoCommit, NoCommit)
BY DEF Finish, Turn, At, Refuse, End

LEMMA BeginDiscardRestackTurn ==
  ASSUME op \in Owners, BeginDiscardRestack
  PROVE  Turn("idle", {"goBack"}, Approved, NoCommit)
<1>1. op' = [Idle EXCEPT !.step = "goBack", !.commit = Approved]
  BY DEF BeginDiscardRestack, Step, Refuse, Goto, End, Verdict
<1>2. op.step = "idle"
  BY IdleStep DEF BeginDiscardRestack, MayBegin
<1> QED BY <1>1, <1>2 DEF Turn, Owners, Idle

LEMMA GoBackTurn ==
  ASSUME op \in Owners, GoBack
  PROVE  Turn("goBack", {"dropRecord"}, op.commit, op.bound)
<1>1. \/ op' = Idle
      \/ op' = [op EXCEPT !.step = "dropRecord"]
  BY DEF GoBack, Step, Refuse, Goto, End, Verdict
<1>2. op.step = "goBack"
  BY IdleStep DEF GoBack, At
<1> QED BY <1>1, <1>2 DEF Turn, Owners

LEMMA DropRecordTurn ==
  ASSUME op \in Owners, NEW o \in Outcomes, DropRecord(o)
  PROVE  Turn("dropRecord", {}, NoCommit, NoCommit)
BY DEF DropRecord, Turn, At, Refuse, End

------------------------------------------------------------------------------
(* What a step changes of origin, of the branch and of the task's records *)

Contacts ==
  \/ UNCHANGED <<remote, reached>>
  \/ outside' # outside /\ reached' = reached /\ remote' = NoCommit
  \/ /\ outside' # outside /\ reached' = reached
     /\ remote # NoCommit /\ remote' = [remote EXCEPT !.own = Append(@, 0)]
  \/ /\ op.step \in {"toExisting", "push", "send"}
     /\ FastForward(op.commit) /\ RemoteAt(op.commit)
  \/ op.step = "force" /\ remote = Approved /\ RemoteAt(tip)

\* A record that a step of the operation, or a decision, writes.
Written(t) ==
  /\ \/ t.approved \in {task.approved, NoCommit}
     \/ t.approved = tip /\ tip \in consented'
  /\ t.asked \in {task.asked, NoCommit, op.commit}
  /\ \/ t.publication = task.publication
     \/ /\ t.publication.commit = op.commit
        /\ t.publication.state = "published" => op.step = "verdict" /\ op.verdict = "published"
  /\ \/ t.pending = NoRestack
     \/ /\ t.pending = task.pending
        /\ t.base = task.base \/ op.step = "restackRecord"
     \/ /\ op.step = "plan" /\ t.base = task.base
        /\ t.pending = [state |-> "planned", previous |-> op.commit, pr |-> op.pr]
     \/ /\ op.step \in {"recordRewrite", "adopt"}
        /\ t.pending = [task.pending EXCEPT !.state = "rewritten"] /\ t.base = "landed"
  /\ \/ t.base \in {task.base, "landed"}
     \/ op.step = "dropRecord" /\ task.pending.state = "rewritten" /\ t.pending = NoRestack

\* What a step does to the record in memory and to those the file may hold.
Recorded ==
  /\ survivors' \subseteq survivors \cup {task'}
  /\ faults' \in {faults, faults + 1}
  /\ \/ task' = task /\ survivors' \in {survivors, {task}}
     \/ Written(task') /\ (faults' = faults => survivors' = {task'})
     \/ faults' = faults + 1 /\ task' \in survivors

\* SlashIt moves origin's branch in four places, and others in two.
LEMMA RemoteStep == ASSUME TypeOK, DeliveryNext PROVE Contacts
<1>1. ASSUME GiveUpMove PROVE Contacts
  BY <1>1 DEF GiveUpMove, Contacts, record, branch, github, history, Rest, Step, Refuse
<1>2. ASSUME Commit PROVE Contacts
  BY <1>2 DEF Commit, Contacts, record, branch, github, history, Rest, Step, Refuse
<1>3. ASSUME Amend PROVE Contacts
  BY <1>3 DEF Amend, Contacts, record, branch, github, history, Rest, Step, Refuse
<1>4. ASSUME ForeignPush PROVE Contacts
  <2>1. outside' # outside
    BY <1>4, BoundsAssumption DEF ForeignPush, Others, TypeOK
  <2> QED
    BY <1>4, <2>1 DEF ForeignPush, Contacts, branch, history
<1>5. ASSUME ForeignDelete PROVE Contacts
  <2>1. outside' # outside
    BY <1>5, BoundsAssumption DEF ForeignDelete, Others, TypeOK
  <2> QED
    BY <1>5, <2>1 DEF ForeignDelete, Contacts, branch, history
<1>6. ASSUME NEW n \in 1 .. MaxPrs, ForeignOpen(n) PROVE Contacts
  BY <1>6 DEF ForeignOpen, Contacts, record, branch, github, history, Rest, Step, Refuse
<1>7. ASSUME NEW n \in 1 .. MaxPrs, Close(n) PROVE Contacts
  BY <1>7 DEF Close, Contacts, record, branch, github, history, Rest, Step, Refuse
<1>8. ASSUME NEW n \in 1 .. MaxPrs, List(n) PROVE Contacts
  BY <1>8 DEF List, Contacts, record, branch, github, history, Rest, Step, Refuse
<1>9. ASSUME ParentLands PROVE Contacts
  BY <1>9 DEF ParentLands, Contacts, record, branch, github, history, Rest, Step, Refuse
<1>10. ASSUME Crash PROVE Contacts
  BY <1>10 DEF Crash, Contacts, record, branch, github, history, Rest, Step, Refuse
<1>11. ASSUME NEW column \in {"work", "review"}, BeginMove(column) PROVE Contacts
  BY <1>11 DEF BeginMove, Contacts, record, branch, github, history, Rest, Step, Refuse
<1>12. ASSUME NEW o \in Outcomes, Approve(o) PROVE Contacts
  BY <1>12 DEF Approve, Contacts, record, branch, github, history, Rest, Step, Refuse
<1>13. ASSUME NEW o \in Outcomes, ApproveAgain(o) PROVE Contacts
  BY <1>13 DEF ApproveAgain, Contacts, record, branch, github, history, Rest, Step, Refuse
<1>14. ASSUME NEW o \in Outcomes, FinishRun(o) PROVE Contacts
  BY <1>14 DEF FinishRun, Contacts, record, branch, github, history, Rest, Step, Refuse
<1>15. ASSUME NEW o \in Outcomes, CompleteMove(o) PROVE Contacts
  BY <1>15 DEF CompleteMove, Contacts, record, branch, github, history, Rest, Step, Refuse
<1>16. ASSUME BeginCreate PROVE Contacts
  BY <1>16 DEF BeginCreate, Contacts, record, branch, github, history, Rest, Step, Refuse
<1>17. ASSUME Lookup PROVE Contacts
  BY <1>17 DEF Lookup, Contacts, record, branch, github, history, Rest, Step, Refuse
<1>18. ASSUME NEW sent \in BOOLEAN, ToExisting(sent) PROVE Contacts
  BY <1>18 DEF ToExisting, Contacts, At, RemoteAt, record, branch, github, history, Rest,
  Step, Refuse
<1>19. ASSUME PlanRestack PROVE Contacts
  BY <1>19 DEF PlanRestack, Contacts, record, branch, github, history, Rest, Step, Refuse
<1>20. ASSUME NEW clean \in BOOLEAN, Replay(clean) PROVE Contacts
  BY <1>20 DEF Replay, Contacts, record, branch, github, history, Rest, Step, Refuse
<1>21. ASSUME NEW o \in Outcomes, RecordRestack(o) PROVE Contacts
  BY <1>21 DEF RecordRestack, Contacts, record, branch, github, history, Rest, Step, Refuse
<1>22. ASSUME NEW sent \in BOOLEAN, NEW answered \in BOOLEAN, Push(sent, answered)
      PROVE  Contacts
  BY <1>22 DEF Push, Contacts, At, RemoteAt, record, branch, github, history, Rest, Step, Refuse
<1>23. ASSUME NEW read \in BOOLEAN, ConfirmPush(read) PROVE Contacts
  BY <1>23 DEF ConfirmPush, Contacts, record, branch, github, history, Rest, Step, Refuse
<1>24. ASSUME LookupAgain PROVE Contacts
  BY <1>24 DEF LookupAgain, Contacts, record, branch, github, history, Rest, Step, Refuse
<1>25. ASSUME NEW o \in Outcomes, Announce(o) PROVE Contacts
  BY <1>25 DEF Announce, Contacts, record, branch, github, history, Rest, Step, Refuse
<1>26. ASSUME NEW answer \in {"opened", "lost", "rejected", "not sent"}, Create(answer)
      PROVE  Contacts
  BY <1>26 DEF Create, Contacts, record, branch, github, history, Rest, Step, Refuse
<1>27. ASSUME NEW read \in BOOLEAN, ConfirmCreated(read) PROVE Contacts
  BY <1>27 DEF ConfirmCreated, Contacts, record, branch, github, history, Rest, Step, Refuse
<1>28. ASSUME NEW read \in BOOLEAN, Reconcile(read) PROVE Contacts
  BY <1>28 DEF Reconcile, Contacts, record, branch, github, history, Rest, Step, Refuse
<1>29. ASSUME NEW o \in Outcomes, Retract(o) PROVE Contacts
  BY <1>29 DEF Retract, Contacts, record, branch, github, history, Rest, Step, Refuse
<1>30. ASSUME NEW o \in Outcomes, Link(o) PROVE Contacts
  BY <1>30 DEF Link, Contacts, record, branch, github, history, Rest, Step, Refuse
<1>31. ASSUME NEW n \in 1 .. MaxPrs, LinkExisting(n) PROVE Contacts
  BY <1>31 DEF LinkExisting, Contacts, record, branch, github, history, Rest, Step, Refuse
<1>32. ASSUME BeginDiscard PROVE Contacts
  BY <1>32 DEF BeginDiscard, Contacts, record, branch, github, history, Rest, Step, Refuse
<1>33. ASSUME LookBeforeDiscard PROVE Contacts
  BY <1>33 DEF LookBeforeDiscard, Contacts, record, branch, github, history, Rest, Step, Refuse
<1>34. ASSUME NEW o \in Outcomes, DiscardRequest(o) PROVE Contacts
  BY <1>34 DEF DiscardRequest, Contacts, record, branch, github, history, Rest, Step, Refuse
<1>35. ASSUME NEW c \in {tip, task.publication.commit}, BeginPublication(c) PROVE Contacts
  BY <1>35 DEF BeginPublication, Contacts, record, branch, github, history, Rest, Step, Refuse
<1>36. ASSUME NEW read \in BOOLEAN, Settle(read) PROVE Contacts
  BY <1>36 DEF Settle, Contacts, record, branch, github, history, Rest, Step, Refuse
<1>37. ASSUME NEW read \in BOOLEAN, Observe(read) PROVE Contacts
  BY <1>37 DEF Observe, Contacts, record, branch, github, history, Rest, Step, Refuse
<1>38. ASSUME NEW o \in Outcomes, RefusePublication(o) PROVE Contacts
  BY <1>38 DEF RefusePublication, Contacts, record, branch, github, history, Rest, Step, Refuse
<1>39. ASSUME NEW o \in Outcomes, Pend(o) PROVE Contacts
  BY <1>39 DEF Pend, Contacts, record, branch, github, history, Rest, Step, Refuse
<1>40. ASSUME NEW read \in BOOLEAN, Recheck(read) PROVE Contacts
  BY <1>40 DEF Recheck, Contacts, record, branch, github, history, Rest, Step, Verdict
<1>41. ASSUME NEW sent \in BOOLEAN, NEW answered \in BOOLEAN, Send(sent, answered)
      PROVE  Contacts
  BY <1>41 DEF Send, Contacts, At, RemoteAt, record, branch, github, history, Rest, Step, Refuse
<1>42. ASSUME NEW read \in BOOLEAN, ReadBack(read) PROVE Contacts
  BY <1>42 DEF ReadBack, Contacts, record, branch, github, history, Rest, Step, Verdict
<1>43. ASSUME NEW o \in Outcomes, SettlePublication(o) PROVE Contacts
  BY <1>43 DEF SettlePublication, Contacts, record, branch, github, history, Rest, Step, Refuse
<1>44. ASSUME BeginRestack PROVE Contacts
  BY <1>44 DEF BeginRestack, Contacts, record, branch, github, history, Rest, Step, Refuse
<1>45. ASSUME NEW o \in Outcomes, PlanRewrite(o) PROVE Contacts
  BY <1>45 DEF PlanRewrite, Contacts, record, branch, github, history, Rest, Step, Refuse
<1>46. ASSUME Resume PROVE Contacts
  BY <1>46 DEF Resume, Contacts, record, branch, github, history, Rest, Step, Refuse
<1>47. ASSUME Advance PROVE Contacts
  BY <1>47 DEF Advance, Contacts, record, branch, github, history, Rest, Step, Refuse
<1>48. ASSUME NEW clean \in BOOLEAN, ReplayPublished(clean) PROVE Contacts
  BY <1>48 DEF ReplayPublished, Contacts, record, branch, github, history, Rest, Step, Refuse
<1>49. ASSUME NEW o \in Outcomes, RecordRewrite(o) PROVE Contacts
  BY <1>49 DEF RecordRewrite, Contacts, record, branch, github, history, Rest, Step, Refuse
<1>50. ASSUME NEW o \in Outcomes, AdoptRewrite(o) PROVE Contacts
  BY <1>50 DEF AdoptRewrite, Contacts, record, branch, github, history, Rest, Step, Refuse
<1>51. ASSUME NEW o \in Outcomes, ClearPending(o) PROVE Contacts
  BY <1>51 DEF ClearPending, Contacts, record, branch, github, history, Rest, Step, Refuse
<1>52. ASSUME CheckRemote PROVE Contacts
  BY <1>52 DEF CheckRemote, Contacts, record, branch, github, history, Rest, Step, Refuse
<1>53. ASSUME NEW sent \in BOOLEAN, NEW answered \in BOOLEAN, ForcePush(sent, answered)
      PROVE  Contacts
  BY <1>53 DEF ForcePush, Contacts, At, RemoteAt, record, branch, github, history, Rest, Step,
  Refuse
<1>54. ASSUME NEW retargeted \in BOOLEAN, NEW o \in Outcomes, Finish(retargeted, o)
      PROVE  Contacts
  BY <1>54 DEF Finish, Contacts, record, branch, github, history, Rest, Step, Refuse
<1>55. ASSUME BeginDiscardRestack PROVE Contacts
  BY <1>55 DEF BeginDiscardRestack, Contacts, record, branch, github, history, Rest, Step,
  Refuse
<1>56. ASSUME GoBack PROVE Contacts
  BY <1>56 DEF GoBack, Contacts, record, branch, github, history, Rest, Step, Refuse
<1>57. ASSUME NEW o \in Outcomes, DropRecord(o) PROVE Contacts
  BY <1>57 DEF DropRecord, Contacts, record, branch, github, history, Rest, Step, Refuse
<1> QED
  BY <1>1, <1>2, <1>3, <1>4, <1>5, <1>6, <1>7, <1>8, <1>9, <1>10, <1>11, <1>12, <1>13,
  <1>14, <1>15, <1>16, <1>17, <1>18, <1>19, <1>20, <1>21, <1>22, <1>23, <1>24, <1>25,
  <1>26, <1>27, <1>28, <1>29, <1>30, <1>31, <1>32, <1>33, <1>34, <1>35, <1>36, <1>37,
  <1>38, <1>39, <1>40, <1>41, <1>42, <1>43, <1>44, <1>45, <1>46, <1>47, <1>48, <1>49,
  <1>50, <1>51, <1>52, <1>53, <1>54, <1>55, <1>56, <1>57 DEF DeliveryNext, Surroundings,
  PullRequestNext, PublicationNext, RepublishNext

LEMMA SaveFaults ==
  ASSUME NEW t, NEW o, Save(t, o), task \in survivors, faults + 1 # faults
  PROVE  /\ survivors' \subseteq survivors \cup {task'} /\ faults' \in {faults, faults + 1}
         /\ \/ task' = task /\ survivors' = survivors /\ o = "failed"
            \/ task' = t /\ (faults' = faults => survivors' = {t}) /\ o # "failed"
<1>1. CASE o = "saved"
  BY <1>1 DEF Save
<1>2. CASE o = "unconfirmed"
  BY <1>2 DEF Save
<1>3. CASE o = "failed"
  BY <1>3 DEF Save
<1> QED BY <1>1, <1>2, <1>3 DEF Save, Outcomes

\* A step leaves the records, writes one, or loses what was not durable yet.
LEMMA RecordStep == ASSUME TypeOK, DeliveryNext PROVE Recorded
<1>1. /\ task \in TaskRecords /\ task \in survivors /\ faults \in Nat
     /\ faults + 1 # faults
  BY BoundsAssumption DEF TypeOK
<1>2. ASSUME GiveUpMove PROVE Recorded
  BY <1>2, <1>1 DEF GiveUpMove, Recorded, record, branch, github, history, Rest, Step, Refuse,
  Verdict
<1>3. ASSUME Commit PROVE Recorded
  BY <1>3, <1>1 DEF Commit, Recorded, record, branch, github, history, Rest, Step, Refuse,
  Verdict
<1>4. ASSUME Amend PROVE Recorded
  BY <1>4, <1>1 DEF Amend, Recorded, record, branch, github, history, Rest, Step, Refuse,
  Verdict
<1>5. ASSUME ForeignPush PROVE Recorded
  BY <1>5, <1>1 DEF ForeignPush, Recorded, record, branch, github, history, Rest, Step,
  Refuse, Verdict
<1>6. ASSUME ForeignDelete PROVE Recorded
  BY <1>6, <1>1 DEF ForeignDelete, Recorded, record, branch, github, history, Rest, Step,
  Refuse, Verdict
<1>7. ASSUME NEW n \in 1 .. MaxPrs, ForeignOpen(n) PROVE Recorded
  BY <1>7, <1>1 DEF ForeignOpen, Recorded, record, branch, github, history, Rest, Step,
  Refuse, Verdict
<1>8. ASSUME NEW n \in 1 .. MaxPrs, Close(n) PROVE Recorded
  BY <1>8, <1>1 DEF Close, Recorded, record, branch, github, history, Rest, Step, Refuse,
  Verdict
<1>9. ASSUME NEW n \in 1 .. MaxPrs, List(n) PROVE Recorded
  BY <1>9, <1>1 DEF List, Recorded, record, branch, github, history, Rest, Step, Refuse, Verdict
<1>10. ASSUME ParentLands PROVE Recorded
  BY <1>10, <1>1 DEF ParentLands, Recorded, record, branch, github, history, Rest, Step,
  Refuse, Verdict
<1>11. ASSUME Crash PROVE Recorded
  BY <1>11, <1>1 DEF Crash, Recorded
<1>12. ASSUME NEW column \in {"work", "review"}, BeginMove(column) PROVE Recorded
  BY <1>12, <1>1 DEF BeginMove, Recorded, record, branch, github, history, Rest, Step, Refuse,
  Verdict
<1>13. ASSUME NEW o \in Outcomes, Approve(o) PROVE Recorded
  <2> DEFINE t == [task EXCEPT !.approved = tip]
  <2>1. Save(t, o)
    BY <1>13 DEF Approve
  <2>2. o # "failed" => Written(t)
    BY <1>13, <1>1 DEF Approve, Written, TaskRecords
  <2> HIDE DEF t
  <2> QED BY <1>1, <2>1, <2>2, SaveFaults DEF Recorded
<1>14. ASSUME NEW o \in Outcomes, ApproveAgain(o) PROVE Recorded
  <2> DEFINE t == [task EXCEPT !.approved = tip]
  <2>1. Save(t, o)
    BY <1>14 DEF ApproveAgain
  <2>2. o # "failed" => Written(t)
    BY <1>14, <1>1 DEF ApproveAgain, Written, TaskRecords
  <2> HIDE DEF t
  <2> QED BY <1>1, <2>1, <2>2, SaveFaults DEF Recorded
<1>15. ASSUME NEW o \in Outcomes, FinishRun(o) PROVE Recorded
  <2> DEFINE t == [task EXCEPT !.status = "review", !.approved = NoCommit]
  <2>1. Save(t, o)
    BY <1>15 DEF FinishRun
  <2>2. Written(t)
    BY <1>15, <1>1 DEF FinishRun, Written, TaskRecords
  <2> HIDE DEF t
  <2> QED BY <1>1, <2>1, <2>2, SaveFaults DEF Recorded
<1>16. ASSUME NEW o \in Outcomes, CompleteMove(o) PROVE Recorded
  <2> DEFINE t == [task EXCEPT !.status = moving,
                         !.approved = IF moving = "work" THEN NoCommit ELSE @]
  <2>1. Save(t, o)
    BY <1>16 DEF CompleteMove
  <2>2. Written(t)
    BY <1>16, <1>1 DEF CompleteMove, Written, TaskRecords
  <2> HIDE DEF t
  <2> QED BY <1>1, <2>1, <2>2, SaveFaults DEF Recorded
<1>17. ASSUME BeginCreate PROVE Recorded
  BY <1>17, <1>1 DEF BeginCreate, Recorded, record, branch, github, history, Rest, Step,
  Refuse, Verdict
<1>18. ASSUME Lookup PROVE Recorded
  BY <1>18, <1>1 DEF Lookup, Recorded, record, branch, github, history, Rest, Step, Refuse,
  Verdict
<1>19. ASSUME NEW sent \in BOOLEAN, ToExisting(sent) PROVE Recorded
  BY <1>19, <1>1 DEF ToExisting, Recorded, record, branch, github, history, Rest, Step,
  Refuse, Verdict
<1>20. ASSUME PlanRestack PROVE Recorded
  BY <1>20, <1>1 DEF PlanRestack, Recorded, record, branch, github, history, Rest, Step,
  Refuse, Verdict
<1>21. ASSUME NEW clean \in BOOLEAN, Replay(clean) PROVE Recorded
  BY <1>21, <1>1 DEF Replay, Recorded, record, branch, github, history, Rest, Step, Refuse,
  Verdict
<1>22. ASSUME NEW o \in Outcomes, RecordRestack(o) PROVE Recorded
  <2> DEFINE t == [task EXCEPT !.base = "landed"]
  <2>1. Save(t, o)
    BY <1>22 DEF RecordRestack
  <2>2. Written(t)
    BY <1>22, <1>1 DEF RecordRestack, Written, TaskRecords, At
  <2> HIDE DEF t
  <2> QED BY <1>1, <2>1, <2>2, SaveFaults DEF Recorded
<1>23. ASSUME NEW sent \in BOOLEAN, NEW answered \in BOOLEAN, Push(sent, answered)
      PROVE  Recorded
  BY <1>23, <1>1 DEF Push, Recorded, record, branch, github, history, Rest, Step, Refuse,
  Verdict
<1>24. ASSUME NEW read \in BOOLEAN, ConfirmPush(read) PROVE Recorded
  BY <1>24, <1>1 DEF ConfirmPush, Recorded, record, branch, github, history, Rest, Step,
  Refuse, Verdict
<1>25. ASSUME LookupAgain PROVE Recorded
  BY <1>25, <1>1 DEF LookupAgain, Recorded, record, branch, github, history, Rest, Step,
  Refuse, Verdict
<1>26. ASSUME NEW o \in Outcomes, Announce(o) PROVE Recorded
  <2> DEFINE t == [task EXCEPT !.asked = op.commit]
  <2>1. UNCHANGED record \/ Save(t, o)
    BY <1>26 DEF Announce, Refuse
  <2>2. Written(t)
    BY <1>26, <1>1 DEF Announce, Written, TaskRecords
  <2> HIDE DEF t
  <2> QED BY <1>1, <2>1, <2>2, SaveFaults DEF Recorded, record
<1>27. ASSUME NEW answer \in {"opened", "lost", "rejected", "not sent"}, Create(answer)
      PROVE  Recorded
  BY <1>27, <1>1 DEF Create, Recorded, record, branch, github, history, Rest, Step, Refuse,
  Verdict
<1>28. ASSUME NEW read \in BOOLEAN, ConfirmCreated(read) PROVE Recorded
  BY <1>28, <1>1 DEF ConfirmCreated, Recorded, record, branch, github, history, Rest, Step,
  Refuse, Verdict
<1>29. ASSUME NEW read \in BOOLEAN, Reconcile(read) PROVE Recorded
  BY <1>29, <1>1 DEF Reconcile, Recorded, record, branch, github, history, Rest, Step, Refuse,
  Verdict
<1>30. ASSUME NEW o \in Outcomes, Retract(o) PROVE Recorded
  <2> DEFINE t == [task EXCEPT !.asked = IF @ = op.commit THEN NoCommit ELSE @]
  <2>1. Save(t, o)
    BY <1>30 DEF Retract
  <2>2. Written(t)
    BY <1>30, <1>1 DEF Retract, Written, TaskRecords
  <2> HIDE DEF t
  <2> QED BY <1>1, <2>1, <2>2, SaveFaults DEF Recorded
<1>31. ASSUME NEW o \in Outcomes, Link(o) PROVE Recorded
  <2> DEFINE t == [task EXCEPT !.pr = op.pr, !.asked = NoCommit, !.status = "created"]
  <2>1. UNCHANGED record \/ Save(t, o)
    BY <1>31 DEF Link, Refuse
  <2>2. Written(t)
    BY <1>31, <1>1 DEF Link, Written, TaskRecords
  <2> HIDE DEF t
  <2> QED BY <1>1, <2>1, <2>2, SaveFaults DEF Recorded, record
<1>32. ASSUME NEW n \in 1 .. MaxPrs, LinkExisting(n) PROVE Recorded
  BY <1>32, <1>1 DEF LinkExisting, Recorded, record, branch, github, history, Rest, Step,
  Refuse, Verdict
<1>33. ASSUME BeginDiscard PROVE Recorded
  BY <1>33, <1>1 DEF BeginDiscard, Recorded, record, branch, github, history, Rest, Step,
  Refuse, Verdict
<1>34. ASSUME LookBeforeDiscard PROVE Recorded
  BY <1>34, <1>1 DEF LookBeforeDiscard, Recorded, record, branch, github, history, Rest, Step,
  Refuse, Verdict
<1>35. ASSUME NEW o \in Outcomes, DiscardRequest(o) PROVE Recorded
  <2> DEFINE t == [task EXCEPT !.asked = IF @ = op.commit THEN NoCommit ELSE @]
  <2>1. Save(t, o)
    BY <1>35 DEF DiscardRequest
  <2>2. Written(t)
    BY <1>35, <1>1 DEF DiscardRequest, Written, TaskRecords
  <2> HIDE DEF t
  <2> QED BY <1>1, <2>1, <2>2, SaveFaults DEF Recorded
<1>36. ASSUME NEW c \in {tip, task.publication.commit}, BeginPublication(c) PROVE Recorded
  BY <1>36, <1>1 DEF BeginPublication, Recorded, record, branch, github, history, Rest, Step,
  Refuse, Verdict
<1>37. ASSUME NEW read \in BOOLEAN, Settle(read) PROVE Recorded
  BY <1>37, <1>1 DEF Settle, Recorded, record, branch, github, history, Rest, Step, Refuse,
  Verdict
<1>38. ASSUME NEW read \in BOOLEAN, Observe(read) PROVE Recorded
  BY <1>38, <1>1 DEF Observe, Recorded, record, branch, github, history, Rest, Step, Refuse,
  Verdict
<1>39. ASSUME NEW o \in Outcomes, RefusePublication(o) PROVE Recorded
  <2> DEFINE t == [task EXCEPT !.publication = [state |-> "refused", commit |-> op.commit,
                                                   pr |-> op.pr]]
  <2>1. Save(t, o)
    BY <1>39 DEF RefusePublication, Publish
  <2>2. Written(t)
    BY <1>39, <1>1 DEF RefusePublication, Written, TaskRecords
  <2> HIDE DEF t
  <2> QED BY <1>1, <2>1, <2>2, SaveFaults DEF Recorded
<1>40. ASSUME NEW o \in Outcomes, Pend(o) PROVE Recorded
  <2> DEFINE t == [task EXCEPT !.publication = [state |-> "pending", commit |-> op.commit,
                                                   pr |-> op.pr]]
  <2>1. UNCHANGED record \/ Save(t, o)
    BY <1>40 DEF Pend, Publish, Refuse
  <2>2. Written(t)
    BY <1>40, <1>1 DEF Pend, Written, TaskRecords
  <2> HIDE DEF t
  <2> QED BY <1>1, <2>1, <2>2, SaveFaults DEF Recorded, record
<1>41. ASSUME NEW read \in BOOLEAN, Recheck(read) PROVE Recorded
  BY <1>41, <1>1 DEF Recheck, Recorded, record, branch, github, history, Rest, Step, Refuse,
  Verdict
<1>42. ASSUME NEW sent \in BOOLEAN, NEW answered \in BOOLEAN, Send(sent, answered)
      PROVE  Recorded
  BY <1>42, <1>1 DEF Send, Recorded, record, branch, github, history, Rest, Step, Refuse,
  Verdict
<1>43. ASSUME NEW read \in BOOLEAN, ReadBack(read) PROVE Recorded
  BY <1>43, <1>1 DEF ReadBack, Recorded, record, branch, github, history, Rest, Step, Refuse,
  Verdict
<1>44. ASSUME NEW o \in Outcomes, SettlePublication(o) PROVE Recorded
  <2> DEFINE t == [task EXCEPT !.publication = [state |-> op.verdict, commit |-> op.commit,
                                                   pr |-> op.pr]]
  <2>1. Save(t, o)
    BY <1>44 DEF SettlePublication, Publish
  <2>2. Written(t)
    BY <1>44, <1>1 DEF SettlePublication, Written, TaskRecords, At
  <2> HIDE DEF t
  <2> QED BY <1>1, <2>1, <2>2, SaveFaults DEF Recorded
<1>45. ASSUME BeginRestack PROVE Recorded
  BY <1>45, <1>1 DEF BeginRestack, Recorded, record, branch, github, history, Rest, Step,
  Refuse, Verdict
<1>46. ASSUME NEW o \in Outcomes, PlanRewrite(o) PROVE Recorded
  <2> DEFINE t == [task EXCEPT !.pending = [state |-> "planned", previous |-> op.commit,
                                               pr |-> op.pr]]
  <2>1. UNCHANGED record \/ Save(t, o)
    BY <1>46 DEF PlanRewrite, Refuse
  <2>2. UNCHANGED record \/ Written(t)
    BY <1>46, <1>1 DEF PlanRewrite, Written, TaskRecords, At, Refuse
  <2> HIDE DEF t
  <2> QED BY <1>1, <2>1, <2>2, SaveFaults DEF Recorded, record
<1>47. ASSUME Resume PROVE Recorded
  BY <1>47, <1>1 DEF Resume, Recorded, record, branch, github, history, Rest, Step, Refuse,
  Verdict
<1>48. ASSUME Advance PROVE Recorded
  BY <1>48, <1>1 DEF Advance, Recorded, record, branch, github, history, Rest, Step, Refuse,
  Verdict
<1>49. ASSUME NEW clean \in BOOLEAN, ReplayPublished(clean) PROVE Recorded
  BY <1>49, <1>1 DEF ReplayPublished, Recorded, record, branch, github, history, Rest, Step,
  Refuse, Verdict
<1>50. ASSUME NEW o \in Outcomes, RecordRewrite(o) PROVE Recorded
  <2> DEFINE t == RewriteRecorded
  <2>1. Save(t, o)
    BY <1>50 DEF RecordRewrite
  <2>2. Written(t)
    BY <1>50, <1>1 DEF RecordRewrite, Written, TaskRecords, At, RewriteRecorded
  <2> HIDE DEF t
  <2> QED BY <1>1, <2>1, <2>2, SaveFaults DEF Recorded
<1>51. ASSUME NEW o \in Outcomes, AdoptRewrite(o) PROVE Recorded
  <2> DEFINE t == RewriteRecorded
  <2>1. Save(t, o)
    BY <1>51 DEF AdoptRewrite
  <2>2. Written(t)
    BY <1>51, <1>1 DEF AdoptRewrite, Written, TaskRecords, At, RewriteRecorded
  <2> HIDE DEF t
  <2> QED BY <1>1, <2>1, <2>2, SaveFaults DEF Recorded
<1>52. ASSUME NEW o \in Outcomes, ClearPending(o) PROVE Recorded
  <2> DEFINE t == IF task.pending.state = "planned" THEN [task EXCEPT !.pending = NoRestack]
                     ELSE task
  <2>1. Save(t, o)
    BY <1>52 DEF ClearPending
  <2>2. Written(t)
    BY <1>52, <1>1 DEF ClearPending, Written, TaskRecords
  <2> HIDE DEF t
  <2> QED BY <1>1, <2>1, <2>2, SaveFaults DEF Recorded
<1>53. ASSUME CheckRemote PROVE Recorded
  BY <1>53, <1>1 DEF CheckRemote, Recorded, record, branch, github, history, Rest, Step,
  Refuse, Verdict
<1>54. ASSUME NEW sent \in BOOLEAN, NEW answered \in BOOLEAN, ForcePush(sent, answered)
      PROVE  Recorded
  BY <1>54, <1>1 DEF ForcePush, Recorded, record, branch, github, history, Rest, Step, Refuse,
  Verdict
<1>55. ASSUME NEW retargeted \in BOOLEAN, NEW o \in Outcomes, Finish(retargeted, o)
      PROVE  Recorded
  <2> DEFINE t == [task EXCEPT !.pending = NoRestack]
  <2>1. UNCHANGED record \/ Save(t, o)
    BY <1>55 DEF Finish, Refuse
  <2>2. Written(t)
    BY <1>55, <1>1 DEF Finish, Written, TaskRecords
  <2> HIDE DEF t
  <2> QED BY <1>1, <2>1, <2>2, SaveFaults DEF Recorded, record
<1>56. ASSUME BeginDiscardRestack PROVE Recorded
  BY <1>56, <1>1 DEF BeginDiscardRestack, Recorded, record, branch, github, history, Rest,
  Step, Refuse, Verdict
<1>57. ASSUME GoBack PROVE Recorded
  BY <1>57, <1>1 DEF GoBack, Recorded, record, branch, github, history, Rest, Step, Refuse,
  Verdict
<1>58. ASSUME NEW o \in Outcomes, DropRecord(o) PROVE Recorded
  <2> DEFINE t == [task EXCEPT !.pending = NoRestack,
                         !.base = IF task.pending.state = "rewritten" THEN "old" ELSE @]
  <2>1. Save(t, o)
    BY <1>58 DEF DropRecord
  <2>2. Written(t)
    BY <1>58, <1>1 DEF DropRecord, Written, TaskRecords, At
  <2> HIDE DEF t
  <2> QED BY <1>1, <2>1, <2>2, SaveFaults DEF Recorded
<1> QED
  BY <1>2, <1>3, <1>4, <1>5, <1>6, <1>7, <1>8, <1>9, <1>10, <1>11, <1>12, <1>13, <1>14,
  <1>15, <1>16, <1>17, <1>18, <1>19, <1>20, <1>21, <1>22, <1>23, <1>24, <1>25, <1>26,
  <1>27, <1>28, <1>29, <1>30, <1>31, <1>32, <1>33, <1>34, <1>35, <1>36, <1>37, <1>38,
  <1>39, <1>40, <1>41, <1>42, <1>43, <1>44, <1>45, <1>46, <1>47, <1>48, <1>49, <1>50,
  <1>51, <1>52, <1>53, <1>54, <1>55, <1>56, <1>57, <1>58 DEF DeliveryNext, Surroundings,
  PullRequestNext, PublicationNext, RepublishNext

\* Whatever the file may hold, it held before, or was just written.
LEMMA RecordOrigin ==
  ASSUME TypeOK, DeliveryNext
  PROVE  \A t \in survivors' : t \in survivors \/ Written(t)
BY RecordStep DEF Recorded, TypeOK

\* Where the branch goes.
TipMoves ==
  \/ /\ made' = made
     /\ \/ tip' = tip
        \/ op.step = "restackReplay" /\ tip' \in {Replayed(tip), op.commit}
        \/ op.step = "restackRecord" /\ tip = Replayed(op.commit) /\ tip' = op.commit
        \/ /\ op.step = "replay" /\ tip = Approved /\ tip' = Replayed(tip)
           /\ op'.step = "recordRewrite"
        \/ op.step = "replay" /\ tip' = Approved
        \/ op.step \in {"recordRewrite", "goBack"} /\ tip = Rewritten /\ tip' = Approved
  \/ /\ made' = made + 1
     /\ \/ tip' = [tip EXCEPT !.own = Append(@, made')]
        \/ tip' = [tip EXCEPT !.own = Append(Front(@), made')]

LEMMA TipStep == ASSUME TypeOK, DeliveryNext PROVE TipMoves
<1>1. op \in Owners
  BY DEF TypeOK
<1>2. ASSUME GiveUpMove PROVE TipMoves
  BY <1>2 DEF GiveUpMove, TipMoves, record, branch, github, history, Rest, Step, Refuse
<1>3. ASSUME Commit PROVE TipMoves
  BY <1>3 DEF Commit, TipMoves, TypeOK
<1>4. ASSUME Amend PROVE TipMoves
  BY <1>4 DEF Amend, TipMoves, TypeOK
<1>5. ASSUME ForeignPush PROVE TipMoves
  BY <1>5 DEF ForeignPush, TipMoves, record, branch, github, history, Rest, Step, Refuse
<1>6. ASSUME ForeignDelete PROVE TipMoves
  BY <1>6 DEF ForeignDelete, TipMoves, record, branch, github, history, Rest, Step, Refuse
<1>7. ASSUME NEW n \in 1 .. MaxPrs, ForeignOpen(n) PROVE TipMoves
  BY <1>7 DEF ForeignOpen, TipMoves, record, branch, github, history, Rest, Step, Refuse
<1>8. ASSUME NEW n \in 1 .. MaxPrs, Close(n) PROVE TipMoves
  BY <1>8 DEF Close, TipMoves, record, branch, github, history, Rest, Step, Refuse
<1>9. ASSUME NEW n \in 1 .. MaxPrs, List(n) PROVE TipMoves
  BY <1>9 DEF List, TipMoves, record, branch, github, history, Rest, Step, Refuse
<1>10. ASSUME ParentLands PROVE TipMoves
  BY <1>10 DEF ParentLands, TipMoves, record, branch, github, history, Rest, Step, Refuse
<1>11. ASSUME Crash PROVE TipMoves
  BY <1>11 DEF Crash, TipMoves, record, branch, github, history, Rest, Step, Refuse
<1>12. ASSUME NEW column \in {"work", "review"}, BeginMove(column) PROVE TipMoves
  BY <1>12 DEF BeginMove, TipMoves, record, branch, github, history, Rest, Step, Refuse
<1>13. ASSUME NEW o \in Outcomes, Approve(o) PROVE TipMoves
  BY <1>13 DEF Approve, TipMoves, record, branch, github, history, Rest, Step, Refuse
<1>14. ASSUME NEW o \in Outcomes, ApproveAgain(o) PROVE TipMoves
  BY <1>14 DEF ApproveAgain, TipMoves, record, branch, github, history, Rest, Step, Refuse
<1>15. ASSUME NEW o \in Outcomes, FinishRun(o) PROVE TipMoves
  BY <1>15 DEF FinishRun, TipMoves, record, branch, github, history, Rest, Step, Refuse
<1>16. ASSUME NEW o \in Outcomes, CompleteMove(o) PROVE TipMoves
  BY <1>16 DEF CompleteMove, TipMoves, record, branch, github, history, Rest, Step, Refuse
<1>17. ASSUME BeginCreate PROVE TipMoves
  BY <1>17 DEF BeginCreate, TipMoves, record, branch, github, history, Rest, Step, Refuse
<1>18. ASSUME Lookup PROVE TipMoves
  BY <1>18 DEF Lookup, TipMoves, record, branch, github, history, Rest, Step, Refuse
<1>19. ASSUME NEW sent \in BOOLEAN, ToExisting(sent) PROVE TipMoves
  BY <1>19 DEF ToExisting, TipMoves, record, branch, github, history, Rest, Step, Refuse
<1>20. ASSUME PlanRestack PROVE TipMoves
  BY <1>20 DEF PlanRestack, TipMoves, record, branch, github, history, Rest, Step, Refuse
<1>21. ASSUME NEW clean \in BOOLEAN, Replay(clean) PROVE TipMoves
  BY <1>21 DEF Replay, TipMoves, At, branch, Refuse, Step
<1>22. ASSUME NEW o \in Outcomes, RecordRestack(o) PROVE TipMoves
  BY <1>22 DEF RecordRestack, TipMoves, At, branch, Refuse, Step
<1>23. ASSUME NEW sent \in BOOLEAN, NEW answered \in BOOLEAN, Push(sent, answered)
      PROVE  TipMoves
  BY <1>23 DEF Push, TipMoves, record, branch, github, history, Rest, Step, Refuse
<1>24. ASSUME NEW read \in BOOLEAN, ConfirmPush(read) PROVE TipMoves
  BY <1>24 DEF ConfirmPush, TipMoves, record, branch, github, history, Rest, Step, Refuse
<1>25. ASSUME LookupAgain PROVE TipMoves
  BY <1>25 DEF LookupAgain, TipMoves, record, branch, github, history, Rest, Step, Refuse
<1>26. ASSUME NEW o \in Outcomes, Announce(o) PROVE TipMoves
  BY <1>26 DEF Announce, TipMoves, record, branch, github, history, Rest, Step, Refuse
<1>27. ASSUME NEW answer \in {"opened", "lost", "rejected", "not sent"}, Create(answer)
      PROVE  TipMoves
  BY <1>27 DEF Create, TipMoves, record, branch, github, history, Rest, Step, Refuse
<1>28. ASSUME NEW read \in BOOLEAN, ConfirmCreated(read) PROVE TipMoves
  BY <1>28 DEF ConfirmCreated, TipMoves, record, branch, github, history, Rest, Step, Refuse
<1>29. ASSUME NEW read \in BOOLEAN, Reconcile(read) PROVE TipMoves
  BY <1>29 DEF Reconcile, TipMoves, record, branch, github, history, Rest, Step, Refuse
<1>30. ASSUME NEW o \in Outcomes, Retract(o) PROVE TipMoves
  BY <1>30 DEF Retract, TipMoves, record, branch, github, history, Rest, Step, Refuse
<1>31. ASSUME NEW o \in Outcomes, Link(o) PROVE TipMoves
  BY <1>31 DEF Link, TipMoves, record, branch, github, history, Rest, Step, Refuse
<1>32. ASSUME NEW n \in 1 .. MaxPrs, LinkExisting(n) PROVE TipMoves
  BY <1>32 DEF LinkExisting, TipMoves, record, branch, github, history, Rest, Step, Refuse
<1>33. ASSUME BeginDiscard PROVE TipMoves
  BY <1>33 DEF BeginDiscard, TipMoves, record, branch, github, history, Rest, Step, Refuse
<1>34. ASSUME LookBeforeDiscard PROVE TipMoves
  BY <1>34 DEF LookBeforeDiscard, TipMoves, record, branch, github, history, Rest, Step, Refuse
<1>35. ASSUME NEW o \in Outcomes, DiscardRequest(o) PROVE TipMoves
  BY <1>35 DEF DiscardRequest, TipMoves, record, branch, github, history, Rest, Step, Refuse
<1>36. ASSUME NEW c \in {tip, task.publication.commit}, BeginPublication(c) PROVE TipMoves
  BY <1>36 DEF BeginPublication, TipMoves, record, branch, github, history, Rest, Step, Refuse
<1>37. ASSUME NEW read \in BOOLEAN, Settle(read) PROVE TipMoves
  BY <1>37 DEF Settle, TipMoves, record, branch, github, history, Rest, Step, Refuse
<1>38. ASSUME NEW read \in BOOLEAN, Observe(read) PROVE TipMoves
  BY <1>38 DEF Observe, TipMoves, record, branch, github, history, Rest, Step, Refuse
<1>39. ASSUME NEW o \in Outcomes, RefusePublication(o) PROVE TipMoves
  BY <1>39 DEF RefusePublication, TipMoves, record, branch, github, history, Rest, Step, Refuse
<1>40. ASSUME NEW o \in Outcomes, Pend(o) PROVE TipMoves
  BY <1>40 DEF Pend, TipMoves, record, branch, github, history, Rest, Step, Refuse
<1>41. ASSUME NEW read \in BOOLEAN, Recheck(read) PROVE TipMoves
  BY <1>41 DEF Recheck, TipMoves, record, branch, github, history, Rest, Step, Refuse, Verdict
<1>42. ASSUME NEW sent \in BOOLEAN, NEW answered \in BOOLEAN, Send(sent, answered)
      PROVE  TipMoves
  BY <1>42 DEF Send, TipMoves, record, branch, github, history, Rest, Step, Refuse
<1>43. ASSUME NEW read \in BOOLEAN, ReadBack(read) PROVE TipMoves
  BY <1>43 DEF ReadBack, TipMoves, record, branch, github, history, Rest, Step, Refuse, Verdict
<1>44. ASSUME NEW o \in Outcomes, SettlePublication(o) PROVE TipMoves
  BY <1>44 DEF SettlePublication, TipMoves, record, branch, github, history, Rest, Step, Refuse
<1>45. ASSUME BeginRestack PROVE TipMoves
  BY <1>45 DEF BeginRestack, TipMoves, record, branch, github, history, Rest, Step, Refuse
<1>46. ASSUME NEW o \in Outcomes, PlanRewrite(o) PROVE TipMoves
  BY <1>46 DEF PlanRewrite, TipMoves, record, branch, github, history, Rest, Step, Refuse
<1>47. ASSUME Resume PROVE TipMoves
  BY <1>47 DEF Resume, TipMoves, record, branch, github, history, Rest, Step, Refuse
<1>48. ASSUME Advance PROVE TipMoves
  BY <1>48 DEF Advance, TipMoves, record, branch, github, history, Rest, Step, Refuse
<1>49. ASSUME NEW clean \in BOOLEAN, ReplayPublished(clean) PROVE TipMoves
  BY <1>49, <1>1 DEF ReplayPublished, TipMoves, At, branch, Refuse, Goto, Owners
<1>50. ASSUME NEW o \in Outcomes, RecordRewrite(o) PROVE TipMoves
  BY <1>50 DEF RecordRewrite, TipMoves, At, branch, Refuse, Step
<1>51. ASSUME NEW o \in Outcomes, AdoptRewrite(o) PROVE TipMoves
  BY <1>51 DEF AdoptRewrite, TipMoves, record, branch, github, history, Rest, Step, Refuse
<1>52. ASSUME NEW o \in Outcomes, ClearPending(o) PROVE TipMoves
  BY <1>52 DEF ClearPending, TipMoves, record, branch, github, history, Rest, Step, Refuse
<1>53. ASSUME CheckRemote PROVE TipMoves
  BY <1>53 DEF CheckRemote, TipMoves, record, branch, github, history, Rest, Step, Refuse
<1>54. ASSUME NEW sent \in BOOLEAN, NEW answered \in BOOLEAN, ForcePush(sent, answered)
      PROVE  TipMoves
  BY <1>54 DEF ForcePush, TipMoves, record, branch, github, history, Rest, Step, Refuse
<1>55. ASSUME NEW retargeted \in BOOLEAN, NEW o \in Outcomes, Finish(retargeted, o)
      PROVE  TipMoves
  BY <1>55 DEF Finish, TipMoves, record, branch, github, history, Rest, Step, Refuse
<1>56. ASSUME BeginDiscardRestack PROVE TipMoves
  BY <1>56 DEF BeginDiscardRestack, TipMoves, record, branch, github, history, Rest, Step,
  Refuse
<1>57. ASSUME GoBack PROVE TipMoves
  BY <1>57 DEF GoBack, TipMoves, At, branch, Refuse, Step
<1>58. ASSUME NEW o \in Outcomes, DropRecord(o) PROVE TipMoves
  BY <1>58 DEF DropRecord, TipMoves, record, branch, github, history, Rest, Step, Refuse
<1> QED
  BY <1>2, <1>3, <1>4, <1>5, <1>6, <1>7, <1>8, <1>9, <1>10, <1>11, <1>12, <1>13, <1>14,
  <1>15, <1>16, <1>17, <1>18, <1>19, <1>20, <1>21, <1>22, <1>23, <1>24, <1>25, <1>26,
  <1>27, <1>28, <1>29, <1>30, <1>31, <1>32, <1>33, <1>34, <1>35, <1>36, <1>37, <1>38,
  <1>39, <1>40, <1>41, <1>42, <1>43, <1>44, <1>45, <1>46, <1>47, <1>48, <1>49, <1>50,
  <1>51, <1>52, <1>53, <1>54, <1>55, <1>56, <1>57, <1>58 DEF DeliveryNext, Surroundings,
  PullRequestNext, PublicationNext, RepublishNext

\* What an operation is about comes from the branch or from the task's record.
CommitOrigin ==
  op'.commit \in {NoCommit, op.commit, tip, task.asked, task.publication.commit, Approved}

LEMMA CommitStep == ASSUME TypeOK, DeliveryNext PROVE CommitOrigin
<1>1. op \in Owners /\ Idle.commit = NoCommit
  BY DEF TypeOK, Idle
<1>2. ASSUME GiveUpMove PROVE CommitOrigin
  BY <1>2, <1>1 DEF GiveUpMove, CommitOrigin, Owners, Idle, Rest
<1>3. ASSUME Commit PROVE CommitOrigin
  BY <1>3, <1>1 DEF Commit, CommitOrigin, Owners, Idle, Rest
<1>4. ASSUME Amend PROVE CommitOrigin
  BY <1>4, <1>1 DEF Amend, CommitOrigin, Owners, Idle, Rest
<1>5. ASSUME ForeignPush PROVE CommitOrigin
  BY <1>5, <1>1 DEF ForeignPush, CommitOrigin, Owners, Idle, Rest
<1>6. ASSUME ForeignDelete PROVE CommitOrigin
  BY <1>6, <1>1 DEF ForeignDelete, CommitOrigin, Owners, Idle, Rest
<1>7. ASSUME NEW n \in 1 .. MaxPrs, ForeignOpen(n) PROVE CommitOrigin
  BY <1>7, <1>1 DEF ForeignOpen, CommitOrigin, Owners, Idle, Rest
<1>8. ASSUME NEW n \in 1 .. MaxPrs, Close(n) PROVE CommitOrigin
  BY <1>8, <1>1 DEF Close, CommitOrigin, Owners, Idle, Rest
<1>9. ASSUME NEW n \in 1 .. MaxPrs, List(n) PROVE CommitOrigin
  BY <1>9, <1>1 DEF List, CommitOrigin, Owners, Idle, Rest
<1>10. ASSUME ParentLands PROVE CommitOrigin
  BY <1>10, <1>1 DEF ParentLands, CommitOrigin, Owners, Idle, Rest
<1>11. ASSUME Crash PROVE CommitOrigin
  BY <1>11, <1>1 DEF Crash, CommitOrigin, Owners, Idle, Rest
<1>12. ASSUME NEW column \in {"work", "review"}, BeginMove(column) PROVE CommitOrigin
  BY <1>12, <1>1 DEF BeginMove, CommitOrigin, Owners, Idle, Rest
<1>13. ASSUME NEW o \in Outcomes, Approve(o) PROVE CommitOrigin
  BY <1>13, <1>1 DEF Approve, CommitOrigin, Owners, Idle, Rest
<1>14. ASSUME NEW o \in Outcomes, ApproveAgain(o) PROVE CommitOrigin
  BY <1>14, <1>1 DEF ApproveAgain, CommitOrigin, Owners, Idle, Rest
<1>15. ASSUME NEW o \in Outcomes, FinishRun(o) PROVE CommitOrigin
  BY <1>15, <1>1 DEF FinishRun, CommitOrigin, Owners, Idle, Rest
<1>16. ASSUME NEW o \in Outcomes, CompleteMove(o) PROVE CommitOrigin
  BY <1>16, <1>1 DEF CompleteMove, CommitOrigin, Owners, Idle, Rest
<1>17. ASSUME BeginCreate PROVE CommitOrigin
  BY <1>17, <1>1, BeginCreateTurn DEF Turn, CommitOrigin
<1>18. ASSUME Lookup PROVE CommitOrigin
  BY <1>18, <1>1, LookupTurn DEF Turn, CommitOrigin
<1>19. ASSUME NEW sent \in BOOLEAN, ToExisting(sent) PROVE CommitOrigin
  BY <1>19, <1>1, ToExistingTurn DEF Turn, CommitOrigin
<1>20. ASSUME PlanRestack PROVE CommitOrigin
  BY <1>20, <1>1, PlanRestackTurn DEF Turn, CommitOrigin
<1>21. ASSUME NEW clean \in BOOLEAN, Replay(clean) PROVE CommitOrigin
  BY <1>21, <1>1, ReplayTurn DEF Turn, CommitOrigin
<1>22. ASSUME NEW o \in Outcomes, RecordRestack(o) PROVE CommitOrigin
  BY <1>22, <1>1, RecordRestackTurn DEF Turn, CommitOrigin
<1>23. ASSUME NEW sent \in BOOLEAN, NEW answered \in BOOLEAN, Push(sent, answered)
      PROVE  CommitOrigin
  BY <1>23, <1>1, PushTurn DEF Turn, CommitOrigin
<1>24. ASSUME NEW read \in BOOLEAN, ConfirmPush(read) PROVE CommitOrigin
  BY <1>24, <1>1, ConfirmPushTurn DEF Turn, CommitOrigin
<1>25. ASSUME LookupAgain PROVE CommitOrigin
  BY <1>25, <1>1, LookupAgainTurn DEF Turn, CommitOrigin
<1>26. ASSUME NEW o \in Outcomes, Announce(o) PROVE CommitOrigin
  BY <1>26, <1>1, AnnounceTurn DEF Turn, CommitOrigin
<1>27. ASSUME NEW answer \in {"opened", "lost", "rejected", "not sent"}, Create(answer)
      PROVE  CommitOrigin
  BY <1>27, <1>1, CreateTurn DEF Turn, CommitOrigin
<1>28. ASSUME NEW read \in BOOLEAN, ConfirmCreated(read) PROVE CommitOrigin
  BY <1>28, <1>1, ConfirmCreatedTurn DEF Turn, CommitOrigin
<1>29. ASSUME NEW read \in BOOLEAN, Reconcile(read) PROVE CommitOrigin
  BY <1>29, <1>1, ReconcileTurn DEF Turn, CommitOrigin
<1>30. ASSUME NEW o \in Outcomes, Retract(o) PROVE CommitOrigin
  BY <1>30, <1>1, RetractTurn DEF Turn, CommitOrigin
<1>31. ASSUME NEW o \in Outcomes, Link(o) PROVE CommitOrigin
  BY <1>31, <1>1, LinkTurn DEF Turn, CommitOrigin
<1>32. ASSUME NEW n \in 1 .. MaxPrs, LinkExisting(n) PROVE CommitOrigin
  BY <1>32, <1>1, LinkExistingTurn DEF Turn, CommitOrigin
<1>33. ASSUME BeginDiscard PROVE CommitOrigin
  BY <1>33, <1>1, BeginDiscardTurn DEF Turn, CommitOrigin
<1>34. ASSUME LookBeforeDiscard PROVE CommitOrigin
  BY <1>34, <1>1, LookBeforeDiscardTurn DEF Turn, CommitOrigin
<1>35. ASSUME NEW o \in Outcomes, DiscardRequest(o) PROVE CommitOrigin
  BY <1>35, <1>1, DiscardRequestTurn DEF Turn, CommitOrigin
<1>36. ASSUME NEW c \in {tip, task.publication.commit}, BeginPublication(c) PROVE CommitOrigin
  BY <1>36, <1>1, BeginPublicationTurn DEF Turn, CommitOrigin
<1>37. ASSUME NEW read \in BOOLEAN, Settle(read) PROVE CommitOrigin
  BY <1>37, <1>1, SettleTurn DEF Turn, CommitOrigin
<1>38. ASSUME NEW read \in BOOLEAN, Observe(read) PROVE CommitOrigin
  BY <1>38, <1>1, ObserveTurn DEF Turn, CommitOrigin
<1>39. ASSUME NEW o \in Outcomes, RefusePublication(o) PROVE CommitOrigin
  BY <1>39, <1>1, RefusePublicationTurn DEF Turn, CommitOrigin
<1>40. ASSUME NEW o \in Outcomes, Pend(o) PROVE CommitOrigin
  BY <1>40, <1>1, PendTurn DEF Turn, CommitOrigin
<1>41. ASSUME NEW read \in BOOLEAN, Recheck(read) PROVE CommitOrigin
  BY <1>41, <1>1, RecheckTurn DEF Turn, CommitOrigin
<1>42. ASSUME NEW sent \in BOOLEAN, NEW answered \in BOOLEAN, Send(sent, answered)
      PROVE  CommitOrigin
  BY <1>42, <1>1, SendTurn DEF Turn, CommitOrigin
<1>43. ASSUME NEW read \in BOOLEAN, ReadBack(read) PROVE CommitOrigin
  BY <1>43, <1>1, ReadBackTurn DEF Turn, CommitOrigin
<1>44. ASSUME NEW o \in Outcomes, SettlePublication(o) PROVE CommitOrigin
  BY <1>44, <1>1, SettlePublicationTurn DEF Turn, CommitOrigin
<1>45. ASSUME BeginRestack PROVE CommitOrigin
  BY <1>45, <1>1, BeginRestackTurn DEF Turn, CommitOrigin
<1>46. ASSUME NEW o \in Outcomes, PlanRewrite(o) PROVE CommitOrigin
  BY <1>46, <1>1, PlanRewriteTurn DEF Turn, CommitOrigin
<1>47. ASSUME Resume PROVE CommitOrigin
  BY <1>47, <1>1, ResumeTurn DEF Turn, CommitOrigin
<1>48. ASSUME Advance PROVE CommitOrigin
  BY <1>48, <1>1, AdvanceTurn DEF Turn, CommitOrigin
<1>49. ASSUME NEW clean \in BOOLEAN, ReplayPublished(clean) PROVE CommitOrigin
  BY <1>49, <1>1, ReplayPublishedTurn DEF Turn, CommitOrigin
<1>50. ASSUME NEW o \in Outcomes, RecordRewrite(o) PROVE CommitOrigin
  BY <1>50, <1>1, RecordRewriteTurn DEF Turn, CommitOrigin
<1>51. ASSUME NEW o \in Outcomes, AdoptRewrite(o) PROVE CommitOrigin
  BY <1>51, <1>1, AdoptRewriteTurn DEF Turn, CommitOrigin
<1>52. ASSUME NEW o \in Outcomes, ClearPending(o) PROVE CommitOrigin
  BY <1>52, <1>1, ClearPendingTurn DEF Turn, CommitOrigin
<1>53. ASSUME CheckRemote PROVE CommitOrigin
  BY <1>53, <1>1, CheckRemoteTurn DEF Turn, CommitOrigin
<1>54. ASSUME NEW sent \in BOOLEAN, NEW answered \in BOOLEAN, ForcePush(sent, answered)
      PROVE  CommitOrigin
  BY <1>54, <1>1, ForcePushTurn DEF Turn, CommitOrigin
<1>55. ASSUME NEW retargeted \in BOOLEAN, NEW o \in Outcomes, Finish(retargeted, o)
      PROVE  CommitOrigin
  BY <1>55, <1>1, FinishTurn DEF Turn, CommitOrigin
<1>56. ASSUME BeginDiscardRestack PROVE CommitOrigin
  BY <1>56, <1>1, BeginDiscardRestackTurn DEF Turn, CommitOrigin
<1>57. ASSUME GoBack PROVE CommitOrigin
  BY <1>57, <1>1, GoBackTurn DEF Turn, CommitOrigin
<1>58. ASSUME NEW o \in Outcomes, DropRecord(o) PROVE CommitOrigin
  BY <1>58, <1>1, DropRecordTurn DEF Turn, CommitOrigin
<1> QED
  BY <1>2, <1>3, <1>4, <1>5, <1>6, <1>7, <1>8, <1>9, <1>10, <1>11, <1>12, <1>13, <1>14,
  <1>15, <1>16, <1>17, <1>18, <1>19, <1>20, <1>21, <1>22, <1>23, <1>24, <1>25, <1>26,
  <1>27, <1>28, <1>29, <1>30, <1>31, <1>32, <1>33, <1>34, <1>35, <1>36, <1>37, <1>38,
  <1>39, <1>40, <1>41, <1>42, <1>43, <1>44, <1>45, <1>46, <1>47, <1>48, <1>49, <1>50,
  <1>51, <1>52, <1>53, <1>54, <1>55, <1>56, <1>57, <1>58 DEF DeliveryNext, Surroundings,
  PullRequestNext, PublicationNext, RepublishNext

\* A person agrees to the commit they are shown: the branch's, or a record's.
Agreements ==
  /\ consented \subseteq consented' /\ reached \subseteq reached'
  /\ consented' \subseteq consented \cup {tip, task.publication.commit}

LEMMA ConsentStep == ASSUME TypeOK, DeliveryNext PROVE Agreements
<1>1. ASSUME GiveUpMove PROVE Agreements
  BY <1>1 DEF GiveUpMove, Agreements, record, branch, github, history, Rest, Step, Refuse,
  RemoteAt
<1>2. ASSUME Commit PROVE Agreements
  BY <1>2 DEF Commit, Agreements, record, branch, github, history, Rest, Step, Refuse, RemoteAt
<1>3. ASSUME Amend PROVE Agreements
  BY <1>3 DEF Amend, Agreements, record, branch, github, history, Rest, Step, Refuse, RemoteAt
<1>4. ASSUME ForeignPush PROVE Agreements
  BY <1>4 DEF ForeignPush, Agreements, record, branch, github, history, Rest, Step, Refuse,
  RemoteAt
<1>5. ASSUME ForeignDelete PROVE Agreements
  BY <1>5 DEF ForeignDelete, Agreements, record, branch, github, history, Rest, Step, Refuse,
  RemoteAt
<1>6. ASSUME NEW n \in 1 .. MaxPrs, ForeignOpen(n) PROVE Agreements
  BY <1>6 DEF ForeignOpen, Agreements, record, branch, github, history, Rest, Step, Refuse,
  RemoteAt
<1>7. ASSUME NEW n \in 1 .. MaxPrs, Close(n) PROVE Agreements
  BY <1>7 DEF Close, Agreements, record, branch, github, history, Rest, Step, Refuse, RemoteAt
<1>8. ASSUME NEW n \in 1 .. MaxPrs, List(n) PROVE Agreements
  BY <1>8 DEF List, Agreements, record, branch, github, history, Rest, Step, Refuse, RemoteAt
<1>9. ASSUME ParentLands PROVE Agreements
  BY <1>9 DEF ParentLands, Agreements, record, branch, github, history, Rest, Step, Refuse,
  RemoteAt
<1>10. ASSUME Crash PROVE Agreements
  BY <1>10 DEF Crash, Agreements, record, branch, github, history, Rest, Step, Refuse, RemoteAt
<1>11. ASSUME NEW column \in {"work", "review"}, BeginMove(column) PROVE Agreements
  BY <1>11 DEF BeginMove, Agreements, record, branch, github, history, Rest, Step, Refuse,
  RemoteAt
<1>12. ASSUME NEW o \in Outcomes, Approve(o) PROVE Agreements
  BY <1>12 DEF Approve, Agreements, record, branch, github, history, Rest, Step, Refuse,
  RemoteAt
<1>13. ASSUME NEW o \in Outcomes, ApproveAgain(o) PROVE Agreements
  BY <1>13 DEF ApproveAgain, Agreements, record, branch, github, history, Rest, Step, Refuse,
  RemoteAt
<1>14. ASSUME NEW o \in Outcomes, FinishRun(o) PROVE Agreements
  BY <1>14 DEF FinishRun, Agreements, record, branch, github, history, Rest, Step, Refuse,
  RemoteAt
<1>15. ASSUME NEW o \in Outcomes, CompleteMove(o) PROVE Agreements
  BY <1>15 DEF CompleteMove, Agreements, record, branch, github, history, Rest, Step, Refuse,
  RemoteAt
<1>16. ASSUME BeginCreate PROVE Agreements
  BY <1>16 DEF BeginCreate, Agreements, record, branch, github, history, Rest, Step, Refuse,
  RemoteAt
<1>17. ASSUME Lookup PROVE Agreements
  BY <1>17 DEF Lookup, Agreements, record, branch, github, history, Rest, Step, Refuse, RemoteAt
<1>18. ASSUME NEW sent \in BOOLEAN, ToExisting(sent) PROVE Agreements
  BY <1>18 DEF ToExisting, Agreements, record, branch, github, history, Rest, Step, Refuse,
  RemoteAt
<1>19. ASSUME PlanRestack PROVE Agreements
  BY <1>19 DEF PlanRestack, Agreements, record, branch, github, history, Rest, Step, Refuse,
  RemoteAt
<1>20. ASSUME NEW clean \in BOOLEAN, Replay(clean) PROVE Agreements
  BY <1>20 DEF Replay, Agreements, record, branch, github, history, Rest, Step, Refuse, RemoteAt
<1>21. ASSUME NEW o \in Outcomes, RecordRestack(o) PROVE Agreements
  BY <1>21 DEF RecordRestack, Agreements, record, branch, github, history, Rest, Step, Refuse,
  RemoteAt
<1>22. ASSUME NEW sent \in BOOLEAN, NEW answered \in BOOLEAN, Push(sent, answered)
      PROVE  Agreements
  BY <1>22 DEF Push, Agreements, record, branch, github, history, Rest, Step, Refuse, RemoteAt
<1>23. ASSUME NEW read \in BOOLEAN, ConfirmPush(read) PROVE Agreements
  BY <1>23 DEF ConfirmPush, Agreements, record, branch, github, history, Rest, Step, Refuse,
  RemoteAt
<1>24. ASSUME LookupAgain PROVE Agreements
  BY <1>24 DEF LookupAgain, Agreements, record, branch, github, history, Rest, Step, Refuse,
  RemoteAt
<1>25. ASSUME NEW o \in Outcomes, Announce(o) PROVE Agreements
  BY <1>25 DEF Announce, Agreements, record, branch, github, history, Rest, Step, Refuse,
  RemoteAt
<1>26. ASSUME NEW answer \in {"opened", "lost", "rejected", "not sent"}, Create(answer)
      PROVE  Agreements
  BY <1>26 DEF Create, Agreements, record, branch, github, history, Rest, Step, Refuse, RemoteAt
<1>27. ASSUME NEW read \in BOOLEAN, ConfirmCreated(read) PROVE Agreements
  BY <1>27 DEF ConfirmCreated, Agreements, record, branch, github, history, Rest, Step,
  Refuse, RemoteAt
<1>28. ASSUME NEW read \in BOOLEAN, Reconcile(read) PROVE Agreements
  BY <1>28 DEF Reconcile, Agreements, record, branch, github, history, Rest, Step, Refuse,
  RemoteAt
<1>29. ASSUME NEW o \in Outcomes, Retract(o) PROVE Agreements
  BY <1>29 DEF Retract, Agreements, record, branch, github, history, Rest, Step, Refuse,
  RemoteAt
<1>30. ASSUME NEW o \in Outcomes, Link(o) PROVE Agreements
  BY <1>30 DEF Link, Agreements, record, branch, github, history, Rest, Step, Refuse, RemoteAt
<1>31. ASSUME NEW n \in 1 .. MaxPrs, LinkExisting(n) PROVE Agreements
  BY <1>31 DEF LinkExisting, Agreements, record, branch, github, history, Rest, Step, Refuse,
  RemoteAt
<1>32. ASSUME BeginDiscard PROVE Agreements
  BY <1>32 DEF BeginDiscard, Agreements, record, branch, github, history, Rest, Step, Refuse,
  RemoteAt
<1>33. ASSUME LookBeforeDiscard PROVE Agreements
  BY <1>33 DEF LookBeforeDiscard, Agreements, record, branch, github, history, Rest, Step,
  Refuse, RemoteAt
<1>34. ASSUME NEW o \in Outcomes, DiscardRequest(o) PROVE Agreements
  BY <1>34 DEF DiscardRequest, Agreements, record, branch, github, history, Rest, Step,
  Refuse, RemoteAt
<1>35. ASSUME NEW c \in {tip, task.publication.commit}, BeginPublication(c) PROVE Agreements
  BY <1>35 DEF BeginPublication, Agreements, record, branch, github, history, Rest, Step,
  Refuse, RemoteAt
<1>36. ASSUME NEW read \in BOOLEAN, Settle(read) PROVE Agreements
  BY <1>36 DEF Settle, Agreements, record, branch, github, history, Rest, Step, Refuse, RemoteAt
<1>37. ASSUME NEW read \in BOOLEAN, Observe(read) PROVE Agreements
  BY <1>37 DEF Observe, Agreements, record, branch, github, history, Rest, Step, Refuse,
  RemoteAt
<1>38. ASSUME NEW o \in Outcomes, RefusePublication(o) PROVE Agreements
  BY <1>38 DEF RefusePublication, Agreements, record, branch, github, history, Rest, Step,
  Refuse, RemoteAt
<1>39. ASSUME NEW o \in Outcomes, Pend(o) PROVE Agreements
  BY <1>39 DEF Pend, Agreements, record, branch, github, history, Rest, Step, Refuse, RemoteAt
<1>40. ASSUME NEW read \in BOOLEAN, Recheck(read) PROVE Agreements
  BY <1>40 DEF Recheck, Agreements, record, branch, github, history, Rest, Step, Refuse,
  RemoteAt
<1>41. ASSUME NEW sent \in BOOLEAN, NEW answered \in BOOLEAN, Send(sent, answered)
      PROVE  Agreements
  BY <1>41 DEF Send, Agreements, record, branch, github, history, Rest, Step, Refuse, RemoteAt
<1>42. ASSUME NEW read \in BOOLEAN, ReadBack(read) PROVE Agreements
  BY <1>42 DEF ReadBack, Agreements, record, branch, github, history, Rest, Step, Refuse,
  RemoteAt, Verdict
<1>43. ASSUME NEW o \in Outcomes, SettlePublication(o) PROVE Agreements
  BY <1>43 DEF SettlePublication, Agreements, record, branch, github, history, Rest, Step,
  Refuse, RemoteAt
<1>44. ASSUME BeginRestack PROVE Agreements
  BY <1>44 DEF BeginRestack, Agreements, record, branch, github, history, Rest, Step, Refuse,
  RemoteAt
<1>45. ASSUME NEW o \in Outcomes, PlanRewrite(o) PROVE Agreements
  BY <1>45 DEF PlanRewrite, Agreements, record, branch, github, history, Rest, Step, Refuse,
  RemoteAt
<1>46. ASSUME Resume PROVE Agreements
  BY <1>46 DEF Resume, Agreements, record, branch, github, history, Rest, Step, Refuse, RemoteAt
<1>47. ASSUME Advance PROVE Agreements
  BY <1>47 DEF Advance, Agreements, record, branch, github, history, Rest, Step, Refuse,
  RemoteAt
<1>48. ASSUME NEW clean \in BOOLEAN, ReplayPublished(clean) PROVE Agreements
  BY <1>48 DEF ReplayPublished, Agreements, record, branch, github, history, Rest, Step,
  Refuse, RemoteAt
<1>49. ASSUME NEW o \in Outcomes, RecordRewrite(o) PROVE Agreements
  BY <1>49 DEF RecordRewrite, Agreements, record, branch, github, history, Rest, Step, Refuse,
  RemoteAt
<1>50. ASSUME NEW o \in Outcomes, AdoptRewrite(o) PROVE Agreements
  BY <1>50 DEF AdoptRewrite, Agreements, record, branch, github, history, Rest, Step, Refuse,
  RemoteAt
<1>51. ASSUME NEW o \in Outcomes, ClearPending(o) PROVE Agreements
  BY <1>51 DEF ClearPending, Agreements, record, branch, github, history, Rest, Step, Refuse,
  RemoteAt
<1>52. ASSUME CheckRemote PROVE Agreements
  BY <1>52 DEF CheckRemote, Agreements, record, branch, github, history, Rest, Step, Refuse,
  RemoteAt
<1>53. ASSUME NEW sent \in BOOLEAN, NEW answered \in BOOLEAN, ForcePush(sent, answered)
      PROVE  Agreements
  BY <1>53 DEF ForcePush, Agreements, record, branch, github, history, Rest, Step, Refuse,
  RemoteAt
<1>54. ASSUME NEW retargeted \in BOOLEAN, NEW o \in Outcomes, Finish(retargeted, o)
      PROVE  Agreements
  BY <1>54 DEF Finish, Agreements, record, branch, github, history, Rest, Step, Refuse, RemoteAt
<1>55. ASSUME BeginDiscardRestack PROVE Agreements
  BY <1>55 DEF BeginDiscardRestack, Agreements, record, branch, github, history, Rest, Step,
  Refuse, RemoteAt
<1>56. ASSUME GoBack PROVE Agreements
  BY <1>56 DEF GoBack, Agreements, record, branch, github, history, Rest, Step, Refuse, RemoteAt
<1>57. ASSUME NEW o \in Outcomes, DropRecord(o) PROVE Agreements
  BY <1>57 DEF DropRecord, Agreements, record, branch, github, history, Rest, Step, Refuse,
  RemoteAt
<1> QED
  BY <1>1, <1>2, <1>3, <1>4, <1>5, <1>6, <1>7, <1>8, <1>9, <1>10, <1>11, <1>12, <1>13,
  <1>14, <1>15, <1>16, <1>17, <1>18, <1>19, <1>20, <1>21, <1>22, <1>23, <1>24, <1>25,
  <1>26, <1>27, <1>28, <1>29, <1>30, <1>31, <1>32, <1>33, <1>34, <1>35, <1>36, <1>37,
  <1>38, <1>39, <1>40, <1>41, <1>42, <1>43, <1>44, <1>45, <1>46, <1>47, <1>48, <1>49,
  <1>50, <1>51, <1>52, <1>53, <1>54, <1>55, <1>56, <1>57 DEF DeliveryNext, Surroundings,
  PullRequestNext, PublicationNext, RepublishNext

------------------------------------------------------------------------------
(* Commits made here and pushes of others *)

LEMMA CommitParts == \A c \in Commits : c.own \in Seq(Nat) /\ Len(c.own) \in Nat
BY DEF Commits

LEMMA CleanCommits ==
  ASSUME NEW n \in Nat
  PROVE  /\ NamedUpTo(NoCommit, n)
         /\ \A c \in Commits : NamedUpTo(c, n) => NamedUpTo(Replayed(c), n)
BY DEF NamedUpTo, NoCommit, Replayed, Commits

LEMMA CleanLater ==
  ASSUME NEW m \in Nat, NEW n \in Nat, m <= n, NEW c, NamedUpTo(c, m)
  PROVE  NamedUpTo(c, n)
BY DEF NamedUpTo

LEMMA CleanGrown ==
  ASSUME NEW c \in Commits, NEW m \in Nat, NamedUpTo(c, m), NEW n \in Nat, n = m + 1
  PROVE  /\ NamedUpTo([c EXCEPT !.own = Append(@, n)], n)
         /\ NamedUpTo([c EXCEPT !.own = Append(Front(@), n)], n)
<1>1. c.own \in Seq(Nat)
  BY CommitParts
<1>2. ASSUME NEW s \in Seq(Nat), \A i \in 1 .. Len(s) : s[i] \in 1 .. m
      PROVE  NamedUpTo([c EXCEPT !.own = Append(s, n)], n)
  <2>1. [c EXCEPT !.own = Append(s, n)].own = Append(s, n)
    BY DEF Commits
  <2>2. \A i \in 1 .. Len(Append(s, n)) : Append(s, n)[i] \in 1 .. n
    BY <1>2
  <2> QED BY <2>1, <2>2 DEF NamedUpTo
<1>3. NamedUpTo([c EXCEPT !.own = Append(@, n)], n)
  BY <1>1, <1>2 DEF NamedUpTo
<1>4. Front(c.own) \in Seq(Nat) /\ \A i \in 1 .. Len(Front(c.own)) : Front(c.own)[i] \in 1 .. m
  BY <1>1 DEF Front, NamedUpTo
<1>5. NamedUpTo([c EXCEPT !.own = Append(Front(@), n)], n)
  BY <1>2, <1>4
<1> QED BY <1>3, <1>5

LEMMA PrefixElements ==
  ASSUME NEW s \in Seq(Nat), NEW t \in Seq(Nat)
  PROVE  IsPrefix(s, t) <=> Len(s) <= Len(t) /\ \A i \in 1 .. Len(s) : s[i] = t[i]
<1>1. ASSUME Len(s) <= Len(t)
      PROVE  SubSeq(s, 1, Len(s)) = SubSeq(t, 1, Len(s)) <=> \A i \in 1 .. Len(s) : s[i] = t[i]
  <2>1. SubSeq(s, 1, Len(s)) = [i \in 1 .. Len(s) |-> s[i]]
    OBVIOUS
  <2>2. SubSeq(t, 1, Len(s)) = [i \in 1 .. Len(s) |-> t[i]]
    BY <1>1
  <2> QED BY <2>1, <2>2
<1> QED BY <1>1 DEF IsPrefix

\* A commit made here that is part of a branch others pushed on is part of what
\* they pushed on.
LEMMA OwnPart ==
  ASSUME made \in Nat, NEW c \in Commits, NEW d \in Commits, NEW p \in Commits,
         PushedOn(d, c), d.base = c.base, Clean(p), Includes(d, p)
  PROVE  Includes(c, p)
<1>1. c.own \in Seq(Nat) /\ d.own \in Seq(Nat) /\ p.own \in Seq(Nat)
  BY CommitParts
<1>2. /\ Len(c.own) <= Len(d.own) /\ \A i \in 1 .. Len(c.own) : c.own[i] = d.own[i]
      /\ \A i \in Len(c.own) + 1 .. Len(d.own) : d.own[i] = 0
  BY <1>1, PrefixElements DEF PushedOn
<1>3. Len(p.own) <= Len(d.own) /\ \A i \in 1 .. Len(p.own) : p.own[i] = d.own[i]
  BY <1>1, PrefixElements DEF Includes
<1>4. Len(p.own) <= Len(c.own)
  <2>1. SUFFICES ASSUME Len(p.own) > Len(c.own) PROVE FALSE
    BY <1>1
  <2>2. Len(p.own) \in 1 .. Len(p.own) /\ Len(p.own) \in Len(c.own) + 1 .. Len(d.own)
    BY <1>1, <1>3, <2>1
  <2> QED BY <1>2, <1>3, <2>2 DEF Clean, NamedUpTo
<1>5. IsPrefix(p.own, c.own)
  <2>1. \A i \in 1 .. Len(p.own) : p.own[i] = c.own[i]
    BY <1>1, <1>2, <1>3, <1>4
  <2> QED BY <1>1, <1>4, <2>1, PrefixElements
<1>6. c # NoCommit
  <2>1. SUFFICES ASSUME c = NoCommit PROVE FALSE
    OBVIOUS
  <2>2. p.base = "none" /\ Len(p.own) = 0
    <3>1. c.base = "none" /\ Len(c.own) = 0
      BY <2>1 DEF NoCommit
    <3>2. p.base = c.base
      BY DEF Includes
    <3>3. Len(p.own) \in Nat
      BY CommitParts
    <3> QED BY <1>4, <3>1, <3>2, <3>3
  <2>4. p.own = << >>
    BY <1>1, <2>2
  <2>3. p = NoCommit
    BY <2>2, <2>4 DEF NoCommit, Commits
  <2> QED BY <2>3 DEF Includes
<1> QED BY <1>5, <1>6 DEF Includes

LEMMA OwnPush ==
  ASSUME NEW c \in Commits
  PROVE  PushedOn(c, c) /\ (c # NoCommit => Includes(c, c))
<1>1. c.own \in Seq(Nat)
  BY CommitParts
<1>2. IsPrefix(c.own, c.own)
  BY <1>1, PrefixElements
<1> QED BY <1>1, <1>2 DEF PushedOn, Includes

LEMMA OthersPush ==
  ASSUME NEW c \in Commits, NEW d \in Commits
  PROVE  /\ PushedOn(d, c) => PushedOn([d EXCEPT !.own = Append(@, 0)], c)
         /\ d # NoCommit => Includes([d EXCEPT !.own = Append(@, 0)], d)
<1>1. c.own \in Seq(Nat) /\ d.own \in Seq(Nat) /\ Append(d.own, 0) \in Seq(Nat)
  BY CommitParts
<1> DEFINE e == [d EXCEPT !.own = Append(@, 0)]
<1>2. e.own = Append(d.own, 0) /\ e.base = d.base
  BY DEF Commits
<1> HIDE DEF e
<1>3. Len(e.own) = Len(d.own) + 1 /\ e.own[Len(d.own) + 1] = 0
      /\ \A i \in 1 .. Len(d.own) : e.own[i] = d.own[i]
  BY <1>1, <1>2
<1>4. ASSUME PushedOn(d, c) PROVE PushedOn(e, c)
  <2>1. /\ Len(c.own) <= Len(d.own) /\ \A i \in 1 .. Len(c.own) : c.own[i] = d.own[i]
        /\ \A i \in Len(c.own) + 1 .. Len(d.own) : d.own[i] = 0
    BY <1>1, <1>4, PrefixElements DEF PushedOn
  <2>4. Len(c.own) <= Len(e.own) /\ \A i \in 1 .. Len(c.own) : c.own[i] = e.own[i]
    BY <1>1, <1>3, <2>1
  <2>2. IsPrefix(c.own, e.own)
    BY <1>1, <1>2, <2>4, PrefixElements
  <2>3. ASSUME NEW i \in Len(c.own) + 1 .. Len(e.own) PROVE e.own[i] = 0
    <3>1. i = Len(d.own) + 1 \/ i \in Len(c.own) + 1 .. Len(d.own)
      BY <1>1, <1>3, <2>1
    <3>2. i \in Len(c.own) + 1 .. Len(d.own) => i \in 1 .. Len(d.own)
      BY <1>1
    <3> QED BY <1>3, <2>1, <3>1, <3>2
  <2> QED BY <2>2, <2>3 DEF PushedOn
<1>5. ASSUME d # NoCommit PROVE Includes(e, d)
  <2>3. Len(d.own) <= Len(e.own) /\ \A i \in 1 .. Len(d.own) : d.own[i] = e.own[i]
    BY <1>1, <1>3
  <2>1. IsPrefix(d.own, e.own)
    BY <1>1, <1>2, <2>3, PrefixElements
  <2>2. e # NoCommit
    BY <1>1, <1>3 DEF NoCommit
  <2> QED BY <1>2, <1>5, <2>1, <2>2 DEF Includes
<1> QED BY <1>4, <1>5 DEF e

------------------------------------------------------------------------------
(* What SlashIt handles was made here *)

LEMMA KnownInvariant == ASSUME TypeOK, TypeOK', Known, DeliveryNext PROVE Known'
<1>1. /\ task \in TaskRecords /\ task \in survivors /\ tip \in Commits /\ op.commit \in Commits
      /\ task.pending.previous \in Commits
  BY OwnerParts DEF TypeOK, TaskRecords
<1>2. /\ Clean(tip) /\ Clean(op.commit) /\ Clean(NoCommit) /\ Clean(task.asked)
      /\ Clean(task.approved) /\ Clean(task.publication.commit) /\ Clean(Approved)
  <2>1. made \in Nat
    BY BoundsAssumption DEF TypeOK
  <2> QED BY <1>1, <2>1, CleanCommits DEF Known, CleanRecord, Approved, Clean
<1>3. made \in Nat /\ made' \in Nat /\ made <= made'
  <2>1. made \in Nat /\ (made' = made \/ made' = made + 1)
    BY TipStep, BoundsAssumption DEF TipMoves, TypeOK
  <2> QED BY <2>1
<1>4. \A c : Clean(c) => NamedUpTo(c, made')
  BY <1>3, CleanLater DEF Clean
<1>5. NamedUpTo(tip', made')
  <2>1. CASE tip' \in {tip, Replayed(tip), op.commit, Approved} /\ made' = made
    BY <1>1, <1>2, <1>3, <2>1, CleanCommits DEF Clean
  <2>2. CASE /\ made' = made + 1
             /\ \/ tip' = [tip EXCEPT !.own = Append(@, made')]
                \/ tip' = [tip EXCEPT !.own = Append(Front(@), made')]
    BY <1>1, <1>2, <1>3, <2>2, CleanGrown DEF Clean
  <2> QED BY <2>1, <2>2, TipStep DEF TipMoves
<1>6. NamedUpTo(op'.commit, made')
  BY <1>2, <1>4, CommitStep, Zenon DEF CommitOrigin
<1>7. \A c \in consented' : NamedUpTo(c, made')
  BY <1>2, <1>4, ConsentStep, Zenon DEF Agreements, Known
<1>8. ASSUME NEW t \in survivors'
      PROVE  /\ NamedUpTo(t.approved, made') /\ NamedUpTo(t.asked, made')
             /\ NamedUpTo(t.publication.commit, made') /\ NamedUpTo(t.pending.previous, made')
  <2>1. CASE t \in survivors
    BY <1>4, <2>1 DEF Known, CleanRecord
  <2>2. CASE Written(t)
    <3>1. NamedUpTo(t.approved, made') /\ NamedUpTo(t.asked, made')
      BY <1>2, <1>4, <2>2, Zenon DEF Written
    <3>2. NamedUpTo(t.publication.commit, made')
      BY <1>2, <1>4, <2>2, Zenon DEF Written
    <3>3. t.pending.previous \in {NoCommit, task.pending.previous, op.commit}
      BY <1>1, <2>2 DEF Written, TaskRecords, NoRestack
    <3> QED BY <1>2, <1>4, <3>1, <3>2, <3>3 DEF Approved
  <2> QED BY <2>1, <2>2, RecordOrigin
<1> QED BY <1>5, <1>6, <1>7, <1>8 DEF Known, CleanRecord, Clean

------------------------------------------------------------------------------
(* What others did not agree to or did on GitHub is not replaced *)

\* The branch on origin is at a commit SlashIt put there, or past it.
LEMMA OriginInvariant == ASSUME TypeOK, TypeOK', Origin, DeliveryNext PROVE Origin'
<1>1. remote \in Commits /\ op.commit \in Commits /\ tip \in Commits /\ reached \subseteq Commits
  BY OwnerParts DEF TypeOK
<1>2. CASE UNCHANGED <<remote, reached>>
  BY <1>2 DEF Origin
<1>3. CASE remote' = NoCommit
  BY <1>3 DEF Origin
<1>4. CASE remote # NoCommit /\ remote' = [remote EXCEPT !.own = Append(@, 0)]
           /\ reached' = reached
  <2>1. PICK c \in reached : PushedOn(remote, c) /\ remote.base = c.base
    BY <1>4 DEF Origin
  <2>2. c \in Commits
    BY <1>1, <2>1
  <2>3. PushedOn(remote', c)
    BY <1>1, <1>4, <2>1, <2>2, OthersPush
  <2>4. remote'.base = c.base
    BY <1>1, <1>4, <2>1 DEF Commits
  <2>5. c \in reached'
    BY <1>4, <2>1
  <2> QED BY <2>3, <2>4, <2>5 DEF Origin
<1>5. ASSUME NEW c \in {op.commit, tip}, RemoteAt(c) PROVE Origin'
  <2>1. remote' = c /\ c \in reached'
    BY <1>5 DEF RemoteAt
  <2>2. PushedOn(remote', c)
    BY <1>1, <1>5, <2>1, OwnPush
  <2> QED BY <2>1, <2>2 DEF Origin
<1> QED BY <1>2, <1>3, <1>4, <1>5, RemoteStep DEF Contacts

\* A commit made here that origin contains has been put there.
LEMMA Contained ==
  ASSUME TypeOK, Origin, NEW p \in Commits, Clean(p), Includes(remote, p)
  PROVE  Delivered(p)
<1>1. remote \in Commits /\ reached \subseteq Commits /\ remote # NoCommit
  BY DEF TypeOK, Includes
<1>2. PICK c \in reached : PushedOn(remote, c) /\ remote.base = c.base
  BY <1>1 DEF Origin
<1>3. Includes(c, p)
  <2>1. made \in Nat
    BY BoundsAssumption DEF TypeOK
  <2> QED BY <1>1, <1>2, <2>1, OwnPart
<1> QED BY <1>2, <1>3 DEF Delivered

\* Nothing that reached origin is forgotten by the history.
LEMMA StillDelivered ==
  ASSUME NEW p, Delivered(p), reached \subseteq reached'
  PROVE  Delivered(p)'
BY DEF Delivered, Includes

------------------------------------------------------------------------------
(* What was decided, and what became of it *)

LEMMA RestackParts ==
  ASSUME NEW c \in Commits, NEW n
  PROVE  /\ [state |-> "planned", previous |-> c, pr |-> n] # NoRestack
         /\ [state |-> "planned", previous |-> c, pr |-> n].state = "planned"
         /\ [state |-> "planned", previous |-> c, pr |-> n].previous = c
         /\ NoRestack.state = "none"
BY DEF NoRestack

\* Whatever the file may hold: its approval and its restack are of commits a
\* person agreed to, and what it calls published is.
LEMMA RecordsInvariant ==
  ASSUME TypeOK, TypeOK', Records, Decided, Answer, DeliveryNext
  PROVE  Records'
<1>1. /\ task \in TaskRecords /\ task \in survivors /\ op.commit \in Commits
      /\ SoundRecord(task) /\ Truthful(task)
  BY OwnerParts DEF TypeOK, Records
<1>2. consented \subseteq consented' /\ reached \subseteq reached'
  BY ConsentStep DEF Agreements
<1>3. \A p : Delivered(p) => Delivered(p)'
  BY <1>2, StillDelivered
<1>4. ASSUME NEW t \in survivors' PROVE SoundRecord(t)'
  <2>1. CASE t \in survivors
    BY <1>2, <2>1 DEF Records, SoundRecord
  <2>2. CASE Written(t)
    <3>1. t.approved # NoCommit => t.approved \in consented'
      BY <1>1, <1>2, <2>2 DEF Written, SoundRecord
    <3>2. CASE t.pending = NoRestack
      BY <3>1, <3>2 DEF SoundRecord
    <3>3. CASE t.pending = task.pending /\ t.pending # NoRestack
      <4>1. t.base \in {task.base, "landed"}
        BY <2>2, <3>3 DEF Written
      <4> QED BY <1>1, <1>2, <3>1, <3>3, <4>1 DEF SoundRecord
    <3>4. CASE /\ op.step = "plan"
               /\ t.pending = [state |-> "planned", previous |-> op.commit, pr |-> op.pr]
      <4>1. op.commit \in consented /\ op.commit.base = "old"
        BY <3>4 DEF Decided, Confirmed
      <4> QED BY <1>1, <1>2, <3>1, <3>4, <4>1, RestackParts DEF SoundRecord
    <3>5. CASE /\ op.step \in {"recordRewrite", "adopt"}
               /\ t.pending = [task.pending EXCEPT !.state = "rewritten"] /\ t.base = "landed"
      <4>1. task.pending # NoRestack
        BY <3>5 DEF Decided, Pending
      <4>2. t.pending.state = "rewritten" /\ t.pending.previous = task.pending.previous
        BY <1>1, <3>5 DEF TaskRecords
      <4> QED BY <1>1, <1>2, <3>1, <3>5, <4>1, <4>2 DEF SoundRecord
    <3> QED BY <2>2, <3>2, <3>3, <3>4, <3>5 DEF Written
  <2> QED BY <2>1, <2>2, RecordOrigin
<1>5. ASSUME NEW t \in survivors' PROVE Truthful(t)'
  <2>1. CASE t \in survivors
    BY <1>3, <2>1 DEF Records, Truthful
  <2>2. CASE Written(t)
    <3>1. CASE t.publication = task.publication
      BY <1>1, <1>3, <3>1 DEF Truthful
    <3>2. CASE /\ t.publication.commit = op.commit
               /\ t.publication.state = "published" =>
                    op.step = "verdict" /\ op.verdict = "published"
      BY <1>3, <3>2 DEF Truthful, Answer
    <3> QED BY <2>2, <3>1, <3>2 DEF Written
  <2> QED BY <2>1, <2>2, RecordOrigin
<1> QED BY <1>4, <1>5 DEF Records

\* An operation that ended knows nothing.
LEMMA NothingDecided ==
  ASSUME op' = Idle
  PROVE  Decided' /\ Answer'
<1>1. op'.step = "idle" /\ op'.bound = NoCommit
  BY DEF Idle
<1> QED
  BY <1>1 DEF Decided, Answer, Admitted, Unpushed, Confirmed, Pending, Pushed, CreateSteps,
  PublishSteps

\* What happens around an operation leaves all that it rests on.
Undecided ==
  /\ op'.step = op.step /\ op'.commit = op.commit /\ op'.bound = op.bound
  /\ op'.verdict = op.verdict
  /\ op.bound # NoCommit => task'.approved = task.approved \/ task.approved = NoCommit
  /\ task'.pending = task.pending /\ task'.base = task.base /\ task'.status = task.status
  /\ consented \subseteq consented' /\ reached \subseteq reached'

LEMMA SurroundingsStep == ASSUME TypeOK, Surroundings PROVE op' = Idle \/ Undecided
<1>1. task \in TaskRecords /\ task \in survivors /\ op \in Owners
  BY DEF TypeOK
<1>2. ASSUME GiveUpMove PROVE op' = Idle \/ Undecided
  BY <1>2 DEF GiveUpMove, record, branch, github, history, Undecided
<1>3. ASSUME Commit PROVE op' = Idle \/ Undecided
  BY <1>3 DEF Commit, record, branch, github, history, Undecided
<1>4. ASSUME Amend PROVE op' = Idle \/ Undecided
  BY <1>4 DEF Amend, record, branch, github, history, Undecided
<1>5. ASSUME ForeignPush PROVE op' = Idle \/ Undecided
  BY <1>5 DEF ForeignPush, record, branch, github, history, Undecided
<1>6. ASSUME ForeignDelete PROVE op' = Idle \/ Undecided
  BY <1>6 DEF ForeignDelete, record, branch, github, history, Undecided
<1>7. ASSUME NEW n \in 1 .. MaxPrs, ForeignOpen(n) PROVE op' = Idle \/ Undecided
  BY <1>7 DEF ForeignOpen, record, branch, github, history, Undecided
<1>8. ASSUME NEW n \in 1 .. MaxPrs, Close(n) PROVE op' = Idle \/ Undecided
  BY <1>8 DEF Close, record, branch, github, history, Undecided
<1>9. ASSUME NEW n \in 1 .. MaxPrs, List(n) PROVE op' = Idle \/ Undecided
  BY <1>9 DEF List, record, branch, github, history, Undecided
<1>10. ASSUME ParentLands PROVE op' = Idle \/ Undecided
  BY <1>10 DEF ParentLands, record, branch, github, history, Undecided
<1>11. ASSUME Crash PROVE op' = Idle \/ Undecided
  BY <1>11 DEF Crash
<1>12. ASSUME NEW column \in {"work", "review"}, BeginMove(column)
      PROVE  op' = Idle \/ Undecided
  <2>1. op' = Idle \/ op' = [op EXCEPT !.cancelled = TRUE]
    BY <1>12 DEF BeginMove
  <2> QED BY <1>12, <2>1, <1>1 DEF BeginMove, record, history, Owners, Undecided
<1>13. ASSUME NEW o \in Outcomes, Approve(o) PROVE op' = Idle \/ Undecided
  <2>1. /\ op' = op /\ reached' = reached /\ consented \subseteq consented'
        /\ task.approved = NoCommit /\ Save([task EXCEPT !.approved = tip], o)
    BY <1>13 DEF Approve
  <2>2. task'.pending = task.pending /\ task'.base = task.base /\ task'.status = task.status
    BY <1>1, <2>1, SaveFacts DEF TaskRecords
  <2> QED BY <2>1, <2>2 DEF Undecided
<1>14. ASSUME NEW o \in Outcomes, ApproveAgain(o) PROVE op' = Idle \/ Undecided
  BY <1>14 DEF ApproveAgain
<1>15. ASSUME NEW o \in Outcomes, FinishRun(o) PROVE op' = Idle \/ Undecided
  BY <1>15 DEF FinishRun
<1>16. ASSUME NEW o \in Outcomes, CompleteMove(o) PROVE op' = Idle \/ Undecided
  BY <1>16 DEF CompleteMove
<1> QED
  BY <1>2, <1>3, <1>4, <1>5, <1>6, <1>7, <1>8, <1>9, <1>10, <1>11, <1>12, <1>13, <1>14,
  <1>15, <1>16 DEF Surroundings

LEMMA StillDecided ==
  ASSUME TypeOK, Records, Decided, Answer, op' = Idle \/ Undecided
  PROVE  Decided' /\ Answer'
<1>1. CASE op' = Idle
  BY <1>1, NothingDecided
<1>2. CASE Undecided
  <2>1. op.bound # NoCommit => op.bound \in consented' /\ task'.approved = op.bound
    BY <1>2 DEF Undecided, Decided
  <2>2. Decided'
    BY <1>2, <2>1, Zenon DEF Undecided, Decided
  <2>3. Delivered(op.commit) => Delivered(op.commit)'
    BY <1>2 DEF Undecided, Delivered, Includes
  <2> QED BY <1>2, <2>2, <2>3, Zenon DEF Undecided, Answer
<1> QED BY <1>1, <1>2

LEMMA PullRequestDecides ==
  ASSUME Inv, Known, Origin, Records, Decided, Answer, PullRequestNext
  PROVE  Decided' /\ Answer'
<1>1. /\ TypeOK /\ op \in Owners /\ task \in TaskRecords /\ task \in survivors
     /\ op.commit \in Commits /\ tip \in Commits /\ task.publication.commit \in Commits
     /\ SoundRecord(task) /\ CleanRecord(task) /\ Agreements
  BY OwnerParts, ConsentStep DEF Inv, TypeOK, TaskRecords, Records, Known, DeliveryNext
<1>2. ASSUME BeginCreate PROVE Decided' /\ Answer'
  <2>2. tip \in consented /\ task.approved = tip /\ tip # NoCommit /\ task.status # "work"
    BY <1>2, <1>1 DEF BeginCreate, SoundRecord
  <2>3. op' # Idle => op'.step = "lookup" /\ op'.commit = tip /\ op'.bound = tip
    BY <1>2, <1>1, BeginCreateTurn DEF Turn
  <2>4. task' = task /\ consented \subseteq consented'
    BY <1>2 DEF BeginCreate, record, Rest, history
  <2>5. op' # Idle => Decided'
    BY <2>2, <2>3, <2>4 DEF Decided, Admitted, Unpushed, Confirmed, Pending, CreateSteps,
    PublishSteps
  <2>6. op' # Idle => Answer'
    BY <2>3 DEF Answer, Pushed
  <2> QED BY <2>5, <2>6, NothingDecided
<1>3. ASSUME Lookup PROVE Decided' /\ Answer'
  <2>2. op' # Idle =>
          /\ op'.step \in {"toExisting", "restack", "push"}
          /\ op'.commit = op.commit
          /\ op'.bound = op.bound
    BY <1>3, <1>1, LookupTurn DEF Turn
  <2>3. op.step = "lookup" /\ consented \subseteq consented' /\ reached \subseteq reached'
    BY <1>3, <1>1, LookupTurn DEF Turn, Agreements
  <2>4. task' = task
    BY <1>3 DEF Lookup, Step, Refuse, Verdict, record, Rest
  <2>6. op' # Idle => Decided'
    BY <1>1, <2>2, <2>3, <2>4 DEF Decided, Admitted, Unpushed, Confirmed, Pending,
    CreateSteps, PublishSteps
  <2>9. op' # Idle => Answer'
    BY <1>1, <2>2, <2>3 DEF Answer, Pushed, Delivered, Includes
  <2> QED BY <2>6, <2>9, NothingDecided
<1>4. ASSUME NEW sent \in BOOLEAN, ToExisting(sent) PROVE Decided' /\ Answer'
  <2>2. op' # Idle => op'.step = "link" /\ op'.commit = op.commit /\ op'.bound = op.bound
    BY <1>4, <1>1, ToExistingTurn DEF Turn
  <2>3. op.step = "toExisting" /\ consented \subseteq consented' /\ reached \subseteq reached'
    BY <1>4, <1>1, ToExistingTurn DEF Turn, Agreements
  <2>4. task' = task
    BY <1>4 DEF ToExisting, Step, Refuse, Verdict, record, Rest
  <2>6. op' # Idle => Decided'
    BY <1>1, <2>2, <2>3, <2>4 DEF Decided, Admitted, Unpushed, Confirmed, Pending,
    CreateSteps, PublishSteps
  <2>7. op.commit # NoCommit
    BY <1>1, <2>3 DEF Decided, Admitted, Unpushed
  <2>8. op' # Idle => \E c \in reached' : Includes(c, op.commit)
    <3>1. op' # Idle => Includes(remote, op.commit) \/ op.commit \in reached'
      BY <1>4 DEF ToExisting, Refuse, End, Step, RemoteAt
    <3>2. CASE Includes(remote, op.commit)
      BY <1>1, <2>3, <3>2, Contained DEF Known, Delivered
    <3>3. CASE op.commit \in reached'
      BY <1>1, <2>7, <3>3, OwnPush
    <3> QED BY <3>1, <3>2, <3>3
  <2>9. op' # Idle => Answer'
    BY <2>2, <2>8 DEF Answer, Pushed, Delivered, Includes
  <2> QED BY <2>6, <2>9, NothingDecided
<1>5. ASSUME PlanRestack PROVE Decided' /\ Answer'
  <2>2. op' # Idle =>
          /\ op'.step = "restackReplay"
          /\ op'.commit = op.commit
          /\ op'.bound = op.bound
    BY <1>5, <1>1, PlanRestackTurn DEF Turn
  <2>3. op.step = "restack" /\ consented \subseteq consented' /\ reached \subseteq reached'
    BY <1>5, <1>1, PlanRestackTurn DEF Turn, Agreements
  <2>4. task' = task
    BY <1>5 DEF PlanRestack, Step, Refuse, Verdict, record, Rest
  <2>6. op' # Idle => Decided'
    BY <1>1, <2>2, <2>3, <2>4 DEF Decided, Admitted, Unpushed, Confirmed, Pending,
    CreateSteps, PublishSteps
  <2>9. op' # Idle => Answer'
    BY <1>1, <2>2, <2>3 DEF Answer, Pushed, Delivered, Includes
  <2> QED BY <2>6, <2>9, NothingDecided
<1>6. ASSUME NEW clean \in BOOLEAN, Replay(clean) PROVE Decided' /\ Answer'
  <2>2. op' # Idle =>
          /\ op'.step = "restackRecord"
          /\ op'.commit = op.commit
          /\ op'.bound = op.bound
    BY <1>6, <1>1, ReplayTurn DEF Turn
  <2>3. op.step = "restackReplay" /\ consented \subseteq consented' /\ reached \subseteq reached'
    BY <1>6, <1>1, ReplayTurn DEF Turn, Agreements
  <2>4. task' = task
    BY <1>6 DEF Replay, Step, Refuse, Verdict, record, Rest
  <2>6. op' # Idle => Decided'
    BY <1>1, <2>2, <2>3, <2>4 DEF Decided, Admitted, Unpushed, Confirmed, Pending,
    CreateSteps, PublishSteps
  <2>9. op' # Idle => Answer'
    BY <1>1, <2>2, <2>3 DEF Answer, Pushed, Delivered, Includes
  <2> QED BY <2>6, <2>9, NothingDecided
<1>7. ASSUME NEW o \in Outcomes, RecordRestack(o) PROVE Decided' /\ Answer'
  <2>2. op' # Idle => op'.step = "push" /\ op'.commit = tip /\ op'.bound = op.bound
    BY <1>7, <1>1, RecordRestackTurn DEF Turn
  <2>3. op.step = "restackRecord" /\ consented \subseteq consented' /\ reached \subseteq reached'
    BY <1>7, <1>1, RecordRestackTurn DEF Turn, Agreements
  <2>4. op' # Idle => task'.approved = task.approved /\ task'.pending = task.pending /\ task'.status = task.status
    <3>1. op' # Idle => Save([task EXCEPT !.base = "landed"], o)
      BY <1>7 DEF RecordRestack, Refuse, End, Publish
    <3> QED BY <1>1, <3>1, SaveFacts DEF TaskRecords
  <2>6. op' # Idle => Decided'
    BY <1>1, <2>2, <2>3, <2>4 DEF Decided, Admitted, Unpushed, Confirmed, Pending,
    CreateSteps, PublishSteps
  <2>9. op' # Idle => Answer'
    BY <1>1, <2>2, <2>3 DEF Answer, Pushed, Delivered, Includes
  <2> QED BY <2>6, <2>9, NothingDecided
<1>8. ASSUME NEW sent \in BOOLEAN, NEW answered \in BOOLEAN, Push(sent, answered)
      PROVE  Decided' /\ Answer'
  <2>2. op' # Idle =>
          /\ op'.step = "confirmPush"
          /\ op'.commit = op.commit
          /\ op'.bound = op.bound
    BY <1>8, <1>1, PushTurn DEF Turn
  <2>3. op.step = "push" /\ consented \subseteq consented' /\ reached \subseteq reached'
    BY <1>8, <1>1, PushTurn DEF Turn, Agreements
  <2>4. task' = task
    BY <1>8 DEF Push, Step, Refuse, Verdict, record, Rest
  <2>6. op' # Idle => Decided'
    BY <1>1, <2>2, <2>3, <2>4 DEF Decided, Admitted, Unpushed, Confirmed, Pending,
    CreateSteps, PublishSteps
  <2>9. op' # Idle => Answer'
    BY <1>1, <2>2, <2>3 DEF Answer, Pushed, Delivered, Includes
  <2> QED BY <2>6, <2>9, NothingDecided
<1>9. ASSUME NEW read \in BOOLEAN, ConfirmPush(read) PROVE Decided' /\ Answer'
  <2>2. op' # Idle =>
          /\ op'.step = "lookupAgain"
          /\ op'.commit = op.commit
          /\ op'.bound = op.bound
    BY <1>9, <1>1, ConfirmPushTurn DEF Turn
  <2>3. op.step = "confirmPush" /\ consented \subseteq consented' /\ reached \subseteq reached'
    BY <1>9, <1>1, ConfirmPushTurn DEF Turn, Agreements
  <2>4. task' = task
    BY <1>9 DEF ConfirmPush, Step, Refuse, Verdict, record, Rest
  <2>6. op' # Idle => Decided'
    BY <1>1, <2>2, <2>3, <2>4 DEF Decided, Admitted, Unpushed, Confirmed, Pending,
    CreateSteps, PublishSteps
  <2>7. op' # Idle => Delivered(op.commit)
    <3>1. op' # Idle => remote = op.commit /\ op.commit # NoCommit
      BY <1>9, <1>1 DEF ConfirmPush, Refuse, End, At, Inv, SoundOpening, Opening
    <3> QED BY <1>1, <3>1, Contained, OwnPush DEF Known
  <2>9. op' # Idle => Answer'
    BY <1>1, <2>2, <2>3, <2>7 DEF Answer, Pushed, Delivered, Includes
  <2> QED BY <2>6, <2>9, NothingDecided
<1>10. ASSUME LookupAgain PROVE Decided' /\ Answer'
  <2>2. op' # Idle =>
          /\ op'.step \in {"link", "announce"}
          /\ op'.commit = op.commit
          /\ op'.bound = op.bound
    BY <1>10, <1>1, LookupAgainTurn DEF Turn
  <2>3. op.step = "lookupAgain" /\ consented \subseteq consented' /\ reached \subseteq reached'
    BY <1>10, <1>1, LookupAgainTurn DEF Turn, Agreements
  <2>4. task' = task
    BY <1>10 DEF LookupAgain, Step, Refuse, Verdict, record, Rest
  <2>6. op' # Idle => Decided'
    BY <1>1, <2>2, <2>3, <2>4 DEF Decided, Admitted, Unpushed, Confirmed, Pending,
    CreateSteps, PublishSteps
  <2>9. op' # Idle => Answer'
    BY <1>1, <2>2, <2>3 DEF Answer, Pushed, Delivered, Includes
  <2> QED BY <2>6, <2>9, NothingDecided
<1>11. ASSUME NEW o \in Outcomes, Announce(o) PROVE Decided' /\ Answer'
  <2>2. op' # Idle =>
          /\ op'.step \in {"create", "retract"}
          /\ op'.commit = op.commit
          /\ op'.bound = op.bound
    BY <1>11, <1>1, AnnounceTurn DEF Turn
  <2>3. op.step = "announce" /\ consented \subseteq consented' /\ reached \subseteq reached'
    BY <1>11, <1>1, AnnounceTurn DEF Turn, Agreements
  <2>4. op' # Idle => task'.approved = task.approved /\ task'.pending = task.pending /\ task'.status = task.status
    <3>1. op' # Idle => Save([task EXCEPT !.asked = op.commit], o)
      BY <1>11 DEF Announce, Refuse, End, Publish
    <3> QED BY <1>1, <3>1, SaveFacts DEF TaskRecords
  <2>6. op' # Idle => Decided'
    BY <1>1, <2>2, <2>3, <2>4 DEF Decided, Admitted, Unpushed, Confirmed, Pending,
    CreateSteps, PublishSteps
  <2>9. op' # Idle => Answer'
    BY <1>1, <2>2, <2>3 DEF Answer, Pushed, Delivered, Includes
  <2> QED BY <2>6, <2>9, NothingDecided
<1>12. ASSUME NEW answer \in {"opened", "lost", "rejected", "not sent"}, Create(answer)
      PROVE  Decided' /\ Answer'
  <2>1. op' # Idle =>
          /\ op'.step \in {"retract", "reconcile", "confirmCreated"}
          /\ op'.commit = op.commit
          /\ op'.bound = op.bound
    BY <1>12, <1>1, CreateTurn DEF Turn
  <2>2. op.step = "create" /\ task' = task /\ consented' = consented /\ reached' = reached
    BY <1>12 DEF Create, Step, At, record, Rest, history
  <2>3. op' # Idle => Decided'
    BY <1>1, <2>1, <2>2 DEF Decided, Admitted, Unpushed, Confirmed, Pending, CreateSteps,
    PublishSteps
  <2>4. op' # Idle => Answer'
    BY <1>1, <2>1, <2>2 DEF Answer, Pushed, Delivered, Includes
  <2> QED BY <2>3, <2>4, NothingDecided
<1>13. ASSUME NEW read \in BOOLEAN, ConfirmCreated(read) PROVE Decided' /\ Answer'
  <2>2. op' # Idle => op'.step = "link" /\ op'.commit = op.commit /\ op'.bound = op.bound
    BY <1>13, <1>1, ConfirmCreatedTurn DEF Turn
  <2>3. op.step = "confirmCreated" /\ consented \subseteq consented' /\ reached \subseteq reached'
    BY <1>13, <1>1, ConfirmCreatedTurn DEF Turn, Agreements
  <2>4. task' = task
    BY <1>13 DEF ConfirmCreated, Step, Refuse, Verdict, record, Rest
  <2>6. op' # Idle => Decided'
    BY <1>1, <2>2, <2>3, <2>4 DEF Decided, Admitted, Unpushed, Confirmed, Pending,
    CreateSteps, PublishSteps
  <2>9. op' # Idle => Answer'
    BY <1>1, <2>2, <2>3 DEF Answer, Pushed, Delivered, Includes
  <2> QED BY <2>6, <2>9, NothingDecided
<1>14. ASSUME NEW read \in BOOLEAN, Reconcile(read) PROVE Decided' /\ Answer'
  <2>2. op' # Idle =>
          /\ op'.step \in {"confirmCreated", "retract"}
          /\ op'.commit = op.commit
          /\ op'.bound = op.bound
    BY <1>14, <1>1, ReconcileTurn DEF Turn
  <2>3. op.step = "reconcile" /\ consented \subseteq consented' /\ reached \subseteq reached'
    BY <1>14, <1>1, ReconcileTurn DEF Turn, Agreements
  <2>4. task' = task
    BY <1>14 DEF Reconcile, Step, Refuse, Verdict, record, Rest
  <2>6. op' # Idle => Decided'
    BY <1>1, <2>2, <2>3, <2>4 DEF Decided, Admitted, Unpushed, Confirmed, Pending,
    CreateSteps, PublishSteps
  <2>9. op' # Idle => Answer'
    BY <1>1, <2>2, <2>3 DEF Answer, Pushed, Delivered, Includes
  <2> QED BY <2>6, <2>9, NothingDecided
<1>15. ASSUME NEW o \in Outcomes, Retract(o) PROVE Decided' /\ Answer'
  BY <1>15, <1>1, RetractTurn, NothingDecided DEF Turn
<1>16. ASSUME NEW o \in Outcomes, Link(o) PROVE Decided' /\ Answer'
  BY <1>16, <1>1, LinkTurn, NothingDecided DEF Turn
<1>17. ASSUME NEW n \in 1 .. MaxPrs, LinkExisting(n) PROVE Decided' /\ Answer'
  <2>2. task.status # "work"
    BY <1>17 DEF LinkExisting, MayRecover
  <2>3. op' # Idle => op'.step = "link" /\ op'.commit = NoCommit /\ op'.bound = NoCommit
    BY <1>17, <1>1, LinkExistingTurn DEF Turn
  <2>4. task' = task /\ consented \subseteq consented'
    BY <1>17 DEF LinkExisting, record, Rest, history
  <2>5. op' # Idle => Decided'
    BY <2>2, <2>3, <2>4 DEF Decided, Admitted, Unpushed, Confirmed, Pending, CreateSteps,
    PublishSteps
  <2>6. op' # Idle => Answer'
    BY <2>3 DEF Answer, Pushed
  <2> QED BY <2>5, <2>6, NothingDecided
<1>18. ASSUME BeginDiscard PROVE Decided' /\ Answer'
  <2>2. task.status # "work"
    BY <1>18 DEF BeginDiscard, MayRecover
  <2>3. op' # Idle =>
          /\ op'.step = "discard"
          /\ op'.commit = task.asked
          /\ op'.bound = NoCommit
    BY <1>18, <1>1, BeginDiscardTurn DEF Turn
  <2>4. task' = task /\ consented \subseteq consented'
    BY <1>18 DEF BeginDiscard, record, Rest, history
  <2>5. op' # Idle => Decided'
    BY <2>2, <2>3, <2>4 DEF Decided, Admitted, Unpushed, Confirmed, Pending, CreateSteps,
    PublishSteps
  <2>6. op' # Idle => Answer'
    BY <2>3 DEF Answer, Pushed
  <2> QED BY <2>5, <2>6, NothingDecided
<1>19. ASSUME LookBeforeDiscard PROVE Decided' /\ Answer'
  <2>2. op' # Idle =>
          /\ op'.step = "discardWrite"
          /\ op'.commit = op.commit
          /\ op'.bound = op.bound
    BY <1>19, <1>1, LookBeforeDiscardTurn DEF Turn
  <2>3. op.step = "discard" /\ consented \subseteq consented' /\ reached \subseteq reached'
    BY <1>19, <1>1, LookBeforeDiscardTurn DEF Turn, Agreements
  <2>4. task' = task
    BY <1>19 DEF LookBeforeDiscard, Step, Refuse, Verdict, record, Rest
  <2>6. op' # Idle => Decided'
    BY <1>1, <2>2, <2>3, <2>4 DEF Decided, Admitted, Unpushed, Confirmed, Pending,
    CreateSteps, PublishSteps
  <2>9. op' # Idle => Answer'
    BY <1>1, <2>2, <2>3 DEF Answer, Pushed, Delivered, Includes
  <2> QED BY <2>6, <2>9, NothingDecided
<1>20. ASSUME NEW o \in Outcomes, DiscardRequest(o) PROVE Decided' /\ Answer'
  BY <1>20, <1>1, DiscardRequestTurn, NothingDecided DEF Turn
<1> QED
  BY <1>2, <1>3, <1>4, <1>5, <1>6, <1>7, <1>8, <1>9, <1>10, <1>11, <1>12, <1>13, <1>14,
  <1>15, <1>16, <1>17, <1>18, <1>19, <1>20 DEF PullRequestNext

LEMMA PublicationDecides ==
  ASSUME Inv, Known, Origin, Records, Decided, Answer, PublicationNext
  PROVE  Decided' /\ Answer'
<1>1. /\ TypeOK /\ op \in Owners /\ task \in TaskRecords /\ task \in survivors
     /\ op.commit \in Commits /\ tip \in Commits /\ task.publication.commit \in Commits
     /\ SoundRecord(task) /\ CleanRecord(task) /\ Agreements
  BY OwnerParts, ConsentStep DEF Inv, TypeOK, TaskRecords, Records, Known, DeliveryNext
<1>2. ASSUME NEW c \in {tip, task.publication.commit}, BeginPublication(c)
      PROVE  Decided' /\ Answer'
  <2>2. task.status # "work" /\ c \in consented' /\ c # NoCommit
    BY <1>2 DEF BeginPublication
  <2>3. op' # Idle =>
          /\ op'.step \in {"settle", "observe"}
          /\ op'.commit = c
          /\ op'.bound = NoCommit
    BY <1>2, <1>1, BeginPublicationTurn DEF Turn
  <2>4. task' = task /\ consented \subseteq consented'
    BY <1>2 DEF BeginPublication, record, Rest, history
  <2>5. op' # Idle => Decided'
    BY <2>2, <2>3, <2>4 DEF Decided, Admitted, Unpushed, Confirmed, Pending, CreateSteps,
    PublishSteps
  <2>6. op' # Idle => Answer'
    BY <2>3 DEF Answer, Pushed
  <2> QED BY <2>5, <2>6, NothingDecided
<1>3. ASSUME NEW read \in BOOLEAN, Settle(read) PROVE Decided' /\ Answer'
  <2>2. op' # Idle =>
          /\ op'.step = "verdict"
          /\ op'.commit = task.publication.commit
          /\ op'.bound = op.bound
    BY <1>3, <1>1, SettleTurn DEF Turn
  <2>3. op.step = "settle" /\ consented \subseteq consented' /\ reached \subseteq reached'
    BY <1>3, <1>1, SettleTurn DEF Turn, Agreements
  <2>4. task' = task
    BY <1>3 DEF Settle, Step, Refuse, Verdict, record, Rest
  <2>6. op' # Idle => Decided'
    BY <1>1, <2>2, <2>3, <2>4 DEF Decided, Admitted, Unpushed, Confirmed, Pending,
    CreateSteps, PublishSteps
  <2>7. op' # Idle /\ op'.verdict = "published" => Delivered(task.publication.commit)
    <3>1. op' # Idle /\ op'.verdict = "published" => Includes(remote, task.publication.commit)
      BY <1>3, <1>1 DEF Settle, Refuse, End, Owners
    <3> QED BY <1>1, <3>1, Contained DEF Known, CleanRecord, TaskRecords
  <2>9. op' # Idle => Answer'
    BY <2>2, <2>3, <2>7 DEF Answer, Pushed, Delivered, Includes
  <2> QED BY <2>6, <2>9, NothingDecided
<1>4. ASSUME NEW read \in BOOLEAN, Observe(read) PROVE Decided' /\ Answer'
  <2>2. op' # Idle =>
          /\ op'.step \in {"pend", "refuse"}
          /\ op'.commit = op.commit
          /\ op'.bound = op.bound
    BY <1>4, <1>1, ObserveTurn DEF Turn
  <2>3. op.step = "observe" /\ consented \subseteq consented' /\ reached \subseteq reached'
    BY <1>4, <1>1, ObserveTurn DEF Turn, Agreements
  <2>4. task' = task
    BY <1>4 DEF Observe, Step, Refuse, Verdict, record, Rest
  <2>6. op' # Idle => Decided'
    BY <1>1, <2>2, <2>3, <2>4 DEF Decided, Admitted, Unpushed, Confirmed, Pending,
    CreateSteps, PublishSteps
  <2>9. op' # Idle => Answer'
    BY <1>1, <2>2, <2>3 DEF Answer, Pushed, Delivered, Includes
  <2> QED BY <2>6, <2>9, NothingDecided
<1>5. ASSUME NEW o \in Outcomes, RefusePublication(o) PROVE Decided' /\ Answer'
  BY <1>5, <1>1, RefusePublicationTurn, NothingDecided DEF Turn
<1>6. ASSUME NEW o \in Outcomes, Pend(o) PROVE Decided' /\ Answer'
  <2>2. op' # Idle => op'.step = "recheck" /\ op'.commit = op.commit /\ op'.bound = op.bound
    BY <1>6, <1>1, PendTurn DEF Turn
  <2>3. op.step = "pend" /\ consented \subseteq consented' /\ reached \subseteq reached'
    BY <1>6, <1>1, PendTurn DEF Turn, Agreements
  <2>4. op' # Idle => task'.approved = task.approved /\ task'.pending = task.pending /\ task'.status = task.status
    <3>1. op' # Idle => Save([task EXCEPT !.publication = [state |-> "pending", commit |-> op.commit,
                                                   pr |-> op.pr]], o)
      BY <1>6 DEF Pend, Refuse, End, Publish
    <3> QED BY <1>1, <3>1, SaveFacts DEF TaskRecords
  <2>6. op' # Idle => Decided'
    BY <1>1, <2>2, <2>3, <2>4 DEF Decided, Admitted, Unpushed, Confirmed, Pending,
    CreateSteps, PublishSteps
  <2>9. op' # Idle => Answer'
    BY <1>1, <2>2, <2>3 DEF Answer, Pushed, Delivered, Includes
  <2> QED BY <2>6, <2>9, NothingDecided
<1>7. ASSUME NEW read \in BOOLEAN, Recheck(read) PROVE Decided' /\ Answer'
  <2>2. op' # Idle =>
          /\ op'.step \in {"send", "refuse"}
          /\ op'.commit = op.commit
          /\ op'.bound = op.bound
    BY <1>7, <1>1, RecheckTurn DEF Turn
  <2>3. op.step = "recheck" /\ consented \subseteq consented' /\ reached \subseteq reached'
    BY <1>7, <1>1, RecheckTurn DEF Turn, Agreements
  <2>4. task' = task
    BY <1>7 DEF Recheck, Step, Refuse, Verdict, record, Rest
  <2>6. op' # Idle => Decided'
    BY <1>1, <2>2, <2>3, <2>4 DEF Decided, Admitted, Unpushed, Confirmed, Pending,
    CreateSteps, PublishSteps
  <2>9. op' # Idle => Answer'
    BY <1>1, <2>2, <2>3 DEF Answer, Pushed, Delivered, Includes
  <2> QED BY <2>6, <2>9, NothingDecided
<1>8. ASSUME NEW sent \in BOOLEAN, NEW answered \in BOOLEAN, Send(sent, answered)
      PROVE  Decided' /\ Answer'
  <2>2. op' # Idle =>
          /\ op'.step \in {"refuse", "readBack"}
          /\ op'.commit = op.commit
          /\ op'.bound = op.bound
    BY <1>8, <1>1, SendTurn DEF Turn
  <2>3. op.step = "send" /\ consented \subseteq consented' /\ reached \subseteq reached'
    BY <1>8, <1>1, SendTurn DEF Turn, Agreements
  <2>4. task' = task
    BY <1>8 DEF Send, Step, Refuse, Verdict, record, Rest
  <2>6. op' # Idle => Decided'
    BY <1>1, <2>2, <2>3, <2>4 DEF Decided, Admitted, Unpushed, Confirmed, Pending,
    CreateSteps, PublishSteps
  <2>9. op' # Idle => Answer'
    BY <1>1, <2>2, <2>3 DEF Answer, Pushed, Delivered, Includes
  <2> QED BY <2>6, <2>9, NothingDecided
<1>9. ASSUME NEW read \in BOOLEAN, ReadBack(read) PROVE Decided' /\ Answer'
  <2>2. op' # Idle => op'.step = "verdict" /\ op'.commit = op.commit /\ op'.bound = op.bound
    BY <1>9, <1>1, ReadBackTurn DEF Turn
  <2>3. op.step = "readBack" /\ consented \subseteq consented' /\ reached \subseteq reached'
    BY <1>9, <1>1, ReadBackTurn DEF Turn, Agreements
  <2>4. task' = task
    BY <1>9 DEF ReadBack, Step, Refuse, Verdict, record, Rest
  <2>6. op' # Idle => Decided'
    BY <1>1, <2>2, <2>3, <2>4 DEF Decided, Admitted, Unpushed, Confirmed, Pending,
    CreateSteps, PublishSteps
  <2>7. op'.verdict = "published" => Delivered(op.commit)
    <3>1. op'.verdict = "published" => remote = op.commit
      <4>1. op' = [op EXCEPT !.step = "verdict", !.before = NoCommit,
                   !.verdict = IF ~read THEN "unknown"
                               ELSE IF remote = op.commit THEN "published"
                               ELSE IF op.verdict = "error" /\ remote = op.before THEN "refused"
                               ELSE "unknown"]
        BY <1>9 DEF ReadBack, Verdict
      <4> QED BY <1>1, <4>1 DEF Owners
    <3>2. op.commit # NoCommit
      BY <1>1, <2>3 DEF Decided, Confirmed
    <3> QED BY <1>1, <3>1, <3>2, Contained, OwnPush DEF Known
  <2>9. op' # Idle => Answer'
    BY <1>1, <2>2, <2>3, <2>7 DEF Answer, Pushed, Delivered, Includes
  <2> QED BY <2>6, <2>9, NothingDecided
<1>10. ASSUME NEW o \in Outcomes, SettlePublication(o) PROVE Decided' /\ Answer'
  BY <1>10, <1>1, SettlePublicationTurn, NothingDecided DEF Turn
<1> QED
  BY <1>2, <1>3, <1>4, <1>5, <1>6, <1>7, <1>8, <1>9, <1>10 DEF PublicationNext

LEMMA RepublishDecides ==
  ASSUME Inv, Known, Origin, Records, Decided, Answer, RepublishNext
  PROVE  Decided' /\ Answer'
<1>1. /\ TypeOK /\ op \in Owners /\ task \in TaskRecords /\ task \in survivors
     /\ op.commit \in Commits /\ tip \in Commits /\ task.publication.commit \in Commits
     /\ SoundRecord(task) /\ CleanRecord(task) /\ Agreements
  BY OwnerParts, ConsentStep DEF Inv, TypeOK, TaskRecords, Records, Known, DeliveryNext
<1>2. ASSUME BeginRestack PROVE Decided' /\ Answer'
  <2>2. tip \in consented' /\ tip.base = "old" /\ tip # NoCommit
    BY <1>2 DEF BeginRestack, NoCommit
  <2>3. op' # Idle => op'.step = "plan" /\ op'.commit = tip /\ op'.bound = NoCommit
    BY <1>2, <1>1, BeginRestackTurn DEF Turn
  <2>4. task' = task /\ consented \subseteq consented'
    BY <1>2 DEF BeginRestack, record, Rest, history
  <2>5. op' # Idle => Decided'
    BY <2>2, <2>3, <2>4 DEF Decided, Admitted, Unpushed, Confirmed, Pending, CreateSteps,
    PublishSteps
  <2>6. op' # Idle => Answer'
    BY <2>3 DEF Answer, Pushed
  <2> QED BY <2>5, <2>6, NothingDecided
<1>3. ASSUME NEW o \in Outcomes, PlanRewrite(o) PROVE Decided' /\ Answer'
  <2>2. op' # Idle => op'.step = "advance" /\ op'.commit = op.commit /\ op'.bound = op.bound
    BY <1>3, <1>1, PlanRewriteTurn DEF Turn
  <2>3. op.step = "plan" /\ consented \subseteq consented' /\ reached \subseteq reached'
    BY <1>3, <1>1, PlanRewriteTurn DEF Turn, Agreements
  <2>4. op' # Idle => /\ task'.approved = task.approved /\ task'.status = task.status
                      /\ task'.pending # NoRestack
    <3> DEFINE t == [task EXCEPT !.pending = [state |-> "planned", previous |-> op.commit,
                                              pr |-> op.pr]]
    <3>1. op' # Idle => Save(t, o) /\ o = "saved"
      BY <1>3 DEF PlanRewrite, Refuse, End
    <3>2. t.approved = task.approved /\ t.status = task.status
          /\ t.pending = [state |-> "planned", previous |-> op.commit, pr |-> op.pr]
      BY <1>1 DEF TaskRecords
    <3> HIDE DEF t
    <3> QED BY <1>1, <3>1, <3>2, SaveFacts, RestackParts, OwnerParts
  <2>6. op' # Idle => Decided'
    BY <1>1, <2>2, <2>3, <2>4 DEF Decided, Admitted, Unpushed, Confirmed, Pending,
    CreateSteps, PublishSteps
  <2>9. op' # Idle => Answer'
    BY <1>1, <2>2, <2>3 DEF Answer, Pushed, Delivered, Includes
  <2> QED BY <2>6, <2>9, NothingDecided
<1>4. ASSUME Resume PROVE Decided' /\ Answer'
  <2>2. task.pending # NoRestack
    BY <1>4 DEF Resume
  <2>3. op' # Idle => op'.step = "advance" /\ op'.commit = Approved /\ op'.bound = NoCommit
    BY <1>4, <1>1, ResumeTurn DEF Turn
  <2>4. task' = task /\ consented \subseteq consented'
    BY <1>4 DEF Resume, record, Rest, history
  <2>5. op' # Idle => Decided'
    BY <2>2, <2>3, <2>4 DEF Decided, Admitted, Unpushed, Confirmed, Pending, CreateSteps,
    PublishSteps
  <2>6. op' # Idle => Answer'
    BY <2>3 DEF Answer, Pushed
  <2> QED BY <2>5, <2>6, NothingDecided
<1>5. ASSUME Advance PROVE Decided' /\ Answer'
  <2>2. op' # Idle =>
          /\ op'.step \in {"checkRemote", "adopt", "replay"}
          /\ op'.commit = op.commit
          /\ op'.bound = op.bound
    BY <1>5, <1>1, AdvanceTurn DEF Turn
  <2>3. op.step = "advance" /\ consented \subseteq consented' /\ reached \subseteq reached'
    BY <1>5, <1>1, AdvanceTurn DEF Turn, Agreements
  <2>4. task' = task
    BY <1>5 DEF Advance, Step, Refuse, Verdict, record, Rest
  <2>5. op'.step = "checkRemote" => task.base = "landed"
    BY <1>5, <1>1, IdleStep DEF Advance, Step, Refuse, Goto, End, SoundRecord, Owners,
    Decided, Pending, At
  <2>6. op' # Idle => Decided'
    BY <1>1, <2>2, <2>3, <2>4, <2>5 DEF Decided, Admitted, Unpushed, Confirmed, Pending,
    CreateSteps, PublishSteps
  <2>9. op' # Idle => Answer'
    BY <1>1, <2>2, <2>3 DEF Answer, Pushed, Delivered, Includes
  <2> QED BY <2>6, <2>9, NothingDecided
<1>6. ASSUME NEW clean \in BOOLEAN, ReplayPublished(clean) PROVE Decided' /\ Answer'
  <2>2. op' # Idle =>
          /\ op'.step \in {"recordRewrite", "clear"}
          /\ op'.commit = op.commit
          /\ op'.bound = op.bound
    BY <1>6, <1>1, ReplayPublishedTurn DEF Turn
  <2>3. op.step = "replay" /\ consented \subseteq consented' /\ reached \subseteq reached'
    BY <1>6, <1>1, ReplayPublishedTurn DEF Turn, Agreements
  <2>4. task' = task
    BY <1>6 DEF ReplayPublished, Step, Refuse, Verdict, record, Rest
  <2>6. op' # Idle => Decided'
    BY <1>1, <2>2, <2>3, <2>4 DEF Decided, Admitted, Unpushed, Confirmed, Pending,
    CreateSteps, PublishSteps
  <2>9. op' # Idle => Answer'
    BY <1>1, <2>2, <2>3 DEF Answer, Pushed, Delivered, Includes
  <2> QED BY <2>6, <2>9, NothingDecided
<1>7. ASSUME NEW o \in Outcomes, RecordRewrite(o) PROVE Decided' /\ Answer'
  <2>2. op' # Idle =>
          /\ op'.step \in {"checkRemote", "clear"}
          /\ op'.commit = op.commit
          /\ op'.bound = op.bound
    BY <1>7, <1>1, RecordRewriteTurn DEF Turn
  <2>3. op.step = "recordRewrite" /\ consented \subseteq consented' /\ reached \subseteq reached'
    BY <1>7, <1>1, RecordRewriteTurn DEF Turn, Agreements
  <2>4. op' # Idle => /\ task'.approved = task.approved /\ task'.status = task.status
                      /\ op'.step = "checkRemote" => /\ task'.pending # NoRestack
                                                     /\ task'.base = "landed"
    <3>1. RewriteRecorded.approved = task.approved /\ RewriteRecorded.status = task.status
          /\ RewriteRecorded.pending.state = "rewritten" /\ RewriteRecorded.base = "landed"
      BY <1>1 DEF TaskRecords, RewriteRecorded
    <3>2. Save(RewriteRecorded, o)
      BY <1>7 DEF RecordRewrite
    <3>3. op' # Idle /\ op'.step = "checkRemote" => o = "saved"
      BY <1>7, <1>1 DEF RecordRewrite, Goto, End, Owners
    <3> QED BY <1>1, <3>1, <3>2, <3>3, SaveFacts, RestackParts
  <2>6. op' # Idle => Decided'
    BY <1>1, <2>2, <2>3, <2>4 DEF Decided, Admitted, Unpushed, Confirmed, Pending,
    CreateSteps, PublishSteps
  <2>9. op' # Idle => Answer'
    BY <1>1, <2>2, <2>3 DEF Answer, Pushed, Delivered, Includes
  <2> QED BY <2>6, <2>9, NothingDecided
<1>8. ASSUME NEW o \in Outcomes, AdoptRewrite(o) PROVE Decided' /\ Answer'
  <2>2. op' # Idle =>
          /\ op'.step = "checkRemote"
          /\ op'.commit = op.commit
          /\ op'.bound = op.bound
    BY <1>8, <1>1, AdoptRewriteTurn DEF Turn
  <2>3. op.step = "adopt" /\ consented \subseteq consented' /\ reached \subseteq reached'
    BY <1>8, <1>1, AdoptRewriteTurn DEF Turn, Agreements
  <2>4. op' # Idle => /\ task'.approved = task.approved /\ task'.status = task.status
                      /\ op'.step = "checkRemote" => /\ task'.pending # NoRestack
                                                     /\ task'.base = "landed"
    <3>1. RewriteRecorded.approved = task.approved /\ RewriteRecorded.status = task.status
          /\ RewriteRecorded.pending.state = "rewritten" /\ RewriteRecorded.base = "landed"
      BY <1>1 DEF TaskRecords, RewriteRecorded
    <3>2. Save(RewriteRecorded, o)
      BY <1>8 DEF AdoptRewrite
    <3>3. op' # Idle /\ op'.step = "checkRemote" => o = "saved"
      BY <1>8, <1>1 DEF AdoptRewrite, Goto, End, Owners
    <3> QED BY <1>1, <3>1, <3>2, <3>3, SaveFacts, RestackParts
  <2>6. op' # Idle => Decided'
    BY <1>1, <2>2, <2>3, <2>4 DEF Decided, Admitted, Unpushed, Confirmed, Pending,
    CreateSteps, PublishSteps
  <2>9. op' # Idle => Answer'
    BY <1>1, <2>2, <2>3 DEF Answer, Pushed, Delivered, Includes
  <2> QED BY <2>6, <2>9, NothingDecided
<1>9. ASSUME NEW o \in Outcomes, ClearPending(o) PROVE Decided' /\ Answer'
  BY <1>9, <1>1, ClearPendingTurn, NothingDecided DEF Turn
<1>10. ASSUME CheckRemote PROVE Decided' /\ Answer'
  <2>2. op' # Idle =>
          /\ op'.step \in {"finish", "force"}
          /\ op'.commit = op.commit
          /\ op'.bound = op.bound
    BY <1>10, <1>1, CheckRemoteTurn DEF Turn
  <2>3. op.step = "checkRemote" /\ consented \subseteq consented' /\ reached \subseteq reached'
    BY <1>10, <1>1, CheckRemoteTurn DEF Turn, Agreements
  <2>4. task' = task
    BY <1>10 DEF CheckRemote, Step, Refuse, Verdict, record, Rest
  <2>6. op' # Idle => Decided'
    BY <1>1, <2>2, <2>3, <2>4 DEF Decided, Admitted, Unpushed, Confirmed, Pending,
    CreateSteps, PublishSteps
  <2>9. op' # Idle => Answer'
    BY <1>1, <2>2, <2>3 DEF Answer, Pushed, Delivered, Includes
  <2> QED BY <2>6, <2>9, NothingDecided
<1>11. ASSUME NEW sent \in BOOLEAN, NEW answered \in BOOLEAN, ForcePush(sent, answered)
      PROVE  Decided' /\ Answer'
  <2>2. op' # Idle => op'.step = "finish" /\ op'.commit = op.commit /\ op'.bound = op.bound
    BY <1>11, <1>1, ForcePushTurn DEF Turn
  <2>3. op.step = "force" /\ consented \subseteq consented' /\ reached \subseteq reached'
    BY <1>11, <1>1, ForcePushTurn DEF Turn, Agreements
  <2>4. task' = task
    BY <1>11 DEF ForcePush, Step, Refuse, Verdict, record, Rest
  <2>6. op' # Idle => Decided'
    BY <1>1, <2>2, <2>3, <2>4 DEF Decided, Admitted, Unpushed, Confirmed, Pending,
    CreateSteps, PublishSteps
  <2>9. op' # Idle => Answer'
    BY <1>1, <2>2, <2>3 DEF Answer, Pushed, Delivered, Includes
  <2> QED BY <2>6, <2>9, NothingDecided
<1>12. ASSUME NEW retargeted \in BOOLEAN, NEW o \in Outcomes, Finish(retargeted, o)
      PROVE  Decided' /\ Answer'
  BY <1>12, <1>1, FinishTurn, NothingDecided DEF Turn
<1>13. ASSUME BeginDiscardRestack PROVE Decided' /\ Answer'
  <2>3. op' # Idle => op'.step = "goBack" /\ op'.commit = Approved /\ op'.bound = NoCommit
    BY <1>13, <1>1, BeginDiscardRestackTurn DEF Turn
  <2>4. task' = task /\ consented \subseteq consented'
    BY <1>13 DEF BeginDiscardRestack, record, Rest, history
  <2>5. op' # Idle => Decided'
    BY <2>3, <2>4 DEF Decided, Admitted, Unpushed, Confirmed, Pending, CreateSteps, PublishSteps
  <2>6. op' # Idle => Answer'
    BY <2>3 DEF Answer, Pushed
  <2> QED BY <2>5, <2>6, NothingDecided
<1>14. ASSUME GoBack PROVE Decided' /\ Answer'
  <2>2. op' # Idle =>
          /\ op'.step = "dropRecord"
          /\ op'.commit = op.commit
          /\ op'.bound = op.bound
    BY <1>14, <1>1, GoBackTurn DEF Turn
  <2>3. op.step = "goBack" /\ consented \subseteq consented' /\ reached \subseteq reached'
    BY <1>14, <1>1, GoBackTurn DEF Turn, Agreements
  <2>4. task' = task
    BY <1>14 DEF GoBack, Step, Refuse, Verdict, record, Rest
  <2>6. op' # Idle => Decided'
    BY <1>1, <2>2, <2>3, <2>4 DEF Decided, Admitted, Unpushed, Confirmed, Pending,
    CreateSteps, PublishSteps
  <2>9. op' # Idle => Answer'
    BY <1>1, <2>2, <2>3 DEF Answer, Pushed, Delivered, Includes
  <2> QED BY <2>6, <2>9, NothingDecided
<1>15. ASSUME NEW o \in Outcomes, DropRecord(o) PROVE Decided' /\ Answer'
  BY <1>15, <1>1, DropRecordTurn, NothingDecided DEF Turn
<1> QED
  BY <1>2, <1>3, <1>4, <1>5, <1>6, <1>7, <1>8, <1>9, <1>10, <1>11, <1>12, <1>13, <1>14,
  <1>15 DEF RepublishNext

------------------------------------------------------------------------------
(* The history of a delivery *)

History == Inv /\ Known /\ Origin /\ Records /\ Decided /\ Answer

LEMMA InitHistory == ASSUME Init PROVE History
<1>1. Inv
  BY InitInvariant
<1>2. /\ tip = [base |-> "old", own |-> <<1>>] /\ op = Idle /\ remote = NoCommit
      /\ consented = {} /\ survivors = {task}
  BY DEF Init
<1>3. /\ task.approved = NoCommit /\ task.asked = NoCommit
      /\ task.publication = NoPublication /\ task.pending = NoRestack
  BY DEF Init
<1>4. Clean(NoCommit) /\ Clean(tip)
  <2>1. made = 1
    BY DEF Init
  <2> QED BY <1>2, <2>1, CleanCommits DEF Clean, NamedUpTo
<1>5. Known
  <2>1. op.commit = NoCommit
    BY <1>2 DEF Idle
  <2>2. CleanRecord(task)
    BY <1>3, <1>4 DEF CleanRecord, NoPublication, NoRestack
  <2> QED BY <1>2, <1>4, <2>1, <2>2 DEF Known
<1>6. Origin
  BY <1>2 DEF Origin
<1>7. Records
  BY <1>2, <1>3 DEF Records, SoundRecord, Truthful, NoPublication
<1>8. Decided /\ Answer
  <2>1. op.step = "idle" /\ op.bound = NoCommit
    BY <1>2 DEF Idle
  <2> QED
    BY <2>1 DEF Decided, Answer, Admitted, Unpushed, Confirmed, Pending, Pushed, CreateSteps,
    PublishSteps
<1> QED BY <1>1, <1>5, <1>6, <1>7, <1>8 DEF History

LEMMA NextHistory == ASSUME History, [DeliveryNext]_vars PROVE History'
<1>1. CASE UNCHANGED vars
  <2>1. Inv'
    BY <1>1, NextInvariant DEF History
  <2>2. UNCHANGED <<tip, made, op, consented, survivors, remote, reached, task>>
    BY <1>1 DEF vars, record, branch, github, history
  <2>3. Known' /\ Origin'
    BY <2>2 DEF History, Known, Origin, CleanRecord, Clean, NamedUpTo
  <2>4. Records'
    BY <2>2 DEF History, Records, SoundRecord, Truthful, Delivered
  <2>5. Decided'
    BY <2>2, Zenon DEF History, Decided
  <2>6. Answer'
    BY <2>2 DEF History, Answer, Delivered
  <2> QED BY <2>1, <2>3, <2>4, <2>5, <2>6 DEF History
<1>2. CASE DeliveryNext
  <2>1. Inv' /\ TypeOK /\ TypeOK'
    BY NextInvariant DEF History, Inv
  <2>2. Known' /\ Origin' /\ Records'
    BY <1>2, <2>1, KnownInvariant, OriginInvariant, RecordsInvariant DEF History
  <2>3. Decided' /\ Answer'
    <3>1. CASE Surroundings
      BY <2>1, <3>1, SurroundingsStep, StillDecided DEF History
    <3>2. CASE PullRequestNext
      BY <3>2, PullRequestDecides DEF History
    <3>3. CASE PublicationNext
      BY <3>3, PublicationDecides DEF History
    <3>4. CASE RepublishNext
      BY <3>4, RepublishDecides DEF History
    <3> QED BY <1>2, <3>1, <3>2, <3>3, <3>4 DEF DeliveryNext
  <2> QED BY <2>1, <2>2, <2>3 DEF History
<1> QED BY <1>1, <1>2

LEMMA HistoryInvariant == DeliverySpec => []History
<1>1. DeliverySpec => []Inv
  BY Invariance
<1> QED BY InitHistory, NextHistory, PTL DEF DeliverySpec

\* PublishedReached: what any surviving record calls published was put on origin,
\* or is part of what was, whatever others pushed there since.
THEOREM PublicationsReached == DeliverySpec => []PublishedReached
<1>1. History => PublishedReached
  BY DEF History, Records, Truthful, Delivered, PublishedReached
<1> QED BY <1>1, HistoryInvariant, PTL

\* ForeignWorkSurvives: a push of SlashIt's contains what somebody else had put on
\* the branch; the restack's forced push goes out only over a commit made here.
THEOREM ForeignWorkKept == DeliverySpec => ForeignWorkSurvives
<1>1. ASSUME History, DeliveryNext, 0 \in Range(remote.own), remote' # NoCommit
      PROVE  Includes(remote', remote)
  <2>1. TypeOK /\ remote \in Commits /\ task \in survivors /\ CleanRecord(task)
    BY <1>1 DEF History, Inv, TypeOK, Known
  <2>2. remote # NoCommit /\ ~Clean(remote)
    BY <1>1, <2>1, CommitParts DEF Range, NoCommit, Clean, NamedUpTo
  <2>3. CASE remote' = remote
    BY <2>1, <2>2, <2>3, OwnPush
  <2>4. CASE remote' = [remote EXCEPT !.own = Append(@, 0)]
    BY <2>1, <2>2, <2>4, OthersPush
  <2>5. CASE FastForward(op.commit) /\ RemoteAt(op.commit)
    BY <2>2, <2>5 DEF FastForward, RemoteAt
  <2>6. remote # Approved
    BY <2>1, <2>2 DEF CleanRecord, Approved
  <2> QED BY <1>1, <2>1, <2>3, <2>4, <2>5, <2>6, RemoteStep DEF Contacts
<1>2. ASSUME History, [DeliveryNext]_vars
      PROVE  [0 \in Range(remote.own) => remote' = NoCommit \/ Includes(remote', remote)]_vars
  BY <1>1, <1>2
<1> QED BY <1>2, HistoryInvariant, PTL DEF DeliverySpec, ForeignWorkSurvives

\* NothingPublishedAtWork: a delivery ends, or is over, before the task goes back to
\* work; a restack asked for meanwhile is all that still pushes.
THEOREM NothingPublishedDuringWork == DeliverySpec => NothingPublishedAtWork
<1>1. ASSUME History, DeliveryNext, task.status = "work", remote' # remote
      PROVE  outside' # outside \/ op.step = "force"
  <2>1. op.step \notin {"toExisting", "push", "send"}
    BY <1>1 DEF History, Decided, CreateSteps, PublishSteps
  <2> QED BY <1>1, <2>1, RemoteStep DEF Contacts, History, Inv
<1>2. ASSUME History, [DeliveryNext]_vars
      PROVE  [task.status = "work" /\ remote' # remote =>
                outside' # outside \/ op.step = "force"]_vars
  BY <1>1, <1>2
<1> QED BY <1>2, HistoryInvariant, PTL DEF DeliverySpec, NothingPublishedAtWork

------------------------------------------------------------------------------
(* A rewritten branch can be taken back *)

LEMMA ReversibleKept ==
  ASSUME TypeOK, Backed, DeliveryNext, tip'.base = tip.base,
         backup' = backup, oldBackup' = oldBackup
  PROVE  Returnable'
<1>1. task \in survivors /\ consented \subseteq consented'
  BY ConsentStep DEF TypeOK, Agreements
<1>2. SUFFICES ASSUME tip'.base = "landed", NEW t \in survivors', t.base = "old"
               PROVE  \E c \in {backup, oldBackup} : c.base = "old" /\ c \in consented
  BY <1>1 DEF Backed, Returnable, RewriteIsReversible
<1>3. \E s \in survivors : s.base = "old"
  <2>1. CASE t \in survivors
    BY <1>2, <2>1
  <2>2. CASE Written(t)
    BY <1>1, <1>2, <2>2 DEF Written, Backed
  <2> QED BY <1>2, <2>1, <2>2, RecordOrigin
<1> QED BY <1>2, <1>3 DEF Backed, Returnable, RewriteIsReversible

\* A branch on its old base needs no backup, nor one whose new base is durable.
LEMMA NeedsNoBackup ==
  ASSUME \/ tip'.base = "old"
         \/ tip'.base # "none" /\ \A t \in survivors' : t.base = "landed"
  PROVE  Returnable'
BY DEF Returnable, RewriteIsReversible

\* The steps that rely on a backup, or on where a restack goes back to.
BackedSteps == {"restackReplay", "restackRecord", "replay", "dropRecord", "goBack"}

LEMMA OtherSteps ==
  ASSUME Returnable', op'.step \notin BackedSteps
  PROVE  Backed'
BY DEF Backed, BackedSteps

LEMMA SurroundingsBacked == ASSUME TypeOK, Backed, Surroundings PROVE Backed'
<1>1. tip \in Commits
  BY DEF TypeOK
<1>2. tip'.base = tip.base /\ backup' = backup /\ oldBackup' = oldBackup
  <2>1. UNCHANGED branch \/ Commit \/ Amend
    BY DEF Surroundings, GiveUpMove, ForeignPush, ForeignDelete, ForeignOpen, Close, List,
    ParentLands, Crash, BeginMove, Approve, ApproveAgain, FinishRun, CompleteMove
  <2>2. CASE Commit
    BY <1>1, <2>2 DEF Commit, Commits
  <2>3. CASE Amend
    BY <1>1, <2>3 DEF Amend, Commits
  <2> QED BY <2>1, <2>2, <2>3 DEF branch
<1>3. Returnable'
  BY <1>2, ReversibleKept DEF DeliveryNext
<1>4. CASE op' = Idle
  BY <1>3, <1>4, IdleStep, OtherSteps DEF BackedSteps
<1>5. CASE Undecided
  BY <1>2, <1>3, <1>5, Zenon DEF Undecided, Backed, Approved
<1> QED BY <1>4, <1>5, SurroundingsStep

LEMMA PullRequestBacked == ASSUME History, Backed, PullRequestNext PROVE Backed'
<1>1. /\ TypeOK /\ op \in Owners /\ task \in TaskRecords /\ task \in survivors
     /\ op.commit \in Commits /\ tip \in Commits /\ task.pending.previous \in Commits
     /\ SoundRecord(task) /\ consented \subseteq consented'
  BY OwnerParts, ConsentStep DEF Agreements, History, Inv, TypeOK, TaskRecords, Records,
  DeliveryNext
<1>2. ASSUME BeginCreate PROVE Backed'
  <2>1. op'.step \in {"lookup", "idle"}
    BY <1>2, <1>1, BeginCreateTurn, IdleStep DEF Turn
  <2>2. tip' = tip /\ backup' = backup /\ oldBackup' = oldBackup
    BY <1>2 DEF BeginCreate, Step, Refuse, Verdict, record, branch
  <2>3. Returnable'
    BY <1>1, <2>2, ReversibleKept DEF DeliveryNext
  <2> QED BY <2>1, <2>3, OtherSteps DEF BackedSteps
<1>3. ASSUME Lookup PROVE Backed'
  <2>1. op'.step \in {"toExisting", "restack", "push", "idle"}
    BY <1>3, <1>1, LookupTurn, IdleStep DEF Turn
  <2>2. tip' = tip /\ backup' = backup /\ oldBackup' = oldBackup
    BY <1>3 DEF Lookup, Step, Refuse, Verdict, record, branch
  <2>3. Returnable'
    BY <1>1, <2>2, ReversibleKept DEF DeliveryNext
  <2> QED BY <2>1, <2>3, OtherSteps DEF BackedSteps
<1>4. ASSUME NEW sent \in BOOLEAN, ToExisting(sent) PROVE Backed'
  <2>1. op'.step \in {"link", "idle"}
    BY <1>4, <1>1, ToExistingTurn, IdleStep DEF Turn
  <2>2. tip' = tip /\ backup' = backup /\ oldBackup' = oldBackup
    BY <1>4 DEF ToExisting, Step, Refuse, Verdict, record, branch
  <2>3. Returnable'
    BY <1>1, <2>2, ReversibleKept DEF DeliveryNext
  <2> QED BY <2>1, <2>3, OtherSteps DEF BackedSteps
<1>5. ASSUME PlanRestack PROVE Backed'
  <2>1. op'.step \in {"restackReplay", "idle"}
    BY <1>5, <1>1, PlanRestackTurn, IdleStep DEF Turn
  <2>2. op.step = "restack" /\ op.commit = op.bound /\ op.bound # NoCommit /\ op.commit \in consented
    BY <1>5, <1>1 DEF PlanRestack, At, History, Decided, Admitted, Unpushed
  <2>3. tip' = tip /\ backup' = backup /\ survivors' = survivors
    BY <1>5 DEF PlanRestack, Refuse, record, branch
  <2>4. \/ oldBackup' = oldBackup /\ op'.step = "idle"
        \/ oldBackup \in {NoCommit, tip} /\ oldBackup' = NoCommit /\ op'.step = "idle"
        \/ /\ oldBackup \in {NoCommit, tip} /\ tip = op.commit /\ oldBackup' = tip
           /\ op'.commit = op.commit
    BY <1>5, <1>1, IdleStep DEF PlanRestack, Refuse, End, Goto, branch, Owners
  <2>5. Returnable'
    <3>1. oldBackup' = oldBackup \/ oldBackup.base # "old" \/ tip.base = "old"
      BY <2>4 DEF NoCommit
    <3> QED BY <1>1, <2>3, <3>1 DEF Backed, Returnable, RewriteIsReversible
  <2> QED BY <2>1, <2>3, <2>4, <2>5 DEF Backed
<1>6. ASSUME NEW clean \in BOOLEAN, Replay(clean) PROVE Backed'
  <2>1. op'.step \in {"restackRecord", "idle"}
    BY <1>6, <1>1, ReplayTurn, IdleStep DEF Turn
  <2>2. /\ op.step = "restackReplay" /\ oldBackup = op.commit /\ tip.base = op.commit.base
        /\ op.commit \in consented
    BY <1>6, <1>1 DEF Replay, At, Backed, History, Decided, Admitted, Unpushed
  <2>3. backup' = backup /\ survivors' = survivors
    BY <1>6 DEF Replay, record
  <2>4. \/ tip' = Replayed(tip) /\ oldBackup' = oldBackup /\ op'.commit = op.commit
        \/ tip' = op.commit /\ oldBackup' = NoCommit /\ op'.step = "idle"
        \/ tip' = tip /\ oldBackup' = oldBackup /\ op'.step = "idle"
    BY <1>6, <1>1, IdleStep DEF Replay, End, Goto, Owners
  <2>5. op.commit.base \in {"old", "landed", "none"} /\ Replayed(tip).base = "landed"
    BY <1>1, CommitTypes DEF Commits
  <2>6. Returnable'
    <3>1. CASE op.commit.base = "old"
      BY <1>1, <2>2, <2>3, <2>4, <2>5, <3>1 DEF Backed, Returnable, RewriteIsReversible
    <3>2. CASE op.commit.base = "landed"
      BY <1>1, <2>2, <2>3, <2>4, <2>5, <3>2 DEF Backed, Returnable, RewriteIsReversible
    <3>3. CASE op.commit.base = "none"
      BY <1>1, <2>2, <3>3 DEF Backed, Returnable
    <3> QED BY <2>5, <3>1, <3>2, <3>3
  <2>7. op.commit.base # "none"
    BY <2>2 DEF Backed, Returnable
  <2> QED BY <2>1, <2>2, <2>4, <2>6, <2>7 DEF Backed
<1>7. ASSUME NEW o \in Outcomes, RecordRestack(o) PROVE Backed'
  <2>1. op'.step \in {"push", "idle"}
    BY <1>7, <1>1, RecordRestackTurn, IdleStep DEF Turn
  <2>2. oldBackup = op.commit /\ op.commit \in Commits /\ op.commit.base # "none"
    BY <1>7, <1>1 DEF RecordRestack, At, Backed
  <2>3. /\ backup' = backup
        /\ \A t \in survivors' : t \in survivors \/ t.base = "landed"
        /\ o = "saved" => \A t \in survivors' : t.base = "landed"
    <3> DEFINE t == [task EXCEPT !.base = "landed"]
    <3>1. t.base = "landed"
      BY <1>1 DEF TaskRecords
    <3>2. Save(t, o) /\ backup' = backup
      BY <1>7 DEF RecordRestack
    <3> HIDE DEF t
    <3> QED BY <1>1, <3>1, <3>2, SaveFacts
  <2>4. \/ o = "saved"
        \/ tip' = op.commit /\ oldBackup' = NoCommit /\ tip = Replayed(op.commit)
        \/ tip' = tip /\ oldBackup' = oldBackup
    BY <1>7 DEF RecordRestack
  <2>5. Returnable'
    <3>1. CASE o = "saved"
      <4>1. tip' = tip
        BY <1>7, <3>1 DEF RecordRestack
      <4> QED BY <2>3, <3>1, <4>1, NeedsNoBackup DEF Backed, Returnable
    <3>2. CASE tip' = tip /\ oldBackup' = oldBackup
      BY <1>1, <2>3, <3>2 DEF Backed, Returnable, RewriteIsReversible
    <3>3. CASE tip' = op.commit /\ oldBackup' = NoCommit /\ tip = Replayed(op.commit)
      <4>1. tip.base = "landed"
        BY <2>2, <3>3, CommitTypes
      <4> QED BY <1>1, <2>2, <2>3, <3>3, <4>1 DEF Backed, Returnable, RewriteIsReversible
    <3> QED BY <2>4, <3>1, <3>2, <3>3
  <2> QED BY <2>1, <2>5, OtherSteps DEF BackedSteps
<1>8. ASSUME NEW sent \in BOOLEAN, NEW answered \in BOOLEAN, Push(sent, answered) PROVE Backed'
  <2>1. op'.step \in {"confirmPush", "idle"}
    BY <1>8, <1>1, PushTurn, IdleStep DEF Turn
  <2>2. tip' = tip /\ backup' = backup /\ oldBackup' = oldBackup
    BY <1>8 DEF Push, Step, Refuse, Verdict, record, branch
  <2>3. Returnable'
    BY <1>1, <2>2, ReversibleKept DEF DeliveryNext
  <2> QED BY <2>1, <2>3, OtherSteps DEF BackedSteps
<1>9. ASSUME NEW read \in BOOLEAN, ConfirmPush(read) PROVE Backed'
  <2>1. op'.step \in {"lookupAgain", "idle"}
    BY <1>9, <1>1, ConfirmPushTurn, IdleStep DEF Turn
  <2>2. tip' = tip /\ backup' = backup /\ oldBackup' = oldBackup
    BY <1>9 DEF ConfirmPush, Step, Refuse, Verdict, record, branch
  <2>3. Returnable'
    BY <1>1, <2>2, ReversibleKept DEF DeliveryNext
  <2> QED BY <2>1, <2>3, OtherSteps DEF BackedSteps
<1>10. ASSUME LookupAgain PROVE Backed'
  <2>1. op'.step \in {"link", "announce", "idle"}
    BY <1>10, <1>1, LookupAgainTurn, IdleStep DEF Turn
  <2>2. tip' = tip /\ backup' = backup /\ oldBackup' = oldBackup
    BY <1>10 DEF LookupAgain, Step, Refuse, Verdict, record, branch
  <2>3. Returnable'
    BY <1>1, <2>2, ReversibleKept DEF DeliveryNext
  <2> QED BY <2>1, <2>3, OtherSteps DEF BackedSteps
<1>11. ASSUME NEW o \in Outcomes, Announce(o) PROVE Backed'
  <2>1. op'.step \in {"create", "retract", "idle"}
    BY <1>11, <1>1, AnnounceTurn, IdleStep DEF Turn
  <2>2. tip' = tip /\ backup' = backup /\ oldBackup' = oldBackup
    BY <1>11 DEF Announce, Step, Refuse, Verdict, record, branch
  <2>3. Returnable'
    BY <1>1, <2>2, ReversibleKept DEF DeliveryNext
  <2> QED BY <2>1, <2>3, OtherSteps DEF BackedSteps
<1>12. ASSUME NEW answer \in {"opened", "lost", "rejected", "not sent"}, Create(answer)
      PROVE  Backed'
  <2>1. op'.step \in {"retract", "reconcile", "confirmCreated", "idle"}
    BY <1>12, <1>1, CreateTurn, IdleStep DEF Turn
  <2>2. tip' = tip /\ backup' = backup /\ oldBackup' = oldBackup
    BY <1>12 DEF Create, Step, Refuse, Verdict, record, branch
  <2>3. Returnable'
    BY <1>1, <2>2, ReversibleKept DEF DeliveryNext
  <2> QED BY <2>1, <2>3, OtherSteps DEF BackedSteps
<1>13. ASSUME NEW read \in BOOLEAN, ConfirmCreated(read) PROVE Backed'
  <2>1. op'.step \in {"link", "idle"}
    BY <1>13, <1>1, ConfirmCreatedTurn, IdleStep DEF Turn
  <2>2. tip' = tip /\ backup' = backup /\ oldBackup' = oldBackup
    BY <1>13 DEF ConfirmCreated, Step, Refuse, Verdict, record, branch
  <2>3. Returnable'
    BY <1>1, <2>2, ReversibleKept DEF DeliveryNext
  <2> QED BY <2>1, <2>3, OtherSteps DEF BackedSteps
<1>14. ASSUME NEW read \in BOOLEAN, Reconcile(read) PROVE Backed'
  <2>1. op'.step \in {"confirmCreated", "retract", "idle"}
    BY <1>14, <1>1, ReconcileTurn, IdleStep DEF Turn
  <2>2. tip' = tip /\ backup' = backup /\ oldBackup' = oldBackup
    BY <1>14 DEF Reconcile, Step, Refuse, Verdict, record, branch
  <2>3. Returnable'
    BY <1>1, <2>2, ReversibleKept DEF DeliveryNext
  <2> QED BY <2>1, <2>3, OtherSteps DEF BackedSteps
<1>15. ASSUME NEW o \in Outcomes, Retract(o) PROVE Backed'
  <2>1. op'.step \in {"idle"}
    BY <1>15, <1>1, RetractTurn, IdleStep DEF Turn
  <2>2. tip' = tip /\ backup' = backup /\ oldBackup' = oldBackup
    BY <1>15 DEF Retract, Step, Refuse, Verdict, record, branch
  <2>3. Returnable'
    BY <1>1, <2>2, ReversibleKept DEF DeliveryNext
  <2> QED BY <2>1, <2>3, OtherSteps DEF BackedSteps
<1>16. ASSUME NEW o \in Outcomes, Link(o) PROVE Backed'
  <2>1. op'.step \in {"idle"}
    BY <1>16, <1>1, LinkTurn, IdleStep DEF Turn
  <2>2. tip' = tip /\ backup' = backup /\ oldBackup' = oldBackup
    BY <1>16 DEF Link, Step, Refuse, Verdict, record, branch
  <2>3. Returnable'
    BY <1>1, <2>2, ReversibleKept DEF DeliveryNext
  <2> QED BY <2>1, <2>3, OtherSteps DEF BackedSteps
<1>17. ASSUME NEW n \in 1 .. MaxPrs, LinkExisting(n) PROVE Backed'
  <2>1. op'.step \in {"link", "idle"}
    BY <1>17, <1>1, LinkExistingTurn, IdleStep DEF Turn
  <2>2. tip' = tip /\ backup' = backup /\ oldBackup' = oldBackup
    BY <1>17 DEF LinkExisting, Step, Refuse, Verdict, record, branch
  <2>3. Returnable'
    BY <1>1, <2>2, ReversibleKept DEF DeliveryNext
  <2> QED BY <2>1, <2>3, OtherSteps DEF BackedSteps
<1>18. ASSUME BeginDiscard PROVE Backed'
  <2>1. op'.step \in {"discard", "idle"}
    BY <1>18, <1>1, BeginDiscardTurn, IdleStep DEF Turn
  <2>2. tip' = tip /\ backup' = backup /\ oldBackup' = oldBackup
    BY <1>18 DEF BeginDiscard, Step, Refuse, Verdict, record, branch
  <2>3. Returnable'
    BY <1>1, <2>2, ReversibleKept DEF DeliveryNext
  <2> QED BY <2>1, <2>3, OtherSteps DEF BackedSteps
<1>19. ASSUME LookBeforeDiscard PROVE Backed'
  <2>1. op'.step \in {"discardWrite", "idle"}
    BY <1>19, <1>1, LookBeforeDiscardTurn, IdleStep DEF Turn
  <2>2. tip' = tip /\ backup' = backup /\ oldBackup' = oldBackup
    BY <1>19 DEF LookBeforeDiscard, Step, Refuse, Verdict, record, branch
  <2>3. Returnable'
    BY <1>1, <2>2, ReversibleKept DEF DeliveryNext
  <2> QED BY <2>1, <2>3, OtherSteps DEF BackedSteps
<1>20. ASSUME NEW o \in Outcomes, DiscardRequest(o) PROVE Backed'
  <2>1. op'.step \in {"idle"}
    BY <1>20, <1>1, DiscardRequestTurn, IdleStep DEF Turn
  <2>2. tip' = tip /\ backup' = backup /\ oldBackup' = oldBackup
    BY <1>20 DEF DiscardRequest, Step, Refuse, Verdict, record, branch
  <2>3. Returnable'
    BY <1>1, <2>2, ReversibleKept DEF DeliveryNext
  <2> QED BY <2>1, <2>3, OtherSteps DEF BackedSteps
<1> QED
  BY <1>2, <1>3, <1>4, <1>5, <1>6, <1>7, <1>8, <1>9, <1>10, <1>11, <1>12, <1>13, <1>14,
  <1>15, <1>16, <1>17, <1>18, <1>19, <1>20 DEF PullRequestNext

LEMMA PublicationBacked == ASSUME History, Backed, PublicationNext PROVE Backed'
<1>1. /\ TypeOK /\ op \in Owners /\ task \in TaskRecords /\ task \in survivors
     /\ op.commit \in Commits /\ tip \in Commits /\ task.pending.previous \in Commits
     /\ SoundRecord(task) /\ consented \subseteq consented'
  BY OwnerParts, ConsentStep DEF Agreements, History, Inv, TypeOK, TaskRecords, Records,
  DeliveryNext
<1>2. ASSUME NEW c \in {tip, task.publication.commit}, BeginPublication(c) PROVE Backed'
  <2>1. op'.step \in {"settle", "observe", "idle"}
    BY <1>2, <1>1, BeginPublicationTurn, IdleStep DEF Turn
  <2>2. tip' = tip /\ backup' = backup /\ oldBackup' = oldBackup
    BY <1>2 DEF BeginPublication, Step, Refuse, Verdict, record, branch
  <2>3. Returnable'
    BY <1>1, <2>2, ReversibleKept DEF DeliveryNext
  <2> QED BY <2>1, <2>3, OtherSteps DEF BackedSteps
<1>3. ASSUME NEW read \in BOOLEAN, Settle(read) PROVE Backed'
  <2>1. op'.step \in {"verdict", "idle"}
    BY <1>3, <1>1, SettleTurn, IdleStep DEF Turn
  <2>2. tip' = tip /\ backup' = backup /\ oldBackup' = oldBackup
    BY <1>3 DEF Settle, Step, Refuse, Verdict, record, branch
  <2>3. Returnable'
    BY <1>1, <2>2, ReversibleKept DEF DeliveryNext
  <2> QED BY <2>1, <2>3, OtherSteps DEF BackedSteps
<1>4. ASSUME NEW read \in BOOLEAN, Observe(read) PROVE Backed'
  <2>1. op'.step \in {"pend", "refuse", "idle"}
    BY <1>4, <1>1, ObserveTurn, IdleStep DEF Turn
  <2>2. tip' = tip /\ backup' = backup /\ oldBackup' = oldBackup
    BY <1>4 DEF Observe, Step, Refuse, Verdict, record, branch
  <2>3. Returnable'
    BY <1>1, <2>2, ReversibleKept DEF DeliveryNext
  <2> QED BY <2>1, <2>3, OtherSteps DEF BackedSteps
<1>5. ASSUME NEW o \in Outcomes, RefusePublication(o) PROVE Backed'
  <2>1. op'.step \in {"idle"}
    BY <1>5, <1>1, RefusePublicationTurn, IdleStep DEF Turn
  <2>2. tip' = tip /\ backup' = backup /\ oldBackup' = oldBackup
    BY <1>5 DEF RefusePublication, Step, Refuse, Verdict, record, branch
  <2>3. Returnable'
    BY <1>1, <2>2, ReversibleKept DEF DeliveryNext
  <2> QED BY <2>1, <2>3, OtherSteps DEF BackedSteps
<1>6. ASSUME NEW o \in Outcomes, Pend(o) PROVE Backed'
  <2>1. op'.step \in {"recheck", "idle"}
    BY <1>6, <1>1, PendTurn, IdleStep DEF Turn
  <2>2. tip' = tip /\ backup' = backup /\ oldBackup' = oldBackup
    BY <1>6 DEF Pend, Step, Refuse, Verdict, record, branch
  <2>3. Returnable'
    BY <1>1, <2>2, ReversibleKept DEF DeliveryNext
  <2> QED BY <2>1, <2>3, OtherSteps DEF BackedSteps
<1>7. ASSUME NEW read \in BOOLEAN, Recheck(read) PROVE Backed'
  <2>1. op'.step \in {"send", "refuse", "idle"}
    BY <1>7, <1>1, RecheckTurn, IdleStep DEF Turn
  <2>2. tip' = tip /\ backup' = backup /\ oldBackup' = oldBackup
    BY <1>7 DEF Recheck, Step, Refuse, Verdict, record, branch
  <2>3. Returnable'
    BY <1>1, <2>2, ReversibleKept DEF DeliveryNext
  <2> QED BY <2>1, <2>3, OtherSteps DEF BackedSteps
<1>8. ASSUME NEW sent \in BOOLEAN, NEW answered \in BOOLEAN, Send(sent, answered) PROVE Backed'
  <2>1. op'.step \in {"refuse", "readBack", "idle"}
    BY <1>8, <1>1, SendTurn, IdleStep DEF Turn
  <2>2. tip' = tip /\ backup' = backup /\ oldBackup' = oldBackup
    BY <1>8 DEF Send, Step, Refuse, Verdict, record, branch
  <2>3. Returnable'
    BY <1>1, <2>2, ReversibleKept DEF DeliveryNext
  <2> QED BY <2>1, <2>3, OtherSteps DEF BackedSteps
<1>9. ASSUME NEW read \in BOOLEAN, ReadBack(read) PROVE Backed'
  <2>1. op'.step \in {"verdict", "idle"}
    BY <1>9, <1>1, ReadBackTurn, IdleStep DEF Turn
  <2>2. tip' = tip /\ backup' = backup /\ oldBackup' = oldBackup
    BY <1>9 DEF ReadBack, Step, Refuse, Verdict, record, branch
  <2>3. Returnable'
    BY <1>1, <2>2, ReversibleKept DEF DeliveryNext
  <2> QED BY <2>1, <2>3, OtherSteps DEF BackedSteps
<1>10. ASSUME NEW o \in Outcomes, SettlePublication(o) PROVE Backed'
  <2>1. op'.step \in {"idle"}
    BY <1>10, <1>1, SettlePublicationTurn, IdleStep DEF Turn
  <2>2. tip' = tip /\ backup' = backup /\ oldBackup' = oldBackup
    BY <1>10 DEF SettlePublication, Step, Refuse, Verdict, record, branch
  <2>3. Returnable'
    BY <1>1, <2>2, ReversibleKept DEF DeliveryNext
  <2> QED BY <2>1, <2>3, OtherSteps DEF BackedSteps
<1> QED
  BY <1>2, <1>3, <1>4, <1>5, <1>6, <1>7, <1>8, <1>9, <1>10 DEF PublicationNext

LEMMA RepublishBacked == ASSUME History, Backed, RepublishNext PROVE Backed'
<1>1. /\ TypeOK /\ op \in Owners /\ task \in TaskRecords /\ task \in survivors
     /\ op.commit \in Commits /\ tip \in Commits /\ task.pending.previous \in Commits
     /\ SoundRecord(task) /\ consented \subseteq consented'
  BY OwnerParts, ConsentStep DEF Agreements, History, Inv, TypeOK, TaskRecords, Records,
  DeliveryNext
<1>2. ASSUME BeginRestack PROVE Backed'
  <2>1. op'.step \in {"plan", "idle"}
    BY <1>2, <1>1, BeginRestackTurn, IdleStep DEF Turn
  <2>2. tip' = tip /\ backup' = backup /\ oldBackup' = oldBackup
    BY <1>2 DEF BeginRestack, Step, Refuse, Verdict, record, branch
  <2>3. Returnable'
    BY <1>1, <2>2, ReversibleKept DEF DeliveryNext
  <2> QED BY <2>1, <2>3, OtherSteps DEF BackedSteps
<1>3. ASSUME NEW o \in Outcomes, PlanRewrite(o) PROVE Backed'
  <2>1. op'.step \in {"advance", "idle"}
    BY <1>3, <1>1, PlanRewriteTurn, IdleStep DEF Turn
  <2>2. tip' = tip /\ backup' = backup /\ oldBackup' = oldBackup
    BY <1>3 DEF PlanRewrite, Step, Refuse, Verdict, record, branch
  <2>3. Returnable'
    BY <1>1, <2>2, ReversibleKept DEF DeliveryNext
  <2> QED BY <2>1, <2>3, OtherSteps DEF BackedSteps
<1>4. ASSUME Resume PROVE Backed'
  <2>1. op'.step \in {"advance", "idle"}
    BY <1>4, <1>1, ResumeTurn, IdleStep DEF Turn
  <2>2. tip' = tip /\ backup' = backup /\ oldBackup' = oldBackup
    BY <1>4 DEF Resume, Step, Refuse, Verdict, record, branch
  <2>3. Returnable'
    BY <1>1, <2>2, ReversibleKept DEF DeliveryNext
  <2> QED BY <2>1, <2>3, OtherSteps DEF BackedSteps
<1>5. ASSUME Advance PROVE Backed'
  <2>1. op'.step \in {"checkRemote", "adopt", "replay", "idle"}
    BY <1>5, <1>1, AdvanceTurn, IdleStep DEF Turn
  <2>2. task.pending # NoRestack /\ Approved.base = "old" /\ Approved \in consented
    BY <1>5, <1>1 DEF Advance, At, History, Decided, Pending, SoundRecord, Approved
  <2>3. tip' = tip /\ oldBackup' = oldBackup /\ survivors' = survivors /\ task' = task
    BY <1>5 DEF Advance, Step, Refuse, record, branch
  <2>4. \/ backup' = backup /\ op'.step # "replay"
        \/ tip = Approved /\ backup' = tip
    <3>1. \/ backup' = backup /\ (op' = Idle \/ op' = [op EXCEPT !.step = "checkRemote"]
                                 \/ op' = [op EXCEPT !.step = "adopt"])
          \/ tip = Approved /\ backup' = tip
      BY <1>5 DEF Advance, Step, Refuse, Goto, End, branch
    <3> QED BY <1>1, <3>1, IdleStep DEF Owners
  <2>5. Returnable'
    <3>1. CASE backup' = backup
      BY <1>1, <2>3, <3>1, ReversibleKept, <1>5 DEF DeliveryNext, RepublishNext
    <3>2. CASE tip = Approved
      BY <2>2, <2>3, <3>2, NeedsNoBackup
    <3> QED BY <2>4, <3>1, <3>2
  <2> QED BY <2>1, <2>3, <2>4, <2>5 DEF Backed, Approved
<1>6. ASSUME NEW clean \in BOOLEAN, ReplayPublished(clean) PROVE Backed'
  <2>1. op'.step \in {"recordRewrite", "clear", "idle"}
    BY <1>6, <1>1, ReplayPublishedTurn, IdleStep DEF Turn
  <2>2. task.pending # NoRestack /\ Approved.base = "old" /\ Approved \in consented
    BY <1>6, <1>1 DEF ReplayPublished, At, History, Decided, Pending, SoundRecord, Approved
  <2>3. /\ backup = Approved /\ oldBackup' = oldBackup /\ survivors' = survivors
        /\ tip' = Approved \/ backup' = backup
        /\ tip' \in {tip, Approved, Replayed(tip)}
    BY <1>6, <1>1 DEF ReplayPublished, At, Backed, Refuse, record, branch
  <2>5. Replayed(tip).base = "landed"
    BY <1>1, CommitTypes
  <2>4. Returnable'
    BY <1>1, <2>2, <2>3, <2>5 DEF Backed, Returnable, RewriteIsReversible
  <2> QED BY <2>1, <2>4, OtherSteps DEF BackedSteps
<1>7. ASSUME NEW o \in Outcomes, RecordRewrite(o) PROVE Backed'
  <2>1. op'.step \in {"checkRemote", "clear", "idle"}
    BY <1>7, <1>1, RecordRewriteTurn, IdleStep DEF Turn
  <2>2. task.pending # NoRestack /\ Approved.base = "old" /\ Approved \in consented
    BY <1>7, <1>1 DEF RecordRewrite, At, History, Decided, Pending, SoundRecord, Approved
  <2>3. \A t \in survivors' : t \in survivors \/ t.base = "landed"
    <3>1. RewriteRecorded.base = "landed"
      BY <1>1 DEF TaskRecords, RewriteRecorded
    <3>2. Save(RewriteRecorded, o)
      BY <1>7 DEF RecordRewrite
    <3> QED BY <1>1, <3>1, <3>2, SaveFacts
  <2>4. /\ oldBackup' = oldBackup
        /\ tip' = Approved \/ (tip' = tip /\ backup' = backup)
    BY <1>7 DEF RecordRewrite
  <2>5. Returnable'
    BY <1>1, <2>2, <2>3, <2>4 DEF Backed, Returnable, RewriteIsReversible
  <2> QED BY <2>1, <2>5, OtherSteps DEF BackedSteps
<1>8. ASSUME NEW o \in Outcomes, AdoptRewrite(o) PROVE Backed'
  <2>1. op'.step \in {"checkRemote", "idle"}
    BY <1>8, <1>1, AdoptRewriteTurn, IdleStep DEF Turn
  <2>2. tip' = tip /\ backup' = backup /\ oldBackup' = oldBackup
    BY <1>8 DEF AdoptRewrite, Step, Refuse, Verdict, record, branch
  <2>3. Returnable'
    BY <1>1, <2>2, ReversibleKept DEF DeliveryNext
  <2> QED BY <2>1, <2>3, OtherSteps DEF BackedSteps
<1>9. ASSUME NEW o \in Outcomes, ClearPending(o) PROVE Backed'
  <2>1. op'.step \in {"idle"}
    BY <1>9, <1>1, ClearPendingTurn, IdleStep DEF Turn
  <2>2. tip' = tip /\ backup' = backup /\ oldBackup' = oldBackup
    BY <1>9 DEF ClearPending, Step, Refuse, Verdict, record, branch
  <2>3. Returnable'
    BY <1>1, <2>2, ReversibleKept DEF DeliveryNext
  <2> QED BY <2>1, <2>3, OtherSteps DEF BackedSteps
<1>10. ASSUME CheckRemote PROVE Backed'
  <2>1. op'.step \in {"finish", "force", "idle"}
    BY <1>10, <1>1, CheckRemoteTurn, IdleStep DEF Turn
  <2>2. tip' = tip /\ backup' = backup /\ oldBackup' = oldBackup
    BY <1>10 DEF CheckRemote, Step, Refuse, Verdict, record, branch
  <2>3. Returnable'
    BY <1>1, <2>2, ReversibleKept DEF DeliveryNext
  <2> QED BY <2>1, <2>3, OtherSteps DEF BackedSteps
<1>11. ASSUME NEW sent \in BOOLEAN, NEW answered \in BOOLEAN, ForcePush(sent, answered)
      PROVE  Backed'
  <2>1. op'.step \in {"finish", "idle"}
    BY <1>11, <1>1, ForcePushTurn, IdleStep DEF Turn
  <2>2. tip' = tip /\ backup' = backup /\ oldBackup' = oldBackup
    BY <1>11 DEF ForcePush, Step, Refuse, Verdict, record, branch
  <2>3. Returnable'
    BY <1>1, <2>2, ReversibleKept DEF DeliveryNext
  <2> QED BY <2>1, <2>3, OtherSteps DEF BackedSteps
<1>12. ASSUME NEW retargeted \in BOOLEAN, NEW o \in Outcomes, Finish(retargeted, o)
      PROVE  Backed'
  <2>1. op'.step \in {"idle"}
    BY <1>12, <1>1, FinishTurn, IdleStep DEF Turn
  <2>2. tip' = tip /\ oldBackup' = oldBackup
    BY <1>12 DEF Finish, Refuse, branch
  <2>3. Returnable'
    <3>1. CASE backup' = backup
      BY <1>1, <2>2, <3>1, ReversibleKept, <1>12 DEF DeliveryNext, RepublishNext
    <3>2. CASE backup' # backup
      <4> DEFINE t == [task EXCEPT !.pending = NoRestack]
      <4>1. Save(t, o) /\ o = "saved"
        BY <1>12, <3>2 DEF Finish, Refuse, branch
      <4>2. t.base = task.base
        BY <1>1 DEF TaskRecords
      <4> HIDE DEF t
      <4>3. task.base = "landed"
        BY <1>12, <1>1 DEF Finish, At, History, Decided
      <4>4. tip'.base # "none"
        BY <2>2 DEF Backed, Returnable
      <4> QED BY <1>1, <4>1, <4>2, <4>3, <4>4, SaveFacts, NeedsNoBackup
    <3> QED BY <3>1, <3>2
  <2> QED BY <2>1, <2>3, OtherSteps DEF BackedSteps
<1>13. ASSUME BeginDiscardRestack PROVE Backed'
  <2>1. op'.step \in {"goBack", "idle"}
    BY <1>13, <1>1, BeginDiscardRestackTurn, IdleStep DEF Turn
  <2>2. UNCHANGED <<tip, backup, oldBackup, task>> /\ task.pending # NoRestack
    BY <1>13 DEF BeginDiscardRestack, record, branch
  <2>3. Returnable'
    BY <1>1, <2>2, ReversibleKept DEF DeliveryNext
  <2> QED BY <2>1, <2>2, <2>3 DEF Backed
<1>14. ASSUME GoBack PROVE Backed'
  <2>1. op'.step \in {"dropRecord", "idle"}
    BY <1>14, <1>1, GoBackTurn, IdleStep DEF Turn
  <2>2. task.pending # NoRestack /\ Approved.base = "old"
    BY <1>14, <1>1 DEF GoBack, At, Backed, SoundRecord, Approved
  <2>3. tip' \in {tip, Approved} /\ backup' = backup /\ oldBackup' = oldBackup
    BY <1>14 DEF GoBack, Step, Refuse, branch
  <2>4. op'.step = "dropRecord" => tip' = Approved
    BY <1>14, IdleStep DEF GoBack, Step, Refuse, End, branch
  <2>5. Returnable'
    <3>1. CASE tip' = tip
      BY <1>1, <2>3, <3>1, ReversibleKept, <1>14 DEF DeliveryNext, RepublishNext
    <3>2. CASE tip' = Approved
      BY <2>2, <3>2, NeedsNoBackup
    <3> QED BY <2>3, <3>1, <3>2
  <2> QED BY <2>1, <2>2, <2>4, <2>5 DEF Backed
<1>15. ASSUME NEW o \in Outcomes, DropRecord(o) PROVE Backed'
  <2>1. op'.step \in {"idle"}
    BY <1>15, <1>1, DropRecordTurn, IdleStep DEF Turn
  <2>2. tip' = tip /\ tip.base = "old"
    BY <1>15, <1>1 DEF DropRecord, At, Backed
  <2>3. Returnable'
    BY <2>2, NeedsNoBackup
  <2> QED BY <2>1, <2>3, OtherSteps DEF BackedSteps
<1> QED
  BY <1>2, <1>3, <1>4, <1>5, <1>6, <1>7, <1>8, <1>9, <1>10, <1>11, <1>12, <1>13, <1>14,
  <1>15 DEF RepublishNext

LEMMA BackedInvariant == DeliverySpec => []Backed
<1>1. Init => Backed
  <2>1. Init => op.step = "idle" /\ tip.base = "old"
    BY IdleStep DEF Init
  <2> QED BY <2>1 DEF Backed, Returnable, RewriteIsReversible
<1>2. ASSUME History, Backed, [DeliveryNext]_vars PROVE Backed'
  <2>1. TypeOK
    BY <1>2 DEF History, Inv
  <2>2. CASE UNCHANGED vars
    <3>1. UNCHANGED <<tip, backup, oldBackup, consented, survivors, task, op>>
      BY <2>2 DEF vars, record, branch, history
    <3> QED BY <1>2, <3>1, Zenon DEF Backed, Returnable, RewriteIsReversible, Approved
  <2> QED
    BY <1>2, <2>1, <2>2, SurroundingsBacked, PullRequestBacked, PublicationBacked,
    RepublishBacked
    DEF DeliveryNext
<1> QED BY <1>1, <1>2, HistoryInvariant, PTL DEF DeliverySpec

\* RewriteIsReversible: as long as some record on disk still says that the branch
\* stands on its old base, a backup ref holds the agreed tip it had there,
\* whichever restack rewrote it and wherever that one stopped.
THEOREM RewriteReversible == DeliverySpec => []RewriteIsReversible
<1>1. Backed => RewriteIsReversible
  BY DEF Backed, Returnable
<1> QED BY <1>1, BackedInvariant, PTL

------------------------------------------------------------------------------
(* What goes out was agreed to *)

LEMMA NothingCarried == ASSUME op' = Idle PROVE Carried'
<1>1. op'.step = "idle" /\ op'.bound = NoCommit
  BY DEF Idle
<1> QED BY <1>1 DEF Carried, PublishSteps

LEMMA ReachedAgreed ==
  ASSUME History, Consent, DeliveryNext
  PROVE  \A c \in reached' : Agreed(c)'
<1>1. TypeOK /\ consented \subseteq consented' /\ SoundRecord(task)
  BY ConsentStep DEF History, Inv, TypeOK, Agreements, Records
<1>2. \A c : Agreed(c) => Agreed(c)'
  BY <1>1 DEF Agreed
<1>3. \A d \in consented : Agreed(d) /\ Agreed(Replayed(d))
  <2>1. SUFFICES ASSUME NEW d \in consented PROVE Agreed(d) /\ Agreed(Replayed(d))
    OBVIOUS
  <2>2. d \in Commits
    BY <1>1 DEF TypeOK
  <2>3. Replayed(d).own = d.own /\ Replayed(d).base = "landed"
    BY <2>2 DEF Replayed, Commits
  <2> QED BY <2>3 DEF Agreed
<1>4. op.step \in {"toExisting", "push", "send"} => Agreed(op.commit)
  <2>1. CASE op.step = "send"
    BY <1>3, <2>1 DEF History, Decided, Confirmed
  <2>2. CASE op.step \in {"toExisting", "push"}
    <3>1. op.bound # NoCommit /\ op.bound \in consented
      BY <2>2 DEF History, Decided, Admitted
    <3> QED BY <1>3, <3>1 DEF Consent, Carried
  <2> QED BY <2>1, <2>2
<1>5. op.step = "force" => Agreed(tip)
  <2>1. SUFFICES ASSUME op.step = "force" PROVE Agreed(tip)
    OBVIOUS
  <2>2. task.pending # NoRestack
    BY <2>1 DEF History, Decided, Pending
  <2> QED BY <1>1, <1>3, <2>1, <2>2 DEF Consent, Carried, SoundRecord, Rewritten
<1> QED BY <1>1, <1>2, <1>4, <1>5, RemoteStep DEF Contacts, RemoteAt, Consent

LEMMA SurroundingsCarried == ASSUME Calm, TypeOK, Carried, Surroundings PROVE Carried'
<1>1. op.step \in {"restackRecord", "force"} => tip' = tip
  <2>1. UNCHANGED branch \/ Commit \/ Amend
    BY DEF Surroundings, GiveUpMove, ForeignPush, ForeignDelete, ForeignOpen, Close, List,
    ParentLands, Crash, BeginMove, Approve, ApproveAgain, FinishRun, CompleteMove
  <2>2. op.step \in {"restackRecord", "force"} => ~Commit /\ ~Amend
    BY DEF Commit, Amend, Writable, Calm
  <2> QED BY <2>1, <2>2 DEF branch
<1>2. CASE op' = Idle
  BY <1>2, NothingCarried
<1>3. CASE Undecided
  BY <1>1, <1>3, Zenon DEF Undecided, Carried, Rewritten
<1> QED BY <1>2, <1>3, SurroundingsStep

LEMMA PullRequestCarried == ASSUME History, Carried, PullRequestNext PROVE Carried'
<1>1. /\ TypeOK /\ op \in Owners /\ op.commit \in Commits
  BY OwnerParts DEF History, Inv, TypeOK
<1>2. ASSUME BeginCreate PROVE Carried'
  <2>2. op' # Idle => op'.step = "lookup" /\ op'.commit = tip /\ op'.bound = tip
    BY <1>2, <1>1, BeginCreateTurn DEF Turn
  <2> QED BY <2>2, NothingCarried DEF Carried, PublishSteps
<1>3. ASSUME Lookup PROVE Carried'
  <2>2. op' # Idle =>
          /\ op'.step \in {"toExisting", "restack", "push"}
          /\ op'.commit = op.commit
          /\ op'.bound = op.bound
    BY <1>3, <1>1, LookupTurn DEF Turn
  <2> QED BY <2>2, NothingCarried DEF Carried, PublishSteps
<1>4. ASSUME NEW sent \in BOOLEAN, ToExisting(sent) PROVE Carried'
  <2>2. op' # Idle => op'.step = "link" /\ op'.commit = op.commit /\ op'.bound = op.bound
    BY <1>4, <1>1, ToExistingTurn DEF Turn
  <2> QED BY <2>2, NothingCarried DEF Carried, PublishSteps
<1>5. ASSUME PlanRestack PROVE Carried'
  <2>2. op' # Idle =>
          /\ op'.step = "restackReplay"
          /\ op'.commit = op.commit
          /\ op'.bound = op.bound
    BY <1>5, <1>1, PlanRestackTurn DEF Turn
  <2> QED BY <2>2, NothingCarried DEF Carried, PublishSteps
<1>6. ASSUME NEW clean \in BOOLEAN, Replay(clean) PROVE Carried'
  <2>2. op' # Idle =>
          /\ op'.step = "restackRecord"
          /\ op'.commit = op.commit
          /\ op'.bound = op.bound
    BY <1>6, <1>1, ReplayTurn DEF Turn
  <2>3. op' # Idle => tip' = Replayed(op.commit)
    BY <1>6 DEF Replay, End
  <2> QED BY <2>2, <2>3, NothingCarried DEF Carried, PublishSteps
<1>7. ASSUME NEW o \in Outcomes, RecordRestack(o) PROVE Carried'
  <2>2. op' # Idle => op'.step = "push" /\ op'.commit = tip /\ op'.bound = op.bound
    BY <1>7, <1>1, RecordRestackTurn DEF Turn
  <2>3. op.commit = op.bound /\ tip = Replayed(op.commit)
    BY <1>7 DEF RecordRestack, At, History, Decided, Unpushed, Carried
  <2> QED BY <2>2, <2>3, NothingCarried DEF Carried, PublishSteps
<1>8. ASSUME NEW sent \in BOOLEAN, NEW answered \in BOOLEAN, Push(sent, answered)
      PROVE  Carried'
  <2>2. op' # Idle =>
          /\ op'.step = "confirmPush"
          /\ op'.commit = op.commit
          /\ op'.bound = op.bound
    BY <1>8, <1>1, PushTurn DEF Turn
  <2> QED BY <2>2, NothingCarried DEF Carried, PublishSteps
<1>9. ASSUME NEW read \in BOOLEAN, ConfirmPush(read) PROVE Carried'
  <2>2. op' # Idle =>
          /\ op'.step = "lookupAgain"
          /\ op'.commit = op.commit
          /\ op'.bound = op.bound
    BY <1>9, <1>1, ConfirmPushTurn DEF Turn
  <2> QED BY <2>2, NothingCarried DEF Carried, PublishSteps
<1>10. ASSUME LookupAgain PROVE Carried'
  <2>2. op' # Idle =>
          /\ op'.step \in {"link", "announce"}
          /\ op'.commit = op.commit
          /\ op'.bound = op.bound
    BY <1>10, <1>1, LookupAgainTurn DEF Turn
  <2> QED BY <2>2, NothingCarried DEF Carried, PublishSteps
<1>11. ASSUME NEW o \in Outcomes, Announce(o) PROVE Carried'
  <2>2. op' # Idle =>
          /\ op'.step \in {"create", "retract"}
          /\ op'.commit = op.commit
          /\ op'.bound = op.bound
    BY <1>11, <1>1, AnnounceTurn DEF Turn
  <2> QED BY <2>2, NothingCarried DEF Carried, PublishSteps
<1>12. ASSUME NEW answer \in {"opened", "lost", "rejected", "not sent"}, Create(answer)
      PROVE  Carried'
  <2>2. op' # Idle =>
          /\ op'.step \in {"retract", "reconcile", "confirmCreated"}
          /\ op'.commit = op.commit
          /\ op'.bound = op.bound
    BY <1>12, <1>1, CreateTurn DEF Turn
  <2> QED BY <2>2, NothingCarried DEF Carried, PublishSteps
<1>13. ASSUME NEW read \in BOOLEAN, ConfirmCreated(read) PROVE Carried'
  <2>2. op' # Idle => op'.step = "link" /\ op'.commit = op.commit /\ op'.bound = op.bound
    BY <1>13, <1>1, ConfirmCreatedTurn DEF Turn
  <2> QED BY <2>2, NothingCarried DEF Carried, PublishSteps
<1>14. ASSUME NEW read \in BOOLEAN, Reconcile(read) PROVE Carried'
  <2>2. op' # Idle =>
          /\ op'.step \in {"confirmCreated", "retract"}
          /\ op'.commit = op.commit
          /\ op'.bound = op.bound
    BY <1>14, <1>1, ReconcileTurn DEF Turn
  <2> QED BY <2>2, NothingCarried DEF Carried, PublishSteps
<1>15. ASSUME NEW o \in Outcomes, Retract(o) PROVE Carried'
  BY <1>15, <1>1, RetractTurn, NothingCarried DEF Turn
<1>16. ASSUME NEW o \in Outcomes, Link(o) PROVE Carried'
  BY <1>16, <1>1, LinkTurn, NothingCarried DEF Turn
<1>17. ASSUME NEW n \in 1 .. MaxPrs, LinkExisting(n) PROVE Carried'
  <2>2. op' # Idle => op'.step = "link" /\ op'.commit = NoCommit /\ op'.bound = NoCommit
    BY <1>17, <1>1, LinkExistingTurn DEF Turn
  <2> QED BY <2>2, NothingCarried DEF Carried, PublishSteps
<1>18. ASSUME BeginDiscard PROVE Carried'
  <2>2. op' # Idle =>
          /\ op'.step = "discard"
          /\ op'.commit = task.asked
          /\ op'.bound = NoCommit
    BY <1>18, <1>1, BeginDiscardTurn DEF Turn
  <2> QED BY <2>2, NothingCarried DEF Carried, PublishSteps
<1>19. ASSUME LookBeforeDiscard PROVE Carried'
  <2>2. op' # Idle =>
          /\ op'.step = "discardWrite"
          /\ op'.commit = op.commit
          /\ op'.bound = op.bound
    BY <1>19, <1>1, LookBeforeDiscardTurn DEF Turn
  <2> QED BY <2>2, NothingCarried DEF Carried, PublishSteps
<1>20. ASSUME NEW o \in Outcomes, DiscardRequest(o) PROVE Carried'
  BY <1>20, <1>1, DiscardRequestTurn, NothingCarried DEF Turn
<1> QED
  BY <1>2, <1>3, <1>4, <1>5, <1>6, <1>7, <1>8, <1>9, <1>10, <1>11, <1>12, <1>13, <1>14,
  <1>15, <1>16, <1>17, <1>18, <1>19, <1>20 DEF PullRequestNext

LEMMA PublicationCarried == ASSUME History, Carried, PublicationNext PROVE Carried'
<1>1. /\ TypeOK /\ op \in Owners /\ op.commit \in Commits
  BY OwnerParts DEF History, Inv, TypeOK
<1>2. ASSUME NEW c \in {tip, task.publication.commit}, BeginPublication(c) PROVE Carried'
  <2>2. op' # Idle =>
          /\ op'.step \in {"settle", "observe"}
          /\ op'.commit = c
          /\ op'.bound = NoCommit
    BY <1>2, <1>1, BeginPublicationTurn DEF Turn
  <2> QED BY <2>2, NothingCarried DEF Carried, PublishSteps
<1>3. ASSUME NEW read \in BOOLEAN, Settle(read) PROVE Carried'
  <2>2. op' # Idle => op'.step = "verdict" /\ op'.bound = NoCommit
    BY <1>3, <1>1, SettleTurn DEF Turn, Carried, PublishSteps
  <2> QED BY <2>2, NothingCarried DEF Carried
<1>4. ASSUME NEW read \in BOOLEAN, Observe(read) PROVE Carried'
  <2>2. op' # Idle =>
          /\ op'.step \in {"pend", "refuse"}
          /\ op'.commit = op.commit
          /\ op'.bound = op.bound
    BY <1>4, <1>1, ObserveTurn DEF Turn
  <2>3. op.step = "observe"
    BY <1>4, <1>1, ObserveTurn DEF Turn
  <2> QED BY <2>2, <2>3, NothingCarried DEF Carried, PublishSteps
<1>5. ASSUME NEW o \in Outcomes, RefusePublication(o) PROVE Carried'
  BY <1>5, <1>1, RefusePublicationTurn, NothingCarried DEF Turn
<1>6. ASSUME NEW o \in Outcomes, Pend(o) PROVE Carried'
  <2>2. op' # Idle => op'.step = "recheck" /\ op'.commit = op.commit /\ op'.bound = op.bound
    BY <1>6, <1>1, PendTurn DEF Turn
  <2>3. op.step = "pend"
    BY <1>6, <1>1, PendTurn DEF Turn
  <2> QED BY <2>2, <2>3, NothingCarried DEF Carried, PublishSteps
<1>7. ASSUME NEW read \in BOOLEAN, Recheck(read) PROVE Carried'
  <2>2. op' # Idle =>
          /\ op'.step \in {"send", "refuse"}
          /\ op'.commit = op.commit
          /\ op'.bound = op.bound
    BY <1>7, <1>1, RecheckTurn DEF Turn
  <2>3. op.step = "recheck"
    BY <1>7, <1>1, RecheckTurn DEF Turn
  <2> QED BY <2>2, <2>3, NothingCarried DEF Carried, PublishSteps
<1>8. ASSUME NEW sent \in BOOLEAN, NEW answered \in BOOLEAN, Send(sent, answered)
      PROVE  Carried'
  <2>2. op' # Idle =>
          /\ op'.step \in {"refuse", "readBack"}
          /\ op'.commit = op.commit
          /\ op'.bound = op.bound
    BY <1>8, <1>1, SendTurn DEF Turn
  <2>3. op.step = "send"
    BY <1>8, <1>1, SendTurn DEF Turn
  <2> QED BY <2>2, <2>3, NothingCarried DEF Carried, PublishSteps
<1>9. ASSUME NEW read \in BOOLEAN, ReadBack(read) PROVE Carried'
  <2>2. op' # Idle => op'.step = "verdict" /\ op'.commit = op.commit /\ op'.bound = op.bound
    BY <1>9, <1>1, ReadBackTurn DEF Turn
  <2>3. op.step = "readBack"
    BY <1>9, <1>1, ReadBackTurn DEF Turn
  <2> QED BY <2>2, <2>3, NothingCarried DEF Carried, PublishSteps
<1>10. ASSUME NEW o \in Outcomes, SettlePublication(o) PROVE Carried'
  BY <1>10, <1>1, SettlePublicationTurn, NothingCarried DEF Turn
<1> QED
  BY <1>2, <1>3, <1>4, <1>5, <1>6, <1>7, <1>8, <1>9, <1>10 DEF PublicationNext

LEMMA RepublishCarried == ASSUME History, Carried, RepublishNext PROVE Carried'
<1>1. /\ TypeOK /\ op \in Owners /\ op.commit \in Commits
  BY OwnerParts DEF History, Inv, TypeOK
<1>2. ASSUME BeginRestack PROVE Carried'
  <2>2. op' # Idle => op'.step = "plan" /\ op'.commit = tip /\ op'.bound = NoCommit
    BY <1>2, <1>1, BeginRestackTurn DEF Turn
  <2> QED BY <2>2, NothingCarried DEF Carried, PublishSteps
<1>3. ASSUME NEW o \in Outcomes, PlanRewrite(o) PROVE Carried'
  <2>2. op' # Idle => op'.step = "advance" /\ op'.commit = op.commit /\ op'.bound = op.bound
    BY <1>3, <1>1, PlanRewriteTurn DEF Turn
  <2> QED BY <2>2, NothingCarried DEF Carried, PublishSteps
<1>4. ASSUME Resume PROVE Carried'
  <2>2. op' # Idle => op'.step = "advance" /\ op'.commit = Approved /\ op'.bound = NoCommit
    BY <1>4, <1>1, ResumeTurn DEF Turn
  <2> QED BY <2>2, NothingCarried DEF Carried, PublishSteps
<1>5. ASSUME Advance PROVE Carried'
  <2>2. op' # Idle =>
          /\ op'.step \in {"checkRemote", "adopt", "replay"}
          /\ op'.commit = op.commit
          /\ op'.bound = op.bound
    BY <1>5, <1>1, AdvanceTurn DEF Turn
  <2> QED BY <2>2, NothingCarried DEF Carried, PublishSteps
<1>6. ASSUME NEW clean \in BOOLEAN, ReplayPublished(clean) PROVE Carried'
  <2>2. op' # Idle =>
          /\ op'.step \in {"recordRewrite", "clear"}
          /\ op'.commit = op.commit
          /\ op'.bound = op.bound
    BY <1>6, <1>1, ReplayPublishedTurn DEF Turn
  <2> QED BY <2>2, NothingCarried DEF Carried, PublishSteps
<1>7. ASSUME NEW o \in Outcomes, RecordRewrite(o) PROVE Carried'
  <2>2. op' # Idle =>
          /\ op'.step \in {"checkRemote", "clear"}
          /\ op'.commit = op.commit
          /\ op'.bound = op.bound
    BY <1>7, <1>1, RecordRewriteTurn DEF Turn
  <2> QED BY <2>2, NothingCarried DEF Carried, PublishSteps
<1>8. ASSUME NEW o \in Outcomes, AdoptRewrite(o) PROVE Carried'
  <2>2. op' # Idle =>
          /\ op'.step = "checkRemote"
          /\ op'.commit = op.commit
          /\ op'.bound = op.bound
    BY <1>8, <1>1, AdoptRewriteTurn DEF Turn
  <2> QED BY <2>2, NothingCarried DEF Carried, PublishSteps
<1>9. ASSUME NEW o \in Outcomes, ClearPending(o) PROVE Carried'
  BY <1>9, <1>1, ClearPendingTurn, NothingCarried DEF Turn
<1>10. ASSUME CheckRemote PROVE Carried'
  <2>2. op' # Idle =>
          /\ op'.step \in {"finish", "force"}
          /\ op'.commit = op.commit
          /\ op'.bound = op.bound
    BY <1>10, <1>1, CheckRemoteTurn DEF Turn
  <2>3. op' # Idle => tip' = tip /\ tip = Rewritten /\ task' = task
    BY <1>10 DEF CheckRemote, Refuse, End, Step, branch, record
  <2> QED BY <2>2, <2>3, NothingCarried DEF Carried, PublishSteps, Rewritten
<1>11. ASSUME NEW sent \in BOOLEAN, NEW answered \in BOOLEAN, ForcePush(sent, answered)
      PROVE  Carried'
  <2>2. op' # Idle => op'.step = "finish" /\ op'.commit = op.commit /\ op'.bound = op.bound
    BY <1>11, <1>1, ForcePushTurn DEF Turn
  <2> QED BY <2>2, NothingCarried DEF Carried, PublishSteps
<1>12. ASSUME NEW retargeted \in BOOLEAN, NEW o \in Outcomes, Finish(retargeted, o)
      PROVE  Carried'
  BY <1>12, <1>1, FinishTurn, NothingCarried DEF Turn
<1>13. ASSUME BeginDiscardRestack PROVE Carried'
  <2>2. op' # Idle => op'.step = "goBack" /\ op'.commit = Approved /\ op'.bound = NoCommit
    BY <1>13, <1>1, BeginDiscardRestackTurn DEF Turn
  <2> QED BY <2>2, NothingCarried DEF Carried, PublishSteps
<1>14. ASSUME GoBack PROVE Carried'
  <2>2. op' # Idle =>
          /\ op'.step = "dropRecord"
          /\ op'.commit = op.commit
          /\ op'.bound = op.bound
    BY <1>14, <1>1, GoBackTurn DEF Turn
  <2> QED BY <2>2, NothingCarried DEF Carried, PublishSteps
<1>15. ASSUME NEW o \in Outcomes, DropRecord(o) PROVE Carried'
  BY <1>15, <1>1, DropRecordTurn, NothingCarried DEF Turn
<1> QED
  BY <1>2, <1>3, <1>4, <1>5, <1>6, <1>7, <1>8, <1>9, <1>10, <1>11, <1>12, <1>13, <1>14,
  <1>15 DEF RepublishNext

LEMMA ConsentInvariant == ASSUME Calm PROVE DeliverySpec => []Consent
<1>1. ASSUME Init PROVE Consent
  <2>1. op = Idle /\ reached = {}
    BY <1>1 DEF Init
  <2>2. op.step = "idle" /\ op.bound = NoCommit
    BY <2>1 DEF Idle
  <2> QED BY <2>1, <2>2 DEF Consent, Carried, PublishSteps
<1>2. ASSUME History, Consent, [DeliveryNext]_vars PROVE Consent'
  <2>1. TypeOK /\ Carried
    BY <1>2 DEF History, Inv, Consent
  <2>2. CASE UNCHANGED vars
    <3>1. UNCHANGED <<tip, consented, reached, task, op>>
      BY <2>2 DEF vars, record, branch, history
    <3>2. Carried'
      BY <2>1, <3>1, Zenon DEF Carried, Rewritten
    <3> QED BY <1>2, <3>1, <3>2 DEF Consent, Agreed
  <2>3. CASE DeliveryNext
    <3>1. Carried'
      BY <1>2, <2>1, <2>3, SurroundingsCarried, PullRequestCarried, PublicationCarried,
      RepublishCarried DEF DeliveryNext
    <3>2. \A c \in reached' : Agreed(c)'
      BY <1>2, <2>3, ReachedAgreed
    <3> QED BY <3>1, <3>2 DEF Consent, Agreed
  <2> QED BY <1>2, <2>2, <2>3
<1> QED BY <1>1, <1>2, HistoryInvariant, PTL DEF DeliverySpec

\* RemoteIsConsented: with nothing else writing the branch while a rebase is
\* recorded or pushed by name, what SlashIt put on origin was agreed to, whatever
\* is committed, pushed or lost at any other time.
THEOREM RemoteConsented == ASSUME Calm PROVE DeliverySpec => []RemoteIsConsented
<1>1. ASSUME History, Consent, remote # NoCommit
      PROVE  \E c \in consented : PushedOn(remote, c) /\ remote.base \in {c.base, "landed"}
  <2>1. PICK c \in reached : PushedOn(remote, c) /\ remote.base = c.base
    BY <1>1 DEF History, Origin
  <2>2. PICK d \in consented : c.own = d.own /\ c.base \in {d.base, "landed"}
    BY <1>1, <2>1 DEF Consent, Agreed
  <2>3. PushedOn(remote, d)
    BY <2>1, <2>2 DEF PushedOn
  <2> QED BY <2>1, <2>2, <2>3
<1>2. History /\ Consent => RemoteIsConsented
  BY <1>1 DEF RemoteIsConsented
<1> QED BY <1>2, HistoryInvariant, ConsentInvariant, PTL

\* DeliveryMatchesApproval: the same, of the approval a delivery was admitted for.
\* It still stands when the delivery ends, and its commit, or the replay of it,
\* has been put on origin.
THEOREM ApprovalDelivered == ASSUME Calm PROVE DeliverySpec => DeliveryMatchesApproval
<1>1. ASSUME History, Consent, At("link"), op.bound # NoCommit
      PROVE  /\ task.approved = op.bound
             /\ \E c \in reached : Includes(c, op.bound) \/ Includes(c, Replayed(op.bound))
  <2>1. task.approved = op.bound
    BY <1>1 DEF History, Decided
  <2>2. op.commit \in {op.bound, Replayed(op.bound)}
    BY <1>1 DEF Consent, Carried
  <2>3. PICK c \in reached : Includes(c, op.commit)
    BY <1>1 DEF History, Answer, Delivered, At
  <2> QED BY <2>1, <2>2, <2>3
<1>2. ASSUME History, Consent
      PROVE  [At("link") /\ op.bound # NoCommit /\ task.status # "created" /\ task'.status = "created" =>
                /\ task.approved = op.bound
                /\ \E c \in reached : Includes(c, op.bound) \/ Includes(c, Replayed(op.bound))]_vars
  BY <1>1, <1>2
<1> QED
  BY <1>2, HistoryInvariant, ConsentInvariant, PTL DEF DeliverySpec, DeliveryMatchesApproval

------------------------------------------------------------------------------
(* A published rewrite after one failed write or crash *)

\* Opening a pull request, and publishing, keep to their own steps.
OpeningTurns ==
  /\ {op.step, op'.step} \subseteq {"idle"} \cup CreateSteps
  /\ op'.step = "restackReplay" => PlanRestack

LEMMA PullRequestSteps == ASSUME TypeOK, PullRequestNext PROVE OpeningTurns
<1>1. op \in Owners
  BY DEF TypeOK
<1>2. ASSUME BeginCreate PROVE OpeningTurns
  BY <1>2, <1>1, BeginCreateTurn, IdleStep DEF Turn, OpeningTurns, CreateSteps
<1>3. ASSUME Lookup PROVE OpeningTurns
  BY <1>3, <1>1, LookupTurn, IdleStep DEF Turn, OpeningTurns, CreateSteps
<1>4. ASSUME NEW sent \in BOOLEAN, ToExisting(sent) PROVE OpeningTurns
  BY <1>4, <1>1, ToExistingTurn, IdleStep DEF Turn, OpeningTurns, CreateSteps
<1>5. ASSUME PlanRestack PROVE OpeningTurns
  BY <1>5, <1>1, PlanRestackTurn, IdleStep DEF Turn, OpeningTurns, CreateSteps
<1>6. ASSUME NEW clean \in BOOLEAN, Replay(clean) PROVE OpeningTurns
  BY <1>6, <1>1, ReplayTurn, IdleStep DEF Turn, OpeningTurns, CreateSteps
<1>7. ASSUME NEW o \in Outcomes, RecordRestack(o) PROVE OpeningTurns
  BY <1>7, <1>1, RecordRestackTurn, IdleStep DEF Turn, OpeningTurns, CreateSteps
<1>8. ASSUME NEW sent \in BOOLEAN, NEW answered \in BOOLEAN, Push(sent, answered)
      PROVE  OpeningTurns
  BY <1>8, <1>1, PushTurn, IdleStep DEF Turn, OpeningTurns, CreateSteps
<1>9. ASSUME NEW read \in BOOLEAN, ConfirmPush(read) PROVE OpeningTurns
  BY <1>9, <1>1, ConfirmPushTurn, IdleStep DEF Turn, OpeningTurns, CreateSteps
<1>10. ASSUME LookupAgain PROVE OpeningTurns
  BY <1>10, <1>1, LookupAgainTurn, IdleStep DEF Turn, OpeningTurns, CreateSteps
<1>11. ASSUME NEW o \in Outcomes, Announce(o) PROVE OpeningTurns
  BY <1>11, <1>1, AnnounceTurn, IdleStep DEF Turn, OpeningTurns, CreateSteps
<1>12. ASSUME NEW answer \in {"opened", "lost", "rejected", "not sent"}, Create(answer)
      PROVE  OpeningTurns
  BY <1>12, <1>1, CreateTurn, IdleStep DEF Turn, OpeningTurns, CreateSteps
<1>13. ASSUME NEW read \in BOOLEAN, ConfirmCreated(read) PROVE OpeningTurns
  BY <1>13, <1>1, ConfirmCreatedTurn, IdleStep DEF Turn, OpeningTurns, CreateSteps
<1>14. ASSUME NEW read \in BOOLEAN, Reconcile(read) PROVE OpeningTurns
  BY <1>14, <1>1, ReconcileTurn, IdleStep DEF Turn, OpeningTurns, CreateSteps
<1>15. ASSUME NEW o \in Outcomes, Retract(o) PROVE OpeningTurns
  BY <1>15, <1>1, RetractTurn, IdleStep DEF Turn, OpeningTurns, CreateSteps
<1>16. ASSUME NEW o \in Outcomes, Link(o) PROVE OpeningTurns
  BY <1>16, <1>1, LinkTurn, IdleStep DEF Turn, OpeningTurns, CreateSteps
<1>17. ASSUME NEW n \in 1 .. MaxPrs, LinkExisting(n) PROVE OpeningTurns
  BY <1>17, <1>1, LinkExistingTurn, IdleStep DEF Turn, OpeningTurns, CreateSteps
<1>18. ASSUME BeginDiscard PROVE OpeningTurns
  BY <1>18, <1>1, BeginDiscardTurn, IdleStep DEF Turn, OpeningTurns, CreateSteps
<1>19. ASSUME LookBeforeDiscard PROVE OpeningTurns
  BY <1>19, <1>1, LookBeforeDiscardTurn, IdleStep DEF Turn, OpeningTurns, CreateSteps
<1>20. ASSUME NEW o \in Outcomes, DiscardRequest(o) PROVE OpeningTurns
  BY <1>20, <1>1, DiscardRequestTurn, IdleStep DEF Turn, OpeningTurns, CreateSteps
<1> QED
  BY <1>2, <1>3, <1>4, <1>5, <1>6, <1>7, <1>8, <1>9, <1>10, <1>11, <1>12, <1>13, <1>14,
  <1>15, <1>16, <1>17, <1>18, <1>19, <1>20 DEF PullRequestNext

LEMMA PublicationSteps ==
  ASSUME TypeOK, PublicationNext
  PROVE  {op.step, op'.step} \subseteq {"idle"} \cup PublishSteps
<1>1. op \in Owners
  BY DEF TypeOK
<1>2. ASSUME NEW c \in {tip, task.publication.commit}, BeginPublication(c)
      PROVE  {op.step, op'.step} \subseteq {"idle"} \cup PublishSteps
  BY <1>2, <1>1, BeginPublicationTurn, IdleStep DEF Turn, PublishSteps
<1>3. ASSUME NEW read \in BOOLEAN, Settle(read)
      PROVE  {op.step, op'.step} \subseteq {"idle"} \cup PublishSteps
  BY <1>3, <1>1, SettleTurn, IdleStep DEF Turn, PublishSteps
<1>4. ASSUME NEW read \in BOOLEAN, Observe(read)
      PROVE  {op.step, op'.step} \subseteq {"idle"} \cup PublishSteps
  BY <1>4, <1>1, ObserveTurn, IdleStep DEF Turn, PublishSteps
<1>5. ASSUME NEW o \in Outcomes, RefusePublication(o)
      PROVE  {op.step, op'.step} \subseteq {"idle"} \cup PublishSteps
  BY <1>5, <1>1, RefusePublicationTurn, IdleStep DEF Turn, PublishSteps
<1>6. ASSUME NEW o \in Outcomes, Pend(o)
      PROVE  {op.step, op'.step} \subseteq {"idle"} \cup PublishSteps
  BY <1>6, <1>1, PendTurn, IdleStep DEF Turn, PublishSteps
<1>7. ASSUME NEW read \in BOOLEAN, Recheck(read)
      PROVE  {op.step, op'.step} \subseteq {"idle"} \cup PublishSteps
  BY <1>7, <1>1, RecheckTurn, IdleStep DEF Turn, PublishSteps
<1>8. ASSUME NEW sent \in BOOLEAN, NEW answered \in BOOLEAN, Send(sent, answered)
      PROVE  {op.step, op'.step} \subseteq {"idle"} \cup PublishSteps
  BY <1>8, <1>1, SendTurn, IdleStep DEF Turn, PublishSteps
<1>9. ASSUME NEW read \in BOOLEAN, ReadBack(read)
      PROVE  {op.step, op'.step} \subseteq {"idle"} \cup PublishSteps
  BY <1>9, <1>1, ReadBackTurn, IdleStep DEF Turn, PublishSteps
<1>10. ASSUME NEW o \in Outcomes, SettlePublication(o)
      PROVE  {op.step, op'.step} \subseteq {"idle"} \cup PublishSteps
  BY <1>10, <1>1, SettlePublicationTurn, IdleStep DEF Turn, PublishSteps
<1> QED
  BY <1>2, <1>3, <1>4, <1>5, <1>6, <1>7, <1>8, <1>9, <1>10 DEF PublicationNext

\* So does a restack, which is adopted only from a rewrite that is there.
RestackTurns ==
  /\ {op.step, op'.step} \subseteq {"idle"} \cup RestackSteps
  /\ op'.step = "adopt" =>
       op.step = "advance" /\ tip = Rewritten /\ task.pending.state # "rewritten"
  /\ op'.step = "replay" => Advance
  /\ op.step = "recordRewrite" => \E o \in Outcomes : RecordRewrite(o)

LEMMA RepublishSteps == ASSUME TypeOK, RepublishNext PROVE RestackTurns
<1>1. op \in Owners
  BY DEF TypeOK
<1>2. ASSUME BeginRestack PROVE RestackTurns
  BY <1>2, <1>1, BeginRestackTurn, IdleStep DEF Turn, RestackTurns, RestackSteps
<1>3. ASSUME NEW o \in Outcomes, PlanRewrite(o) PROVE RestackTurns
  BY <1>3, <1>1, PlanRewriteTurn, IdleStep DEF Turn, RestackTurns, RestackSteps
<1>4. ASSUME Resume PROVE RestackTurns
  BY <1>4, <1>1, ResumeTurn, IdleStep DEF Turn, RestackTurns, RestackSteps
<1>5. ASSUME Advance PROVE RestackTurns
  <2>1. op'.step = "adopt" => tip = Rewritten /\ task.pending.state # "rewritten"
    BY <1>5, <1>1, IdleStep DEF Advance, Step, Refuse, Goto, End, Owners
  <2> QED BY <1>5, <1>1, <2>1, AdvanceTurn, IdleStep DEF Turn, RestackTurns, RestackSteps
<1>6. ASSUME NEW clean \in BOOLEAN, ReplayPublished(clean) PROVE RestackTurns
  BY <1>6, <1>1, ReplayPublishedTurn, IdleStep DEF Turn, RestackTurns, RestackSteps
<1>7. ASSUME NEW o \in Outcomes, RecordRewrite(o) PROVE RestackTurns
  BY <1>7, <1>1, RecordRewriteTurn, IdleStep DEF Turn, RestackTurns, RestackSteps
<1>8. ASSUME NEW o \in Outcomes, AdoptRewrite(o) PROVE RestackTurns
  BY <1>8, <1>1, AdoptRewriteTurn, IdleStep DEF Turn, RestackTurns, RestackSteps
<1>9. ASSUME NEW o \in Outcomes, ClearPending(o) PROVE RestackTurns
  BY <1>9, <1>1, ClearPendingTurn, IdleStep DEF Turn, RestackTurns, RestackSteps
<1>10. ASSUME CheckRemote PROVE RestackTurns
  BY <1>10, <1>1, CheckRemoteTurn, IdleStep DEF Turn, RestackTurns, RestackSteps
<1>11. ASSUME NEW sent \in BOOLEAN, NEW answered \in BOOLEAN, ForcePush(sent, answered)
      PROVE  RestackTurns
  BY <1>11, <1>1, ForcePushTurn, IdleStep DEF Turn, RestackTurns, RestackSteps
<1>12. ASSUME NEW retargeted \in BOOLEAN, NEW o \in Outcomes, Finish(retargeted, o)
      PROVE  RestackTurns
  BY <1>12, <1>1, FinishTurn, IdleStep DEF Turn, RestackTurns, RestackSteps
<1>13. ASSUME BeginDiscardRestack PROVE RestackTurns
  BY <1>13, <1>1, BeginDiscardRestackTurn, IdleStep DEF Turn, RestackTurns, RestackSteps
<1>14. ASSUME GoBack PROVE RestackTurns
  BY <1>14, <1>1, GoBackTurn, IdleStep DEF Turn, RestackTurns, RestackSteps
<1>15. ASSUME NEW o \in Outcomes, DropRecord(o) PROVE RestackTurns
  BY <1>15, <1>1, DropRecordTurn, IdleStep DEF Turn, RestackTurns, RestackSteps
<1> QED
  BY <1>2, <1>3, <1>4, <1>5, <1>6, <1>7, <1>8, <1>9, <1>10, <1>11, <1>12, <1>13, <1>14,
  <1>15 DEF RepublishNext

LEMMA PullRequestPrepared == ASSUME History, Prepared, PullRequestNext PROVE Prepared'
<1>1. /\ TypeOK /\ op \in Owners /\ task \in TaskRecords /\ task \in survivors
     /\ SoundRecord(task) /\ Decided
  BY DEF History, Inv, TypeOK, Records
<1>2. ASSUME BeginCreate PROVE Prepared'
  <2>1. op'.step \in {"lookup", "idle"}
    BY <1>2, <1>1, BeginCreateTurn, IdleStep DEF Turn
  <2>2. task' = task /\ task.pending = NoRestack
    BY <1>2 DEF BeginCreate, record
  <2> QED BY <2>1, <2>2 DEF Prepared, Admitted, RestackSteps
<1>3. ASSUME Lookup PROVE Prepared'
  <2>1. op'.step \in {"toExisting", "restack", "push", "idle"}
    BY <1>3, <1>1, LookupTurn, IdleStep DEF Turn
  <2>2. task'.pending = task.pending
    BY <1>3 DEF Lookup, Step, Refuse, record, Rest
  <2>3. op.step = "lookup"
    BY <1>3, <1>1, LookupTurn DEF Turn
  <2> QED BY <2>1, <2>2, <2>3 DEF Prepared, Admitted, RestackSteps
<1>4. ASSUME NEW sent \in BOOLEAN, ToExisting(sent) PROVE Prepared'
  <2>1. op'.step \in {"link", "idle"}
    BY <1>4, <1>1, ToExistingTurn, IdleStep DEF Turn
  <2>2. task'.pending = task.pending
    BY <1>4 DEF ToExisting, Step, Refuse, record, Rest
  <2>3. op.step = "toExisting"
    BY <1>4, <1>1, ToExistingTurn DEF Turn
  <2> QED BY <2>1, <2>2, <2>3 DEF Prepared, Admitted, RestackSteps
<1>5. ASSUME PlanRestack PROVE Prepared'
  <2>1. op'.step \in {"restackReplay", "idle"}
    BY <1>5, <1>1, PlanRestackTurn, IdleStep DEF Turn
  <2>2. task'.pending = task.pending
    BY <1>5 DEF PlanRestack, Step, Refuse, record, Rest
  <2>3. op.step = "restack"
    BY <1>5, <1>1, PlanRestackTurn DEF Turn
  <2> QED BY <2>1, <2>2, <2>3 DEF Prepared, Admitted, RestackSteps
<1>6. ASSUME NEW clean \in BOOLEAN, Replay(clean) PROVE Prepared'
  <2>1. op'.step \in {"restackRecord", "idle"}
    BY <1>6, <1>1, ReplayTurn, IdleStep DEF Turn
  <2>2. task'.pending = task.pending
    BY <1>6 DEF Replay, Step, Refuse, record, Rest
  <2>3. op.step = "restackReplay"
    BY <1>6, <1>1, ReplayTurn DEF Turn
  <2> QED BY <2>1, <2>2, <2>3 DEF Prepared, Admitted, RestackSteps
<1>7. ASSUME NEW o \in Outcomes, RecordRestack(o) PROVE Prepared'
  <2>1. op'.step \in {"push", "idle"}
    BY <1>7, <1>1, RecordRestackTurn, IdleStep DEF Turn
  <2>2. op'.step # "idle" => task'.pending = task.pending
    <3> DEFINE t == [task EXCEPT !.base = "landed"]
    <3>1. op'.step # "idle" => Save(t, o)
      BY <1>7, IdleStep DEF RecordRestack, Refuse, End
    <3>2. t.pending = task.pending
      BY <1>1 DEF TaskRecords
    <3> HIDE DEF t
    <3> QED BY <1>1, <3>1, <3>2, SaveFacts
  <2>3. op.step = "restackRecord"
    BY <1>7, <1>1, RecordRestackTurn DEF Turn
  <2> QED BY <2>1, <2>2, <2>3 DEF Prepared, Admitted, RestackSteps
<1>8. ASSUME NEW sent \in BOOLEAN, NEW answered \in BOOLEAN, Push(sent, answered)
      PROVE  Prepared'
  <2>1. op'.step \in {"confirmPush", "idle"}
    BY <1>8, <1>1, PushTurn, IdleStep DEF Turn
  <2>2. task'.pending = task.pending
    BY <1>8 DEF Push, Step, Refuse, record, Rest
  <2>3. op.step = "push"
    BY <1>8, <1>1, PushTurn DEF Turn
  <2> QED BY <2>1, <2>2, <2>3 DEF Prepared, Admitted, RestackSteps
<1>9. ASSUME NEW read \in BOOLEAN, ConfirmPush(read) PROVE Prepared'
  <2>1. op'.step \in {"lookupAgain", "idle"}
    BY <1>9, <1>1, ConfirmPushTurn, IdleStep DEF Turn
  <2>2. task'.pending = task.pending
    BY <1>9 DEF ConfirmPush, Step, Refuse, record, Rest
  <2>3. op.step = "confirmPush"
    BY <1>9, <1>1, ConfirmPushTurn DEF Turn
  <2> QED BY <2>1, <2>2, <2>3 DEF Prepared, Admitted, RestackSteps
<1>10. ASSUME LookupAgain PROVE Prepared'
  <2>1. op'.step \in {"link", "announce", "idle"}
    BY <1>10, <1>1, LookupAgainTurn, IdleStep DEF Turn
  <2>2. task'.pending = task.pending
    BY <1>10 DEF LookupAgain, Step, Refuse, record, Rest
  <2>3. op.step = "lookupAgain"
    BY <1>10, <1>1, LookupAgainTurn DEF Turn
  <2> QED BY <2>1, <2>2, <2>3 DEF Prepared, Admitted, RestackSteps
<1>11. ASSUME NEW o \in Outcomes, Announce(o) PROVE Prepared'
  <2>1. op'.step \in {"create", "retract", "idle"}
    BY <1>11, <1>1, AnnounceTurn, IdleStep DEF Turn
  <2>2. op'.step # "idle" => task'.pending = task.pending
    <3> DEFINE t == [task EXCEPT !.asked = op.commit]
    <3>1. op'.step # "idle" => Save(t, o)
      BY <1>11, IdleStep DEF Announce, Refuse, End
    <3>2. t.pending = task.pending
      BY <1>1 DEF TaskRecords
    <3> HIDE DEF t
    <3> QED BY <1>1, <3>1, <3>2, SaveFacts
  <2>3. op.step = "announce"
    BY <1>11, <1>1, AnnounceTurn DEF Turn
  <2> QED BY <2>1, <2>2, <2>3 DEF Prepared, Admitted, RestackSteps
<1>12. ASSUME NEW answer \in {"opened", "lost", "rejected", "not sent"}, Create(answer)
      PROVE  Prepared'
  <2>1. op'.step \in {"retract", "reconcile", "confirmCreated", "idle"}
    BY <1>12, <1>1, CreateTurn, IdleStep DEF Turn
  <2>2. task'.pending = task.pending
    BY <1>12 DEF Create, Step, Refuse, record, Rest
  <2>3. op.step = "create"
    BY <1>12, <1>1, CreateTurn DEF Turn
  <2> QED BY <2>1, <2>2, <2>3 DEF Prepared, Admitted, RestackSteps
<1>13. ASSUME NEW read \in BOOLEAN, ConfirmCreated(read) PROVE Prepared'
  <2>1. op'.step \in {"link", "idle"}
    BY <1>13, <1>1, ConfirmCreatedTurn, IdleStep DEF Turn
  <2>2. task'.pending = task.pending
    BY <1>13 DEF ConfirmCreated, Step, Refuse, record, Rest
  <2>3. op.step = "confirmCreated"
    BY <1>13, <1>1, ConfirmCreatedTurn DEF Turn
  <2> QED BY <2>1, <2>2, <2>3 DEF Prepared, Admitted, RestackSteps
<1>14. ASSUME NEW read \in BOOLEAN, Reconcile(read) PROVE Prepared'
  <2>1. op'.step \in {"confirmCreated", "retract", "idle"}
    BY <1>14, <1>1, ReconcileTurn, IdleStep DEF Turn
  <2>2. task'.pending = task.pending
    BY <1>14 DEF Reconcile, Step, Refuse, record, Rest
  <2>3. op.step = "reconcile"
    BY <1>14, <1>1, ReconcileTurn DEF Turn
  <2> QED BY <2>1, <2>2, <2>3 DEF Prepared, Admitted, RestackSteps
<1>15. ASSUME NEW o \in Outcomes, Retract(o) PROVE Prepared'
  <2>1. op'.step \in {"idle"}
    BY <1>15, <1>1, RetractTurn, IdleStep DEF Turn
  <2> QED BY <2>1 DEF Prepared, Admitted, RestackSteps
<1>16. ASSUME NEW o \in Outcomes, Link(o) PROVE Prepared'
  <2>1. op'.step \in {"idle"}
    BY <1>16, <1>1, LinkTurn, IdleStep DEF Turn
  <2> QED BY <2>1 DEF Prepared, Admitted, RestackSteps
<1>17. ASSUME NEW n \in 1 .. MaxPrs, LinkExisting(n) PROVE Prepared'
  <2>1. op'.step \in {"link", "idle"}
    BY <1>17, <1>1, LinkExistingTurn, IdleStep DEF Turn
  <2> QED BY <2>1 DEF Prepared, Admitted, RestackSteps
<1>18. ASSUME BeginDiscard PROVE Prepared'
  <2>1. op'.step \in {"discard", "idle"}
    BY <1>18, <1>1, BeginDiscardTurn, IdleStep DEF Turn
  <2> QED BY <2>1 DEF Prepared, Admitted, RestackSteps
<1>19. ASSUME LookBeforeDiscard PROVE Prepared'
  <2>1. op'.step \in {"discardWrite", "idle"}
    BY <1>19, <1>1, LookBeforeDiscardTurn, IdleStep DEF Turn
  <2> QED BY <2>1 DEF Prepared, Admitted, RestackSteps
<1>20. ASSUME NEW o \in Outcomes, DiscardRequest(o) PROVE Prepared'
  <2>1. op'.step \in {"idle"}
    BY <1>20, <1>1, DiscardRequestTurn, IdleStep DEF Turn
  <2> QED BY <2>1 DEF Prepared, Admitted, RestackSteps
<1> QED
  BY <1>2, <1>3, <1>4, <1>5, <1>6, <1>7, <1>8, <1>9, <1>10, <1>11, <1>12, <1>13, <1>14,
  <1>15, <1>16, <1>17, <1>18, <1>19, <1>20 DEF PullRequestNext

LEMMA RepublishPrepared == ASSUME History, Prepared, RepublishNext PROVE Prepared'
<1>1. /\ TypeOK /\ op \in Owners /\ task \in TaskRecords /\ task \in survivors
     /\ SoundRecord(task) /\ Decided
  BY DEF History, Inv, TypeOK, Records
<1>2. ASSUME BeginRestack PROVE Prepared'
  <2>1. op'.step \in {"plan", "idle"}
    BY <1>2, <1>1, BeginRestackTurn, IdleStep DEF Turn
  <2>2. op' # Idle => op'.bound = NoCommit
    BY <1>2, <1>1, BeginRestackTurn DEF Turn
  <2>3. tip' = tip /\ task' = task /\ tip.base = "old" /\ task.base = "old"
    BY <1>2 DEF BeginRestack, record, branch
  <2> QED BY <2>1, <2>2, <2>3 DEF Prepared, Admitted, RestackSteps, Idle
<1>3. ASSUME NEW o \in Outcomes, PlanRewrite(o) PROVE Prepared'
  <2>1. op'.step \in {"advance", "idle"}
    BY <1>3, <1>1, PlanRewriteTurn, IdleStep DEF Turn
  <2>2. op.step = "plan" /\ (op' # Idle => op'.bound = op.bound)
    BY <1>3, <1>1, PlanRewriteTurn DEF Turn
  <2> QED BY <2>1, <2>2 DEF Idle, Prepared, Admitted, RestackSteps
<1>4. ASSUME Resume PROVE Prepared'
  <2>1. op'.step \in {"advance", "idle"}
    BY <1>4, <1>1, ResumeTurn, IdleStep DEF Turn
  <2>2. op' # Idle => op'.bound = NoCommit
    BY <1>4, <1>1, ResumeTurn DEF Turn
  <2> QED BY <2>1, <2>2 DEF Idle, Prepared, Admitted, RestackSteps
<1>5. ASSUME Advance PROVE Prepared'
  <2>1. op'.step \in {"checkRemote", "adopt", "replay", "idle"}
    BY <1>5, <1>1, AdvanceTurn, IdleStep DEF Turn
  <2>2. op.step = "advance" /\ (op' # Idle => op'.bound = op.bound)
    BY <1>5, <1>1, AdvanceTurn DEF Turn
  <2>3. op'.step \in {"replay", "adopt"} => task' = task /\ task.pending.state # "rewritten"
    BY <1>5, <1>1, IdleStep DEF Advance, Step, Refuse, Goto, End, Owners, record
  <2>4. task.pending.state \in {"planned", "rewritten"}
    BY <1>1, <2>2 DEF Decided, Pending, SoundRecord, TaskRecords
  <2> QED BY <2>1, <2>2, <2>3, <2>4 DEF Idle, Prepared, Admitted, RestackSteps
<1>6. ASSUME NEW clean \in BOOLEAN, ReplayPublished(clean) PROVE Prepared'
  <2>1. op'.step \in {"recordRewrite", "clear", "idle"}
    BY <1>6, <1>1, ReplayPublishedTurn, IdleStep DEF Turn
  <2>2. op.step = "replay" /\ (op' # Idle => op'.bound = op.bound)
    BY <1>6, <1>1, ReplayPublishedTurn DEF Turn
  <2>3. task' = task
    BY <1>6 DEF ReplayPublished, Refuse, record
  <2> QED BY <2>1, <2>2, <2>3 DEF Idle, Prepared, Admitted, RestackSteps
<1>7. ASSUME NEW o \in Outcomes, RecordRewrite(o) PROVE Prepared'
  <2>1. op'.step \in {"checkRemote", "clear", "idle"}
    BY <1>7, <1>1, RecordRewriteTurn, IdleStep DEF Turn
  <2>2. op.step = "recordRewrite" /\ (op' # Idle => op'.bound = op.bound)
    BY <1>7, <1>1, RecordRewriteTurn DEF Turn
  <2> QED BY <2>1, <2>2 DEF Idle, Prepared, Admitted, RestackSteps
<1>8. ASSUME NEW o \in Outcomes, AdoptRewrite(o) PROVE Prepared'
  <2>1. op'.step \in {"checkRemote", "idle"}
    BY <1>8, <1>1, AdoptRewriteTurn, IdleStep DEF Turn
  <2>2. op.step = "adopt" /\ (op' # Idle => op'.bound = op.bound)
    BY <1>8, <1>1, AdoptRewriteTurn DEF Turn
  <2> QED BY <2>1, <2>2 DEF Idle, Prepared, Admitted, RestackSteps
<1>9. ASSUME NEW o \in Outcomes, ClearPending(o) PROVE Prepared'
  <2>1. op'.step \in {"idle"}
    BY <1>9, <1>1, ClearPendingTurn, IdleStep DEF Turn
  <2> QED BY <2>1 DEF Prepared, Admitted, RestackSteps
<1>10. ASSUME CheckRemote PROVE Prepared'
  <2>1. op'.step \in {"finish", "force", "idle"}
    BY <1>10, <1>1, CheckRemoteTurn, IdleStep DEF Turn
  <2>2. op.step = "checkRemote" /\ (op' # Idle => op'.bound = op.bound)
    BY <1>10, <1>1, CheckRemoteTurn DEF Turn
  <2> QED BY <2>1, <2>2 DEF Idle, Prepared, Admitted, RestackSteps
<1>11. ASSUME NEW sent \in BOOLEAN, NEW answered \in BOOLEAN, ForcePush(sent, answered)
      PROVE  Prepared'
  <2>1. op'.step \in {"finish", "idle"}
    BY <1>11, <1>1, ForcePushTurn, IdleStep DEF Turn
  <2>2. op.step = "force" /\ (op' # Idle => op'.bound = op.bound)
    BY <1>11, <1>1, ForcePushTurn DEF Turn
  <2> QED BY <2>1, <2>2 DEF Idle, Prepared, Admitted, RestackSteps
<1>12. ASSUME NEW retargeted \in BOOLEAN, NEW o \in Outcomes, Finish(retargeted, o)
      PROVE  Prepared'
  <2>1. op'.step \in {"idle"}
    BY <1>12, <1>1, FinishTurn, IdleStep DEF Turn
  <2> QED BY <2>1 DEF Prepared, Admitted, RestackSteps
<1>13. ASSUME BeginDiscardRestack PROVE Prepared'
  <2>1. op'.step \in {"goBack", "idle"}
    BY <1>13, <1>1, BeginDiscardRestackTurn, IdleStep DEF Turn
  <2>2. op' # Idle => op'.bound = NoCommit
    BY <1>13, <1>1, BeginDiscardRestackTurn DEF Turn
  <2> QED BY <2>1, <2>2 DEF Idle, Prepared, Admitted, RestackSteps
<1>14. ASSUME GoBack PROVE Prepared'
  <2>1. op'.step \in {"dropRecord", "idle"}
    BY <1>14, <1>1, GoBackTurn, IdleStep DEF Turn
  <2>2. op.step = "goBack" /\ (op' # Idle => op'.bound = op.bound)
    BY <1>14, <1>1, GoBackTurn DEF Turn
  <2>3. op'.step = "dropRecord" =>
          /\ task' = task /\ remote' = remote
          /\ ~(task.pending.state = "rewritten" /\ remote = Rewritten)
    BY <1>14, IdleStep DEF GoBack, Step, Refuse, End, record, github
  <2> QED BY <2>1, <2>2, <2>3 DEF Prepared, Admitted, RestackSteps, Rewritten, Idle
<1>15. ASSUME NEW o \in Outcomes, DropRecord(o) PROVE Prepared'
  <2>1. op'.step \in {"idle"}
    BY <1>15, <1>1, DropRecordTurn, IdleStep DEF Turn
  <2> QED BY <2>1 DEF Prepared, Admitted, RestackSteps
<1> QED
  BY <1>2, <1>3, <1>4, <1>5, <1>6, <1>7, <1>8, <1>9, <1>10, <1>11, <1>12, <1>13, <1>14,
  <1>15 DEF RepublishNext

\* What others pushed on is not a commit made here.
LEMMA PushedByOthers ==
  ASSUME NEW d \in Commits, NEW c, Clean(c)
  PROVE  [d EXCEPT !.own = Append(@, 0)] # c
<1>1. d.own \in Seq(Nat)
  BY CommitParts
<1> DEFINE e == [d EXCEPT !.own = Append(@, 0)]
<1>2. e.own = Append(d.own, 0)
  BY DEF Commits
<1> HIDE DEF e
<1>3. Len(e.own) \in 1 .. Len(e.own) /\ e.own[Len(e.own)] = 0
  BY <1>1, <1>2
<1>4. e # c
  BY <1>3 DEF Clean, NamedUpTo
<1> QED BY <1>4 DEF e

\* A restack's rewrite is made of what it replays.
LEMMA CleanRewrite == ASSUME History, NEW t \in survivors PROVE Clean(RewriteOf(t))
<1>1. made \in Nat /\ t \in TaskRecords /\ Clean(t.pending.previous)
  BY BoundsAssumption DEF History, Inv, TypeOK, Known, CleanRecord
<1>2. t.pending.previous \in Commits
  BY <1>1 DEF TaskRecords
<1> QED BY <1>1, <1>2, CleanCommits DEF Clean, RewriteOf

LEMMA PreparedInvariant == ASSUME History, Prepared, DeliveryNext PROVE Prepared'
<1>1. TypeOK /\ tip \in Commits /\ task \in survivors /\ remote \in Commits
  BY DEF History, Inv, TypeOK
<1>2. CASE Surroundings
  <2>1. CASE op' = Idle
    BY <2>1, IdleStep DEF Prepared, Admitted, RestackSteps
  <2>2. CASE Undecided
    <3>1. op.step = "plan" => tip'.base = tip.base
      BY <1>1, TipStep DEF TipMoves, Commits
    <3>2. op.step = "dropRecord" /\ remote' # Rewritten => remote' # Rewritten'
      BY <2>2 DEF Undecided, Rewritten
    <3>3. op.step = "dropRecord" /\ remote # Rewritten => remote' # Rewritten
      <4>1. Rewritten # NoCommit /\ Clean(Rewritten)
        <5>1. Rewritten.base = "landed"
          BY <1>1, CommitTypes DEF Rewritten, History, Inv, TypeOK, TaskRecords
        <5> QED BY <1>1, <5>1, CleanRewrite DEF Rewritten, RewriteOf, NoCommit
      <4>2. [remote EXCEPT !.own = Append(@, 0)] # Rewritten
        BY <1>1, <4>1, PushedByOthers
      <4> QED BY <1>1, <4>1, <4>2, RemoteStep DEF Contacts
    <3> QED BY <2>2, <3>1, <3>2, <3>3, Zenon DEF Undecided, Prepared
  <2> QED BY <1>1, <1>2, <2>1, <2>2, SurroundingsStep
<1>3. CASE PublicationNext
  BY <1>1, <1>3, PublicationSteps DEF Prepared, Admitted, PublishSteps, RestackSteps
<1> QED
  BY <1>2, <1>3, PullRequestPrepared, RepublishPrepared DEF DeliveryNext

\* A commit that is delivered in place of the approved one is the replay that was
\* just recorded, for good.
BoundKept ==
  \/ op'.bound = NoCommit \/ op'.commit = op'.bound
  \/ op'.bound = op.bound /\ op'.commit = op.commit
  \/ \A t \in survivors' : Landed(t)

LEMMA PullRequestBound == ASSUME History, Prepared, Carried, PullRequestNext PROVE BoundKept
<1>1. /\ TypeOK /\ op \in Owners /\ task \in TaskRecords /\ task \in survivors
     /\ Idle.bound = NoCommit
  BY DEF History, Inv, TypeOK, Idle
<1>2. ASSUME BeginCreate PROVE BoundKept
  BY <1>2, <1>1, BeginCreateTurn DEF Turn, BoundKept
<1>3. ASSUME Lookup PROVE BoundKept
  BY <1>3, <1>1, LookupTurn DEF Turn, BoundKept
<1>4. ASSUME NEW sent \in BOOLEAN, ToExisting(sent) PROVE BoundKept
  BY <1>4, <1>1, ToExistingTurn DEF Turn, BoundKept
<1>5. ASSUME PlanRestack PROVE BoundKept
  BY <1>5, <1>1, PlanRestackTurn DEF Turn, BoundKept
<1>6. ASSUME NEW clean \in BOOLEAN, Replay(clean) PROVE BoundKept
  BY <1>6, <1>1, ReplayTurn DEF Turn, BoundKept
<1>7. ASSUME NEW o \in Outcomes, RecordRestack(o) PROVE BoundKept
  <2>2. CASE o = "saved"
    <3> DEFINE t == [task EXCEPT !.base = "landed"]
    <3>1. Save(t, o) /\ op.step = "restackRecord"
      BY <1>7 DEF RecordRestack, At
    <3>2. t.base = "landed" /\ t.pending = task.pending
      BY <1>1 DEF TaskRecords
    <3>3. task.pending = NoRestack
      BY <3>1 DEF Prepared, Admitted
    <3> HIDE DEF t
    <3> QED BY <1>1, <2>2, <3>1, <3>2, <3>3, SaveFacts DEF Landed, BoundKept
  <2> QED BY <1>7, <1>1, <2>2 DEF RecordRestack, End, BoundKept
<1>8. ASSUME NEW sent \in BOOLEAN, NEW answered \in BOOLEAN, Push(sent, answered)
      PROVE  BoundKept
  BY <1>8, <1>1, PushTurn DEF Turn, BoundKept
<1>9. ASSUME NEW read \in BOOLEAN, ConfirmPush(read) PROVE BoundKept
  BY <1>9, <1>1, ConfirmPushTurn DEF Turn, BoundKept
<1>10. ASSUME LookupAgain PROVE BoundKept
  BY <1>10, <1>1, LookupAgainTurn DEF Turn, BoundKept
<1>11. ASSUME NEW o \in Outcomes, Announce(o) PROVE BoundKept
  BY <1>11, <1>1, AnnounceTurn DEF Turn, BoundKept
<1>12. ASSUME NEW answer \in {"opened", "lost", "rejected", "not sent"}, Create(answer)
      PROVE  BoundKept
  BY <1>12, <1>1, CreateTurn DEF Turn, BoundKept
<1>13. ASSUME NEW read \in BOOLEAN, ConfirmCreated(read) PROVE BoundKept
  BY <1>13, <1>1, ConfirmCreatedTurn DEF Turn, BoundKept
<1>14. ASSUME NEW read \in BOOLEAN, Reconcile(read) PROVE BoundKept
  BY <1>14, <1>1, ReconcileTurn DEF Turn, BoundKept
<1>15. ASSUME NEW o \in Outcomes, Retract(o) PROVE BoundKept
  BY <1>15, <1>1, RetractTurn DEF Turn, BoundKept
<1>16. ASSUME NEW o \in Outcomes, Link(o) PROVE BoundKept
  BY <1>16, <1>1, LinkTurn DEF Turn, BoundKept
<1>17. ASSUME NEW n \in 1 .. MaxPrs, LinkExisting(n) PROVE BoundKept
  BY <1>17, <1>1, LinkExistingTurn DEF Turn, BoundKept
<1>18. ASSUME BeginDiscard PROVE BoundKept
  BY <1>18, <1>1, BeginDiscardTurn DEF Turn, BoundKept
<1>19. ASSUME LookBeforeDiscard PROVE BoundKept
  BY <1>19, <1>1, LookBeforeDiscardTurn DEF Turn, BoundKept
<1>20. ASSUME NEW o \in Outcomes, DiscardRequest(o) PROVE BoundKept
  BY <1>20, <1>1, DiscardRequestTurn DEF Turn, BoundKept
<1> QED
  BY <1>2, <1>3, <1>4, <1>5, <1>6, <1>7, <1>8, <1>9, <1>10, <1>11, <1>12, <1>13, <1>14,
  <1>15, <1>16, <1>17, <1>18, <1>19, <1>20 DEF PullRequestNext

LEMMA PublicationBound == ASSUME History, Prepared, Carried, PublicationNext PROVE BoundKept
<1>1. /\ TypeOK /\ op \in Owners /\ task \in TaskRecords /\ task \in survivors
     /\ Idle.bound = NoCommit
  BY DEF History, Inv, TypeOK, Idle
<1>2. ASSUME NEW c \in {tip, task.publication.commit}, BeginPublication(c) PROVE BoundKept
  BY <1>2, <1>1, BeginPublicationTurn DEF Turn, BoundKept
<1>3. ASSUME NEW read \in BOOLEAN, Settle(read) PROVE BoundKept
  BY <1>3, <1>1, SettleTurn DEF Turn, Carried, PublishSteps, BoundKept
<1>4. ASSUME NEW read \in BOOLEAN, Observe(read) PROVE BoundKept
  BY <1>4, <1>1, ObserveTurn DEF Turn, BoundKept
<1>5. ASSUME NEW o \in Outcomes, RefusePublication(o) PROVE BoundKept
  BY <1>5, <1>1, RefusePublicationTurn DEF Turn, BoundKept
<1>6. ASSUME NEW o \in Outcomes, Pend(o) PROVE BoundKept
  BY <1>6, <1>1, PendTurn DEF Turn, BoundKept
<1>7. ASSUME NEW read \in BOOLEAN, Recheck(read) PROVE BoundKept
  BY <1>7, <1>1, RecheckTurn DEF Turn, BoundKept
<1>8. ASSUME NEW sent \in BOOLEAN, NEW answered \in BOOLEAN, Send(sent, answered)
      PROVE  BoundKept
  BY <1>8, <1>1, SendTurn DEF Turn, BoundKept
<1>9. ASSUME NEW read \in BOOLEAN, ReadBack(read) PROVE BoundKept
  BY <1>9, <1>1, ReadBackTurn DEF Turn, BoundKept
<1>10. ASSUME NEW o \in Outcomes, SettlePublication(o) PROVE BoundKept
  BY <1>10, <1>1, SettlePublicationTurn DEF Turn, BoundKept
<1> QED
  BY <1>2, <1>3, <1>4, <1>5, <1>6, <1>7, <1>8, <1>9, <1>10 DEF PublicationNext

LEMMA RepublishBound == ASSUME History, Prepared, Carried, RepublishNext PROVE BoundKept
<1>1. /\ TypeOK /\ op \in Owners /\ task \in TaskRecords /\ task \in survivors
     /\ Idle.bound = NoCommit
  BY DEF History, Inv, TypeOK, Idle
<1>2. ASSUME BeginRestack PROVE BoundKept
  BY <1>2, <1>1, BeginRestackTurn DEF Turn, BoundKept
<1>3. ASSUME NEW o \in Outcomes, PlanRewrite(o) PROVE BoundKept
  BY <1>3, <1>1, PlanRewriteTurn DEF Turn, BoundKept
<1>4. ASSUME Resume PROVE BoundKept
  BY <1>4, <1>1, ResumeTurn DEF Turn, BoundKept
<1>5. ASSUME Advance PROVE BoundKept
  BY <1>5, <1>1, AdvanceTurn DEF Turn, BoundKept
<1>6. ASSUME NEW clean \in BOOLEAN, ReplayPublished(clean) PROVE BoundKept
  BY <1>6, <1>1, ReplayPublishedTurn DEF Turn, BoundKept
<1>7. ASSUME NEW o \in Outcomes, RecordRewrite(o) PROVE BoundKept
  BY <1>7, <1>1, RecordRewriteTurn DEF Turn, BoundKept
<1>8. ASSUME NEW o \in Outcomes, AdoptRewrite(o) PROVE BoundKept
  BY <1>8, <1>1, AdoptRewriteTurn DEF Turn, BoundKept
<1>9. ASSUME NEW o \in Outcomes, ClearPending(o) PROVE BoundKept
  BY <1>9, <1>1, ClearPendingTurn DEF Turn, BoundKept
<1>10. ASSUME CheckRemote PROVE BoundKept
  BY <1>10, <1>1, CheckRemoteTurn DEF Turn, BoundKept
<1>11. ASSUME NEW sent \in BOOLEAN, NEW answered \in BOOLEAN, ForcePush(sent, answered)
      PROVE  BoundKept
  BY <1>11, <1>1, ForcePushTurn DEF Turn, BoundKept
<1>12. ASSUME NEW retargeted \in BOOLEAN, NEW o \in Outcomes, Finish(retargeted, o)
      PROVE  BoundKept
  BY <1>12, <1>1, FinishTurn DEF Turn, BoundKept
<1>13. ASSUME BeginDiscardRestack PROVE BoundKept
  BY <1>13, <1>1, BeginDiscardRestackTurn DEF Turn, BoundKept
<1>14. ASSUME GoBack PROVE BoundKept
  BY <1>14, <1>1, GoBackTurn DEF Turn, BoundKept
<1>15. ASSUME NEW o \in Outcomes, DropRecord(o) PROVE BoundKept
  BY <1>15, <1>1, DropRecordTurn DEF Turn, BoundKept
<1> QED
  BY <1>2, <1>3, <1>4, <1>5, <1>6, <1>7, <1>8, <1>9, <1>10, <1>11, <1>12, <1>13, <1>14,
  <1>15 DEF RepublishNext

\* While a rewrite is recorded, only that, what happens around it, or a crash comes
\* next; a record that is in doubt is not published on.
LEMMA RecordingStep ==
  ASSUME History, DeliveryNext, op.step = "recordRewrite"
  PROVE  /\ faults' = faults => op'.step = "recordRewrite" \/ task'.pending.state = "rewritten"
         /\ faults' # faults =>
              tip' # Rewritten \/ task'.pending = task.pending \/ task' \in survivors
<1>1. /\ TypeOK /\ op \in Owners /\ task \in TaskRecords /\ task \in survivors
      /\ faults + 1 # faults
  BY BoundsAssumption DEF History, Inv, TypeOK
<1>2. ~PullRequestNext /\ ~PublicationNext
  BY <1>1, PullRequestSteps, PublicationSteps
  DEF OpeningTurns, CreateSteps, PublishSteps
<1>3. CASE Surroundings
  <2>1. CASE Undecided
    BY <2>1 DEF Undecided
  <2>2. CASE op' = Idle
    <3>1. Crash \/ op = Idle \/ op' = op \/ op' = [op EXCEPT !.cancelled = TRUE]
      BY <1>3 DEF Surroundings, GiveUpMove, ForeignPush, ForeignDelete, ForeignOpen, Close,
      List,
      ParentLands, Commit, Amend, BeginMove, Approve, ApproveAgain, FinishRun, CompleteMove
    <3>2. Crash
      BY <1>1, <2>2, <3>1, IdleStep DEF Owners
    <3> QED BY <1>1, <3>2 DEF Crash
  <2> QED BY <1>1, <1>3, <2>1, <2>2, SurroundingsStep
<1>4. CASE RepublishNext
  <2>1. PICK o \in Outcomes : RecordRewrite(o)
    BY <1>1, <1>4, RepublishSteps DEF RestackTurns
  <2>2. Save(RewriteRecorded, o)
    BY <2>1 DEF RecordRewrite
  <2>3. RewriteRecorded.pending.state = "rewritten"
    BY <1>1 DEF RewriteRecorded, TaskRecords
  <2>4. CASE o = "saved"
    <3>1. task'.pending.state = "rewritten" /\ faults' = faults
      BY <1>1, <2>2, <2>3, <2>4 DEF Save
    <3> QED BY <3>1
  <2>5. CASE o = "failed"
    BY <1>1, <2>2, <2>5 DEF Save
  <2>6. CASE o = "unconfirmed"
    <3>1. faults' # faults
      BY <1>1, <2>2, <2>6 DEF Save
    <3>2. tip' = Approved \/ tip' # Rewritten
      BY <2>1, <2>6 DEF RecordRewrite
    <3>3. Approved # Rewritten
      <4>1. Approved.base = "old" /\ task.pending.previous \in Commits
        BY <1>1 DEF History, Decided, Pending, Records, SoundRecord, TaskRecords, Approved
      <4> QED BY <4>1, CommitTypes DEF Rewritten
    <3> QED BY <3>1, <3>2, <3>3
  <2> QED BY <2>4, <2>5, <2>6 DEF Outcomes
<1> QED BY <1>2, <1>3, <1>4 DEF DeliveryNext

LEMMA AdoptStep ==
  ASSUME History, DeliveryNext, op'.step = "adopt"
  PROVE  \/ op.step = "adopt"
         \/ op.step = "advance" /\ tip = Rewritten /\ task.pending.state = "planned"
<1>1. TypeOK /\ task \in TaskRecords /\ task \in survivors
  BY DEF History, Inv, TypeOK
<1>2. CASE Surroundings
  BY <1>1, <1>2, SurroundingsStep, IdleStep DEF Undecided
<1>3. CASE PullRequestNext \/ PublicationNext
  BY <1>1, <1>3, PullRequestSteps, PublicationSteps
  DEF OpeningTurns, CreateSteps, PublishSteps
<1>4. CASE RepublishNext
  <2>1. op.step = "advance" /\ tip = Rewritten /\ task.pending.state # "rewritten"
    BY <1>1, <1>4, RepublishSteps DEF RestackTurns
  <2>2. task.pending.state # "none"
    BY <1>1, <2>1 DEF History, Decided, Pending, Records, SoundRecord
  <2> QED BY <1>1, <2>1, <2>2 DEF TaskRecords
<1> QED BY <1>2, <1>3, <1>4 DEF DeliveryNext

\* A commit from the task's own terminal is not the rewrite of an earlier one.
LEMMA Fresh ==
  ASSUME History, made' = made + 1, NEW c, Clean(c),
         \/ tip' = [tip EXCEPT !.own = Append(@, made')]
         \/ tip' = [tip EXCEPT !.own = Append(Front(@), made')]
  PROVE  tip' # c
<1>1. made \in Nat /\ tip \in Commits
  BY BoundsAssumption DEF History, Inv, TypeOK
<1>2. tip.own \in Seq(Nat) /\ Front(tip.own) \in Seq(Nat)
  BY <1>1, CommitParts DEF Front
<1>3. PICK s \in Seq(Nat) : tip'.own = Append(s, made')
  BY <1>1, <1>2 DEF Commits
<1>4. Len(tip'.own) \in 1 .. Len(tip'.own) /\ tip'.own[Len(tip'.own)] = made + 1
  BY <1>1, <1>3
<1>5. ~(made + 1 \in 1 .. made)
  BY <1>1
<1> QED BY <1>4, <1>5 DEF Clean, NamedUpTo

\* The branch is at the rewrite only where it was, or where the replay puts it.
LEMMA RewriteStep ==
  ASSUME History, Prepared, DeliveryNext, task.pending # NoRestack, tip' = Rewritten
  PROVE  \/ tip = Rewritten
         \/ op.step = "replay" /\ op'.step = "recordRewrite" /\ task.pending.state = "planned"
<1>1. TypeOK /\ task \in survivors /\ task \in TaskRecords /\ task.pending.previous \in Commits
  BY DEF History, Inv, TypeOK, TaskRecords
<1>2. Clean(Rewritten)
  BY <1>1, CleanRewrite DEF Rewritten, RewriteOf
<1>3. Approved # Rewritten
  <2>1. Approved.base = "old"
    BY <1>1 DEF History, Records, SoundRecord, Approved
  <2> QED BY <1>1, <2>1, CommitTypes DEF Rewritten
<1>4. op.step \notin {"restackReplay", "restackRecord"}
  BY DEF Prepared, Admitted
<1>5. op.step = "replay" => task.pending.state = "planned"
  BY DEF Prepared
<1>6. CASE made' = made
  BY <1>1, <1>3, <1>4, <1>5, <1>6, TipStep, BoundsAssumption DEF TipMoves, TypeOK
<1>7. CASE /\ made' = made + 1
           /\ \/ tip' = [tip EXCEPT !.own = Append(@, made')]
              \/ tip' = [tip EXCEPT !.own = Append(Front(@), made')]
  BY <1>2, <1>7, Fresh
<1> QED BY <1>1, <1>6, <1>7, TipStep DEF TipMoves

LEMMA BoundStep ==
  ASSUME History, Prepared, Carried, DeliveryNext
  PROVE  BoundKept
<1>1. TypeOK /\ Idle.bound = NoCommit
  BY DEF History, Inv, Idle
<1>2. CASE Surroundings
  BY <1>1, <1>2, SurroundingsStep DEF Undecided, BoundKept
<1> QED
  BY <1>2, PullRequestBound, PublicationBound, RepublishBound DEF DeliveryNext

LEMMA OldBaseKept ==
  ASSUME History, Prepared, Recoverable, DeliveryNext, NEW t \in survivors',
         t.pending.state = "planned"
  PROVE  t.base = "old"
<1>1. TypeOK /\ task \in survivors /\ task \in TaskRecords /\ NoRestack.state = "none"
  BY DEF History, Inv, TypeOK, NoRestack
<1>2. CASE t \in survivors
  BY <1>2 DEF Recoverable
<1>3. CASE Written(t)
  <2>1. CASE t.pending = task.pending /\ (t.base = task.base \/ op.step = "restackRecord")
    BY <1>1, <2>1 DEF Prepared, Admitted, Recoverable
  <2>2. CASE op.step = "plan" /\ t.base = task.base
    BY <2>2 DEF Prepared
  <2>3. [task.pending EXCEPT !.state = "rewritten"].state = "rewritten"
    BY <1>1 DEF TaskRecords
  <2> QED BY <1>1, <1>3, <2>1, <2>2, <2>3 DEF Written
<1> QED BY <1>1, <1>2, <1>3, RecordOrigin

LEMMA LandedKept ==
  ASSUME History, Prepared, Recoverable, DeliveryNext, \A t \in survivors : Landed(t),
         op.step \notin RestackSteps
  PROVE  \A t \in survivors' : Landed(t)
<1>1. TypeOK /\ task \in survivors
  BY DEF History, Inv, TypeOK
<1>2. ASSUME NEW t \in survivors', Written(t) PROVE Landed(t)
  BY <1>1, <1>2 DEF Written, Landed, RestackSteps
<1> QED BY <1>1, <1>2, RecordOrigin

LEMMA BoundLanded ==
  ASSUME History, Prepared, Carried, Recoverable, DeliveryNext
  PROVE  op'.bound # NoCommit /\ op'.commit # op'.bound => \A t \in survivors' : Landed(t)
<1>1. SUFFICES ASSUME op'.bound # NoCommit, op'.commit # op'.bound,
                      op'.bound = op.bound, op'.commit = op.commit
               PROVE  \A t \in survivors' : Landed(t)
  BY BoundStep DEF BoundKept
<1>2. \A t \in survivors : Landed(t)
  BY <1>1 DEF Recoverable
<1>3. op.step \notin RestackSteps
  BY <1>1 DEF Prepared
<1> QED BY <1>2, <1>3, LandedKept

\* Before any fault, the file holds the record in memory and no other.
LEMMA NoFaultStep ==
  ASSUME History, Recoverable, DeliveryNext, faults' = 0
  PROVE  faults = 0 /\ survivors = {task} /\ survivors' = {task'}
<1>1. TypeOK /\ faults \in Nat
  BY BoundsAssumption DEF History, Inv, TypeOK
<1>2. faults = 0 /\ faults' # faults + 1
  BY <1>1, RecordStep DEF Recorded
<1>3. survivors = {task}
  BY <1>2 DEF Recoverable
<1> QED BY <1>1, <1>2, <1>3, RecordStep DEF Recorded

LEMMA NoFaultRewrite ==
  ASSUME History, Prepared, Recoverable, DeliveryNext, faults' = 0,
         task'.pending.state = "planned", tip' = Rewritten'
  PROVE  op'.step = "recordRewrite"
<1>1. /\ TypeOK /\ task \in TaskRecords /\ task \in survivors /\ tip \in Commits
      /\ op.commit \in Commits
  BY OwnerParts DEF History, Inv, TypeOK
<1>2. faults = 0 /\ faults' = faults /\ survivors = {task}
  BY NoFaultStep
<1>3. CASE task'.pending = task.pending
  <2>1. task.pending # NoRestack /\ tip' = Rewritten
    BY <1>3 DEF NoRestack, Rewritten
  <2>2. CASE tip = Rewritten
    <3>1. op.step = "recordRewrite"
      BY <1>2, <1>3, <2>2 DEF Recoverable
    <3> QED BY <1>2, <1>3, <3>1, RecordingStep
  <2> QED BY <2>1, <2>2, RewriteStep
<1>4. CASE op.step = "plan"
  <2>1. tip'.base = "old"
    BY <1>1, <1>4, TipStep DEF TipMoves, Prepared, Commits
  <2>2. Rewritten'.base = "landed"
    <3>1. task'.pending.previous \in Commits
      BY NextInvariant DEF History, Inv, TypeOK, TaskRecords
    <3> QED BY <3>1, CommitTypes DEF Rewritten
  <2> QED BY <2>1, <2>2
<1>5. task' = task \/ Written(task')
  BY <1>1, <1>2, RecordStep, BoundsAssumption DEF Recorded, TypeOK
<1>6. [task.pending EXCEPT !.state = "rewritten"].state = "rewritten"
  BY <1>1 DEF TaskRecords
<1>7. \/ task'.pending \in {task.pending, NoRestack, [task.pending EXCEPT !.state = "rewritten"]}
      \/ op.step = "plan"
  BY <1>5 DEF Written
<1>8. NoRestack.state = "none"
  BY DEF NoRestack
<1> QED BY <1>3, <1>4, <1>6, <1>7, <1>8

LEMMA AdoptAfterFault ==
  ASSUME History, Recoverable, DeliveryNext, op'.step = "adopt"
  PROVE  faults' # 0
<1>1. SUFFICES ASSUME faults' = 0 PROVE FALSE
  OBVIOUS
<1>2. faults = 0
  BY <1>1, NoFaultStep
<1> QED BY <1>2, AdoptStep DEF Recoverable

\* A branch that is at a recorded rewrite: one fault does not make the record of it
\* doubtful.
LEMMA RecordedRewrite ==
  ASSUME History, Prepared, Recoverable, DeliveryNext, faults' <= 1,
         task'.pending.state = "rewritten", tip' = Rewritten', NEW t \in survivors'
  PROVE  t.base = "landed" /\ t.pending \in {NoRestack, task'.pending}
<1>1. /\ TypeOK /\ task \in TaskRecords /\ task \in survivors /\ faults \in Nat
      /\ NoRestack.state = "none" /\ SoundRecord(task)
  BY BoundsAssumption DEF History, Inv, TypeOK, NoRestack, Records
<1>2. /\ survivors' \subseteq survivors \cup {task'} /\ faults' \in {faults, faults + 1}
      /\ \/ task' = task
         \/ Written(task') /\ (faults' = faults => survivors' = {task'})
         \/ faults' = faults + 1 /\ task' \in survivors
  BY <1>1, RecordStep DEF Recorded
<1>3. faults <= 1 /\ (faults' = faults + 1 => faults = 0 /\ survivors = {task})
  BY <1>1, <1>2 DEF Recoverable
<1>4. CASE task'.pending = task.pending
  <2>1. task.pending # NoRestack /\ tip' = Rewritten
    BY <1>1, <1>4 DEF Rewritten
  <2>2. tip = Rewritten
    BY <1>4, <2>1, RewriteStep
  <2>3. \A s \in survivors : s.base = "landed" /\ s.pending \in {NoRestack, task.pending}
    BY <1>3, <1>4, <2>2 DEF Recoverable
  <2>4. ASSUME Written(task') PROVE task'.base = "landed"
    BY <1>1, <1>4, <2>1, <2>3, <2>4 DEF Written
  <2> QED BY <1>1, <1>2, <1>4, <2>3, <2>4
<1>5. CASE /\ op.step \in {"recordRewrite", "adopt"}
           /\ task'.pending = [task.pending EXCEPT !.state = "rewritten"]
           /\ task'.base = "landed"
           /\ faults' = faults => survivors' = {task'}
  <2>1. task.pending.state = "planned" /\ Rewritten' = Rewritten /\ task.pending # task'.pending
    BY <1>1, <1>5 DEF Prepared, Rewritten, TaskRecords
  <2>2. CASE faults' = faults
    BY <1>5, <2>2
  <2>3. CASE faults' # faults
    <3>1. faults = 0 /\ survivors = {task}
      BY <1>2, <1>3, <2>3
    <3>2. op.step = "recordRewrite"
      BY <1>5, <3>1 DEF Recoverable
    <3> QED BY <2>1, <2>3, <3>1, <3>2, RecordingStep
  <2> QED BY <2>2, <2>3
<1>6. \/ task'.pending \in {task.pending, NoRestack}
      \/ task'.pending.state = "planned"
      \/ /\ op.step \in {"recordRewrite", "adopt"}
         /\ task'.pending = [task.pending EXCEPT !.state = "rewritten"]
         /\ task'.base = "landed"
         /\ faults' = faults => survivors' = {task'}
  BY <1>2, <1>3 DEF Written
<1> QED BY <1>1, <1>4, <1>5, <1>6

\* A restack's rewrite on origin: nor does one fault make a record forget it.
LEMMA PublishedRewrite ==
  ASSUME History, Prepared, Consent, Recoverable, DeliveryNext, faults' <= 1,
         remote'.base = "landed", 0 \notin Range(remote'.own), remote' \notin consented',
         NEW t \in survivors'
  PROVE  t.base = "landed" /\ (t.pending # NoRestack => remote' = RewriteOf(t))
<1>1. /\ TypeOK /\ task \in TaskRecords /\ task \in survivors /\ faults \in Nat
      /\ NoRestack.state = "none" /\ SoundRecord(task) /\ remote \in Commits
  BY BoundsAssumption DEF History, Inv, TypeOK, NoRestack, Records
<1>2. faults <= 1
  BY <1>1, RecordStep DEF Recorded
<1>3. remote' \notin consented
  BY <1>1, ConsentStep DEF Agreements
<1>4. /\ \A s \in survivors : s.base = "landed" /\ (s.pending # NoRestack => remote' = RewriteOf(s))
      /\ ~(op.step = "dropRecord" /\ task.pending.state = "rewritten")
  <2>1. CASE remote' = remote
    <3>1. \A s \in survivors : s.base = "landed" /\ (s.pending # NoRestack => remote = RewriteOf(s))
      BY <1>2, <1>3, <2>1 DEF Recoverable, RewriteIsOut
    <3>2. task.pending.state = "rewritten" => remote = Rewritten
      BY <1>1, <3>1 DEF RewriteOf, Rewritten
    <3> QED BY <2>1, <3>1, <3>2 DEF Prepared
  <2>2. CASE op.step = "send" /\ RemoteAt(op.commit)
    BY <1>3, <2>2 DEF RemoteAt, History, Decided, Confirmed
  <2>3. CASE op.step \in {"toExisting", "push"} /\ RemoteAt(op.commit)
    <3>1. op.bound # NoCommit /\ op.bound \in consented /\ op.commit # op.bound
      BY <1>3, <2>3 DEF RemoteAt, History, Decided, Admitted
    <3>2. \A s \in survivors : Landed(s)
      BY <3>1 DEF Recoverable
    <3> QED BY <2>3, <3>2 DEF Landed
  <2>4. CASE op.step = "force" /\ RemoteAt(tip)
    <3>1. tip = Rewritten /\ remote' = Rewritten
      BY <2>4 DEF Consent, Carried, RemoteAt
    <3>2. task.pending.state = "rewritten"
      <4>1. task.pending # NoRestack /\ task.base = "landed"
        BY <2>4 DEF History, Decided, Pending
      <4>2. task.pending.state \in {"planned", "rewritten"}
        BY <1>1, <4>1 DEF SoundRecord, TaskRecords
      <4> QED BY <1>1, <4>1, <4>2 DEF Recoverable
    <3>3. \A s \in survivors : s.base = "landed" /\ s.pending \in {NoRestack, task.pending}
      BY <1>2, <3>1, <3>2 DEF Recoverable
    <3> QED BY <2>4, <3>1, <3>3 DEF RewriteOf, Rewritten
  <2>5. remote' # NoCommit
    BY DEF NoCommit
  <2>6. remote' # [remote EXCEPT !.own = Append(@, 0)]
    <3>1. SUFFICES ASSUME remote' = [remote EXCEPT !.own = Append(@, 0)] PROVE FALSE
      OBVIOUS
    <3>2. remote.own \in Seq(Nat) /\ remote'.own = Append(remote.own, 0)
      BY <1>1, <3>1, CommitParts DEF Commits
    <3>3. Len(remote'.own) \in 1 .. Len(remote'.own) /\ remote'.own[Len(remote'.own)] = 0
          /\ remote'.own \in Seq(Nat)
      BY <3>2
    <3> QED BY <3>3 DEF Range
  <2> QED BY <1>1, <2>1, <2>2, <2>3, <2>4, <2>5, <2>6, RemoteStep DEF Contacts
<1>5. CASE t \in survivors
  BY <1>4, <1>5
<1>6. CASE Written(t)
  <2>1. task.base = "landed" /\ (task.pending # NoRestack => remote' = RewriteOf(task))
    BY <1>1, <1>4
  <2>2. t.base = "landed"
    BY <1>4, <1>6, <2>1 DEF Written
  <2>3. op.step # "plan"
    BY <2>1 DEF Prepared
  <2>4. CASE /\ op.step \in {"recordRewrite", "adopt"}
             /\ t.pending = [task.pending EXCEPT !.state = "rewritten"]
    <3>1. t.pending.previous = task.pending.previous /\ task.pending # NoRestack
      BY <1>1, <2>4 DEF TaskRecords, Prepared
    <3> QED BY <2>1, <2>2, <3>1 DEF RewriteOf
  <2>5. \/ t.pending \in {NoRestack, task.pending}
        \/ /\ op.step \in {"recordRewrite", "adopt"}
           /\ t.pending = [task.pending EXCEPT !.state = "rewritten"]
    BY <1>6, <2>3 DEF Written
  <2> QED BY <2>1, <2>2, <2>4, <2>5 DEF RewriteOf
<1> QED BY <1>1, <1>5, <1>6, RecordOrigin

LEMMA RecoverableInvariant ==
  ASSUME History, Prepared, Consent, Recoverable, DeliveryNext
  PROVE  Recoverable'
<1>1. \A t \in survivors' : t.pending.state = "planned" => t.base = "old"
  BY OldBaseKept
<1>2. op'.bound # NoCommit /\ op'.commit # op'.bound => \A t \in survivors' : Landed(t)
  BY BoundLanded DEF Consent
<1>3. faults' = 0 => survivors' = {task'}
  BY NoFaultStep
<1>4. faults' = 0 /\ task'.pending.state = "planned" /\ tip' = Rewritten' =>
        op'.step = "recordRewrite"
  BY NoFaultRewrite
<1>5. op'.step = "adopt" => faults' # 0
  BY AdoptAfterFault
<1>6. faults' <= 1 /\ task'.pending.state = "rewritten" /\ tip' = Rewritten' =>
        \A t \in survivors' : t.base = "landed" /\ t.pending \in {NoRestack, task'.pending}
  BY RecordedRewrite
<1>7. faults' <= 1 /\ RewriteIsOut' =>
        \A t \in survivors' : t.base = "landed" /\ (t.pending # NoRestack => remote' = RewriteOf(t))
  BY PublishedRewrite DEF RewriteIsOut
<1> QED BY <1>1, <1>2, <1>3, <1>4, <1>5, <1>6, <1>7 DEF Recoverable, Landed, RewriteOf

LEMMA InitRecoverable == ASSUME Init PROVE Prepared /\ Recoverable
<1>1. /\ op = Idle /\ survivors = {task} /\ task.pending = NoRestack /\ remote = NoCommit
  BY DEF Init
<1>2. /\ op.step = "idle" /\ op.bound = NoCommit /\ task.pending.state = "none"
      /\ remote.base = "none"
  BY <1>1 DEF Idle, NoRestack, NoCommit
<1>3. Prepared
  BY <1>2 DEF Prepared, Admitted, RestackSteps
<1> QED BY <1>1, <1>2, <1>3 DEF Recoverable, RewriteIsOut

LEMMA RecoverableAlways == ASSUME Calm PROVE DeliverySpec => [](Prepared /\ Recoverable)
<1>1. ASSUME History, Consent, Prepared, Recoverable, [DeliveryNext]_vars
      PROVE  Prepared' /\ Recoverable'
  <2>1. CASE UNCHANGED vars
    <3>1. UNCHANGED <<tip, remote, consented, survivors, faults, task, op>>
      BY <2>1 DEF vars, record, branch, github, history
    <3>2. Prepared'
      BY <1>1, <3>1, Zenon DEF Prepared, Rewritten
    <3>3. Recoverable'
      BY <1>1, <3>1, Zenon DEF Recoverable, Landed, RewriteOf, Rewritten, RewriteIsOut
    <3> QED BY <3>2, <3>3
  <2> QED BY <1>1, <2>1, PreparedInvariant, RecoverableInvariant
<1> QED BY <1>1, InitRecoverable, HistoryInvariant, ConsentInvariant, PTL DEF DeliverySpec

\* RewriteIsDurable: after one failed or unconfirmed write, crash or power loss, a
\* rewritten branch that is on origin is known to every record the file may hold.
\* The hypothesis is that of RemoteConsented.
THEOREM RewriteDurable == ASSUME Calm PROVE DeliverySpec => []RewriteIsDurable
<1>1. ASSUME Recoverable, faults <= 1, remote.base = "landed", 0 \notin Range(remote.own),
             remote \notin consented, NEW t \in survivors
      PROVE  t.base = "landed"
  BY <1>1 DEF Recoverable, RewriteIsOut
<1>2. Recoverable => RewriteIsDurable
  BY <1>1 DEF RewriteIsDurable
<1> QED BY <1>2, RecoverableAlways, PTL

------------------------------------------------------------------------------
(* The terminal's own commits *)

\* Nothing else writes the branch while git rebases it.
Still == {"restackReplay", "replay"} \subseteq Undisturbed

\* The rebase takes the commits it was planned for.
AsPlanned ==
  /\ op.step = "restackReplay" => tip = op.commit
  /\ op.step = "replay" => tip = Approved

LEMMA AsPlannedInvariant == ASSUME Still, History, AsPlanned, DeliveryNext PROVE AsPlanned'
<1>1. TypeOK /\ op \in Owners /\ ~("restackReplay" = "idle") /\ ~("replay" = "idle")
  BY DEF History, Inv, TypeOK
<1>2. CASE Surroundings
  <2>1. op.step \in {"restackReplay", "replay"} => tip' = tip
    <3>1. UNCHANGED branch \/ Commit \/ Amend
      BY <1>2 DEF Surroundings, GiveUpMove, ForeignPush, ForeignDelete, ForeignOpen, Close,
      List,
      ParentLands, Crash, BeginMove, Approve, ApproveAgain, FinishRun, CompleteMove
    <3>2. op.step \in {"restackReplay", "replay"} => ~Commit /\ ~Amend
      BY DEF Commit, Amend, Writable, Still
    <3> QED BY <3>1, <3>2 DEF branch
  <2>2. CASE op' = Idle
    BY <1>1, <2>2, IdleStep DEF AsPlanned
  <2>3. CASE Undecided
    BY <2>1, <2>3, Zenon DEF Undecided, AsPlanned, Approved
  <2> QED BY <1>1, <1>2, <2>2, <2>3, SurroundingsStep
<1>3. CASE PullRequestNext
  <2>1. op'.step # "replay"
    BY <1>1, <1>3, PullRequestSteps DEF OpeningTurns, CreateSteps
  <2>2. ASSUME PlanRestack, op' # Idle PROVE tip' = tip /\ tip = op.commit /\ op'.commit = op.commit
    BY <1>1, <2>2 DEF PlanRestack, Refuse, End, Goto, Owners
  <2>3. op' = Idle => op'.step = "idle"
    BY IdleStep
  <2> QED BY <1>1, <1>3, <2>1, <2>2, <2>3, PullRequestSteps DEF OpeningTurns, AsPlanned
<1>4. CASE PublicationNext
  BY <1>1, <1>4, PublicationSteps DEF PublishSteps, AsPlanned
<1>5. CASE RepublishNext
  <2>1. op'.step # "restackReplay"
    BY <1>1, <1>5, RepublishSteps DEF RestackTurns, RestackSteps
  <2>2. ASSUME Advance, op'.step = "replay" PROVE tip' = tip /\ tip = Approved /\ task' = task
    BY <1>1, <2>2, IdleStep DEF Advance, Step, Refuse, End, Goto, Owners, record
  <2> QED BY <1>1, <1>5, <2>1, <2>2, RepublishSteps DEF RestackTurns, AsPlanned, Approved
<1> QED BY <1>2, <1>3, <1>4, <1>5 DEF DeliveryNext

\* OwnCommitsStay: as long as nothing writes the branch while git rebases it, every
\* step but the terminal's keeps the commits it holds: each way a restack is undone
\* starts from the rewrite of what it goes back to.
THEOREM OwnCommitsKept == ASSUME Still PROVE DeliverySpec => OwnCommitsStay
<1>1. ASSUME Init PROVE AsPlanned
  <2>1. op = Idle
    BY <1>1 DEF Init
  <2> QED BY <2>1, IdleStep DEF AsPlanned
<1>2. ASSUME History, AsPlanned, [DeliveryNext]_vars PROVE AsPlanned'
  <2>1. CASE UNCHANGED vars
    <3>1. UNCHANGED <<tip, task, op>>
      BY <2>1 DEF vars, record, branch
    <3> QED BY <1>2, <3>1 DEF AsPlanned, Approved
  <2> QED BY <1>2, <2>1, AsPlannedInvariant
<1>3. ASSUME History, AsPlanned, DeliveryNext, made' = made PROVE tip'.own = tip.own
  <2>1. /\ TypeOK /\ tip \in Commits /\ op.commit \in Commits /\ task.pending.previous \in Commits
        /\ made + 1 # made
    BY <1>3, OwnerParts, BoundsAssumption DEF History, Inv, TypeOK, TaskRecords
  <2>2. \A c \in Commits : Replayed(c).own = c.own
    BY DEF Replayed, Commits
  <2> QED BY <1>3, <2>1, <2>2, TipStep DEF TipMoves, AsPlanned, Approved, Rewritten
<1>4. ASSUME History, AsPlanned, [DeliveryNext]_vars PROVE [made' = made => tip'.own = tip.own]_vars
  BY <1>3, <1>4
<1> QED BY <1>1, <1>2, <1>4, HistoryInvariant, PTL DEF DeliverySpec, OwnCommitsStay
=============================================================================
