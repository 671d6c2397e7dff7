---------------------------- MODULE WorkerRunProofs ----------------------------
(***************************************************************************)
(* WorkerRun for any number of runs, edits and faults: two providers never  *)
(* share the checkout, no run is launched on top of one whose end nobody    *)
(* saw, and no launch and no confirmation is forgotten.                     *)
(***************************************************************************)
EXTENDS WorkerRun, FiniteSetTheorems, TLAPS

\* A record that a launched run is named in, until the run is settled: the
\* process groups are P's, the settled runs S.
SoundRecord(r, P, S) ==
  /\ r.stage = "none" => r.phase # "Coding"
  /\ r.stage # "none" => r.run \in Runs
  /\ r.stage = "Resolved" => r.run \in S
  /\ \A n \in Runs : P[n] # "none" =>
       /\ n <= r.runs
       /\ n \in S \/ (r.runs = n /\ r.run = n /\ r.stage # "none")

\* Memory, and what a power loss may leave.
Records == survivors \cup {mem}

NoneAlive == \A n \in Runs : ~Alive(n)

\* Who may be alive, by what the lease file says and how far a start has come.
SoundLease ==
  /\ \A n \in Runs : Alive(n) => note = n \/ note = Mark
  /\ \A m, n \in Runs : Alive(m) /\ Alive(n) => m = n
  /\ op.step \in {"leased", "recorded", "hold", "changed"} => NoneAlive
  /\ worker.step \in {"launch", "marked"} => NoneAlive
  /\ worker.step = "spawned" => \A n \in Runs : Alive(n) => n = worker.run
  /\ worker.step \in {"marked", "spawned"} => note = Mark

\* Every record names run n as the last one.
Names(n) == \A r \in Records : r.runs = n /\ r.run = n /\ r.stage # "none"

\* What the operation that holds the task's lease has established.
SoundOperation ==
  /\ op.step \in {"admitted", "leased", "recorded", "hold", "changed", "accepting",
                  "accepted", "moved"} => worker = NoWorker
  /\ op.step \in {"admitted", "leased"} =>
       IF op.kind = "NewAttempt" THEN mem.stage # "none" /\ mem.decision.run = mem.run
       ELSE mem.stage \in {"none", "Resolved"}
  /\ op.step = "move" => op.to \in Statuses
  /\ op.step = "recorded" => Names(mem.run) /\ procs[mem.run] = "none"
  /\ op.step \in {"hold", "changed", "accepting", "accepted", "moved"} => mem.stage # "none"
  /\ op.step = "accepted" => \A r \in Records : r.stage = "Resolved" /\ r.commit = op.tip

\* What the run's future has established.
SoundWorker ==
  /\ worker.step = "none" => worker = NoWorker
  /\ worker.step # "none" => worker.run \in Runs /\ \A r \in Records : r.runs = worker.run
  /\ worker.step \notin {"none", "ending"} => Names(worker.run)
  /\ worker.step = "launch" => procs[worker.run] = "none"
  /\ worker.step = "failed" => worker.run \in settled \/ procs[worker.run] = "none"

\* The two confirmations that are never serialized.
SoundConfirmations ==
  /\ confirmed => \A r \in Records : r.stage = "Resolved" /\ r.commit = mem.commit
  /\ decided => \A r \in Records : r.decision = mem.decision
  /\ ~up => ~confirmed /\ ~decided /\ op = Free /\ worker = NoWorker

\* The inductive invariant.
Inv ==
  /\ TypeOK
  /\ file \in survivors
  /\ \A r \in Records : SoundRecord(r, procs, settled)
  /\ SoundLease
  /\ SoundOperation
  /\ SoundWorker
  /\ SoundConfirmations

------------------------------------------------------------------------------
(* The provider lease *)

\* The lease file and the step the start has reached bound who may be alive.
LEMMA LeaseInvariant == ASSUME Inv, Next PROVE SoundLease'
<1>1. TypeOK /\ SoundLease /\ SoundWorker
  BY DEF Inv
<1>2. /\ op \in Operations /\ worker \in Workers
      /\ procs \in [Runs -> {"none", "holds", "stray", "gone"}]
  BY <1>1 DEF TypeOK
<1>3. Free.step = "free" /\ NoWorker.step = "none"
  BY DEF Free, NoWorker
<1>4. ASSUME NEW o \in Outcomes, CannotAttach(o) PROVE SoundLease'
  BY <1>1, <1>2, <1>3, <1>4
  DEF CannotAttach, SoundLease, NoneAlive, Alive, leaseFile, Release, Goto, At,
       Operations, Workers, Dies, LeaseFree
<1>5. ASSUME TakeLease PROVE SoundLease'
  <2>1. note \in {Missing, Empty} \/ (note \in Runs /\ ~Alive(note)) => NoneAlive
    BY <1>1, RunsAssumption DEF SoundLease, NoneAlive, Missing, Empty, Mark, Runs
  <2>2. CASE op'.step = "leased"
    <3>1. NoneAlive /\ note' \in {note, Empty} /\ worker' = worker /\ procs' = procs
      BY <1>5, <1>2, <1>3, <2>1, <2>2 DEF TakeLease, RecordAbsent, Release
    <3>2. worker'.step = "none"
      BY <1>3, <3>1, <1>5 DEF TakeLease, Inv, SoundOperation
    <3> QED BY <1>1, <2>2, <3>1, <3>2 DEF SoundLease, NoneAlive, Alive
  <2>3. CASE op'.step # "leased"
    <3>1. op' = Free /\ UNCHANGED <<note, procs, worker>>
      BY <1>5, <1>2, <2>3 DEF TakeLease, Release, leaseFile, Operations
    <3> QED BY <1>1, <1>3, <3>1 DEF SoundLease, NoneAlive, Alive
  <2> QED BY <2>2, <2>3
<1>6. ASSUME NEW o \in Outcomes, RecordStart(o) PROVE SoundLease'
  BY <1>1, <1>2, <1>3, <1>6
  DEF RecordStart, SoundLease, NoneAlive, Alive, leaseFile, Release, Goto, At, Operations,
       Workers, Dies, LeaseFree
<1>7. ASSUME GiveUpStart PROVE SoundLease'
  BY <1>1, <1>2, <1>3, <1>7
  DEF GiveUpStart, SoundLease, NoneAlive, Alive, leaseFile, Release, Goto, At, Operations,
       Workers, Dies, LeaseFree
<1>8. ASSUME NEW o \in Outcomes, HoldStart(o) PROVE SoundLease'
  BY <1>1, <1>2, <1>3, <1>8
  DEF HoldStart, SoundLease, NoneAlive, Alive, leaseFile, Release, Goto, At, Operations,
       Workers, Dies, LeaseFree
<1>9. ASSUME Launch PROVE SoundLease'
  BY <1>1, <1>2, <1>3, <1>9
  DEF Launch, SoundLease, NoneAlive, Alive, leaseFile, Release, Goto, At, Operations,
       Workers, Dies, LeaseFree
<1>10. ASSUME FindChanged PROVE SoundLease'
  BY <1>1, <1>2, <1>3, <1>10
  DEF FindChanged, SoundLease, NoneAlive, Alive, leaseFile, Release, Goto, At, Operations,
       Workers, Dies, LeaseFree
<1>11. ASSUME RefuseLaunch PROVE SoundLease'
  BY <1>1, <1>2, <1>3, <1>11
  DEF RefuseLaunch, SoundLease, NoneAlive, Alive, leaseFile, Release, Goto, At,
       Operations, Workers, Dies, LeaseFree
<1>12. ASSUME NEW ok \in BOOLEAN, MarkSpawning(ok) PROVE SoundLease'
  BY <1>1, <1>2, <1>3, <1>12
  DEF MarkSpawning, SoundLease, NoneAlive, Alive, leaseFile, Release, Goto, At,
       Operations, Workers, Dies, LeaseFree
<1>13. ASSUME Spawn PROVE SoundLease'
  <2>1. NoneAlive /\ note = Mark /\ worker.run \in Runs
    BY <1>1, <1>13 DEF Spawn, At, SoundLease, SoundWorker
  <2>2. \A n \in Runs : Alive(n)' => n = worker.run
    BY <1>2, <2>1, <1>13 DEF Spawn, NoneAlive, Alive
  <2>3. worker'.step = "spawned" /\ worker'.run = worker.run /\ note' = note /\ op' = op
    BY <1>2, <1>13 DEF Spawn, Goto, leaseFile, Workers
  <2>4. op.step \notin {"leased", "recorded", "hold", "changed"}
    BY <1>1, <1>3, <1>13 DEF Inv, SoundOperation, Spawn, At
  <2> QED BY <2>1, <2>2, <2>3, <2>4 DEF SoundLease
<1>14. ASSUME NEW ok \in BOOLEAN, SpawnFails(ok) PROVE SoundLease'
  BY <1>1, <1>2, <1>3, <1>14
  DEF SpawnFails, SoundLease, NoneAlive, Alive, leaseFile, Release, Goto, At, Operations,
       Workers, Dies, LeaseFree
<1>15. ASSUME NEW ok \in BOOLEAN, RecordGroup(ok) PROVE SoundLease'
  BY <1>1, <1>2, <1>3, <1>15
  DEF RecordGroup, SoundLease, NoneAlive, Alive, leaseFile, Release, Goto, At, Operations,
       Workers, Dies, LeaseFree
<1>16. ASSUME Cancelled PROVE SoundLease'
  BY <1>1, <1>2, <1>3, <1>16
  DEF Cancelled, SoundLease, NoneAlive, Alive, leaseFile, Release, Goto, At, Operations,
       Workers, Dies, LeaseFree
<1>17. ASSUME NEW ok \in BOOLEAN, CommitChanges(ok) PROVE SoundLease'
  BY <1>1, <1>2, <1>3, <1>17
  DEF CommitChanges, SoundLease, NoneAlive, Alive, leaseFile, Release, Goto, At,
       Operations, Workers, Dies, LeaseFree
<1>18. ASSUME NEW o \in Outcomes, RecordCommitted(o) PROVE SoundLease'
  BY <1>1, <1>2, <1>3, <1>18
  DEF RecordCommitted, SoundLease, NoneAlive, Alive, leaseFile, Release, Goto, At,
       Operations, Workers, Dies, LeaseFree
<1>19. ASSUME NEW o \in Outcomes, RecordUnrecorded(o) PROVE SoundLease'
  BY <1>1, <1>2, <1>3, <1>19
  DEF RecordUnrecorded, SoundLease, NoneAlive, Alive, leaseFile, Release, Goto, At,
       Operations, Workers, Dies, LeaseFree
<1>20. ASSUME NEW o \in Outcomes, RecordCompleted(o) PROVE SoundLease'
  BY <1>1, <1>2, <1>3, <1>20
  DEF RecordCompleted, SoundLease, NoneAlive, Alive, leaseFile, Release, Goto, At,
       Operations, Workers, Dies, LeaseFree
<1>21. ASSUME NEW o \in Outcomes, RecordFailed(o) PROVE SoundLease'
  BY <1>1, <1>2, <1>3, <1>21
  DEF RecordFailed, SoundLease, NoneAlive, Alive, leaseFile, Release, Goto, At,
       Operations, Workers, Dies, LeaseFree
<1>22. ASSUME EndRun PROVE SoundLease'
  BY <1>1, <1>2, <1>3, <1>22
  DEF EndRun, SoundLease, NoneAlive, Alive, leaseFile, Release, Goto, At, Operations,
       Workers, Dies, LeaseFree
<1>23. ASSUME StopTimesOut PROVE SoundLease'
  BY <1>1, <1>2, <1>3, <1>23
  DEF StopTimesOut, SoundLease, NoneAlive, Alive, leaseFile, Release, Goto, At,
       Operations, Workers, Dies, LeaseFree
<1>24. ASSUME NEW o \in Outcomes, SettleStop(o) PROVE SoundLease'
  BY <1>1, <1>2, <1>3, <1>24
  DEF SettleStop, SoundLease, NoneAlive, Alive, leaseFile, Release, Goto, At, Operations,
       Workers, Dies, LeaseFree
<1>25. ASSUME NEW o \in Outcomes, Move(o) PROVE SoundLease'
  BY <1>1, <1>2, <1>3, <1>25
  DEF Move, SoundLease, NoneAlive, Alive, leaseFile, Release, Goto, At, Operations,
       Workers, Dies, LeaseFree
<1>26. ASSUME RefuseMove PROVE SoundLease'
  BY <1>1, <1>2, <1>3, <1>26
  DEF RefuseMove, SoundLease, NoneAlive, Alive, leaseFile, Release, Goto, At, Operations,
       Workers, Dies, LeaseFree
<1>27. ASSUME NEW o \in Outcomes, Accept(o) PROVE SoundLease'
  BY <1>1, <1>2, <1>3, <1>27
  DEF Accept, SoundLease, NoneAlive, Alive, leaseFile, Release, Goto, At, Operations,
       Workers, Dies, LeaseFree
<1>28. ASSUME ConfirmAccept PROVE SoundLease'
  BY <1>1, <1>2, <1>3, <1>28
  DEF ConfirmAccept, SoundLease, NoneAlive, Alive, leaseFile, Release, Goto, At,
       Operations, Workers, Dies, LeaseFree
<1>29. ASSUME NEW o \in Outcomes, ReturnToRecovery(o) PROVE SoundLease'
  BY <1>1, <1>2, <1>3, <1>29
  DEF ReturnToRecovery, SoundLease, NoneAlive, Alive, leaseFile, Release, Goto, At,
       Operations, Workers, Dies, LeaseFree
<1>30. ASSUME BeginStop PROVE SoundLease'
  BY <1>1, <1>2, <1>3, <1>30
  DEF BeginStop, SoundLease, NoneAlive, Alive, leaseFile, Release, Goto, At, Operations,
       Workers, Dies, LeaseFree
<1>31. ASSUME BeginAccept PROVE SoundLease'
  BY <1>1, <1>2, <1>3, <1>31
  DEF BeginAccept, SoundLease, NoneAlive, Alive, leaseFile, Release, Goto, At, Operations,
       Workers, Dies, LeaseFree
<1>32. ASSUME NEW to \in Statuses, BeginMove(to) PROVE SoundLease'
  BY <1>1, <1>2, <1>3, <1>32
  DEF BeginMove, SoundLease, NoneAlive, Alive, leaseFile, Release, Goto, At, Operations,
       Workers, Dies, LeaseFree
<1>33. ASSUME NEW o \in Outcomes, Promote(o) PROVE SoundLease'
  BY <1>1, <1>2, <1>3, <1>33
  DEF Promote, SoundLease, NoneAlive, Alive, leaseFile, Release, Goto, At, Operations,
       Workers, Dies, LeaseFree
<1>34. ASSUME NEW o \in Outcomes, Decide(o) PROVE SoundLease'
  BY <1>1, <1>2, <1>3, <1>34
  DEF Decide, SoundLease, NoneAlive, Alive, leaseFile, Release, Goto, At, Operations,
       Workers, Dies, LeaseFree
<1>35. ASSUME NEW kind \in {"Pending", "Direct", "NewAttempt"},
            NEW permit \in BOOLEAN, NEW o \in Outcomes, Admit(kind, permit, o) PROVE SoundLease'
  BY <1>1, <1>2, <1>3, <1>35
  DEF Admit, SoundLease, NoneAlive, Alive, leaseFile, Release, Goto, At, Operations,
       Workers, Dies, LeaseFree
<1>36. ASSUME NEW o \in Outcomes, ReconcileStarted(o) PROVE SoundLease'
  BY <1>1, <1>2, <1>3, <1>36
  DEF ReconcileStarted, SoundLease, NoneAlive, Alive, leaseFile, Release, Goto, At,
       Operations, Workers, Dies, LeaseFree
<1>37. ASSUME NEW o \in Outcomes, ReconcileCommitted(o) PROVE SoundLease'
  BY <1>1, <1>2, <1>3, <1>37
  DEF ReconcileCommitted, SoundLease, NoneAlive, Alive, leaseFile, Release, Goto, At,
       Operations, Workers, Dies, LeaseFree
<1>38. ASSUME Edit PROVE SoundLease'
  BY <1>1, <1>2, <1>3, <1>38
  DEF Edit, SoundLease, NoneAlive, Alive, leaseFile, Release, Goto, At, Operations,
       Workers, Dies, LeaseFree
<1>39. ASSUME GitCommit PROVE SoundLease'
  BY <1>1, <1>2, <1>3, <1>39
  DEF GitCommit, SoundLease, NoneAlive, Alive, leaseFile, Release, Goto, At, Operations,
       Workers, Dies, LeaseFree
<1>40. ASSUME Crash PROVE SoundLease'
  BY <1>1, <1>2, <1>3, <1>40
  DEF Crash, SoundLease, NoneAlive, Alive, leaseFile, Release, Goto, At, Operations,
       Workers, Dies, LeaseFree
<1>41. ASSUME PowerLoss PROVE SoundLease'
  BY <1>1, <1>2, <1>3, <1>41
  DEF PowerLoss, SoundLease, NoneAlive, Alive, leaseFile, Release, Goto, At, Operations,
       Workers, Dies, LeaseFree
<1>42. ASSUME NEW n \in Runs, GroupChanges(n) PROVE SoundLease'
  BY <1>1, <1>2, <1>3, <1>42
  DEF GroupChanges, SoundLease, NoneAlive, Alive, leaseFile, Release, Goto, At,
       Operations, Workers, Dies, LeaseFree
<1>43. ASSUME NEW step \in {"exited", "failed", "broken"}, ProviderEnds(step)
      PROVE SoundLease'
  BY <1>1, <1>2, <1>3, <1>43
  DEF ProviderEnds, SoundLease, NoneAlive, Alive, leaseFile, Release, Goto, At,
       Operations, Workers, Dies, LeaseFree
<1>44. ASSUME NEW o \in Outcomes, Startup(o) PROVE SoundLease'
  BY <1>1, <1>2, <1>3, <1>44
  DEF Startup, SoundLease, NoneAlive, Alive, leaseFile, Release, Goto, At, Operations,
       Workers, Dies, LeaseFree
<1> QED
  BY <1>4, <1>5, <1>6, <1>7, <1>8, <1>9, <1>10, <1>11, <1>12, <1>13, <1>14, <1>15, <1>16,
     <1>17, <1>18, <1>19, <1>20, <1>21, <1>22, <1>23, <1>24, <1>25, <1>26, <1>27, <1>28,
     <1>29, <1>30, <1>31, <1>32, <1>33, <1>34, <1>35, <1>36, <1>37, <1>38, <1>39, <1>40,
     <1>41, <1>42, <1>43, <1>44 DEF Next, StartStep, WorkerStep, LeaseStep, Request, Poll,
     Environment

------------------------------------------------------------------------------
(* Records *)

LEMMA Constants ==
  /\ NewTask \in TaskRecord /\ NoDecision \in Decisions
  /\ Free \in Operations /\ Free.step = "free"
  /\ NoWorker \in Workers /\ NoWorker.step = "none"
  /\ \A n \in Runs : n \in 0 .. MaxRuns /\ n # 0
  /\ 0 \in 0 .. MaxRuns /\ NoCommit \in Versions \cup {NoCommit} /\ 0 \in Versions
<1>1. /\ \A n \in Runs : n \in 0 .. MaxRuns /\ n # 0
      /\ 0 \in 0 .. MaxRuns /\ 0 \in Versions
  BY RunsAssumption, EditsAssumption DEF Runs, Versions
<1>2. NoDecision \in Decisions
  BY <1>1 DEF NoDecision, Decisions, Whys
<1>3. NewTask \in TaskRecord
  BY <1>1, <1>2 DEF NewTask, TaskRecord, Statuses, Phases, Stages, Whys
<1>4. Free \in Operations /\ Free.step = "free"
  BY <1>1 DEF Free, Operations
<1>5. NoWorker \in Workers /\ NoWorker.step = "none"
  BY <1>1 DEF NoWorker, Workers
<1> QED BY <1>1, <1>2, <1>3, <1>4, <1>5

\* What each change of the record does to the fields the proofs speak of.
LEMMA RecoveryRecord ==
  ASSUME NEW r \in TaskRecord, NEW n \in 0 .. MaxRuns, NEW c \in Versions \cup {NoCommit},
         NEW w \in Whys
  PROVE  /\ Recovery(r, n, c, w) \in TaskRecord
         /\ Recovery(r, n, c, w).stage = "Recovery" /\ Recovery(r, n, c, w).phase = "Idle"
         /\ Recovery(r, n, c, w).run = (IF n = 0 THEN r.run ELSE n)
         /\ Recovery(r, n, c, w).runs = r.runs /\ Recovery(r, n, c, w).decision = r.decision
BY DEF Recovery, TaskRecord, Stages, Statuses, Phases

LEMMA RecoverySame ==
  ASSUME NEW r \in TaskRecord, NEW c \in Versions \cup {NoCommit}, NEW w \in Whys
  PROVE  /\ Recovery(r, r.run, c, w) \in TaskRecord
         /\ Recovery(r, r.run, c, w).stage = "Recovery"
         /\ Recovery(r, r.run, c, w).phase = "Idle"
         /\ Recovery(r, r.run, c, w).run = r.run /\ Recovery(r, r.run, c, w).runs = r.runs
         /\ Recovery(r, r.run, c, w).decision = r.decision
BY DEF Recovery, TaskRecord, Stages, Statuses, Phases

LEMMA PromotedRecord ==
  ASSUME NEW r \in TaskRecord
  PROVE  /\ Promoted(r) \in TaskRecord
         /\ Promoted(r).stage = r.stage /\ Promoted(r).phase = "Idle"
         /\ Promoted(r).run = r.run /\ Promoted(r).runs = r.runs
         /\ Promoted(r).decision = r.decision /\ Promoted(r).commit = r.commit
BY DEF Promoted, TaskRecord, Statuses, Phases

LEMMA MovedRecord ==
  ASSUME NEW r \in TaskRecord, NEW from, NEW to \in Statuses
  PROVE  /\ MovedTo(r, from, to) \in TaskRecord
         /\ MovedTo(r, from, to).stage = r.stage
         /\ MovedTo(r, from, to).phase \in {"Idle", r.phase}
         /\ MovedTo(r, from, to).run = r.run /\ MovedTo(r, from, to).runs = r.runs
         /\ MovedTo(r, from, to).decision = r.decision
         /\ MovedTo(r, from, to).commit = r.commit
BY DEF MovedTo, TaskRecord, Phases

LEMMA StoppedRecord ==
  ASSUME NEW r \in TaskRecord
  PROVE  /\ Stopped(r) \in TaskRecord
         /\ Stopped(r).stage = (IF r.stage = "Started" THEN "Recovery" ELSE r.stage)
         /\ Stopped(r).phase = "Idle"
         /\ Stopped(r).run = r.run /\ Stopped(r).runs = r.runs
         /\ Stopped(r).decision = r.decision /\ Stopped(r).commit = r.commit
BY DEF Stopped, TaskRecord, Statuses, Phases, Stages, Whys

LEMMA ResolvedRecord ==
  ASSUME NEW r \in TaskRecord, r.run \in Runs, NEW c \in Versions \cup {NoCommit}
  PROVE  /\ Resolved(r, c) \in TaskRecord
         /\ Resolved(r, c).stage = "Resolved" /\ Resolved(r, c).phase = "QaReview"
         /\ Resolved(r, c).run = r.run /\ Resolved(r, c).runs = r.runs
         /\ Resolved(r, c).decision = r.decision /\ Resolved(r, c).commit = c
BY DEF Resolved, TaskRecord, Statuses, Phases, Stages, Whys

LEMMA AcceptedRecord ==
  ASSUME NEW r \in TaskRecord
  PROVE  LET s == [r EXCEPT !.accepted = TRUE]
         IN /\ s \in TaskRecord
            /\ s.stage = r.stage /\ s.phase = r.phase /\ s.run = r.run /\ s.runs = r.runs
            /\ s.decision = r.decision /\ s.commit = r.commit
BY DEF TaskRecord

LEMMA ErrorRecord ==
  ASSUME NEW r \in TaskRecord
  PROVE  LET s == [r EXCEPT !.status = "Error", !.phase = "Failed"]
         IN /\ s \in TaskRecord
            /\ s.stage = r.stage /\ s.phase = "Failed" /\ s.run = r.run /\ s.runs = r.runs
            /\ s.decision = r.decision /\ s.commit = r.commit
BY DEF TaskRecord, Statuses, Phases

LEMMA CommittedRecord ==
  ASSUME NEW r \in TaskRecord, NEW c \in Versions \cup {NoCommit}
  PROVE  LET s == [r EXCEPT !.stage = "Committed", !.commit = c]
         IN /\ s \in TaskRecord
            /\ s.stage = "Committed" /\ s.phase = r.phase /\ s.run = r.run /\ s.runs = r.runs
            /\ s.decision = r.decision /\ s.commit = c
BY DEF TaskRecord, Stages

LEMMA StartedRecord ==
  ASSUME NEW r \in TaskRecord, r.runs < MaxRuns, NEW kind, tip \in Versions
  PROVE  /\ Started(r, kind) \in TaskRecord
         /\ Started(r, kind).stage = "Started" /\ Started(r, kind).run = r.runs + 1
         /\ Started(r, kind).runs = r.runs + 1
         /\ kind # "NewAttempt" => Started(r, kind).decision = r.decision
<1> DEFINE s == IF kind = "NewAttempt" THEN [Promoted(r) EXCEPT !.decision = NoDecision] ELSE r
           n == r.runs + 1
<1>1. s \in TaskRecord
  BY PromotedRecord, Constants DEF TaskRecord
<1>2. kind # "NewAttempt" => s = r
  OBVIOUS
<1>3. s.runs = r.runs
  BY PromotedRecord DEF TaskRecord
<1>4. /\ n \in 0 .. MaxRuns /\ tip \in Versions \cup {NoCommit}
      /\ NoCommit \in Versions \cup {NoCommit}
  BY RunsAssumption DEF TaskRecord
<1>5. Started(r, kind) =
        [s EXCEPT !.phase = "Coding", !.runs = n, !.stage = "Started", !.why = "none",
                  !.run = n, !.head = tip, !.commit = NoCommit, !.accepted = FALSE]
  BY <1>1, <1>3 DEF Started, TaskRecord
<1> HIDE DEF s, n
<1>6. /\ Started(r, kind) \in TaskRecord
      /\ Started(r, kind).stage = "Started" /\ Started(r, kind).run = n
      /\ Started(r, kind).runs = n /\ Started(r, kind).decision = s.decision
  <2>1. ASSUME NEW t, t = Started(r, kind)
        PROVE  t \in TaskRecord /\ t.stage = "Started" /\ t.run = n /\ t.runs = n /\ t.decision = s.decision
    <3>1. t = [s EXCEPT !.phase = "Coding", !.runs = n, !.stage = "Started", !.why = "none",
                        !.run = n, !.head = tip, !.commit = NoCommit, !.accepted = FALSE]
      BY <1>5, <2>1, Zenon
    <3> QED BY <1>1, <1>4, <3>1 DEF TaskRecord, Phases, Stages, Whys
  <2> QED BY <2>1, Zenon
<1> QED BY <1>2, <1>6 DEF n

LEMMA DecidedRecord ==
  ASSUME NEW r \in TaskRecord, r.run \in Runs, tip \in Versions, tree \in Versions
  PROVE  LET d == [run |-> r.run, why |-> r.why, commit |-> r.commit, tip |-> tip, tree |-> tree]
             s == [r EXCEPT !.authorized = @ \cup {r.run}, !.decision = d]
         IN /\ s \in TaskRecord
            /\ s.stage = r.stage /\ s.phase = r.phase /\ s.run = r.run /\ s.runs = r.runs
            /\ s.decision = d /\ s.commit = r.commit
<1> DEFINE d == [run |-> r.run, why |-> r.why, commit |-> r.commit, tip |-> tip, tree |-> tree]
<1>1. d \in Decisions
  BY DEF TaskRecord, Decisions
<1> HIDE DEF d
<1> QED BY <1>1 DEF TaskRecord, d

LEMMA NoHandoff ==
  ASSUME NEW r \in TaskRecord
  PROVE  /\ WithoutHandoff(r) \in TaskRecord /\ WithoutHandoff(r).phase = r.phase
         /\ WithoutHandoff(r).runs = r.runs /\ WithoutHandoff(r).decision = r.decision
         /\ WithoutHandoff(r).stage = "none"
<1>1. 0 \in 0 .. MaxRuns
  BY Constants
<1> QED BY <1>1 DEF TaskRecord, WithoutHandoff, Stages, Whys

\* The failure of run n: forgotten, or kept with what was recorded of it.
LEMMA FailedRecord ==
  ASSUME NEW r \in TaskRecord, NEW n \in Runs, NEW exited \in BOOLEAN
  PROVE  /\ Failed(r, n, exited) \in TaskRecord
         /\ Failed(r, n, exited).phase = "Failed"
         /\ Failed(r, n, exited).runs = r.runs
         /\ Failed(r, n, exited).decision = r.decision
         /\ \/ /\ exited
               /\ Failed(r, n, exited).stage = "none"
            \/ /\ Failed(r, n, exited).run = r.run
               /\ \/ Failed(r, n, exited).stage = r.stage
                  \/ r.stage = "Started" /\ Failed(r, n, exited).stage = "Recovery"
<1> DEFINE e == [r EXCEPT !.status = "Error", !.phase = "Failed", !.failed = @ \cup {n}]
<1>1. /\ e \in TaskRecord /\ e.phase = "Failed" /\ e.runs = r.runs /\ e.decision = r.decision
      /\ e.run = r.run /\ e.stage = r.stage
  BY DEF TaskRecord, Statuses, Phases
<1>2. /\ WithoutHandoff(e) \in TaskRecord /\ WithoutHandoff(e).phase = e.phase
      /\ WithoutHandoff(e).runs = e.runs /\ WithoutHandoff(e).decision = e.decision
      /\ WithoutHandoff(e).stage = "none"
  BY <1>1, Constants, NoHandoff
<1>3. LET s == [e EXCEPT !.stage = "Recovery", !.why = "ended"]
      IN /\ s \in TaskRecord /\ s.phase = e.phase /\ s.runs = e.runs /\ s.run = e.run
         /\ s.decision = e.decision /\ s.stage = "Recovery"
  BY <1>1 DEF TaskRecord, Stages, Whys
<1>4. \/ Failed(r, n, exited) = e
      \/ exited /\ Failed(r, n, exited) = WithoutHandoff(e)
      \/ r.stage = "Started" /\ Failed(r, n, exited) = [e EXCEPT !.stage = "Recovery", !.why = "ended"]
  BY DEF Failed
<1> HIDE DEF e
<1> QED BY <1>1, <1>2, <1>3, <1>4

------------------------------------------------------------------------------
(* Which records remain sound *)

\* The board's part of the invariant.
SoundBoard ==
  /\ mem \in TaskRecord
  /\ file \in TaskRecord
  /\ survivors \in SUBSET TaskRecord
  /\ faults \in 0 .. MaxFaults
  /\ file \in survivors
  /\ \A r \in Records : SoundRecord(r, procs, settled)

\* No run but an earlier one is spawned, and nothing is unsettled.
Grows ==
  /\ settled \subseteq settled'
  /\ \A n \in Runs : procs'[n] # "none" => procs[n] # "none"

LEMMA SoundGrows ==
  ASSUME NEW r, SoundRecord(r, procs, settled), Grows
  PROVE  SoundRecord(r, procs', settled')
BY DEF SoundRecord, Grows

\* A record that still names the same run is as sound as it was.
LEMMA SoundSame ==
  ASSUME NEW r, NEW t, NEW P, NEW S, SoundRecord(r, P, S), t.run = r.run, t.runs = r.runs,
         r.stage # "none" => t.stage # "none",
         t.stage # "none" => t.run \in Runs,
         t.stage = "Resolved" => t.run \in S,
         t.stage = "none" => t.phase # "Coding"
  PROVE  SoundRecord(t, P, S)
BY DEF SoundRecord

LEMMA PublishedSound ==
  ASSUME SoundBoard, NEW r \in TaskRecord, NEW o, Publish(r, o), Grows,
         SoundRecord(r, procs', settled')
  PROVE  SoundBoard'
<1>1. mem' \in {mem, r} /\ file' \in {file, r} /\ survivors' \subseteq survivors \cup {r}
  BY DEF Publish, Save, SoundBoard
<1>2. file' \in survivors'
  BY DEF Publish, Save, SoundBoard, Outcomes
<1>3. faults' \in 0 .. MaxFaults
  BY FaultsAssumption DEF Publish, Save, Fault, SoundBoard
<1>4. \A t \in Records : SoundRecord(t, procs', settled')
  BY SoundGrows DEF SoundBoard
<1>5. \A t \in Records' : t \in Records \/ t = r
  BY <1>1 DEF Records
<1>6. \A t \in Records' : SoundRecord(t, procs', settled')
  BY <1>4, <1>5
<1> QED BY <1>1, <1>2, <1>3, <1>6 DEF SoundBoard

LEMMA KeptSound ==
  ASSUME SoundBoard, UNCHANGED <<mem, file, survivors>>, Grows, faults' = faults \/ Fault
  PROVE  SoundBoard'
<1>1. faults' \in 0 .. MaxFaults
  BY FaultsAssumption DEF Fault, SoundBoard
<1>2. \A t \in Records : SoundRecord(t, procs', settled')
  BY SoundGrows DEF SoundBoard
<1>3. Records' = Records
  BY DEF Records
<1> QED BY <1>1, <1>2, <1>3 DEF SoundBoard

\* The common case: the published record names the run that memory does.
LEMMA Rewritten ==
  ASSUME SoundBoard, NEW r \in TaskRecord, NEW o, Publish(r, o), Grows,
         r.run = mem.run, r.runs = mem.runs,
         mem.stage # "none" => r.stage # "none",
         r.stage # "none" => r.run \in Runs,
         r.stage = "Resolved" => r.run \in settled',
         r.stage = "none" => r.phase # "Coding"
  PROVE  SoundBoard'
<1>1. SoundRecord(mem, procs, settled)
  BY DEF SoundBoard, Records
<1>2. SoundRecord(mem, procs', settled')
  BY <1>1, SoundGrows
<1>3. SoundRecord(r, procs', settled')
  BY <1>2, SoundSame, Zenon
<1> QED BY <1>3, PublishedSound

\* What becomes of the process group of the run that every record names.
LEMMA NamedSound ==
  ASSUME SoundBoard, UNCHANGED <<mem, file, survivors>>, faults' = faults \/ Fault,
         settled \subseteq settled', NEW k \in Runs, Names(k),
         \A n \in Runs : n # k => procs'[n] = procs[n]
  PROVE  SoundBoard'
<1>1. faults' \in 0 .. MaxFaults
  BY FaultsAssumption DEF Fault, SoundBoard
<1>2. ASSUME NEW r \in Records PROVE SoundRecord(r, procs', settled')
  <2>1. SoundRecord(r, procs, settled) /\ r.runs = k /\ r.run = k /\ r.stage # "none"
    BY <1>2 DEF SoundBoard, Names
  <2>2. k <= k
    BY DEF Runs
  <2> QED BY <2>1, <2>2 DEF SoundRecord
<1>3. Records' = Records
  BY DEF Records
<1> QED BY <1>1, <1>2, <1>3 DEF SoundBoard

LEMMA IdleRecord ==
  ASSUME NEW r \in TaskRecord, NEW P, NEW S, SoundRecord(r, P, S)
  PROVE  /\ [r EXCEPT !.phase = "Idle"] \in TaskRecord
         /\ SoundRecord([r EXCEPT !.phase = "Idle"], P, S)
<1> DEFINE t == [r EXCEPT !.phase = "Idle"]
<1>1. /\ t \in TaskRecord /\ t.run = r.run /\ t.runs = r.runs /\ t.stage = r.stage
      /\ t.phase = "Idle"
  BY DEF TaskRecord, Phases
<1> HIDE DEF t
<1>2. SoundRecord(t, P, S)
  BY <1>1 DEF SoundRecord
<1> QED BY <1>1, <1>2 DEF t

\* A run held for recovery: another number than the record's is the last run's.
LEMMA HeldRecord ==
  ASSUME NEW r \in TaskRecord, NEW P, NEW S, SoundRecord(r, P, S), NEW w \in Whys,
         NEW n \in 0 .. MaxRuns, n = 0 => r.stage # "none", n # 0 => n = r.runs \/ n = r.run
  PROVE  /\ Recovery(r, n, NoCommit, w) \in TaskRecord
         /\ SoundRecord(Recovery(r, n, NoCommit, w), P, S)
<1> DEFINE t == Recovery(r, n, NoCommit, w)
<1>1. /\ t \in TaskRecord /\ t.runs = r.runs /\ t.stage = "Recovery"
      /\ t.run = (IF n = 0 THEN r.run ELSE n)
  BY RecoveryRecord, Constants
<1>2. t.run \in Runs
  BY <1>1 DEF SoundRecord, Runs
<1> HIDE DEF t
<1>3. ASSUME NEW k \in Runs, P[k] # "none", k \notin S PROVE t.runs = k /\ t.run = k
  BY <1>1, <1>3 DEF SoundRecord
<1>4. \A k \in Runs : P[k] # "none" => k <= t.runs
  BY <1>1 DEF SoundRecord
<1>5. SoundRecord(t, P, S)
  BY <1>1, <1>2, <1>3, <1>4 DEF SoundRecord
<1> QED BY <1>1, <1>5 DEF t

LEMMA MigratedRecord ==
  ASSUME NEW r \in TaskRecord, NEW P, NEW S, SoundRecord(r, P, S)
  PROVE  Migrated(r) \in TaskRecord /\ SoundRecord(Migrated(r), P, S)
<1> DEFINE d == [r EXCEPT !.decision = NoDecision]
           open == d.runs # 0 /\ d.runs \notin d.failed \cup d.completed
           k == IF open THEN d.runs ELSE 0
           queued == [d EXCEPT !.status = "Queue"]
           m == IF d.status = "InProgress" /\ d.stage = "Started"
                THEN Recovery(d, k, NoCommit, "restart")
                ELSE IF d.status = "InProgress" /\ d.stage = "none"
                THEN IF open \/ d.phase = "Coding" THEN Recovery(d, k, NoCommit, "legacy")
                     ELSE queued
                ELSE IF d.stage = "Started" THEN Recovery(d, d.run, NoCommit, "previous")
                ELSE d
<1>1. /\ d \in TaskRecord /\ d.run = r.run /\ d.runs = r.runs /\ d.stage = r.stage
      /\ d.phase = r.phase
  BY Constants DEF TaskRecord
<1>2. SoundRecord(d, P, S)
  <2> HIDE DEF d
  <2> QED BY <1>1 DEF SoundRecord
<1>3. Migrated(r) = IF m.status \in {"Backlog", "Queue"} THEN [m EXCEPT !.phase = "Idle"] ELSE m
  BY DEF Migrated
<1> HIDE DEF d
<1>4. k \in 0 .. MaxRuns /\ (k # 0 => k = d.runs) /\ (k = 0 => ~open)
  BY <1>1, Constants DEF TaskRecord
<1>5. {"restart", "legacy", "previous"} \subseteq Whys
  BY DEF Whys
<1>6. queued \in TaskRecord /\ SoundRecord(queued, P, S)
  <2>1. /\ queued \in TaskRecord /\ queued.run = d.run /\ queued.runs = d.runs
        /\ queued.stage = d.stage /\ queued.phase = d.phase
    BY <1>1 DEF TaskRecord, Statuses
  <2> HIDE DEF queued
  <2> QED BY <1>2, <2>1 DEF SoundRecord
<1>7. d.stage = "none" => d.phase # "Coding"
  BY <1>2 DEF SoundRecord
<1>8. d.stage = "Started" => d.run \in 0 .. MaxRuns /\ d.run # 0
  BY <1>2, Constants DEF SoundRecord
<1> HIDE DEF open, k, queued
<1>9. m \in TaskRecord /\ SoundRecord(m, P, S)
  <2>1. CASE d.status = "InProgress" /\ d.stage = "Started"
    <3>1. m = Recovery(d, k, NoCommit, "restart")
      BY <2>1
    <3> QED BY <1>1, <1>2, <1>4, <1>5, <2>1, <3>1, HeldRecord
  <2>2. CASE d.status = "InProgress" /\ d.stage = "none" /\ open
    <3>1. m = Recovery(d, k, NoCommit, "legacy") /\ k # 0
      BY <1>4, <2>2
    <3> QED BY <1>1, <1>2, <1>4, <1>5, <3>1, HeldRecord
  <2>3. CASE d.status = "InProgress" /\ d.stage = "none" /\ ~open
    BY <1>6, <1>7, <2>3
  <2>4. CASE d.status # "InProgress" /\ d.stage = "Started"
    <3>1. m = Recovery(d, d.run, NoCommit, "previous")
      BY <2>4
    <3> QED BY <1>1, <1>2, <1>5, <1>8, <2>4, <3>1, HeldRecord
  <2>5. CASE d.stage \notin {"none", "Started"} \/ (d.status # "InProgress" /\ d.stage # "Started")
    <3>1. m = d
      BY <2>5
    <3> QED BY <1>1, <1>2, <3>1
  <2> QED BY <2>1, <2>2, <2>3, <2>4, <2>5
<1> HIDE DEF m
<1> QED BY <1>3, <1>9, IdleRecord

\* Every record, in memory or in what a power loss may leave of the file, still
\* accounts for every run that was launched.
LEMMA BoardInvariant == ASSUME Inv, Next PROVE SoundBoard'
<1>1. /\ SoundBoard /\ op \in Operations /\ worker \in Workers /\ tip \in Versions
      /\ tree \in Versions
      /\ settled \in SUBSET Runs /\ procs \in [Runs -> {"none", "holds", "stray", "gone"}]
  BY DEF Inv, TypeOK, SoundBoard
<1>2. SoundRecord(mem, procs, settled) /\ mem \in TaskRecord
  BY <1>1 DEF SoundBoard, Records
<1>3. SoundOperation /\ SoundWorker
  BY DEF Inv
<1>4. /\ mem.stage # "none" => mem.run \in Runs
      /\ mem.stage = "Resolved" => mem.run \in settled
      /\ mem.stage = "none" => mem.phase # "Coding"
  BY <1>2 DEF SoundRecord
<1>5. /\ mem.run \in 0 .. MaxRuns /\ mem.commit \in Versions \cup {NoCommit}
      /\ worker.run \in 0 .. MaxRuns /\ worker.commit \in Versions \cup {NoCommit}
  BY <1>1, <1>2 DEF TaskRecord, Workers
<1>6. mem \in TaskRecord
  BY <1>2
<1>7. ASSUME NEW o \in Outcomes, CannotAttach(o) PROVE SoundBoard'
  <2>1. CASE op.kind = "NewAttempt"
    <3>1. UNCHANGED <<mem, file, survivors>> /\ (faults' = faults \/ Fault)
      BY <1>7, <2>1 DEF CannotAttach, board, Dies
    <3>2. Grows
      BY <1>7, <2>1, <1>1, <1>3 DEF CannotAttach, Grows, SoundWorker, At, Dies
    <3> QED BY <1>1, <3>1, <3>2, KeptSound
  <2>2. CASE ~(op.kind = "NewAttempt")
    <3> DEFINE t == [mem EXCEPT !.status = "Error", !.phase = "Failed"]
    <3>1. Grows /\ settled \subseteq settled'
      BY <1>7, <2>2, <1>1 DEF CannotAttach, Grows
    <3>2. Publish(t, o)
      BY <1>7, <2>2 DEF CannotAttach
    <3>3. /\ t \in TaskRecord /\ t.run = mem.run /\ t.runs = mem.runs
          /\ t.stage = mem.stage /\ t.phase = "Failed"
      BY <1>2, ErrorRecord
    <3> HIDE DEF t
    <3> QED BY <1>1, <1>4, <3>1, <3>2, <3>3, <1>7, <2>2, <1>3, Rewritten DEF CannotAttach,
         SoundOperation
  <2> QED BY <2>1, <2>2
<1>8. ASSUME TakeLease PROVE SoundBoard'
  <2>1. UNCHANGED <<mem, file, survivors>> /\ (faults' = faults \/ Fault)
    BY <1>8 DEF TakeLease, board, Dies
  <2>2. Grows
    BY <1>8, <1>1, <1>3 DEF TakeLease, Grows, SoundWorker, At, Dies
  <2> QED BY <1>1, <2>1, <2>2, KeptSound
<1>9. ASSUME NEW o \in Outcomes, RecordStart(o) PROVE SoundBoard'
  <2> DEFINE t == Started(mem, op.kind)
  <2>1. CASE o = "failed"
    <3>1. UNCHANGED <<mem, file, survivors>> /\ (faults' = faults \/ Fault)
      BY <1>9, <2>1 DEF RecordStart, Publish, Save
    <3>2. Grows
      BY <1>9, <2>1 DEF RecordStart, Grows
    <3> QED BY <1>1, <3>1, <3>2, KeptSound
  <2>2. CASE o # "failed"
    <3>1. Grows /\ procs' = procs /\ Publish(t, o)
      BY <1>9 DEF RecordStart, Grows
    <3>2. /\ t \in TaskRecord /\ t.run = mem.runs + 1 /\ t.runs = mem.runs + 1
          /\ t.stage = "Started"
      BY <1>9, <1>1, <1>2, StartedRecord DEF RecordStart
    <3>3. mem.runs + 1 \in Runs
      BY <1>9, <1>2, RunsAssumption DEF RecordStart, TaskRecord, Runs
    <3>4. ASSUME NEW n \in Runs, procs[n] # "none" PROVE n <= mem.runs + 1 /\ n \in settled'
      <4>1. n <= mem.runs /\ (n \in settled \/ (n = mem.run /\ mem.stage # "none"))
        BY <1>2, <3>4 DEF SoundRecord
      <4>2. n <= mem.runs + 1
        BY <1>2, <4>1, RunsAssumption DEF TaskRecord, Runs
      <4>3. op.step = "leased" /\ settled \subseteq settled'
        BY <1>9 DEF RecordStart
      <4>4. CASE op.kind = "NewAttempt"
        <5>1. mem.decision.run = mem.run /\ mem.decision.run \in settled'
          BY <1>9, <1>3, <2>2, <4>3, <4>4 DEF RecordStart, SoundOperation
        <5> QED BY <4>1, <4>2, <4>3, <5>1
      <4>5. CASE op.kind # "NewAttempt"
        <5>1. mem.stage \in {"none", "Resolved"}
          BY <1>3, <4>3, <4>5 DEF SoundOperation
        <5> QED BY <1>4, <4>1, <4>2, <4>3, <5>1
      <4> QED BY <4>4, <4>5
    <3> HIDE DEF t
    <3>5. SoundRecord(t, procs', settled')
      BY <3>1, <3>2, <3>3, <3>4 DEF SoundRecord
    <3> QED BY <1>1, <3>1, <3>2, <3>5, PublishedSound
  <2> QED BY <2>1, <2>2
<1>10. ASSUME GiveUpStart PROVE SoundBoard'
  <2>1. UNCHANGED <<mem, file, survivors>> /\ (faults' = faults \/ Fault)
    BY <1>10 DEF GiveUpStart, board, Dies
  <2>2. Grows
    BY <1>10, <1>1, <1>3 DEF GiveUpStart, Grows, SoundWorker, At, Dies
  <2> QED BY <1>1, <2>1, <2>2, KeptSound
<1>11. ASSUME NEW o \in Outcomes, HoldStart(o) PROVE SoundBoard'
  <2>0. /\ (IF op.step = "hold" THEN "unconfirmed" ELSE "changed") \in Whys
        /\ NoCommit \in Versions \cup {NoCommit}
    BY DEF Whys
  <2> DEFINE t == Recovery(mem, mem.run, NoCommit, IF op.step = "hold" THEN "unconfirmed" ELSE "changed")
  <2>1. Grows /\ settled \subseteq settled'
    BY <1>11, <1>1 DEF HoldStart, Grows
  <2>2. Publish(t, o)
    BY <1>11 DEF HoldStart
  <2>3. t \in TaskRecord /\ t.run = mem.run /\ t.runs = mem.runs /\ t.stage = "Recovery"
    BY <1>6, <2>0, RecoverySame
  <2> HIDE DEF t
  <2> QED BY <1>1, <1>4, <2>1, <2>2, <2>3, <1>11, <1>3, Rewritten DEF HoldStart,
       SoundOperation
<1>12. ASSUME Launch PROVE SoundBoard'
  <2>1. UNCHANGED <<mem, file, survivors>> /\ (faults' = faults \/ Fault)
    BY <1>12 DEF Launch, board, Dies
  <2>2. Grows
    BY <1>12, <1>1, <1>3 DEF Launch, Grows, SoundWorker, At, Dies
  <2> QED BY <1>1, <2>1, <2>2, KeptSound
<1>13. ASSUME FindChanged PROVE SoundBoard'
  <2>1. UNCHANGED <<mem, file, survivors>> /\ (faults' = faults \/ Fault)
    BY <1>13 DEF FindChanged, board, Dies
  <2>2. Grows
    BY <1>13, <1>1, <1>3 DEF FindChanged, Grows, SoundWorker, At, Dies
  <2> QED BY <1>1, <2>1, <2>2, KeptSound
<1>14. ASSUME RefuseLaunch PROVE SoundBoard'
  <2>1. UNCHANGED <<mem, file, survivors>> /\ (faults' = faults \/ Fault)
    BY <1>14 DEF RefuseLaunch, board, Dies
  <2>2. Grows
    BY <1>14, <1>1, <1>3 DEF RefuseLaunch, Grows, SoundWorker, At, Dies
  <2> QED BY <1>1, <2>1, <2>2, KeptSound
<1>15. ASSUME NEW ok \in BOOLEAN, MarkSpawning(ok) PROVE SoundBoard'
  <2>1. UNCHANGED <<mem, file, survivors>> /\ (faults' = faults \/ Fault)
    BY <1>15 DEF MarkSpawning, board, Dies
  <2>2. Grows
    BY <1>15, <1>1, <1>3 DEF MarkSpawning, Grows, SoundWorker, At, Dies
  <2> QED BY <1>1, <2>1, <2>2, KeptSound
<1>16. ASSUME Spawn PROVE SoundBoard'
  <2>1. UNCHANGED <<mem, file, survivors>> /\ (faults' = faults \/ Fault) /\ settled \subseteq settled'
    BY <1>16 DEF Spawn, board
  <2>2. worker.run \in Runs /\ Names(worker.run)
    BY <1>16, <1>3 DEF Spawn, At, SoundWorker
  <2>3. \A n \in Runs : n # worker.run => procs'[n] = procs[n]
    BY <1>16, <1>1 DEF Spawn
  <2> QED BY <1>1, <2>1, <2>2, <2>3, NamedSound
<1>17. ASSUME NEW ok \in BOOLEAN, SpawnFails(ok) PROVE SoundBoard'
  <2>1. UNCHANGED <<mem, file, survivors>> /\ (faults' = faults \/ Fault)
    BY <1>17 DEF SpawnFails, board, Dies
  <2>2. Grows
    BY <1>17, <1>1, <1>3 DEF SpawnFails, Grows, SoundWorker, At, Dies
  <2> QED BY <1>1, <2>1, <2>2, KeptSound
<1>18. ASSUME NEW ok \in BOOLEAN, RecordGroup(ok) PROVE SoundBoard'
  <2>1. UNCHANGED <<mem, file, survivors>> /\ (faults' = faults \/ Fault) /\ settled \subseteq settled'
    BY <1>18 DEF RecordGroup, board
  <2>2. worker.run \in Runs /\ Names(worker.run)
    BY <1>18, <1>3 DEF RecordGroup, At, SoundWorker
  <2>3. \A n \in Runs : n # worker.run => procs'[n] = procs[n]
    BY <1>18, <1>1 DEF RecordGroup
  <2> QED BY <1>1, <2>1, <2>2, <2>3, NamedSound
<1>19. ASSUME Cancelled PROVE SoundBoard'
  <2>1. UNCHANGED <<mem, file, survivors>> /\ (faults' = faults \/ Fault)
    BY <1>19 DEF Cancelled, board, Dies
  <2>2. Grows
    BY <1>19, <1>1, <1>3 DEF Cancelled, Grows, SoundWorker, At, Dies
  <2> QED BY <1>1, <2>1, <2>2, KeptSound
<1>20. ASSUME NEW ok \in BOOLEAN, CommitChanges(ok) PROVE SoundBoard'
  <2>1. UNCHANGED <<mem, file, survivors>> /\ (faults' = faults \/ Fault)
    BY <1>20 DEF CommitChanges, board, Dies
  <2>2. Grows
    BY <1>20, <1>1, <1>3 DEF CommitChanges, Grows, SoundWorker, At, Dies
  <2> QED BY <1>1, <2>1, <2>2, KeptSound
<1>21. ASSUME NEW o \in Outcomes, RecordCommitted(o) PROVE SoundBoard'
  <2>1. CASE mem.stage = "Started" /\ mem.run = worker.run
    <3> DEFINE t == [mem EXCEPT !.stage = "Committed", !.commit = worker.commit]
    <3>1. Grows /\ settled \subseteq settled'
      BY <1>21, <2>1, <1>1 DEF RecordCommitted, Grows
    <3>2. Publish(t, o)
      BY <1>21, <2>1 DEF RecordCommitted
    <3>3. t \in TaskRecord /\ t.run = mem.run /\ t.runs = mem.runs /\ t.stage = "Committed"
      BY <1>2, <1>5, CommittedRecord
    <3> HIDE DEF t
    <3> QED BY <1>1, <1>4, <3>1, <3>2, <3>3, <1>21, <2>1, Rewritten
  <2>2. CASE ~(mem.stage = "Started" /\ mem.run = worker.run)
    <3> DEFINE t == mem
    <3>1. Grows /\ settled \subseteq settled'
      BY <1>21, <2>2, <1>1 DEF RecordCommitted, Grows
    <3>2. Publish(t, o)
      BY <1>21, <2>2 DEF RecordCommitted
    <3>3. /\ t \in TaskRecord /\ t.run = mem.run /\ t.runs = mem.runs
          /\ t.stage = mem.stage /\ t.phase = mem.phase
      BY <1>2
    <3> HIDE DEF t
    <3> QED BY <1>1, <1>4, <3>1, <3>2, <3>3, Rewritten
  <2> QED BY <2>1, <2>2
<1>22. ASSUME NEW o \in Outcomes, RecordUnrecorded(o) PROVE SoundBoard'
  <2>0. worker.commit \in Versions \cup {NoCommit} /\ "commit" \in Whys
    BY <1>5 DEF Whys
  <2>1. worker.run = mem.run /\ mem.run \in Runs
    BY <1>22, <1>3 DEF RecordUnrecorded, At, SoundWorker, Names, Records
  <2> DEFINE t == Recovery(mem, worker.run, worker.commit, "commit")
  <2>2. Grows /\ settled \subseteq settled'
    BY <1>22, <1>1 DEF RecordUnrecorded, Grows
  <2>3. Publish(t, o)
    BY <1>22 DEF RecordUnrecorded
  <2>4. t \in TaskRecord /\ t.run = mem.run /\ t.runs = mem.runs /\ t.stage = "Recovery"
    BY <1>6, <2>0, <2>1, RecoverySame
  <2> HIDE DEF t
  <2> QED BY <1>1, <1>4, <2>2, <2>3, <2>4, <2>1, Rewritten
<1>23. ASSUME NEW o \in Outcomes, RecordCompleted(o) PROVE SoundBoard'
  <2>1. CASE (mem.stage = "Committed" /\ mem.run = worker.run) /\ o = "failed"
    <3>1. UNCHANGED <<mem, file, survivors>> /\ (faults' = faults \/ Fault)
      BY <1>23, <2>1 DEF RecordCompleted, Publish, Save
    <3>2. Grows
      BY <1>23, <2>1 DEF RecordCompleted, Grows
    <3> QED BY <1>1, <3>1, <3>2, KeptSound
  <2>2. CASE (mem.stage = "Committed" /\ mem.run = worker.run) /\ o # "failed"
    <3> DEFINE t == Resolved(mem, mem.commit)
    <3>1. Grows /\ mem.run \in settled' /\ Publish(t, o)
      BY <1>23, <2>2 DEF RecordCompleted, Grows
    <3>2. mem.run \in Runs
      BY <1>4, <2>2
    <3>3. t \in TaskRecord /\ t.stage = "Resolved" /\ t.run = mem.run /\ t.runs = mem.runs
      BY <1>2, <1>5, <3>2, ResolvedRecord
    <3> HIDE DEF t
    <3> QED BY <1>1, <3>1, <3>2, <3>3, Rewritten
  <2>3. CASE ~((mem.stage = "Committed" /\ mem.run = worker.run))
    <3>1. Grows /\ Publish(mem, o) /\ settled \subseteq settled'
      BY <1>23, <2>3 DEF RecordCompleted, Grows
    <3> QED BY <1>1, <1>2, <1>4, <3>1, Rewritten
  <2> QED BY <2>1, <2>2, <2>3
<1>24. ASSUME NEW o \in Outcomes, RecordFailed(o) PROVE SoundBoard'
  <2> DEFINE t == Failed(mem, worker.run, worker.step = "failed")
  <2>1. Grows /\ procs' = procs /\ settled' = settled /\ Publish(t, o)
    BY <1>24 DEF RecordFailed, Grows, Publish
  <2>2. worker.run \in Runs /\ mem.runs = worker.run
    BY <1>24, <1>3 DEF RecordFailed, SoundWorker, Records
  <2>3. /\ t \in TaskRecord /\ t.phase = "Failed" /\ t.runs = mem.runs
        /\ \/ worker.step = "failed" /\ t.stage = "none"
           \/ /\ t.run = mem.run
              /\ t.stage = mem.stage \/ (mem.stage = "Started" /\ t.stage = "Recovery")
    BY <1>2, <2>2, FailedRecord
  <2> HIDE DEF t
  <2>4. CASE worker.step = "failed" /\ t.stage = "none"
    <3>1. worker.run \in settled \/ procs[worker.run] = "none"
      BY <1>3, <2>4 DEF SoundWorker
    <3>2. \A n \in Runs : procs[n] # "none" => n <= t.runs /\ n \in settled
      BY <1>2, <2>2, <2>3, <3>1 DEF SoundRecord
    <3>3. SoundRecord(t, procs', settled')
      BY <2>1, <2>3, <2>4, <3>2 DEF SoundRecord
    <3> QED BY <1>1, <2>1, <2>3, <3>3, PublishedSound
  <2>5. CASE t.run = mem.run /\ (t.stage = mem.stage \/ (mem.stage = "Started" /\ t.stage = "Recovery"))
    BY <1>1, <1>4, <2>1, <2>3, <2>5, Rewritten
  <2> QED BY <2>3, <2>4, <2>5
<1>25. ASSUME EndRun PROVE SoundBoard'
  <2>1. UNCHANGED <<mem, file, survivors>> /\ (faults' = faults \/ Fault)
    BY <1>25 DEF EndRun, board, Dies
  <2>2. Grows
    BY <1>25, <1>1, <1>3 DEF EndRun, Grows, SoundWorker, At, Dies
  <2> QED BY <1>1, <2>1, <2>2, KeptSound
<1>26. ASSUME StopTimesOut PROVE SoundBoard'
  <2>1. UNCHANGED <<mem, file, survivors>> /\ (faults' = faults \/ Fault)
    BY <1>26 DEF StopTimesOut, board, Dies
  <2>2. Grows
    BY <1>26, <1>1, <1>3 DEF StopTimesOut, Grows, SoundWorker, At, Dies
  <2> QED BY <1>1, <2>1, <2>2, KeptSound
<1>27. ASSUME NEW o \in Outcomes, SettleStop(o) PROVE SoundBoard'
  <2>1. CASE mem.status = "InProgress"
    <3> DEFINE t == Stopped(mem)
    <3>1. Grows /\ settled \subseteq settled'
      BY <1>27, <2>1, <1>1 DEF SettleStop, Grows
    <3>2. Publish(t, o)
      BY <1>27, <2>1 DEF SettleStop
    <3>3. /\ t \in TaskRecord /\ t.run = mem.run /\ t.runs = mem.runs
          /\ t.stage = (IF mem.stage = "Started" THEN "Recovery" ELSE mem.stage)
          /\ t.phase = "Idle"
      BY <1>2, StoppedRecord
    <3> HIDE DEF t
    <3> QED BY <1>1, <1>4, <3>1, <3>2, <3>3, Rewritten
  <2>2. CASE ~(mem.status = "InProgress")
    <3>1. UNCHANGED <<mem, file, survivors>> /\ (faults' = faults \/ Fault)
      BY <1>27, <2>2 DEF SettleStop, board, Dies
    <3>2. Grows
      BY <1>27, <2>2, <1>1, <1>3 DEF SettleStop, Grows, SoundWorker, At, Dies
    <3> QED BY <1>1, <3>1, <3>2, KeptSound
  <2> QED BY <2>1, <2>2
<1>28. ASSUME NEW o \in Outcomes, Move(o) PROVE SoundBoard'
  <2>1. CASE op.from = "Queue" /\ op.to = "InProgress"
    <3> DEFINE t == Promoted(mem)
    <3>1. Grows /\ settled \subseteq settled'
      BY <1>28, <2>1, <1>1 DEF Move, Grows
    <3>2. Publish(t, o)
      BY <1>28, <2>1 DEF Move
    <3>3. /\ t \in TaskRecord /\ t.run = mem.run /\ t.runs = mem.runs
          /\ t.stage = mem.stage /\ t.phase = "Idle"
      BY <1>2, PromotedRecord
    <3> HIDE DEF t
    <3> QED BY <1>1, <1>4, <3>1, <3>2, <3>3, Rewritten
  <2>2. CASE ~(op.from = "Queue" /\ op.to = "InProgress")
    <3> DEFINE t == MovedTo(mem, op.from, op.to)
    <3>1. Grows /\ settled \subseteq settled'
      BY <1>28, <2>2, <1>1 DEF Move, Grows
    <3>2. Publish(t, o)
      BY <1>28, <2>2 DEF Move
    <3>3. /\ t \in TaskRecord /\ t.run = mem.run /\ t.runs = mem.runs
          /\ t.stage = mem.stage /\ t.phase \in {"Idle", mem.phase}
      BY <1>2, <1>3, <1>28, <2>2, MovedRecord DEF Move, SoundOperation
    <3> HIDE DEF t
    <3> QED BY <1>1, <1>4, <3>1, <3>2, <3>3, Rewritten
  <2> QED BY <2>1, <2>2
<1>29. ASSUME RefuseMove PROVE SoundBoard'
  <2>1. UNCHANGED <<mem, file, survivors>> /\ (faults' = faults \/ Fault)
    BY <1>29 DEF RefuseMove, board, Dies
  <2>2. Grows
    BY <1>29, <1>1, <1>3 DEF RefuseMove, Grows, SoundWorker, At, Dies
  <2> QED BY <1>1, <2>1, <2>2, KeptSound
<1>30. ASSUME NEW o \in Outcomes, Accept(o) PROVE SoundBoard'
  <2>0. mem.stage # "none" /\ mem.run \in Runs
    BY <1>30, <1>3, <1>4 DEF Accept, SoundOperation
  <2>9. op.tip \in Versions \cup {NoCommit}
    BY <1>1 DEF Operations
  <2> DEFINE s == Resolved(mem, op.tip)
             t == [s EXCEPT !.accepted = TRUE]
  <2>1. CASE o = "failed"
    <3>1. UNCHANGED <<mem, file, survivors>> /\ (faults' = faults \/ Fault)
      BY <1>30, <2>1 DEF Accept, Publish, Save
    <3>2. Grows
      BY <1>30, <2>1 DEF Accept, Grows
    <3> QED BY <1>1, <3>1, <3>2, KeptSound
  <2>2. CASE o # "failed"
    <3>1. Grows /\ mem.run \in settled' /\ Publish(t, o)
      BY <1>30, <2>2 DEF Accept, Grows
    <3>2. s \in TaskRecord /\ s.stage = "Resolved" /\ s.run = mem.run /\ s.runs = mem.runs
      BY <1>2, <2>0, <2>9, ResolvedRecord
    <3> HIDE DEF s
    <3>3. t \in TaskRecord /\ t.stage = "Resolved" /\ t.run = mem.run /\ t.runs = mem.runs
      BY <3>2, AcceptedRecord
    <3> HIDE DEF t
    <3> QED BY <1>1, <2>0, <3>1, <3>3, Rewritten
  <2> QED BY <2>1, <2>2
<1>31. ASSUME ConfirmAccept PROVE SoundBoard'
  <2>1. UNCHANGED <<mem, file, survivors>> /\ (faults' = faults \/ Fault)
    BY <1>31 DEF ConfirmAccept, board, Dies
  <2>2. Grows
    BY <1>31, <1>1, <1>3 DEF ConfirmAccept, Grows, SoundWorker, At, Dies
  <2> QED BY <1>1, <2>1, <2>2, KeptSound
<1>32. ASSUME NEW o \in Outcomes, ReturnToRecovery(o) PROVE SoundBoard'
  <2>0. ("moved") \in Whys /\ NoCommit \in Versions \cup {NoCommit}
    BY DEF Whys
  <2> DEFINE t == Recovery(mem, mem.run, NoCommit, "moved")
  <2>1. Grows /\ settled \subseteq settled'
    BY <1>32, <1>1 DEF ReturnToRecovery, Grows
  <2>2. Publish(t, o)
    BY <1>32 DEF ReturnToRecovery
  <2>3. t \in TaskRecord /\ t.run = mem.run /\ t.runs = mem.runs /\ t.stage = "Recovery"
    BY <1>6, <2>0, RecoverySame
  <2> HIDE DEF t
  <2> QED BY <1>1, <1>4, <2>1, <2>2, <2>3, <1>32, <1>3, Rewritten DEF ReturnToRecovery,
       SoundOperation
<1>33. ASSUME BeginStop PROVE SoundBoard'
  <2>1. UNCHANGED <<mem, file, survivors>> /\ (faults' = faults \/ Fault)
    BY <1>33 DEF BeginStop, board, Dies
  <2>2. Grows
    BY <1>33, <1>1, <1>3 DEF BeginStop, Grows, SoundWorker, At, Dies
  <2> QED BY <1>1, <2>1, <2>2, KeptSound
<1>34. ASSUME BeginAccept PROVE SoundBoard'
  <2>1. UNCHANGED <<mem, file, survivors>> /\ (faults' = faults \/ Fault)
    BY <1>34 DEF BeginAccept, board, Dies
  <2>2. Grows
    BY <1>34, <1>1, <1>3 DEF BeginAccept, Grows, SoundWorker, At, Dies
  <2> QED BY <1>1, <2>1, <2>2, KeptSound
<1>35. ASSUME NEW to \in Statuses, BeginMove(to) PROVE SoundBoard'
  <2>1. UNCHANGED <<mem, file, survivors>> /\ (faults' = faults \/ Fault)
    BY <1>35 DEF BeginMove, board, Dies
  <2>2. Grows
    BY <1>35, <1>1, <1>3 DEF BeginMove, Grows, SoundWorker, At, Dies
  <2> QED BY <1>1, <2>1, <2>2, KeptSound
<1>36. ASSUME NEW o \in Outcomes, Promote(o) PROVE SoundBoard'
  <2> DEFINE t == Promoted(mem)
  <2>1. Grows /\ settled \subseteq settled'
    BY <1>36, <1>1 DEF Promote, Grows
  <2>2. Publish(t, o)
    BY <1>36 DEF Promote
  <2>3. /\ t \in TaskRecord /\ t.run = mem.run /\ t.runs = mem.runs
        /\ t.stage = mem.stage /\ t.phase = "Idle"
    BY <1>2, PromotedRecord
  <2> HIDE DEF t
  <2> QED BY <1>1, <1>4, <2>1, <2>2, <2>3, Rewritten
<1>37. ASSUME NEW o \in Outcomes, Decide(o) PROVE SoundBoard'
  <2>0. mem.run \in Runs
    BY <1>37, <1>4 DEF Decide
  <2> DEFINE t == [mem EXCEPT !.authorized = @ \cup {mem.run},
                        !.decision = [run |-> mem.run, why |-> mem.why, commit |-> mem.commit,
                                      tip |-> tip, tree |-> tree]]
  <2>1. Grows /\ settled \subseteq settled'
    BY <1>37, <1>1 DEF Decide, Grows
  <2>2. Publish(t, o)
    BY <1>37 DEF Decide
  <2>3. /\ t \in TaskRecord /\ t.run = mem.run /\ t.runs = mem.runs
        /\ t.stage = mem.stage /\ t.phase = mem.phase
    BY <1>1, <1>2, <2>0, DecidedRecord
  <2> HIDE DEF t
  <2> QED BY <1>1, <1>4, <2>1, <2>2, <2>3, Rewritten
<1>38. ASSUME NEW kind \in {"Pending", "Direct", "NewAttempt"},
            NEW permit \in BOOLEAN, NEW o \in Outcomes, Admit(kind, permit, o) PROVE SoundBoard'
  <2>1. CASE kind = "Direct" /\ ~Ready(mem)
    <3> DEFINE t == Promoted(mem)
    <3>1. Grows /\ settled \subseteq settled'
      BY <1>38, <2>1, <1>1 DEF Admit, Grows
    <3>2. Publish(t, o)
      BY <1>38, <2>1 DEF Admit
    <3>3. /\ t \in TaskRecord /\ t.run = mem.run /\ t.runs = mem.runs
          /\ t.stage = mem.stage /\ t.phase = "Idle"
      BY <1>2, PromotedRecord
    <3> HIDE DEF t
    <3> QED BY <1>1, <1>4, <3>1, <3>2, <3>3, Rewritten
  <2>2. CASE ~(kind = "Direct" /\ ~Ready(mem))
    <3>1. UNCHANGED <<mem, file, survivors>> /\ (faults' = faults \/ Fault)
      BY <1>38, <2>2 DEF Admit, board, Dies
    <3>2. Grows
      BY <1>38, <2>2, <1>1, <1>3 DEF Admit, Grows, SoundWorker, At, Dies
    <3> QED BY <1>1, <3>1, <3>2, KeptSound
  <2> QED BY <2>1, <2>2
<1>39. ASSUME NEW o \in Outcomes, ReconcileStarted(o) PROVE SoundBoard'
  <2>0. ("unowned") \in Whys /\ NoCommit \in Versions \cup {NoCommit}
    BY DEF Whys
  <2> DEFINE t == Recovery(mem, mem.run, NoCommit, "unowned")
  <2>1. Grows /\ settled \subseteq settled'
    BY <1>39, <1>1 DEF ReconcileStarted, Grows
  <2>2. Publish(t, o)
    BY <1>39 DEF ReconcileStarted
  <2>3. t \in TaskRecord /\ t.run = mem.run /\ t.runs = mem.runs /\ t.stage = "Recovery"
    BY <1>6, <2>0, RecoverySame
  <2> HIDE DEF t
  <2> QED BY <1>1, <1>4, <2>1, <2>2, <2>3, <1>39, <1>3, Rewritten DEF ReconcileStarted,
       SoundOperation
<1>40. ASSUME NEW o \in Outcomes, ReconcileCommitted(o) PROVE SoundBoard'
  <2>1. CASE Verified(mem.commit) /\ o = "failed"
    <3>1. UNCHANGED <<mem, file, survivors>> /\ (faults' = faults \/ Fault)
      BY <1>40, <2>1 DEF ReconcileCommitted, Publish, Save
    <3>2. Grows
      BY <1>40, <2>1 DEF ReconcileCommitted, Grows
    <3> QED BY <1>1, <3>1, <3>2, KeptSound
  <2>2. CASE Verified(mem.commit) /\ o # "failed"
    <3> DEFINE t == Resolved(mem, mem.commit)
    <3>1. Grows /\ mem.run \in settled' /\ Publish(t, o)
      BY <1>40, <2>2 DEF ReconcileCommitted, Grows
    <3>2. mem.run \in Runs
      BY <1>40, <1>4 DEF ReconcileCommitted, Unreconciled
    <3>3. t \in TaskRecord /\ t.stage = "Resolved" /\ t.run = mem.run /\ t.runs = mem.runs
      BY <1>2, <1>5, <3>2, ResolvedRecord
    <3> HIDE DEF t
    <3> QED BY <1>1, <3>1, <3>2, <3>3, Rewritten
  <2>3. CASE ~(Verified(mem.commit))
    <3>0. "mismatch" \in Whys /\ NoCommit \in Versions \cup {NoCommit}
      BY DEF Whys
    <3> DEFINE t == Recovery(mem, mem.run, NoCommit, "mismatch")
    <3>1. Grows /\ Publish(t, o)
      BY <1>40, <2>3 DEF ReconcileCommitted, Grows
    <3>2. t \in TaskRecord /\ t.run = mem.run /\ t.runs = mem.runs /\ t.stage = "Recovery"
      BY <1>6, <3>0, RecoverySame
    <3>3. mem.run \in Runs
      BY <1>40, <1>4 DEF ReconcileCommitted, Unreconciled
    <3> HIDE DEF t
    <3> QED BY <1>1, <3>1, <3>2, <3>3, Rewritten
  <2> QED BY <2>1, <2>2, <2>3
<1>41. ASSUME Edit PROVE SoundBoard'
  <2>1. UNCHANGED <<mem, file, survivors>> /\ (faults' = faults \/ Fault)
    BY <1>41 DEF Edit, board, Dies
  <2>2. Grows
    BY <1>41, <1>1, <1>3 DEF Edit, Grows, SoundWorker, At, Dies
  <2> QED BY <1>1, <2>1, <2>2, KeptSound
<1>42. ASSUME GitCommit PROVE SoundBoard'
  <2>1. UNCHANGED <<mem, file, survivors>> /\ (faults' = faults \/ Fault)
    BY <1>42 DEF GitCommit, board, Dies
  <2>2. Grows
    BY <1>42, <1>1, <1>3 DEF GitCommit, Grows, SoundWorker, At, Dies
  <2> QED BY <1>1, <2>1, <2>2, KeptSound
<1>43. ASSUME Crash PROVE SoundBoard'
  <2>1. UNCHANGED <<mem, file, survivors>> /\ (faults' = faults \/ Fault)
    BY <1>43 DEF Crash, board, Dies
  <2>2. Grows
    BY <1>43, <1>1, <1>3 DEF Crash, Grows, SoundWorker, At, Dies
  <2> QED BY <1>1, <2>1, <2>2, KeptSound
<1>44. ASSUME PowerLoss PROVE SoundBoard'
  <2>1. file' \in survivors /\ survivors' = {file'} /\ mem' = mem /\ Fault
    BY <1>44 DEF PowerLoss, Dies
  <2>2. Grows
    BY <1>44 DEF PowerLoss, Dies, Grows
  <2>3. Records' \subseteq Records
    BY <2>1 DEF Records
  <2>4. \A r \in Records' : SoundRecord(r, procs', settled')
    BY <1>1, <2>2, <2>3, SoundGrows DEF SoundBoard
  <2>5. faults' \in 0 .. MaxFaults
    BY <1>1, <2>1, FaultsAssumption DEF Fault, SoundBoard
  <2> QED BY <1>1, <2>1, <2>4, <2>5 DEF SoundBoard
<1>45. ASSUME NEW n \in Runs, GroupChanges(n) PROVE SoundBoard'
  <2>1. UNCHANGED <<mem, file, survivors>> /\ (faults' = faults \/ Fault)
    BY <1>45 DEF GroupChanges, board, Dies
  <2>2. Grows
    BY <1>45, <1>1 DEF GroupChanges, Grows, Alive
  <2> QED BY <1>1, <2>1, <2>2, KeptSound
<1>46. ASSUME NEW step \in {"exited", "failed", "broken"}, ProviderEnds(step)
      PROVE SoundBoard'
  <2>1. UNCHANGED <<mem, file, survivors>> /\ (faults' = faults \/ Fault) /\ settled \subseteq settled'
    BY <1>46 DEF ProviderEnds, board
  <2>2. worker.run \in Runs /\ Names(worker.run)
    BY <1>46, <1>3 DEF ProviderEnds, At, SoundWorker
  <2>3. \A n \in Runs : n # worker.run => procs'[n] = procs[n]
    BY <1>46, <1>1 DEF ProviderEnds
  <2> QED BY <1>1, <2>1, <2>2, <2>3, NamedSound
<1>47. ASSUME NEW o \in Outcomes, Startup(o) PROVE SoundBoard'
  <2> DEFINE t == Migrated(file)
  <2>1. Grows
    BY <1>47 DEF Startup, Grows
  <2>2. file \in TaskRecord /\ SoundRecord(file, procs', settled')
    BY <1>1, <2>1, SoundGrows DEF SoundBoard, Records
  <2>3. t \in TaskRecord /\ SoundRecord(t, procs', settled')
    BY <2>2, MigratedRecord
  <2>4. CASE t = file
    <3>1. UNCHANGED <<file, survivors, faults>> /\ mem' = file
      BY <1>47, <2>4 DEF Startup
    <3>2. Records' \subseteq Records
      BY <1>1, <3>1 DEF Records, SoundBoard
    <3>3. \A r \in Records' : SoundRecord(r, procs', settled')
      BY <1>1, <2>1, <3>2, SoundGrows DEF SoundBoard
    <3> QED BY <1>1, <3>1, <3>3 DEF SoundBoard
  <2>5. CASE t # file
    <3>1. Save(t, o) /\ mem' = t
      BY <1>47, <2>5 DEF Startup
    <3> HIDE DEF t
    <3>2. /\ file' \in {file, t} /\ survivors' \subseteq survivors \cup {t}
          /\ file' \in survivors'
      BY <1>1, <3>1 DEF Save, SoundBoard, Outcomes
    <3>3. faults' \in 0 .. MaxFaults
      BY <1>1, <3>1, FaultsAssumption DEF Save, Fault, SoundBoard
    <3>4. \A r \in Records' : r \in Records \/ r = t
      BY <3>1, <3>2 DEF Records
    <3>5. \A r \in Records : SoundRecord(r, procs', settled')
      BY <1>1, <2>1, SoundGrows DEF SoundBoard
    <3>6. \A r \in Records' : SoundRecord(r, procs', settled')
      BY <2>3, <3>4, <3>5
    <3> QED BY <1>1, <2>3, <3>1, <3>2, <3>3, <3>6 DEF SoundBoard
  <2> QED BY <2>4, <2>5
<1> QED
  BY <1>7, <1>8, <1>9, <1>10, <1>11, <1>12, <1>13, <1>14, <1>15, <1>16, <1>17, <1>18,
     <1>19, <1>20, <1>21, <1>22, <1>23, <1>24, <1>25, <1>26, <1>27, <1>28, <1>29, <1>30,
     <1>31, <1>32, <1>33, <1>34, <1>35, <1>36, <1>37, <1>38, <1>39, <1>40, <1>41, <1>42,
     <1>43, <1>44, <1>45, <1>46, <1>47 DEF Next, StartStep, WorkerStep, LeaseStep,
     Request, Poll, Environment

------------------------------------------------------------------------------
(* The types of everything but the board *)

FlagTypes ==
  /\ confirmed \in BOOLEAN
  /\ decided \in BOOLEAN
  /\ cancel \in BOOLEAN
  /\ held \in BOOLEAN
  /\ up \in BOOLEAN

MachineTypes ==
  /\ note \in {Missing, Mark, Empty} \cup Runs
  /\ procs \in [Runs -> {"none", "holds", "stray", "gone"}]
  /\ tip \in Versions
  /\ tree \in Versions
  /\ settled \in SUBSET Runs

LEMMA OperationType == ASSUME Inv, Next PROVE op' \in Operations
<1>1. op \in Operations /\ Free \in Operations /\ tip \in Versions /\ tree \in Versions
  BY Constants DEF Inv, TypeOK
<1>2. mem \in TaskRecord /\ mem.decision \in Decisions /\ mem.status \in Statuses
      /\ mem.decision.tip \in Versions /\ mem.decision.tree \in Versions
  BY DEF Inv, TypeOK, TaskRecord, Decisions
<1>3. ASSUME NEW o \in Outcomes, CannotAttach(o) PROVE op' \in Operations
  BY <1>1, <1>2, <1>3 DEF CannotAttach, Operations, Release, Goto, At, LeaseFree, Dies
<1>4. ASSUME TakeLease PROVE op' \in Operations
  BY <1>1, <1>2, <1>4 DEF TakeLease, Operations, Release, Goto, At, LeaseFree, Dies
<1>5. ASSUME NEW o \in Outcomes, RecordStart(o) PROVE op' \in Operations
  BY <1>1, <1>2, <1>5 DEF RecordStart, Operations, Release, Goto, At, LeaseFree, Dies
<1>6. ASSUME GiveUpStart PROVE op' \in Operations
  BY <1>1, <1>2, <1>6 DEF GiveUpStart, Operations, Release, Goto, At, LeaseFree, Dies
<1>7. ASSUME NEW o \in Outcomes, HoldStart(o) PROVE op' \in Operations
  BY <1>1, <1>2, <1>7 DEF HoldStart, Operations, Release, Goto, At, LeaseFree, Dies
<1>8. ASSUME Launch PROVE op' \in Operations
  BY <1>1, <1>2, <1>8 DEF Launch, Operations, Release, Goto, At, LeaseFree, Dies
<1>9. ASSUME FindChanged PROVE op' \in Operations
  BY <1>1, <1>2, <1>9 DEF FindChanged, Operations, Release, Goto, At, LeaseFree, Dies
<1>10. ASSUME RefuseLaunch PROVE op' \in Operations
  BY <1>1, <1>2, <1>10 DEF RefuseLaunch, Operations, Release, Goto, At, LeaseFree, Dies
<1>11. ASSUME NEW ok \in BOOLEAN, MarkSpawning(ok) PROVE op' \in Operations
  BY <1>1, <1>2, <1>11 DEF MarkSpawning, Operations, Release, Goto, At, LeaseFree, Dies
<1>12. ASSUME Spawn PROVE op' \in Operations
  BY <1>1, <1>2, <1>12 DEF Spawn, Operations, Release, Goto, At, LeaseFree, Dies
<1>13. ASSUME NEW ok \in BOOLEAN, SpawnFails(ok) PROVE op' \in Operations
  BY <1>1, <1>2, <1>13 DEF SpawnFails, Operations, Release, Goto, At, LeaseFree, Dies
<1>14. ASSUME NEW ok \in BOOLEAN, RecordGroup(ok) PROVE op' \in Operations
  BY <1>1, <1>2, <1>14 DEF RecordGroup, Operations, Release, Goto, At, LeaseFree, Dies
<1>15. ASSUME Cancelled PROVE op' \in Operations
  BY <1>1, <1>2, <1>15 DEF Cancelled, Operations, Release, Goto, At, LeaseFree, Dies
<1>16. ASSUME NEW ok \in BOOLEAN, CommitChanges(ok) PROVE op' \in Operations
  BY <1>1, <1>2, <1>16 DEF CommitChanges, Operations, Release, Goto, At, LeaseFree, Dies
<1>17. ASSUME NEW o \in Outcomes, RecordCommitted(o) PROVE op' \in Operations
  BY <1>1, <1>2, <1>17 DEF RecordCommitted, Operations, Release, Goto, At, LeaseFree, Dies
<1>18. ASSUME NEW o \in Outcomes, RecordUnrecorded(o) PROVE op' \in Operations
  BY <1>1, <1>2, <1>18 DEF RecordUnrecorded, Operations, Release, Goto, At, LeaseFree, Dies
<1>19. ASSUME NEW o \in Outcomes, RecordCompleted(o) PROVE op' \in Operations
  BY <1>1, <1>2, <1>19 DEF RecordCompleted, Operations, Release, Goto, At, LeaseFree, Dies
<1>20. ASSUME NEW o \in Outcomes, RecordFailed(o) PROVE op' \in Operations
  BY <1>1, <1>2, <1>20 DEF RecordFailed, Operations, Release, Goto, At, LeaseFree, Dies
<1>21. ASSUME EndRun PROVE op' \in Operations
  BY <1>1, <1>2, <1>21 DEF EndRun, Operations, Release, Goto, At, LeaseFree, Dies
<1>22. ASSUME StopTimesOut PROVE op' \in Operations
  BY <1>1, <1>2, <1>22 DEF StopTimesOut, Operations, Release, Goto, At, LeaseFree, Dies
<1>23. ASSUME NEW o \in Outcomes, SettleStop(o) PROVE op' \in Operations
  BY <1>1, <1>2, <1>23 DEF SettleStop, Operations, Release, Goto, At, LeaseFree, Dies
<1>24. ASSUME NEW o \in Outcomes, Move(o) PROVE op' \in Operations
  BY <1>1, <1>2, <1>24 DEF Move, Operations, Release, Goto, At, LeaseFree, Dies
<1>25. ASSUME RefuseMove PROVE op' \in Operations
  BY <1>1, <1>2, <1>25 DEF RefuseMove, Operations, Release, Goto, At, LeaseFree, Dies
<1>26. ASSUME NEW o \in Outcomes, Accept(o) PROVE op' \in Operations
  BY <1>1, <1>2, <1>26 DEF Accept, Operations, Release, Goto, At, LeaseFree, Dies
<1>27. ASSUME ConfirmAccept PROVE op' \in Operations
  BY <1>1, <1>2, <1>27 DEF ConfirmAccept, Operations, Release, Goto, At, LeaseFree, Dies
<1>28. ASSUME NEW o \in Outcomes, ReturnToRecovery(o) PROVE op' \in Operations
  BY <1>1, <1>2, <1>28 DEF ReturnToRecovery, Operations, Release, Goto, At, LeaseFree, Dies
<1>29. ASSUME BeginStop PROVE op' \in Operations
  BY <1>1, <1>2, <1>29 DEF BeginStop, Operations, Release, Goto, At, LeaseFree, Dies
<1>30. ASSUME BeginAccept PROVE op' \in Operations
  BY <1>1, <1>2, <1>30 DEF BeginAccept, Operations, Release, Goto, At, LeaseFree, Dies
<1>31. ASSUME NEW to \in Statuses, BeginMove(to) PROVE op' \in Operations
  BY <1>1, <1>2, <1>31 DEF BeginMove, Operations, Release, Goto, At, LeaseFree, Dies
<1>32. ASSUME NEW o \in Outcomes, Promote(o) PROVE op' \in Operations
  BY <1>1, <1>2, <1>32 DEF Promote, Operations, Release, Goto, At, LeaseFree, Dies
<1>33. ASSUME NEW o \in Outcomes, Decide(o) PROVE op' \in Operations
  BY <1>1, <1>2, <1>33 DEF Decide, Operations, Release, Goto, At, LeaseFree, Dies
<1>34. ASSUME NEW kind \in {"Pending", "Direct", "NewAttempt"},
            NEW permit \in BOOLEAN, NEW o \in Outcomes, Admit(kind, permit, o) PROVE op' \in Operations
  BY <1>1, <1>2, <1>34 DEF Admit, Operations, Release, Goto, At, LeaseFree, Dies
<1>35. ASSUME NEW o \in Outcomes, ReconcileStarted(o) PROVE op' \in Operations
  BY <1>1, <1>2, <1>35 DEF ReconcileStarted, Operations, Release, Goto, At, LeaseFree, Dies
<1>36. ASSUME NEW o \in Outcomes, ReconcileCommitted(o) PROVE op' \in Operations
  BY <1>1, <1>2, <1>36 DEF ReconcileCommitted, Operations, Release, Goto, At, LeaseFree,
       Dies
<1>37. ASSUME Edit PROVE op' \in Operations
  BY <1>1, <1>2, <1>37 DEF Edit, Operations, Release, Goto, At, LeaseFree, Dies
<1>38. ASSUME GitCommit PROVE op' \in Operations
  BY <1>1, <1>2, <1>38 DEF GitCommit, Operations, Release, Goto, At, LeaseFree, Dies
<1>39. ASSUME Crash PROVE op' \in Operations
  BY <1>1, <1>2, <1>39 DEF Crash, Operations, Release, Goto, At, LeaseFree, Dies
<1>40. ASSUME PowerLoss PROVE op' \in Operations
  BY <1>1, <1>2, <1>40 DEF PowerLoss, Operations, Release, Goto, At, LeaseFree, Dies
<1>41. ASSUME NEW n \in Runs, GroupChanges(n) PROVE op' \in Operations
  BY <1>1, <1>2, <1>41 DEF GroupChanges, Operations, Release, Goto, At, LeaseFree, Dies
<1>42. ASSUME NEW step \in {"exited", "failed", "broken"}, ProviderEnds(step)
      PROVE op' \in Operations
  BY <1>1, <1>2, <1>42 DEF ProviderEnds, Operations, Release, Goto, At, LeaseFree, Dies
<1>43. ASSUME NEW o \in Outcomes, Startup(o) PROVE op' \in Operations
  BY <1>1, <1>2, <1>43 DEF Startup, Operations, Release, Goto, At, LeaseFree, Dies
<1> QED
  BY <1>3, <1>4, <1>5, <1>6, <1>7, <1>8, <1>9, <1>10, <1>11, <1>12, <1>13, <1>14, <1>15,
     <1>16, <1>17, <1>18, <1>19, <1>20, <1>21, <1>22, <1>23, <1>24, <1>25, <1>26, <1>27,
     <1>28, <1>29, <1>30, <1>31, <1>32, <1>33, <1>34, <1>35, <1>36, <1>37, <1>38, <1>39,
     <1>40, <1>41, <1>42, <1>43 DEF Next, StartStep, WorkerStep, LeaseStep, Request, Poll,
     Environment

LEMMA WorkerType == ASSUME Inv, Next PROVE worker' \in Workers
<1>1. worker \in Workers /\ NoWorker \in Workers /\ tip \in Versions /\ tree \in Versions
  BY Constants DEF Inv, TypeOK
<1>2. mem.run \in 0 .. MaxRuns /\ NoCommit \in Versions \cup {NoCommit}
  BY DEF Inv, TypeOK, TaskRecord
<1>3. ASSUME NEW o \in Outcomes, CannotAttach(o) PROVE worker' \in Workers
  BY <1>1, <1>2, <1>3 DEF CannotAttach, Workers, Release, Goto, At, LeaseFree, Dies
<1>4. ASSUME TakeLease PROVE worker' \in Workers
  BY <1>1, <1>2, <1>4 DEF TakeLease, Workers, Release, Goto, At, LeaseFree, Dies
<1>5. ASSUME NEW o \in Outcomes, RecordStart(o) PROVE worker' \in Workers
  BY <1>1, <1>2, <1>5 DEF RecordStart, Workers, Release, Goto, At, LeaseFree, Dies
<1>6. ASSUME GiveUpStart PROVE worker' \in Workers
  BY <1>1, <1>2, <1>6 DEF GiveUpStart, Workers, Release, Goto, At, LeaseFree, Dies
<1>7. ASSUME NEW o \in Outcomes, HoldStart(o) PROVE worker' \in Workers
  BY <1>1, <1>2, <1>7 DEF HoldStart, Workers, Release, Goto, At, LeaseFree, Dies
<1>8. ASSUME Launch PROVE worker' \in Workers
  BY <1>1, <1>2, <1>8 DEF Launch, Workers, Release, Goto, At, LeaseFree, Dies
<1>9. ASSUME FindChanged PROVE worker' \in Workers
  BY <1>1, <1>2, <1>9 DEF FindChanged, Workers, Release, Goto, At, LeaseFree, Dies
<1>10. ASSUME RefuseLaunch PROVE worker' \in Workers
  BY <1>1, <1>2, <1>10 DEF RefuseLaunch, Workers, Release, Goto, At, LeaseFree, Dies
<1>11. ASSUME NEW ok \in BOOLEAN, MarkSpawning(ok) PROVE worker' \in Workers
  BY <1>1, <1>2, <1>11 DEF MarkSpawning, Workers, Release, Goto, At, LeaseFree, Dies
<1>12. ASSUME Spawn PROVE worker' \in Workers
  BY <1>1, <1>2, <1>12 DEF Spawn, Workers, Release, Goto, At, LeaseFree, Dies
<1>13. ASSUME NEW ok \in BOOLEAN, SpawnFails(ok) PROVE worker' \in Workers
  BY <1>1, <1>2, <1>13 DEF SpawnFails, Workers, Release, Goto, At, LeaseFree, Dies
<1>14. ASSUME NEW ok \in BOOLEAN, RecordGroup(ok) PROVE worker' \in Workers
  BY <1>1, <1>2, <1>14 DEF RecordGroup, Workers, Release, Goto, At, LeaseFree, Dies
<1>15. ASSUME Cancelled PROVE worker' \in Workers
  BY <1>1, <1>2, <1>15 DEF Cancelled, Workers, Release, Goto, At, LeaseFree, Dies
<1>16. ASSUME NEW ok \in BOOLEAN, CommitChanges(ok) PROVE worker' \in Workers
  BY <1>1, <1>2, <1>16 DEF CommitChanges, Workers, Release, Goto, At, LeaseFree, Dies
<1>17. ASSUME NEW o \in Outcomes, RecordCommitted(o) PROVE worker' \in Workers
  BY <1>1, <1>2, <1>17 DEF RecordCommitted, Workers, Release, Goto, At, LeaseFree, Dies
<1>18. ASSUME NEW o \in Outcomes, RecordUnrecorded(o) PROVE worker' \in Workers
  BY <1>1, <1>2, <1>18 DEF RecordUnrecorded, Workers, Release, Goto, At, LeaseFree, Dies
<1>19. ASSUME NEW o \in Outcomes, RecordCompleted(o) PROVE worker' \in Workers
  BY <1>1, <1>2, <1>19 DEF RecordCompleted, Workers, Release, Goto, At, LeaseFree, Dies
<1>20. ASSUME NEW o \in Outcomes, RecordFailed(o) PROVE worker' \in Workers
  BY <1>1, <1>2, <1>20 DEF RecordFailed, Workers, Release, Goto, At, LeaseFree, Dies
<1>21. ASSUME EndRun PROVE worker' \in Workers
  BY <1>1, <1>2, <1>21 DEF EndRun, Workers, Release, Goto, At, LeaseFree, Dies
<1>22. ASSUME StopTimesOut PROVE worker' \in Workers
  BY <1>1, <1>2, <1>22 DEF StopTimesOut, Workers, Release, Goto, At, LeaseFree, Dies
<1>23. ASSUME NEW o \in Outcomes, SettleStop(o) PROVE worker' \in Workers
  BY <1>1, <1>2, <1>23 DEF SettleStop, Workers, Release, Goto, At, LeaseFree, Dies
<1>24. ASSUME NEW o \in Outcomes, Move(o) PROVE worker' \in Workers
  BY <1>1, <1>2, <1>24 DEF Move, Workers, Release, Goto, At, LeaseFree, Dies
<1>25. ASSUME RefuseMove PROVE worker' \in Workers
  BY <1>1, <1>2, <1>25 DEF RefuseMove, Workers, Release, Goto, At, LeaseFree, Dies
<1>26. ASSUME NEW o \in Outcomes, Accept(o) PROVE worker' \in Workers
  BY <1>1, <1>2, <1>26 DEF Accept, Workers, Release, Goto, At, LeaseFree, Dies
<1>27. ASSUME ConfirmAccept PROVE worker' \in Workers
  BY <1>1, <1>2, <1>27 DEF ConfirmAccept, Workers, Release, Goto, At, LeaseFree, Dies
<1>28. ASSUME NEW o \in Outcomes, ReturnToRecovery(o) PROVE worker' \in Workers
  BY <1>1, <1>2, <1>28 DEF ReturnToRecovery, Workers, Release, Goto, At, LeaseFree, Dies
<1>29. ASSUME BeginStop PROVE worker' \in Workers
  BY <1>1, <1>2, <1>29 DEF BeginStop, Workers, Release, Goto, At, LeaseFree, Dies
<1>30. ASSUME BeginAccept PROVE worker' \in Workers
  BY <1>1, <1>2, <1>30 DEF BeginAccept, Workers, Release, Goto, At, LeaseFree, Dies
<1>31. ASSUME NEW to \in Statuses, BeginMove(to) PROVE worker' \in Workers
  BY <1>1, <1>2, <1>31 DEF BeginMove, Workers, Release, Goto, At, LeaseFree, Dies
<1>32. ASSUME NEW o \in Outcomes, Promote(o) PROVE worker' \in Workers
  BY <1>1, <1>2, <1>32 DEF Promote, Workers, Release, Goto, At, LeaseFree, Dies
<1>33. ASSUME NEW o \in Outcomes, Decide(o) PROVE worker' \in Workers
  BY <1>1, <1>2, <1>33 DEF Decide, Workers, Release, Goto, At, LeaseFree, Dies
<1>34. ASSUME NEW kind \in {"Pending", "Direct", "NewAttempt"},
            NEW permit \in BOOLEAN, NEW o \in Outcomes, Admit(kind, permit, o) PROVE worker' \in Workers
  BY <1>1, <1>2, <1>34 DEF Admit, Workers, Release, Goto, At, LeaseFree, Dies
<1>35. ASSUME NEW o \in Outcomes, ReconcileStarted(o) PROVE worker' \in Workers
  BY <1>1, <1>2, <1>35 DEF ReconcileStarted, Workers, Release, Goto, At, LeaseFree, Dies
<1>36. ASSUME NEW o \in Outcomes, ReconcileCommitted(o) PROVE worker' \in Workers
  BY <1>1, <1>2, <1>36 DEF ReconcileCommitted, Workers, Release, Goto, At, LeaseFree, Dies
<1>37. ASSUME Edit PROVE worker' \in Workers
  BY <1>1, <1>2, <1>37 DEF Edit, Workers, Release, Goto, At, LeaseFree, Dies
<1>38. ASSUME GitCommit PROVE worker' \in Workers
  BY <1>1, <1>2, <1>38 DEF GitCommit, Workers, Release, Goto, At, LeaseFree, Dies
<1>39. ASSUME Crash PROVE worker' \in Workers
  BY <1>1, <1>2, <1>39 DEF Crash, Workers, Release, Goto, At, LeaseFree, Dies
<1>40. ASSUME PowerLoss PROVE worker' \in Workers
  BY <1>1, <1>2, <1>40 DEF PowerLoss, Workers, Release, Goto, At, LeaseFree, Dies
<1>41. ASSUME NEW n \in Runs, GroupChanges(n) PROVE worker' \in Workers
  BY <1>1, <1>2, <1>41 DEF GroupChanges, Workers, Release, Goto, At, LeaseFree, Dies
<1>42. ASSUME NEW step \in {"exited", "failed", "broken"}, ProviderEnds(step)
      PROVE worker' \in Workers
  BY <1>1, <1>2, <1>42 DEF ProviderEnds, Workers, Release, Goto, At, LeaseFree, Dies
<1>43. ASSUME NEW o \in Outcomes, Startup(o) PROVE worker' \in Workers
  BY <1>1, <1>2, <1>43 DEF Startup, Workers, Release, Goto, At, LeaseFree, Dies
<1> QED
  BY <1>3, <1>4, <1>5, <1>6, <1>7, <1>8, <1>9, <1>10, <1>11, <1>12, <1>13, <1>14, <1>15,
     <1>16, <1>17, <1>18, <1>19, <1>20, <1>21, <1>22, <1>23, <1>24, <1>25, <1>26, <1>27,
     <1>28, <1>29, <1>30, <1>31, <1>32, <1>33, <1>34, <1>35, <1>36, <1>37, <1>38, <1>39,
     <1>40, <1>41, <1>42, <1>43 DEF Next, StartStep, WorkerStep, LeaseStep, Request, Poll,
     Environment

LEMMA FlagTypesInvariant == ASSUME Inv, Next PROVE FlagTypes'
<1>1. FlagTypes
  BY DEF Inv, TypeOK, FlagTypes
<1>2. ASSUME NEW o \in Outcomes, CannotAttach(o) PROVE FlagTypes'
  BY <1>1, <1>2 DEF CannotAttach, FlagTypes, board, leaseFile, Withdraw, Dies
<1>3. ASSUME TakeLease PROVE FlagTypes'
  BY <1>1, <1>3 DEF TakeLease, FlagTypes, board, leaseFile, Withdraw, Dies
<1>4. ASSUME NEW o \in Outcomes, RecordStart(o) PROVE FlagTypes'
  BY <1>1, <1>4 DEF RecordStart, FlagTypes, board, leaseFile, Withdraw, Dies
<1>5. ASSUME GiveUpStart PROVE FlagTypes'
  BY <1>1, <1>5 DEF GiveUpStart, FlagTypes, board, leaseFile, Withdraw, Dies
<1>6. ASSUME NEW o \in Outcomes, HoldStart(o) PROVE FlagTypes'
  BY <1>1, <1>6 DEF HoldStart, FlagTypes, board, leaseFile, Withdraw, Dies
<1>7. ASSUME Launch PROVE FlagTypes'
  BY <1>1, <1>7 DEF Launch, FlagTypes, board, leaseFile, Withdraw, Dies
<1>8. ASSUME FindChanged PROVE FlagTypes'
  BY <1>1, <1>8 DEF FindChanged, FlagTypes, board, leaseFile, Withdraw, Dies
<1>9. ASSUME RefuseLaunch PROVE FlagTypes'
  BY <1>1, <1>9 DEF RefuseLaunch, FlagTypes, board, leaseFile, Withdraw, Dies
<1>10. ASSUME NEW ok \in BOOLEAN, MarkSpawning(ok) PROVE FlagTypes'
  BY <1>1, <1>10 DEF MarkSpawning, FlagTypes, board, leaseFile, Withdraw, Dies
<1>11. ASSUME Spawn PROVE FlagTypes'
  BY <1>1, <1>11 DEF Spawn, FlagTypes, board, leaseFile, Withdraw, Dies
<1>12. ASSUME NEW ok \in BOOLEAN, SpawnFails(ok) PROVE FlagTypes'
  BY <1>1, <1>12 DEF SpawnFails, FlagTypes, board, leaseFile, Withdraw, Dies
<1>13. ASSUME NEW ok \in BOOLEAN, RecordGroup(ok) PROVE FlagTypes'
  BY <1>1, <1>13 DEF RecordGroup, FlagTypes, board, leaseFile, Withdraw, Dies
<1>14. ASSUME Cancelled PROVE FlagTypes'
  BY <1>1, <1>14 DEF Cancelled, FlagTypes, board, leaseFile, Withdraw, Dies
<1>15. ASSUME NEW ok \in BOOLEAN, CommitChanges(ok) PROVE FlagTypes'
  BY <1>1, <1>15 DEF CommitChanges, FlagTypes, board, leaseFile, Withdraw, Dies
<1>16. ASSUME NEW o \in Outcomes, RecordCommitted(o) PROVE FlagTypes'
  BY <1>1, <1>16 DEF RecordCommitted, FlagTypes, board, leaseFile, Withdraw, Dies
<1>17. ASSUME NEW o \in Outcomes, RecordUnrecorded(o) PROVE FlagTypes'
  BY <1>1, <1>17 DEF RecordUnrecorded, FlagTypes, board, leaseFile, Withdraw, Dies
<1>18. ASSUME NEW o \in Outcomes, RecordCompleted(o) PROVE FlagTypes'
  BY <1>1, <1>18 DEF RecordCompleted, FlagTypes, board, leaseFile, Withdraw, Dies
<1>19. ASSUME NEW o \in Outcomes, RecordFailed(o) PROVE FlagTypes'
  BY <1>1, <1>19 DEF RecordFailed, FlagTypes, board, leaseFile, Withdraw, Dies
<1>20. ASSUME EndRun PROVE FlagTypes'
  BY <1>1, <1>20 DEF EndRun, FlagTypes, board, leaseFile, Withdraw, Dies
<1>21. ASSUME StopTimesOut PROVE FlagTypes'
  BY <1>1, <1>21 DEF StopTimesOut, FlagTypes, board, leaseFile, Withdraw, Dies
<1>22. ASSUME NEW o \in Outcomes, SettleStop(o) PROVE FlagTypes'
  BY <1>1, <1>22 DEF SettleStop, FlagTypes, board, leaseFile, Withdraw, Dies
<1>23. ASSUME NEW o \in Outcomes, Move(o) PROVE FlagTypes'
  BY <1>1, <1>23 DEF Move, FlagTypes, board, leaseFile, Withdraw, Dies
<1>24. ASSUME RefuseMove PROVE FlagTypes'
  BY <1>1, <1>24 DEF RefuseMove, FlagTypes, board, leaseFile, Withdraw, Dies
<1>25. ASSUME NEW o \in Outcomes, Accept(o) PROVE FlagTypes'
  BY <1>1, <1>25 DEF Accept, FlagTypes, board, leaseFile, Withdraw, Dies
<1>26. ASSUME ConfirmAccept PROVE FlagTypes'
  BY <1>1, <1>26 DEF ConfirmAccept, FlagTypes, board, leaseFile, Withdraw, Dies
<1>27. ASSUME NEW o \in Outcomes, ReturnToRecovery(o) PROVE FlagTypes'
  BY <1>1, <1>27 DEF ReturnToRecovery, FlagTypes, board, leaseFile, Withdraw, Dies
<1>28. ASSUME BeginStop PROVE FlagTypes'
  BY <1>1, <1>28 DEF BeginStop, Owned, FlagTypes, board, leaseFile
<1>29. ASSUME BeginAccept PROVE FlagTypes'
  BY <1>1, <1>29 DEF BeginAccept, FlagTypes, board, leaseFile, Withdraw, Dies
<1>30. ASSUME NEW to \in Statuses, BeginMove(to) PROVE FlagTypes'
  BY <1>1, <1>30 DEF BeginMove, FlagTypes, board, leaseFile, Withdraw, Dies
<1>31. ASSUME NEW o \in Outcomes, Promote(o) PROVE FlagTypes'
  BY <1>1, <1>31 DEF Promote, FlagTypes, board, leaseFile, Withdraw, Dies
<1>32. ASSUME NEW o \in Outcomes, Decide(o) PROVE FlagTypes'
  BY <1>1, <1>32 DEF Decide, FlagTypes, board, leaseFile, Withdraw, Dies
<1>33. ASSUME NEW kind \in {"Pending", "Direct", "NewAttempt"},
            NEW permit \in BOOLEAN, NEW o \in Outcomes, Admit(kind, permit, o) PROVE FlagTypes'
  BY <1>1, <1>33 DEF Admit, FlagTypes, board, leaseFile, Withdraw, Dies
<1>34. ASSUME NEW o \in Outcomes, ReconcileStarted(o) PROVE FlagTypes'
  BY <1>1, <1>34 DEF ReconcileStarted, FlagTypes, board, leaseFile, Withdraw, Dies
<1>35. ASSUME NEW o \in Outcomes, ReconcileCommitted(o) PROVE FlagTypes'
  BY <1>1, <1>35 DEF ReconcileCommitted, FlagTypes, board, leaseFile, Withdraw, Dies
<1>36. ASSUME Edit PROVE FlagTypes'
  BY <1>1, <1>36 DEF Edit, FlagTypes, board, leaseFile, Withdraw, Dies
<1>37. ASSUME GitCommit PROVE FlagTypes'
  BY <1>1, <1>37 DEF GitCommit, FlagTypes, board, leaseFile, Withdraw, Dies
<1>38. ASSUME Crash PROVE FlagTypes'
  BY <1>1, <1>38 DEF Crash, FlagTypes, board, leaseFile, Withdraw, Dies
<1>39. ASSUME PowerLoss PROVE FlagTypes'
  BY <1>1, <1>39 DEF PowerLoss, FlagTypes, board, leaseFile, Withdraw, Dies
<1>40. ASSUME NEW n \in Runs, GroupChanges(n) PROVE FlagTypes'
  BY <1>1, <1>40 DEF GroupChanges, FlagTypes, board, leaseFile, Withdraw, Dies
<1>41. ASSUME NEW step \in {"exited", "failed", "broken"}, ProviderEnds(step)
      PROVE FlagTypes'
  BY <1>1, <1>41 DEF ProviderEnds, FlagTypes, board, leaseFile, Withdraw, Dies
<1>42. ASSUME NEW o \in Outcomes, Startup(o) PROVE FlagTypes'
  BY <1>1, <1>42 DEF Startup, FlagTypes, board, leaseFile, Withdraw, Dies
<1> QED
  BY <1>2, <1>3, <1>4, <1>5, <1>6, <1>7, <1>8, <1>9, <1>10, <1>11, <1>12, <1>13, <1>14,
     <1>15, <1>16, <1>17, <1>18, <1>19, <1>20, <1>21, <1>22, <1>23, <1>24, <1>25, <1>26,
     <1>27, <1>28, <1>29, <1>30, <1>31, <1>32, <1>33, <1>34, <1>35, <1>36, <1>37, <1>38,
     <1>39, <1>40, <1>41, <1>42 DEF Next, StartStep, WorkerStep, LeaseStep, Request, Poll,
     Environment

LEMMA MachineTypesInvariant == ASSUME Inv, Next PROVE MachineTypes'
<1>1. MachineTypes
  BY DEF Inv, TypeOK, MachineTypes
<1>2. SoundOperation /\ SoundWorker /\ SoundRecord(mem, procs, settled)
  BY DEF Inv, Records
<1>3. mem.stage # "none" => mem.run \in Runs
  BY <1>2 DEF SoundRecord
<1>4. worker.step \notin {"none", "ending"} => worker.run \in Runs
  BY <1>2 DEF SoundWorker
<1>5. ASSUME NEW o \in Outcomes, CannotAttach(o) PROVE MachineTypes'
  BY <1>1, <1>2, <1>5 DEF CannotAttach, MachineTypes, leaseFile, checkout, Dies
<1>6. ASSUME TakeLease PROVE MachineTypes'
  BY <1>1, <1>2, <1>6 DEF TakeLease, MachineTypes, leaseFile, checkout, Dies
<1>7. ASSUME NEW o \in Outcomes, RecordStart(o) PROVE MachineTypes'
  <2>1. op.kind = "NewAttempt" => mem.decision.run \in Runs
    BY <1>7, <1>2, <1>3 DEF RecordStart, SoundOperation
  <2> QED BY <1>7, <1>1, <2>1 DEF RecordStart, MachineTypes, checkout
<1>8. ASSUME GiveUpStart PROVE MachineTypes'
  BY <1>1, <1>2, <1>8 DEF GiveUpStart, MachineTypes, leaseFile, checkout, Dies
<1>9. ASSUME NEW o \in Outcomes, HoldStart(o) PROVE MachineTypes'
  BY <1>1, <1>2, <1>9 DEF HoldStart, MachineTypes, leaseFile, checkout, Dies
<1>10. ASSUME Launch PROVE MachineTypes'
  BY <1>1, <1>2, <1>10 DEF Launch, MachineTypes, leaseFile, checkout, Dies
<1>11. ASSUME FindChanged PROVE MachineTypes'
  BY <1>1, <1>2, <1>11 DEF FindChanged, MachineTypes, leaseFile, checkout, Dies
<1>12. ASSUME RefuseLaunch PROVE MachineTypes'
  BY <1>1, <1>2, <1>12 DEF RefuseLaunch, MachineTypes, leaseFile, checkout, Dies
<1>13. ASSUME NEW ok \in BOOLEAN, MarkSpawning(ok) PROVE MachineTypes'
  BY <1>1, <1>2, <1>13 DEF MarkSpawning, MachineTypes, leaseFile, checkout, Dies
<1>14. ASSUME Spawn PROVE MachineTypes'
  BY <1>1, <1>2, <1>14 DEF Spawn, MachineTypes, leaseFile, checkout, Dies
<1>15. ASSUME NEW ok \in BOOLEAN, SpawnFails(ok) PROVE MachineTypes'
  BY <1>1, <1>2, <1>15 DEF SpawnFails, MachineTypes, leaseFile, checkout, Dies
<1>16. ASSUME NEW ok \in BOOLEAN, RecordGroup(ok) PROVE MachineTypes'
  <2>1. worker.run \in Runs
    BY <1>16, <1>2, <1>3, <1>4 DEF RecordGroup, At
  <2> QED BY <1>16, <1>1, <2>1 DEF RecordGroup, MachineTypes, leaseFile, checkout, At
<1>17. ASSUME Cancelled PROVE MachineTypes'
  BY <1>1, <1>2, <1>17 DEF Cancelled, MachineTypes, leaseFile, checkout, Dies
<1>18. ASSUME NEW ok \in BOOLEAN, CommitChanges(ok) PROVE MachineTypes'
  BY <1>1, <1>2, <1>18 DEF CommitChanges, MachineTypes, leaseFile, checkout, Dies
<1>19. ASSUME NEW o \in Outcomes, RecordCommitted(o) PROVE MachineTypes'
  BY <1>1, <1>2, <1>19 DEF RecordCommitted, MachineTypes, leaseFile, checkout, Dies
<1>20. ASSUME NEW o \in Outcomes, RecordUnrecorded(o) PROVE MachineTypes'
  BY <1>1, <1>2, <1>20 DEF RecordUnrecorded, MachineTypes, leaseFile, checkout, Dies
<1>21. ASSUME NEW o \in Outcomes, RecordCompleted(o) PROVE MachineTypes'
  <2>1. worker.run \in Runs
    BY <1>21, <1>2, <1>3, <1>4 DEF RecordCompleted, At
  <2> QED BY <1>21, <1>1, <2>1 DEF RecordCompleted, MachineTypes, leaseFile, checkout, At
<1>22. ASSUME NEW o \in Outcomes, RecordFailed(o) PROVE MachineTypes'
  BY <1>1, <1>2, <1>22 DEF RecordFailed, MachineTypes, leaseFile, checkout, Dies
<1>23. ASSUME EndRun PROVE MachineTypes'
  BY <1>1, <1>2, <1>23 DEF EndRun, MachineTypes, leaseFile, checkout, Dies
<1>24. ASSUME StopTimesOut PROVE MachineTypes'
  BY <1>1, <1>2, <1>24 DEF StopTimesOut, MachineTypes, leaseFile, checkout, Dies
<1>25. ASSUME NEW o \in Outcomes, SettleStop(o) PROVE MachineTypes'
  BY <1>1, <1>2, <1>25 DEF SettleStop, MachineTypes, leaseFile, checkout, Dies
<1>26. ASSUME NEW o \in Outcomes, Move(o) PROVE MachineTypes'
  BY <1>1, <1>2, <1>26 DEF Move, MachineTypes, leaseFile, checkout, Dies
<1>27. ASSUME RefuseMove PROVE MachineTypes'
  BY <1>1, <1>2, <1>27 DEF RefuseMove, MachineTypes, leaseFile, checkout, Dies
<1>28. ASSUME NEW o \in Outcomes, Accept(o) PROVE MachineTypes'
  <2>1. mem.run \in Runs
    BY <1>28, <1>2, <1>3, <1>4 DEF Accept, SoundOperation
  <2> QED BY <1>28, <1>1, <2>1 DEF Accept, MachineTypes, leaseFile, checkout, At
<1>29. ASSUME ConfirmAccept PROVE MachineTypes'
  BY <1>1, <1>2, <1>29 DEF ConfirmAccept, MachineTypes, leaseFile, checkout, Dies
<1>30. ASSUME NEW o \in Outcomes, ReturnToRecovery(o) PROVE MachineTypes'
  BY <1>1, <1>2, <1>30 DEF ReturnToRecovery, MachineTypes, leaseFile, checkout, Dies
<1>31. ASSUME BeginStop PROVE MachineTypes'
  BY <1>1, <1>2, <1>31 DEF BeginStop, MachineTypes, leaseFile, checkout, Dies
<1>32. ASSUME BeginAccept PROVE MachineTypes'
  BY <1>1, <1>2, <1>32 DEF BeginAccept, MachineTypes, leaseFile, checkout, Dies
<1>33. ASSUME NEW to \in Statuses, BeginMove(to) PROVE MachineTypes'
  BY <1>1, <1>2, <1>33 DEF BeginMove, MachineTypes, leaseFile, checkout, Dies
<1>34. ASSUME NEW o \in Outcomes, Promote(o) PROVE MachineTypes'
  BY <1>1, <1>2, <1>34 DEF Promote, MachineTypes, leaseFile, checkout, Dies
<1>35. ASSUME NEW o \in Outcomes, Decide(o) PROVE MachineTypes'
  BY <1>1, <1>2, <1>35 DEF Decide, MachineTypes, leaseFile, checkout, Dies
<1>36. ASSUME NEW kind \in {"Pending", "Direct", "NewAttempt"},
            NEW permit \in BOOLEAN, NEW o \in Outcomes, Admit(kind, permit, o) PROVE MachineTypes'
  BY <1>1, <1>2, <1>36 DEF Admit, MachineTypes, leaseFile, checkout, Dies
<1>37. ASSUME NEW o \in Outcomes, ReconcileStarted(o) PROVE MachineTypes'
  BY <1>1, <1>2, <1>37 DEF ReconcileStarted, MachineTypes, leaseFile, checkout, Dies
<1>38. ASSUME NEW o \in Outcomes, ReconcileCommitted(o) PROVE MachineTypes'
  <2>1. mem.run \in Runs
    BY <1>38, <1>2, <1>3, <1>4 DEF ReconcileCommitted, Unreconciled
  <2> QED BY <1>38, <1>1, <2>1 DEF ReconcileCommitted, MachineTypes, leaseFile, checkout, At
<1>39. ASSUME Edit PROVE MachineTypes'
  <2>1. tree + 1 \in Versions
    BY <1>39, <1>1, EditsAssumption DEF Edit, MachineTypes, Versions
  <2> QED BY <1>39, <1>1, <2>1 DEF Edit, MachineTypes, leaseFile
<1>40. ASSUME GitCommit PROVE MachineTypes'
  BY <1>1, <1>2, <1>40 DEF GitCommit, MachineTypes, leaseFile, checkout, Dies
<1>41. ASSUME Crash PROVE MachineTypes'
  BY <1>1, <1>2, <1>41 DEF Crash, MachineTypes, leaseFile, checkout, Dies
<1>42. ASSUME PowerLoss PROVE MachineTypes'
  BY <1>1, <1>2, <1>42 DEF PowerLoss, MachineTypes, leaseFile, checkout, Dies
<1>43. ASSUME NEW n \in Runs, GroupChanges(n) PROVE MachineTypes'
  BY <1>1, <1>2, <1>43 DEF GroupChanges, MachineTypes, leaseFile, checkout, Dies
<1>44. ASSUME NEW step \in {"exited", "failed", "broken"}, ProviderEnds(step)
      PROVE MachineTypes'
  <2>1. worker.run \in Runs
    BY <1>44, <1>2, <1>3, <1>4 DEF ProviderEnds, At
  <2> QED BY <1>44, <1>1, <2>1 DEF ProviderEnds, MachineTypes, leaseFile, checkout, At
<1>45. ASSUME NEW o \in Outcomes, Startup(o) PROVE MachineTypes'
  BY <1>1, <1>2, <1>45 DEF Startup, MachineTypes, leaseFile, checkout, Dies
<1> QED
  BY <1>5, <1>6, <1>7, <1>8, <1>9, <1>10, <1>11, <1>12, <1>13, <1>14, <1>15, <1>16, <1>17,
     <1>18, <1>19, <1>20, <1>21, <1>22, <1>23, <1>24, <1>25, <1>26, <1>27, <1>28, <1>29,
     <1>30, <1>31, <1>32, <1>33, <1>34, <1>35, <1>36, <1>37, <1>38, <1>39, <1>40, <1>41,
     <1>42, <1>43, <1>44, <1>45 DEF Next, StartStep, WorkerStep, LeaseStep, Request, Poll,
     Environment

------------------------------------------------------------------------------
(* Steps that keep what the records say of the run *)

SameRun(r, t) ==
  /\ r.stage = t.stage /\ r.run = t.run /\ r.runs = t.runs
  /\ r.commit = t.commit /\ r.decision = t.decision

SameBoard ==
  /\ SameRun(mem', mem)
  /\ \A r \in Records' : r \in Records \/ SameRun(r, mem)

LEMMA SameKept ==
  ASSUME UNCHANGED mem, survivors' \subseteq survivors
  PROVE  SameBoard
BY DEF SameBoard, SameRun, Records

\* What publishing a record leaves in memory and in the file.
LEMMA PublishedRecords ==
  ASSUME NEW r, NEW o \in Outcomes, Publish(r, o)
  PROVE  /\ mem' \in {mem, r}
         /\ \A t \in Records' : t \in Records \/ t = r
         /\ o = "saved" => mem' = r /\ \A t \in Records' : t = r
         /\ o = "failed" => mem' = mem /\ survivors' = survivors
         /\ o # "failed" => mem' = r
BY DEF Publish, Save, Records, Outcomes

LEMMA SamePublished ==
  ASSUME NEW r, NEW o \in Outcomes, Publish(r, o), SameRun(r, mem)
  PROVE  SameBoard
<1>1. mem' = mem \/ mem' = r
  BY PublishedRecords
<1>2. \A t \in Records' : t \in Records \/ t = r
  BY PublishedRecords
<1>3. SameRun(mem, mem)
  BY DEF SameRun
<1> QED BY <1>1, <1>2, <1>3 DEF SameBoard

LEMMA SameFailed ==
  ASSUME NEW r, Publish(r, "failed")
  PROVE  SameBoard
BY SameKept DEF Publish, Save

\* The steps that publish the same run: they change the column and the phase.
LEMMA SameChanges ==
  ASSUME Inv
  PROVE  /\ SameRun(mem, mem)
         /\ SameRun(Promoted(mem), mem)
         /\ op.step = "move" => SameRun(MovedTo(mem, op.from, op.to), mem)
         /\ mem.stage # "Started" => SameRun(Stopped(mem), mem)
         /\ SameRun([mem EXCEPT !.status = "Error", !.phase = "Failed"], mem)
<1>1. mem \in TaskRecord /\ (op.step = "move" => op.to \in Statuses)
  BY DEF Inv, TypeOK, SoundOperation
<1>2. SameRun(mem, mem)
  BY DEF SameRun
<1>3. SameRun(Promoted(mem), mem)
  BY <1>1, PromotedRecord DEF SameRun
<1>4. op.step = "move" => SameRun(MovedTo(mem, op.from, op.to), mem)
  BY <1>1, MovedRecord DEF SameRun
<1>5. mem.stage # "Started" => SameRun(Stopped(mem), mem)
  BY <1>1, StoppedRecord DEF SameRun
<1>6. SameRun([mem EXCEPT !.status = "Error", !.phase = "Failed"], mem)
  BY <1>1, ErrorRecord DEF SameRun
<1> QED BY <1>2, <1>3, <1>4, <1>5, <1>6

LEMMA OperationKept ==
  ASSUME Inv, SameBoard, UNCHANGED <<op, worker>>,
         \A n \in Runs : procs[n] = "none" => procs'[n] = "none"
  PROVE  SoundOperation'
<1>1. SoundOperation /\ SoundRecord(mem, procs, settled)
  BY DEF Inv, Records
<1>2. mem'.stage = mem.stage /\ mem'.run = mem.run /\ mem'.decision = mem.decision
  BY DEF SameBoard, SameRun
<1>3. op.step = "recorded" => Names(mem.run)' /\ procs'[mem.run] = "none"
  <2>1. SUFFICES ASSUME op.step = "recorded" PROVE Names(mem.run)' /\ procs'[mem.run] = "none"
    OBVIOUS
  <2>2. Names(mem.run) /\ procs[mem.run] = "none"
    BY <1>1, <2>1 DEF SoundOperation
  <2>3. mem.run \in Runs
    BY <1>1, <2>2 DEF Names, Records, SoundRecord
  <2>4. \A r \in Records' : r.runs = mem.run /\ r.run = mem.run /\ r.stage # "none"
    BY <2>2 DEF SameBoard, SameRun, Names, Records
  <2> QED BY <1>2, <2>2, <2>3, <2>4 DEF Names
<1>4. op.step = "accepted" => \A r \in Records' : r.stage = "Resolved" /\ r.commit = op.tip
  BY <1>1 DEF SoundOperation, SameBoard, SameRun, Records
<1> QED BY <1>1, <1>2, <1>3, <1>4 DEF SoundOperation

LEMMA WorkerKept ==
  ASSUME Inv, SameBoard, UNCHANGED worker, settled \subseteq settled',
         \A n \in Runs : procs[n] = "none" => procs'[n] = "none"
  PROVE  SoundWorker'
<1>1. SoundWorker
  BY DEF Inv
<1>2. worker.step \notin {"none", "ending"} =>
        \A r \in Records' : r.runs = worker.run /\ r.run = worker.run /\ r.stage # "none"
  BY <1>1 DEF SoundWorker, SameBoard, SameRun, Names, Records
<1>3. worker.step # "none" => worker.run \in Runs /\ \A r \in Records' : r.runs = worker.run
  BY <1>1 DEF SoundWorker, SameBoard, SameRun, Records
<1> QED BY <1>1, <1>2, <1>3 DEF SoundWorker, Names

------------------------------------------------------------------------------
(* The actors *)

\* What the operation under the task's lease has established survives the worker,
\* the poll's promotion and the environment.
LEMMA OperationInvariant == ASSUME Inv, Next PROVE SoundOperation'
<1>1. /\ SoundOperation /\ SoundWorker /\ SoundConfirmations
      /\ SoundRecord(mem, procs, settled)
  BY DEF Inv, Records
<1>2. op \in Operations /\ mem \in TaskRecord /\ tip \in Versions
  BY DEF Inv, TypeOK
<1>3. Free.step = "free" /\ NoWorker.step = "none"
  BY Constants
<1>4. procs \in [Runs -> {"none", "holds", "stray", "gone"}]
  BY DEF Inv, TypeOK
<1>5. ASSUME NEW o \in Outcomes, CannotAttach(o) PROVE SoundOperation'
  <2>1. op' = Free \/ op' = [Free EXCEPT !.step = "stop"]
    BY <1>5 DEF CannotAttach, Release, Dies
  <2>2. op'.step \in {"free", "stop"}
    BY <1>3, <2>1 DEF Free
  <2> QED BY <2>2 DEF SoundOperation
<1>6. ASSUME TakeLease PROVE SoundOperation'
  <2>1. UNCHANGED <<mem, worker>> /\ op.step = "admitted"
    BY <1>6 DEF TakeLease, board
  <2>2. op' = Free \/ (op'.step = "leased" /\ op'.kind = op.kind)
    BY <1>6, <1>2 DEF TakeLease, Release, Operations
  <2> QED BY <1>1, <1>3, <2>1, <2>2 DEF SoundOperation
<1>7. ASSUME NEW o \in Outcomes, RecordStart(o) PROVE SoundOperation'
  <2> DEFINE t == Started(mem, op.kind)
  <2>1. /\ t.stage = "Started" /\ t.run = mem.runs + 1 /\ t.runs = mem.runs + 1
        /\ Publish(t, o)
    BY <1>7, <1>2, StartedRecord DEF RecordStart
  <2>2. mem.runs + 1 \in Runs /\ ~(mem.runs + 1 <= mem.runs)
    BY <1>7, <1>2, RunsAssumption DEF RecordStart, TaskRecord, Runs
  <2>3. op.step = "leased" /\ worker' = worker /\ procs' = procs
    BY <1>7 DEF RecordStart
  <2> HIDE DEF t
  <2>4. worker' = NoWorker
    BY <1>1, <2>3 DEF SoundOperation
  <2>5. CASE o = "saved"
    <3>1. mem' = t /\ \A r \in Records' : r = t
      BY <2>1, <2>5, PublishedRecords
    <3>2. op'.step = "recorded"
      BY <1>7, <1>2, <2>5 DEF RecordStart, Operations
    <3>3. Names(mem.run)'
      BY <2>1, <3>1 DEF Names
    <3>4. procs'[mem'.run] = "none"
      BY <1>1, <2>1, <2>2, <2>3, <3>1 DEF SoundRecord
    <3> QED BY <2>4, <3>2, <3>3, <3>4 DEF SoundOperation
  <2>6. CASE o = "unconfirmed"
    <3>1. mem' = t
      BY <2>1, <2>6, PublishedRecords
    <3>2. op'.step = "hold"
      BY <1>7, <1>2, <2>6 DEF RecordStart, Operations
    <3> QED BY <2>1, <2>4, <3>1, <3>2 DEF SoundOperation
  <2>7. CASE o = "failed"
    <3>1. op' = Free
      BY <1>7, <2>7 DEF RecordStart
    <3> QED BY <1>3, <3>1 DEF SoundOperation
  <2> QED BY <2>5, <2>6, <2>7 DEF Outcomes
<1>8. ASSUME GiveUpStart PROVE SoundOperation'
  <2>1. op' = Free \/ op' = [Free EXCEPT !.step = "stop"]
    BY <1>8 DEF GiveUpStart, Release, Dies
  <2>2. op'.step \in {"free", "stop"}
    BY <1>3, <2>1 DEF Free
  <2> QED BY <2>2 DEF SoundOperation
<1>9. ASSUME NEW o \in Outcomes, HoldStart(o) PROVE SoundOperation'
  <2>1. op' = Free \/ op' = [Free EXCEPT !.step = "stop"]
    BY <1>9 DEF HoldStart, Release, Dies
  <2>2. op'.step \in {"free", "stop"}
    BY <1>3, <2>1 DEF Free
  <2> QED BY <2>2 DEF SoundOperation
<1>10. ASSUME Launch PROVE SoundOperation'
  <2>1. op' = Free \/ op' = [Free EXCEPT !.step = "stop"]
    BY <1>10 DEF Launch, Release, Dies
  <2>2. op'.step \in {"free", "stop"}
    BY <1>3, <2>1 DEF Free
  <2> QED BY <2>2 DEF SoundOperation
<1>11. ASSUME FindChanged PROVE SoundOperation'
  <2>1. UNCHANGED <<mem, worker>> /\ op.step = "recorded" /\ op'.step = "changed"
    BY <1>11, <1>2 DEF FindChanged, board, Operations
  <2>2. mem.stage # "none" /\ worker = NoWorker
    BY <1>1, <2>1 DEF SoundOperation, Names, Records
  <2> QED BY <2>1, <2>2 DEF SoundOperation
<1>12. ASSUME RefuseLaunch PROVE SoundOperation'
  <2>1. op' = op /\ op.step \in {"free", "stop", "move"}
    BY <1>12, <1>1, <1>2, <1>3 DEF RefuseLaunch, SoundOperation, SoundConfirmations, At,
         LeaseFree, Operations
  <2> QED BY <1>1, <2>1 DEF SoundOperation
<1>13. ASSUME NEW ok \in BOOLEAN, MarkSpawning(ok) PROVE SoundOperation'
  <2>1. op' = op /\ op.step \in {"free", "stop", "move"}
    BY <1>13, <1>1, <1>2, <1>3 DEF MarkSpawning, SoundOperation, SoundConfirmations, At,
         LeaseFree, Operations
  <2> QED BY <1>1, <2>1 DEF SoundOperation
<1>14. ASSUME Spawn PROVE SoundOperation'
  <2>1. op' = op /\ op.step \in {"free", "stop", "move"}
    BY <1>14, <1>1, <1>2, <1>3 DEF Spawn, SoundOperation, SoundConfirmations, At,
         LeaseFree, Operations
  <2> QED BY <1>1, <2>1 DEF SoundOperation
<1>15. ASSUME NEW ok \in BOOLEAN, SpawnFails(ok) PROVE SoundOperation'
  <2>1. op' = op /\ op.step \in {"free", "stop", "move"}
    BY <1>15, <1>1, <1>2, <1>3 DEF SpawnFails, SoundOperation, SoundConfirmations, At,
         LeaseFree, Operations
  <2> QED BY <1>1, <2>1 DEF SoundOperation
<1>16. ASSUME NEW ok \in BOOLEAN, RecordGroup(ok) PROVE SoundOperation'
  <2>1. op' = op /\ op.step \in {"free", "stop", "move"}
    BY <1>16, <1>1, <1>2, <1>3 DEF RecordGroup, SoundOperation, SoundConfirmations, At,
         LeaseFree, Operations
  <2> QED BY <1>1, <2>1 DEF SoundOperation
<1>17. ASSUME Cancelled PROVE SoundOperation'
  <2>1. op' = op /\ op.step \in {"free", "stop", "move"}
    BY <1>17, <1>1, <1>2, <1>3 DEF Cancelled, SoundOperation, SoundConfirmations, At,
         LeaseFree, Operations
  <2> QED BY <1>1, <2>1 DEF SoundOperation
<1>18. ASSUME NEW ok \in BOOLEAN, CommitChanges(ok) PROVE SoundOperation'
  <2>1. op' = op /\ op.step \in {"free", "stop", "move"}
    BY <1>18, <1>1, <1>2, <1>3 DEF CommitChanges, SoundOperation, SoundConfirmations, At,
         LeaseFree, Operations
  <2> QED BY <1>1, <2>1 DEF SoundOperation
<1>19. ASSUME NEW o \in Outcomes, RecordCommitted(o) PROVE SoundOperation'
  <2>1. op' = op /\ op.step \in {"free", "stop", "move"}
    BY <1>19, <1>1, <1>2, <1>3 DEF RecordCommitted, SoundOperation, SoundConfirmations,
         At, LeaseFree, Operations
  <2> QED BY <1>1, <2>1 DEF SoundOperation
<1>20. ASSUME NEW o \in Outcomes, RecordUnrecorded(o) PROVE SoundOperation'
  <2>1. op' = op /\ op.step \in {"free", "stop", "move"}
    BY <1>20, <1>1, <1>2, <1>3 DEF RecordUnrecorded, SoundOperation, SoundConfirmations,
         At, LeaseFree, Operations
  <2> QED BY <1>1, <2>1 DEF SoundOperation
<1>21. ASSUME NEW o \in Outcomes, RecordCompleted(o) PROVE SoundOperation'
  <2>1. op' = op /\ op.step \in {"free", "stop", "move"}
    BY <1>21, <1>1, <1>2, <1>3 DEF RecordCompleted, SoundOperation, SoundConfirmations,
         At, LeaseFree, Operations
  <2> QED BY <1>1, <2>1 DEF SoundOperation
<1>22. ASSUME NEW o \in Outcomes, RecordFailed(o) PROVE SoundOperation'
  <2>1. op' = op /\ op.step \in {"free", "stop", "move"}
    BY <1>22, <1>1, <1>2, <1>3 DEF RecordFailed, SoundOperation, SoundConfirmations, At,
         LeaseFree, Operations
  <2> QED BY <1>1, <2>1 DEF SoundOperation
<1>23. ASSUME EndRun PROVE SoundOperation'
  <2>1. op' = op /\ op.step \in {"free", "stop", "move"}
    BY <1>23, <1>1, <1>2, <1>3 DEF EndRun, SoundOperation, SoundConfirmations, At,
         LeaseFree, Operations
  <2> QED BY <1>1, <2>1 DEF SoundOperation
<1>24. ASSUME StopTimesOut PROVE SoundOperation'
  <2>1. op' = Free \/ op' = [Free EXCEPT !.step = "stop"]
    BY <1>24 DEF StopTimesOut, Release, Dies
  <2>2. op'.step \in {"free", "stop"}
    BY <1>3, <2>1 DEF Free
  <2> QED BY <2>2 DEF SoundOperation
<1>25. ASSUME NEW o \in Outcomes, SettleStop(o) PROVE SoundOperation'
  <2>1. op' = Free \/ op' = [Free EXCEPT !.step = "stop"]
    BY <1>25 DEF SettleStop, Release, Dies
  <2>2. op'.step \in {"free", "stop"}
    BY <1>3, <2>1 DEF Free
  <2> QED BY <2>2 DEF SoundOperation
<1>26. ASSUME NEW o \in Outcomes, Move(o) PROVE SoundOperation'
  <2>1. op' = Free \/ op' = [Free EXCEPT !.step = "stop"]
    BY <1>26 DEF Move, Release, Dies
  <2>2. op'.step \in {"free", "stop"}
    BY <1>3, <2>1 DEF Free
  <2> QED BY <2>2 DEF SoundOperation
<1>27. ASSUME RefuseMove PROVE SoundOperation'
  <2>1. op' = Free \/ op' = [Free EXCEPT !.step = "stop"]
    BY <1>27 DEF RefuseMove, Release, Dies
  <2>2. op'.step \in {"free", "stop"}
    BY <1>3, <2>1 DEF Free
  <2> QED BY <2>2 DEF SoundOperation
<1>28. ASSUME NEW o \in Outcomes, Accept(o) PROVE SoundOperation'
  <2> DEFINE s == Resolved(mem, op.tip)
             t == [s EXCEPT !.accepted = TRUE]
  <2>1. op.step = "accepting" /\ worker' = worker /\ Publish(t, o)
    BY <1>28 DEF Accept
  <2>2. mem.run \in Runs /\ op.tip \in Versions \cup {NoCommit} /\ worker = NoWorker
    BY <1>1, <1>2, <2>1 DEF SoundOperation, SoundRecord, Operations
  <2>3. s \in TaskRecord /\ s.stage = "Resolved" /\ s.commit = op.tip
    BY <1>2, <2>2, ResolvedRecord
  <2> HIDE DEF s
  <2>4. t.stage = "Resolved" /\ t.commit = op.tip
    BY <2>3, AcceptedRecord
  <2> HIDE DEF t
  <2>5. CASE o = "saved"
    <3>1. mem' = t /\ \A r \in Records' : r = t
      BY <2>1, <2>5, PublishedRecords
    <3>2. op'.step = "accepted" /\ op'.tip = op.tip
      BY <1>28, <1>2, <2>5 DEF Accept, Operations
    <3> QED BY <2>1, <2>2, <2>4, <3>1, <3>2 DEF SoundOperation
  <2>6. CASE o # "saved"
    <3>1. op' = Free
      BY <1>28, <2>6 DEF Accept
    <3> QED BY <1>3, <3>1 DEF SoundOperation
  <2> QED BY <2>5, <2>6
<1>29. ASSUME ConfirmAccept PROVE SoundOperation'
  <2>1. UNCHANGED <<mem, worker>> /\ op.step = "accepted"
    BY <1>29 DEF ConfirmAccept
  <2>2. op' = Free \/ op'.step = "moved"
    BY <1>29, <1>2 DEF ConfirmAccept, Release, Operations
  <2>3. mem.stage # "none" /\ worker = NoWorker
    BY <1>1, <2>1 DEF SoundOperation
  <2> QED BY <1>3, <2>1, <2>2, <2>3 DEF SoundOperation
<1>30. ASSUME NEW o \in Outcomes, ReturnToRecovery(o) PROVE SoundOperation'
  <2>1. op' = Free \/ op' = [Free EXCEPT !.step = "stop"]
    BY <1>30 DEF ReturnToRecovery, Release, Dies
  <2>2. op'.step \in {"free", "stop"}
    BY <1>3, <2>1 DEF Free
  <2> QED BY <2>2 DEF SoundOperation
<1>31. ASSUME BeginStop PROVE SoundOperation'
  <2>1. op' = Free \/ op' = [Free EXCEPT !.step = "stop"]
    BY <1>31 DEF BeginStop, Release, Dies
  <2>2. op'.step \in {"free", "stop"}
    BY <1>3, <2>1 DEF Free
  <2> QED BY <2>2 DEF SoundOperation
<1>32. ASSUME BeginAccept PROVE SoundOperation'
  <2>1. /\ op'.step = "accepting" /\ UNCHANGED <<mem, worker>> /\ worker = NoWorker
        /\ mem.stage # "none"
    BY <1>32 DEF BeginAccept, board, Owned, MayAccept, Free
  <2> QED BY <2>1 DEF SoundOperation
<1>33. ASSUME NEW to \in Statuses, BeginMove(to) PROVE SoundOperation'
  <2>1. op'.step = "move" /\ op'.to = to
    BY <1>33 DEF BeginMove, Free
  <2> QED BY <1>33, <2>1 DEF SoundOperation
<1>34. ASSUME NEW o \in Outcomes, Promote(o) PROVE SoundOperation'
  <2>1. SameBoard
    BY <1>34, SamePublished, SameChanges DEF Promote
  <2> QED BY <1>34, <2>1, OperationKept DEF Promote
<1>35. ASSUME NEW o \in Outcomes, Decide(o) PROVE SoundOperation'
  <2>1. op' = op /\ op.step \in {"free", "stop", "move"}
    BY <1>35, <1>1, <1>2, <1>3 DEF Decide, SoundOperation, SoundConfirmations, At,
         LeaseFree, Operations
  <2> QED BY <1>1, <2>1 DEF SoundOperation
<1>36. ASSUME NEW kind \in {"Pending", "Direct", "NewAttempt"},
            NEW permit \in BOOLEAN, NEW o \in Outcomes, Admit(kind, permit, o) PROVE SoundOperation'
  <2>1. worker' = NoWorker
    BY <1>36 DEF Admit, Owned
  <2>2. op' = Free \/ (op'.step = "admitted" /\ op'.kind = kind)
    BY <1>36 DEF Admit, Free
  <2>3. SameBoard
    <3>1. CASE kind = "Direct" /\ ~Ready(mem)
      BY <1>36, <3>1, SamePublished, SameChanges DEF Admit
    <3>2. CASE ~(kind = "Direct" /\ ~Ready(mem))
      BY <1>36, <3>2, SameKept DEF Admit
    <3> QED BY <3>1, <3>2
  <2>4. mem'.stage = mem.stage /\ mem'.run = mem.run /\ mem'.decision = mem.decision
    BY <2>3 DEF SameBoard, SameRun
  <2>5. IF kind = "NewAttempt" THEN mem.stage # "none" /\ mem.decision.run = mem.run
        ELSE mem.stage \in {"none", "Resolved"}
    BY <1>36, <1>2 DEF Admit, MayStart, Ready, RecoveryRefused, NewAttemptAdmits,
         TaskRecord, Stages
  <2> QED BY <1>3, <2>1, <2>2, <2>4, <2>5 DEF SoundOperation
<1>37. ASSUME NEW o \in Outcomes, ReconcileStarted(o) PROVE SoundOperation'
  <2>1. op' = op /\ op.step \in {"free", "stop", "move"}
    BY <1>37, <1>1, <1>2, <1>3 DEF ReconcileStarted, SoundOperation, SoundConfirmations,
         At, LeaseFree, Operations
  <2> QED BY <1>1, <2>1 DEF SoundOperation
<1>38. ASSUME NEW o \in Outcomes, ReconcileCommitted(o) PROVE SoundOperation'
  <2>1. op' = op /\ op.step \in {"free", "stop", "move"}
    BY <1>38, <1>1, <1>2, <1>3 DEF ReconcileCommitted, SoundOperation, SoundConfirmations,
         At, LeaseFree, Operations
  <2> QED BY <1>1, <2>1 DEF SoundOperation
<1>39. ASSUME Edit PROVE SoundOperation'
  <2>1. SameBoard
    BY <1>39, SameKept DEF Edit, board
  <2>2. \A n \in Runs : procs[n] = "none" => procs'[n] = "none"
    BY <1>39 DEF Edit, Alive
  <2> QED BY <1>39, <2>1, <2>2, OperationKept DEF Edit
<1>40. ASSUME GitCommit PROVE SoundOperation'
  <2>1. SameBoard
    BY <1>40, SameKept DEF GitCommit, board
  <2>2. \A n \in Runs : procs[n] = "none" => procs'[n] = "none"
    BY <1>40 DEF GitCommit, Alive
  <2> QED BY <1>40, <2>1, <2>2, OperationKept DEF GitCommit
<1>41. ASSUME Crash PROVE SoundOperation'
  <2>1. op' = Free \/ op' = [Free EXCEPT !.step = "stop"]
    BY <1>41 DEF Crash, Release, Dies
  <2>2. op'.step \in {"free", "stop"}
    BY <1>3, <2>1 DEF Free
  <2> QED BY <2>2 DEF SoundOperation
<1>42. ASSUME PowerLoss PROVE SoundOperation'
  <2>1. op' = Free \/ op' = [Free EXCEPT !.step = "stop"]
    BY <1>42 DEF PowerLoss, Release, Dies
  <2>2. op'.step \in {"free", "stop"}
    BY <1>3, <2>1 DEF Free
  <2> QED BY <2>2 DEF SoundOperation
<1>43. ASSUME NEW n \in Runs, GroupChanges(n) PROVE SoundOperation'
  <2>1. SameBoard
    BY <1>43, SameKept DEF GroupChanges, board
  <2>2. \A k \in Runs : procs[k] = "none" => procs'[k] = "none"
    BY <1>43, <1>4 DEF GroupChanges, Alive
  <2> QED BY <1>43, <2>1, <2>2, OperationKept DEF GroupChanges
<1>44. ASSUME NEW step \in {"exited", "failed", "broken"}, ProviderEnds(step)
      PROVE SoundOperation'
  <2>1. op' = op /\ op.step \in {"free", "stop", "move"}
    BY <1>44, <1>1, <1>2, <1>3 DEF ProviderEnds, SoundOperation, SoundConfirmations, At,
         LeaseFree, Operations
  <2> QED BY <1>1, <2>1 DEF SoundOperation
<1>45. ASSUME NEW o \in Outcomes, Startup(o) PROVE SoundOperation'
  <2>1. op' = op /\ op.step \in {"free", "stop", "move"}
    BY <1>45, <1>1, <1>2, <1>3 DEF Startup, SoundOperation, SoundConfirmations, At,
         LeaseFree, Operations
  <2> QED BY <1>1, <2>1 DEF SoundOperation
<1> QED
  BY <1>5, <1>6, <1>7, <1>8, <1>9, <1>10, <1>11, <1>12, <1>13, <1>14, <1>15, <1>16, <1>17,
     <1>18, <1>19, <1>20, <1>21, <1>22, <1>23, <1>24, <1>25, <1>26, <1>27, <1>28, <1>29,
     <1>30, <1>31, <1>32, <1>33, <1>34, <1>35, <1>36, <1>37, <1>38, <1>39, <1>40, <1>41,
     <1>42, <1>43, <1>44, <1>45 DEF Next, StartStep, WorkerStep, LeaseStep, Request, Poll,
     Environment

\* The run's future is right about the record although it writes without the
\* lease: nobody else publishes another run while it is registered.
LEMMA WorkerInvariant == ASSUME Inv, Next PROVE SoundWorker'
<1>1. /\ SoundOperation /\ SoundWorker /\ SoundConfirmations
      /\ SoundRecord(mem, procs, settled)
  BY DEF Inv, Records
<1>2. /\ worker \in Workers /\ mem \in TaskRecord /\ op \in Operations
      /\ tip \in Versions /\ tree \in Versions
      /\ procs \in [Runs -> {"none", "holds", "stray", "gone"}]
  BY DEF Inv, TypeOK
<1>3. Free.step = "free" /\ NoWorker.step = "none"
  BY Constants
<1>4. ASSUME NEW o \in Outcomes, CannotAttach(o) PROVE SoundWorker'
  <2>1. worker' = NoWorker
    BY <1>4, <1>1, <1>2, <1>3 DEF CannotAttach, SoundOperation, SoundConfirmations, Owned,
         LeaseFree, Dies
  <2> QED BY <1>3, <2>1 DEF SoundWorker
<1>5. ASSUME TakeLease PROVE SoundWorker'
  <2>1. worker' = NoWorker
    BY <1>5, <1>1, <1>2, <1>3 DEF TakeLease, SoundOperation, SoundConfirmations, Owned,
         LeaseFree, Dies
  <2> QED BY <1>3, <2>1 DEF SoundWorker
<1>6. ASSUME NEW o \in Outcomes, RecordStart(o) PROVE SoundWorker'
  <2>1. worker' = NoWorker
    BY <1>6, <1>1, <1>2, <1>3 DEF RecordStart, SoundOperation, SoundConfirmations, Owned,
         LeaseFree, Dies
  <2> QED BY <1>3, <2>1 DEF SoundWorker
<1>7. ASSUME GiveUpStart PROVE SoundWorker'
  <2>1. worker' = NoWorker
    BY <1>7, <1>1, <1>2, <1>3 DEF GiveUpStart, SoundOperation, SoundConfirmations, Owned,
         LeaseFree, Dies
  <2> QED BY <1>3, <2>1 DEF SoundWorker
<1>8. ASSUME NEW o \in Outcomes, HoldStart(o) PROVE SoundWorker'
  <2>1. worker' = NoWorker
    BY <1>8, <1>1, <1>2, <1>3 DEF HoldStart, SoundOperation, SoundConfirmations, Owned,
         LeaseFree, Dies
  <2> QED BY <1>3, <2>1 DEF SoundWorker
<1>9. ASSUME Launch PROVE SoundWorker'
  <2>1. /\ op.step = "recorded" /\ worker'.step = "launch" /\ worker'.run = mem.run
        /\ UNCHANGED <<mem, survivors, procs>>
    BY <1>9 DEF Launch, board
  <2>2. Names(mem.run) /\ procs[mem.run] = "none"
    BY <1>1, <2>1 DEF SoundOperation
  <2>3. mem.run \in Runs
    BY <1>1, <2>2 DEF Names, Records, SoundRecord
  <2> QED BY <2>1, <2>2, <2>3 DEF SoundWorker, Names, Records
<1>10. ASSUME FindChanged PROVE SoundWorker'
  <2>1. worker' = NoWorker
    BY <1>10, <1>1, <1>2, <1>3 DEF FindChanged, SoundOperation, SoundConfirmations, Owned,
         LeaseFree, Dies
  <2> QED BY <1>3, <2>1 DEF SoundWorker
<1>11. ASSUME RefuseLaunch PROVE SoundWorker'
  <2>1. /\ worker.step \notin {"none", "ending"} /\ worker'.run = worker.run
        /\ UNCHANGED <<mem, survivors>>
    BY <1>11, <1>2 DEF RefuseLaunch, At, Goto, Workers, board
  <2>2. worker.run \in Runs /\ Names(worker.run)
    BY <1>1, <2>1 DEF SoundWorker
  <2>3. worker'.step \notin {"none", "launch"}
        /\ (worker'.step = "failed" => worker'.run \in settled' \/ procs'[worker'.run] = "none")
    BY <1>11, <1>1, <1>2, <2>1 DEF RefuseLaunch, At, Goto, Workers, SoundWorker
  <2> QED BY <2>1, <2>2, <2>3 DEF SoundWorker, Names, Records
<1>12. ASSUME NEW ok \in BOOLEAN, MarkSpawning(ok) PROVE SoundWorker'
  <2>1. /\ worker.step \notin {"none", "ending"} /\ worker'.run = worker.run
        /\ UNCHANGED <<mem, survivors>>
    BY <1>12, <1>2 DEF MarkSpawning, At, Goto, Workers, board
  <2>2. worker.run \in Runs /\ Names(worker.run)
    BY <1>1, <2>1 DEF SoundWorker
  <2>3. worker'.step \notin {"none", "launch"}
        /\ (worker'.step = "failed" => worker'.run \in settled' \/ procs'[worker'.run] = "none")
    BY <1>12, <1>1, <1>2, <2>1 DEF MarkSpawning, At, Goto, Workers, SoundWorker
  <2> QED BY <2>1, <2>2, <2>3 DEF SoundWorker, Names, Records
<1>13. ASSUME Spawn PROVE SoundWorker'
  <2>1. /\ worker.step \notin {"none", "ending"} /\ worker'.run = worker.run
        /\ UNCHANGED <<mem, survivors>>
    BY <1>13, <1>2 DEF Spawn, At, Goto, Workers, board
  <2>2. worker.run \in Runs /\ Names(worker.run)
    BY <1>1, <2>1 DEF SoundWorker
  <2>3. worker'.step \notin {"none", "launch"}
        /\ (worker'.step = "failed" => worker'.run \in settled' \/ procs'[worker'.run] = "none")
    BY <1>13, <1>1, <1>2, <2>1 DEF Spawn, At, Goto, Workers, SoundWorker
  <2> QED BY <2>1, <2>2, <2>3 DEF SoundWorker, Names, Records
<1>14. ASSUME NEW ok \in BOOLEAN, SpawnFails(ok) PROVE SoundWorker'
  <2>1. /\ worker.step \notin {"none", "ending"} /\ worker'.run = worker.run
        /\ UNCHANGED <<mem, survivors>>
    BY <1>14, <1>2 DEF SpawnFails, At, Goto, Workers, board
  <2>2. worker.run \in Runs /\ Names(worker.run)
    BY <1>1, <2>1 DEF SoundWorker
  <2>3. worker'.step \notin {"none", "launch"}
        /\ (worker'.step = "failed" => worker'.run \in settled' \/ procs'[worker'.run] = "none")
    BY <1>14, <1>1, <1>2, <2>1 DEF SpawnFails, At, Goto, Workers, SoundWorker
  <2> QED BY <2>1, <2>2, <2>3 DEF SoundWorker, Names, Records
<1>15. ASSUME NEW ok \in BOOLEAN, RecordGroup(ok) PROVE SoundWorker'
  <2>1. /\ worker.step \notin {"none", "ending"} /\ worker'.run = worker.run
        /\ UNCHANGED <<mem, survivors>>
    BY <1>15, <1>2 DEF RecordGroup, At, Goto, Workers, board
  <2>2. worker.run \in Runs /\ Names(worker.run)
    BY <1>1, <2>1 DEF SoundWorker
  <2>3. worker'.step \notin {"none", "launch"}
        /\ (worker'.step = "failed" => worker'.run \in settled' \/ procs'[worker'.run] = "none")
    BY <1>15, <1>1, <1>2, <2>1 DEF RecordGroup, At, Goto, Workers, SoundWorker
  <2> QED BY <2>1, <2>2, <2>3 DEF SoundWorker, Names, Records
<1>16. ASSUME Cancelled PROVE SoundWorker'
  <2>1. /\ worker.step \notin {"none", "ending"} /\ worker'.run = worker.run
        /\ UNCHANGED <<mem, survivors>>
    BY <1>16, <1>2 DEF Cancelled, At, Goto, Workers, board
  <2>2. worker.run \in Runs /\ Names(worker.run)
    BY <1>1, <2>1 DEF SoundWorker
  <2>3. worker'.step \notin {"none", "launch"}
        /\ (worker'.step = "failed" => worker'.run \in settled' \/ procs'[worker'.run] = "none")
    BY <1>16, <1>1, <1>2, <2>1 DEF Cancelled, At, Goto, Workers, SoundWorker
  <2> QED BY <2>1, <2>2, <2>3 DEF SoundWorker, Names, Records
<1>17. ASSUME NEW ok \in BOOLEAN, CommitChanges(ok) PROVE SoundWorker'
  <2>1. /\ worker.step \notin {"none", "ending"} /\ worker'.run = worker.run
        /\ UNCHANGED <<mem, survivors>>
    BY <1>17, <1>2 DEF CommitChanges, At, Goto, Workers, board
  <2>2. worker.run \in Runs /\ Names(worker.run)
    BY <1>1, <2>1 DEF SoundWorker
  <2>3. worker'.step \notin {"none", "launch"}
        /\ (worker'.step = "failed" => worker'.run \in settled' \/ procs'[worker'.run] = "none")
    BY <1>17, <1>1, <1>2, <2>1 DEF CommitChanges, At, Goto, Workers, SoundWorker
  <2> QED BY <2>1, <2>2, <2>3 DEF SoundWorker, Names, Records
<1>18. ASSUME NEW o \in Outcomes, RecordCommitted(o) PROVE SoundWorker'
  <2> DEFINE current == mem.stage = "Started" /\ mem.run = worker.run
             t == IF current THEN [mem EXCEPT !.stage = "Committed", !.commit = worker.commit] ELSE mem
  <2>1. Publish(t, o) /\ worker.step = "committed"
    BY <1>18 DEF RecordCommitted, At
  <2>2. /\ worker'.run = worker.run /\ worker.run \in Runs
        /\ worker'.step \in {"ending", "completing", "unrecorded"}
    BY <1>18, <1>1, <1>2, <2>1 DEF RecordCommitted, Goto, Workers, SoundWorker
  <2>3. Names(worker.run)
    BY <1>1, <2>1 DEF SoundWorker
  <2>4. t.runs = mem.runs /\ t.run = mem.run /\ (t.stage # "none" \/ t.stage = mem.stage)
    BY <1>2 DEF TaskRecord
  <2> HIDE DEF t
  <2>5. \A r \in Records' : r \in Records \/ r = t
    BY <2>1, PublishedRecords
  <2>6. \A r \in Records' : r.runs = worker.run /\ r.run = worker.run /\ r.stage # "none"
    BY <2>3, <2>4, <2>5 DEF Names, Records
  <2> QED BY <2>2, <2>6 DEF SoundWorker, Names
<1>19. ASSUME NEW o \in Outcomes, RecordUnrecorded(o) PROVE SoundWorker'
  <2> DEFINE t == Recovery(mem, worker.run, worker.commit, "commit")
  <2>1. Publish(t, o)
    BY <1>19 DEF RecordUnrecorded, Publish
  <2>2. worker'.step = "ending" /\ worker'.run = worker.run /\ worker.run \in Runs
    BY <1>19, <1>1, <1>2 DEF RecordUnrecorded, At, Goto, Workers, SoundWorker
  <2>3. \A r \in Records : r.runs = worker.run
    BY <1>19, <1>1, <1>3 DEF RecordUnrecorded, At, SoundWorker
  <2>4. mem.runs = worker.run
    BY <2>3 DEF Records
  <2>5. t.runs = mem.runs
    BY <1>2 DEF Recovery, TaskRecord
  <2> HIDE DEF t
  <2>6. \A r \in Records' : r.runs = worker.run
    BY <2>1, <2>3, <2>4, <2>5, PublishedRecords
  <2> QED BY <2>2, <2>6 DEF SoundWorker
<1>20. ASSUME NEW o \in Outcomes, RecordCompleted(o) PROVE SoundWorker'
  <2> DEFINE t == IF mem.stage = "Committed" /\ mem.run = worker.run THEN Resolved(mem, mem.commit) ELSE mem
  <2>1. Publish(t, o)
    BY <1>20 DEF RecordCompleted, Publish
  <2>2. worker'.step = "ending" /\ worker'.run = worker.run /\ worker.run \in Runs
    BY <1>20, <1>1, <1>2 DEF RecordCompleted, At, Goto, Workers, SoundWorker
  <2>3. \A r \in Records : r.runs = worker.run
    BY <1>20, <1>1, <1>3 DEF RecordCompleted, At, SoundWorker
  <2>4. mem.runs = worker.run
    BY <2>3 DEF Records
  <2>5. t.runs = mem.runs
    BY <1>2 DEF Resolved, TaskRecord
  <2> HIDE DEF t
  <2>6. \A r \in Records' : r.runs = worker.run
    BY <2>1, <2>3, <2>4, <2>5, PublishedRecords
  <2> QED BY <2>2, <2>6 DEF SoundWorker
<1>21. ASSUME NEW o \in Outcomes, RecordFailed(o) PROVE SoundWorker'
  <2> DEFINE t == Failed(mem, worker.run, worker.step = "failed")
  <2>1. Publish(t, o)
    BY <1>21 DEF RecordFailed, Publish
  <2>2. worker'.step = "ending" /\ worker'.run = worker.run /\ worker.run \in Runs
    BY <1>21, <1>1, <1>2 DEF RecordFailed, At, Goto, Workers, SoundWorker
  <2>3. \A r \in Records : r.runs = worker.run
    BY <1>21, <1>1, <1>3 DEF RecordFailed, At, SoundWorker
  <2>4. mem.runs = worker.run
    BY <2>3 DEF Records
  <2>5. t.runs = mem.runs
    BY <1>2, <2>2, FailedRecord
  <2> HIDE DEF t
  <2>6. \A r \in Records' : r.runs = worker.run
    BY <2>1, <2>3, <2>4, <2>5, PublishedRecords
  <2> QED BY <2>2, <2>6 DEF SoundWorker
<1>22. ASSUME EndRun PROVE SoundWorker'
  <2>1. worker' = NoWorker
    BY <1>22, <1>1, <1>2, <1>3 DEF EndRun, SoundOperation, SoundConfirmations, Owned,
         LeaseFree, Dies
  <2> QED BY <1>3, <2>1 DEF SoundWorker
<1>23. ASSUME StopTimesOut PROVE SoundWorker'
  <2>1. SameBoard
    BY <1>23, SameKept DEF StopTimesOut, board
  <2>2. UNCHANGED <<worker, procs, settled>>
    BY <1>23 DEF StopTimesOut
  <2> QED BY <2>1, <2>2, WorkerKept
<1>24. ASSUME NEW o \in Outcomes, SettleStop(o) PROVE SoundWorker'
  <2>1. worker' = NoWorker
    BY <1>24, <1>1, <1>2, <1>3 DEF SettleStop, SoundOperation, SoundConfirmations, Owned,
         LeaseFree, Dies
  <2> QED BY <1>3, <2>1 DEF SoundWorker
<1>25. ASSUME NEW o \in Outcomes, Move(o) PROVE SoundWorker'
  <2>1. SameBoard
    <3>1. CASE op.from = "Queue" /\ op.to = "InProgress"
      BY <1>25, <3>1, SamePublished, SameChanges DEF Move
    <3>2. CASE ~(op.from = "Queue" /\ op.to = "InProgress")
      BY <1>25, <3>2, SamePublished, SameChanges DEF Move
    <3> QED BY <3>1, <3>2
  <2> QED BY <1>25, <2>1, WorkerKept DEF Move
<1>26. ASSUME RefuseMove PROVE SoundWorker'
  <2>1. SameBoard
    BY <1>26, SameKept DEF RefuseMove, board
  <2>2. UNCHANGED <<worker, procs, settled>>
    BY <1>26 DEF RefuseMove
  <2> QED BY <2>1, <2>2, WorkerKept
<1>27. ASSUME NEW o \in Outcomes, Accept(o) PROVE SoundWorker'
  <2>1. worker' = NoWorker
    BY <1>27, <1>1, <1>2, <1>3 DEF Accept, SoundOperation, SoundConfirmations, Owned,
         LeaseFree, Dies
  <2> QED BY <1>3, <2>1 DEF SoundWorker
<1>28. ASSUME ConfirmAccept PROVE SoundWorker'
  <2>1. worker' = NoWorker
    BY <1>28, <1>1, <1>2, <1>3 DEF ConfirmAccept, SoundOperation, SoundConfirmations,
         Owned, LeaseFree, Dies
  <2> QED BY <1>3, <2>1 DEF SoundWorker
<1>29. ASSUME NEW o \in Outcomes, ReturnToRecovery(o) PROVE SoundWorker'
  <2>1. worker' = NoWorker
    BY <1>29, <1>1, <1>2, <1>3 DEF ReturnToRecovery, SoundOperation, SoundConfirmations,
         Owned, LeaseFree, Dies
  <2> QED BY <1>3, <2>1 DEF SoundWorker
<1>30. ASSUME BeginStop PROVE SoundWorker'
  <2>1. SameBoard
    BY <1>30, SameKept DEF BeginStop, board
  <2>2. UNCHANGED <<worker, procs, settled>>
    BY <1>30 DEF BeginStop
  <2> QED BY <2>1, <2>2, WorkerKept
<1>31. ASSUME BeginAccept PROVE SoundWorker'
  <2>1. worker' = NoWorker
    BY <1>31, <1>1, <1>2, <1>3 DEF BeginAccept, SoundOperation, SoundConfirmations, Owned,
         LeaseFree, Dies
  <2> QED BY <1>3, <2>1 DEF SoundWorker
<1>32. ASSUME NEW to \in Statuses, BeginMove(to) PROVE SoundWorker'
  <2>1. SameBoard
    BY <1>32, SameKept DEF BeginMove, board
  <2>2. UNCHANGED <<worker, procs, settled>>
    BY <1>32 DEF BeginMove
  <2> QED BY <2>1, <2>2, WorkerKept
<1>33. ASSUME NEW o \in Outcomes, Promote(o) PROVE SoundWorker'
  <2>1. SameBoard
    BY <1>33, SamePublished, SameChanges DEF Promote
  <2> QED BY <1>33, <2>1, WorkerKept DEF Promote
<1>34. ASSUME NEW o \in Outcomes, Decide(o) PROVE SoundWorker'
  <2>1. worker' = NoWorker
    BY <1>34, <1>1, <1>2, <1>3 DEF Decide, SoundOperation, SoundConfirmations, Owned,
         LeaseFree, Dies
  <2> QED BY <1>3, <2>1 DEF SoundWorker
<1>35. ASSUME NEW kind \in {"Pending", "Direct", "NewAttempt"},
            NEW permit \in BOOLEAN, NEW o \in Outcomes, Admit(kind, permit, o) PROVE SoundWorker'
  <2>1. worker' = NoWorker
    BY <1>35, <1>1, <1>2, <1>3 DEF Admit, SoundOperation, SoundConfirmations, Owned,
         LeaseFree, Dies
  <2> QED BY <1>3, <2>1 DEF SoundWorker
<1>36. ASSUME NEW o \in Outcomes, ReconcileStarted(o) PROVE SoundWorker'
  <2>1. worker' = NoWorker
    BY <1>36, <1>1, <1>2, <1>3 DEF ReconcileStarted, SoundOperation, SoundConfirmations,
         Owned, LeaseFree, Dies
  <2> QED BY <1>3, <2>1 DEF SoundWorker
<1>37. ASSUME NEW o \in Outcomes, ReconcileCommitted(o) PROVE SoundWorker'
  <2>1. worker' = NoWorker
    BY <1>37, <1>1, <1>2, <1>3 DEF ReconcileCommitted, SoundOperation, SoundConfirmations,
         Owned, LeaseFree, Dies
  <2> QED BY <1>3, <2>1 DEF SoundWorker
<1>38. ASSUME Edit PROVE SoundWorker'
  <2>1. SameBoard
    BY <1>38, SameKept DEF Edit, board
  <2>2. UNCHANGED <<worker, procs, settled>>
    BY <1>38 DEF Edit
  <2> QED BY <2>1, <2>2, WorkerKept
<1>39. ASSUME GitCommit PROVE SoundWorker'
  <2>1. SameBoard
    BY <1>39, SameKept DEF GitCommit, board
  <2>2. UNCHANGED <<worker, procs, settled>>
    BY <1>39 DEF GitCommit
  <2> QED BY <2>1, <2>2, WorkerKept
<1>40. ASSUME Crash PROVE SoundWorker'
  <2>1. worker' = NoWorker
    BY <1>40, <1>1, <1>2, <1>3 DEF Crash, SoundOperation, SoundConfirmations, Owned,
         LeaseFree, Dies
  <2> QED BY <1>3, <2>1 DEF SoundWorker
<1>41. ASSUME PowerLoss PROVE SoundWorker'
  <2>1. worker' = NoWorker
    BY <1>41, <1>1, <1>2, <1>3 DEF PowerLoss, SoundOperation, SoundConfirmations, Owned,
         LeaseFree, Dies
  <2> QED BY <1>3, <2>1 DEF SoundWorker
<1>42. ASSUME NEW n \in Runs, GroupChanges(n) PROVE SoundWorker'
  <2>1. SameBoard
    BY <1>42, SameKept DEF GroupChanges, board
  <2>2. \A k \in Runs : procs[k] = "none" => procs'[k] = "none"
    BY <1>42, <1>2 DEF GroupChanges, Alive
  <2> QED BY <1>42, <2>1, <2>2, WorkerKept DEF GroupChanges
<1>43. ASSUME NEW step \in {"exited", "failed", "broken"}, ProviderEnds(step)
      PROVE SoundWorker'
  <2>1. /\ worker.step \notin {"none", "ending"} /\ worker'.run = worker.run
        /\ UNCHANGED <<mem, survivors>>
    BY <1>43, <1>2 DEF ProviderEnds, At, Goto, Workers, board
  <2>2. worker.run \in Runs /\ Names(worker.run)
    BY <1>1, <2>1 DEF SoundWorker
  <2>3. worker'.step \notin {"none", "launch"}
        /\ (worker'.step = "failed" => worker'.run \in settled' \/ procs'[worker'.run] = "none")
    BY <1>43, <1>1, <1>2, <2>1 DEF ProviderEnds, At, Goto, Workers, SoundWorker
  <2> QED BY <2>1, <2>2, <2>3 DEF SoundWorker, Names, Records
<1>44. ASSUME NEW o \in Outcomes, Startup(o) PROVE SoundWorker'
  <2>1. worker' = NoWorker
    BY <1>44, <1>1, <1>2, <1>3 DEF Startup, SoundOperation, SoundConfirmations, Owned,
         LeaseFree, Dies
  <2> QED BY <1>3, <2>1 DEF SoundWorker
<1> QED
  BY <1>4, <1>5, <1>6, <1>7, <1>8, <1>9, <1>10, <1>11, <1>12, <1>13, <1>14, <1>15, <1>16,
     <1>17, <1>18, <1>19, <1>20, <1>21, <1>22, <1>23, <1>24, <1>25, <1>26, <1>27, <1>28,
     <1>29, <1>30, <1>31, <1>32, <1>33, <1>34, <1>35, <1>36, <1>37, <1>38, <1>39, <1>40,
     <1>41, <1>42, <1>43, <1>44 DEF Next, StartStep, WorkerStep, LeaseStep, Request, Poll,
     Environment

LEMMA ConfirmationsKept ==
  ASSUME SoundConfirmations, SameBoard, UNCHANGED <<confirmed, decided>>,
         up' = TRUE \/ UNCHANGED <<up, op, worker>>
  PROVE  SoundConfirmations'
<1>1. confirmed => \A r \in Records' : r.stage = "Resolved" /\ r.commit = mem'.commit
  BY DEF SoundConfirmations, SameBoard, SameRun, Records
<1>2. decided => \A r \in Records' : r.decision = mem'.decision
  BY DEF SoundConfirmations, SameBoard, SameRun, Records
<1> QED BY <1>1, <1>2 DEF SoundConfirmations

LEMMA ConfirmationWithdrawn ==
  ASSUME Inv, NEW r, NEW o \in Outcomes, Publish(r, o), Withdraw(o), decided' = decided,
         r.decision = mem.decision, up' = TRUE
  PROVE  SoundConfirmations'
<1>1. SoundConfirmations /\ confirmed \in BOOLEAN
  BY DEF Inv, TypeOK
<1>2. CASE o = "failed"
  <2>1. confirmed' = confirmed
    BY <1>1, <1>2 DEF Withdraw
  <2> QED BY <1>1, <1>2, <2>1, SameFailed, ConfirmationsKept
<1>3. CASE o # "failed"
  <2>1. ~confirmed'
    BY <1>3 DEF Withdraw
  <2>2. mem' = r /\ \A t \in Records' : t \in Records \/ t = r
    BY <1>3, PublishedRecords
  <2>3. decided => \A t \in Records' : t.decision = mem'.decision
    BY <1>1, <2>2 DEF SoundConfirmations
  <2> QED BY <2>1, <2>3 DEF SoundConfirmations
<1> QED BY <1>2, <1>3

\* The acknowledgement of a resolved record: only a confirmed write earns it.
LEMMA ConfirmationGiven ==
  ASSUME SoundConfirmations, NEW r, NEW o \in Outcomes, Publish(r, o), decided' = decided,
         confirmed' = (IF o = "failed" THEN confirmed ELSE o = "saved"),
         r.decision = mem.decision, r.stage = "Resolved", up' = TRUE
  PROVE  SoundConfirmations'
<1>1. CASE o = "failed"
  <2>1. confirmed' = confirmed
    BY <1>1
  <2> QED BY <1>1, <2>1, SameFailed, ConfirmationsKept
<1>2. CASE o # "failed"
  <2>1. mem' = r /\ \A t \in Records' : t \in Records \/ t = r
    BY <1>2, PublishedRecords
  <2>2. decided => \A t \in Records' : t.decision = mem'.decision
    BY <2>1 DEF SoundConfirmations
  <2>3. o = "saved" => \A t \in Records' : t = r
    BY PublishedRecords
  <2>4. confirmed' => o = "saved"
    BY <1>2
  <2> QED BY <2>1, <2>2, <2>3, <2>4 DEF SoundConfirmations
<1> QED BY <1>1, <1>2

\* A publication either keeps what was confirmed or withdraws the confirmation.
LEMMA ConfirmationsInvariant == ASSUME Inv, Next PROVE SoundConfirmations'
<1>1. SoundOperation /\ SoundWorker /\ SoundConfirmations
  BY DEF Inv
<1>2. /\ worker \in Workers /\ mem \in TaskRecord /\ op \in Operations
      /\ tip \in Versions /\ tree \in Versions
  BY DEF Inv, TypeOK
<1>3. Free.step = "free" /\ NoWorker.step = "none"
  BY Constants
<1>4. confirmed \in BOOLEAN /\ decided \in BOOLEAN
  BY DEF Inv, TypeOK
<1>5. ASSUME NEW o \in Outcomes, CannotAttach(o) PROVE SoundConfirmations'
  <2>1. CASE op.kind = "NewAttempt"
    <3>1. SameBoard
      BY <1>5, <2>1, SameKept DEF CannotAttach, board
    <3>2. UNCHANGED <<confirmed, decided>>
      BY <1>5, <2>1 DEF CannotAttach, board
    <3>3. up' = TRUE
      BY <1>5, <2>1, <1>1, <1>3 DEF CannotAttach, SoundConfirmations, At, LeaseFree
    <3> QED BY <1>1, <3>1, <3>2, <3>3, ConfirmationsKept
  <2>2. CASE ~(op.kind = "NewAttempt")
    <3> DEFINE t == [mem EXCEPT !.status = "Error", !.phase = "Failed"]
    <3>1. Publish(t, o) /\ Withdraw(o) /\ decided' = decided
      BY <1>5, <2>2 DEF CannotAttach, Publish
    <3>2. t.decision = mem.decision
      BY <1>2, ErrorRecord
    <3>3. up' = TRUE
      BY <1>5, <2>2, <1>1, <1>3 DEF CannotAttach, SoundConfirmations, At, LeaseFree
    <3> HIDE DEF t
    <3> QED BY <1>1, <3>1, <3>2, <3>3, ConfirmationWithdrawn
  <2> QED BY <2>1, <2>2
<1>6. ASSUME TakeLease PROVE SoundConfirmations'
  <2>1. SameBoard
    BY <1>6, SameKept DEF TakeLease, board
  <2>2. UNCHANGED <<confirmed, decided>>
    BY <1>6 DEF TakeLease, board
  <2>3. up' = TRUE
    BY <1>6, <1>1, <1>3 DEF TakeLease, SoundConfirmations, At, LeaseFree
  <2> QED BY <1>1, <2>1, <2>2, <2>3, ConfirmationsKept
<1>7. ASSUME NEW o \in Outcomes, RecordStart(o) PROVE SoundConfirmations'
  <2> DEFINE t == Started(mem, op.kind)
  <2>1. Publish(t, o) /\ Withdraw(o) /\ decided' = (decided /\ (o = "failed" \/ op.kind # "NewAttempt"))
    BY <1>7 DEF RecordStart
  <2>2. op.kind # "NewAttempt" => t.decision = mem.decision
    BY <1>7, <1>2, StartedRecord DEF RecordStart
  <2>3. up' = TRUE
    BY <1>7, <1>1, <1>3 DEF RecordStart, SoundConfirmations, At, LeaseFree
  <2> HIDE DEF t
  <2>4. CASE o = "failed"
    <3>1. SameBoard /\ confirmed' = confirmed /\ decided' = decided
      BY <2>1, <2>4, <1>4, SameFailed DEF Withdraw
    <3> QED BY <1>1, <2>3, <3>1, ConfirmationsKept
  <2>5. CASE o # "failed" /\ op.kind # "NewAttempt"
    <3>1. decided' = decided
      BY <2>1, <2>5, <1>4
    <3> QED BY <1>1, <2>1, <2>2, <2>3, <2>5, <3>1, ConfirmationWithdrawn
  <2>7. CASE o # "failed" /\ op.kind = "NewAttempt"
    <3>1. ~confirmed' /\ ~decided'
      BY <2>1, <2>7 DEF Withdraw
    <3> QED BY <2>3, <3>1 DEF SoundConfirmations
  <2> QED BY <2>4, <2>5, <2>7
<1>8. ASSUME GiveUpStart PROVE SoundConfirmations'
  <2>1. SameBoard
    BY <1>8, SameKept DEF GiveUpStart, board
  <2>2. UNCHANGED <<confirmed, decided>>
    BY <1>8 DEF GiveUpStart, board
  <2>3. up' = TRUE
    BY <1>8, <1>1, <1>3 DEF GiveUpStart, SoundConfirmations, At, LeaseFree
  <2> QED BY <1>1, <2>1, <2>2, <2>3, ConfirmationsKept
<1>9. ASSUME NEW o \in Outcomes, HoldStart(o) PROVE SoundConfirmations'
  <2> DEFINE t == Recovery(mem, mem.run, NoCommit, IF op.step = "hold" THEN "unconfirmed" ELSE "changed")
  <2>1. Publish(t, o) /\ Withdraw(o) /\ decided' = decided
    BY <1>9 DEF HoldStart, Publish
  <2>2. t.decision = mem.decision
    BY <1>2 DEF Recovery, TaskRecord
  <2>3. up' = TRUE
    BY <1>9, <1>1, <1>3 DEF HoldStart, SoundConfirmations, At, LeaseFree
  <2> HIDE DEF t
  <2> QED BY <1>1, <2>1, <2>2, <2>3, ConfirmationWithdrawn
<1>10. ASSUME Launch PROVE SoundConfirmations'
  <2>1. SameBoard
    BY <1>10, SameKept DEF Launch, board
  <2>2. UNCHANGED <<confirmed, decided>>
    BY <1>10 DEF Launch, board
  <2>3. up' = TRUE
    BY <1>10, <1>1, <1>3 DEF Launch, SoundConfirmations, At, LeaseFree
  <2> QED BY <1>1, <2>1, <2>2, <2>3, ConfirmationsKept
<1>11. ASSUME FindChanged PROVE SoundConfirmations'
  <2>1. SameBoard
    BY <1>11, SameKept DEF FindChanged, board
  <2>2. UNCHANGED <<confirmed, decided>>
    BY <1>11 DEF FindChanged, board
  <2>3. up' = TRUE
    BY <1>11, <1>1, <1>3 DEF FindChanged, SoundConfirmations, At, LeaseFree
  <2> QED BY <1>1, <2>1, <2>2, <2>3, ConfirmationsKept
<1>12. ASSUME RefuseLaunch PROVE SoundConfirmations'
  <2>1. SameBoard
    BY <1>12, SameKept DEF RefuseLaunch, board
  <2>2. UNCHANGED <<confirmed, decided>>
    BY <1>12 DEF RefuseLaunch, board
  <2>3. up' = TRUE
    BY <1>12, <1>1, <1>3 DEF RefuseLaunch, SoundConfirmations, At, LeaseFree
  <2> QED BY <1>1, <2>1, <2>2, <2>3, ConfirmationsKept
<1>13. ASSUME NEW ok \in BOOLEAN, MarkSpawning(ok) PROVE SoundConfirmations'
  <2>1. SameBoard
    BY <1>13, SameKept DEF MarkSpawning, board
  <2>2. UNCHANGED <<confirmed, decided>>
    BY <1>13 DEF MarkSpawning, board
  <2>3. up' = TRUE
    BY <1>13, <1>1, <1>3 DEF MarkSpawning, SoundConfirmations, At, LeaseFree
  <2> QED BY <1>1, <2>1, <2>2, <2>3, ConfirmationsKept
<1>14. ASSUME Spawn PROVE SoundConfirmations'
  <2>1. SameBoard
    BY <1>14, SameKept DEF Spawn, board
  <2>2. UNCHANGED <<confirmed, decided>>
    BY <1>14 DEF Spawn, board
  <2>3. up' = TRUE
    BY <1>14, <1>1, <1>3 DEF Spawn, SoundConfirmations, At, LeaseFree
  <2> QED BY <1>1, <2>1, <2>2, <2>3, ConfirmationsKept
<1>15. ASSUME NEW ok \in BOOLEAN, SpawnFails(ok) PROVE SoundConfirmations'
  <2>1. SameBoard
    BY <1>15, SameKept DEF SpawnFails, board
  <2>2. UNCHANGED <<confirmed, decided>>
    BY <1>15 DEF SpawnFails, board
  <2>3. up' = TRUE
    BY <1>15, <1>1, <1>3 DEF SpawnFails, SoundConfirmations, At, LeaseFree
  <2> QED BY <1>1, <2>1, <2>2, <2>3, ConfirmationsKept
<1>16. ASSUME NEW ok \in BOOLEAN, RecordGroup(ok) PROVE SoundConfirmations'
  <2>1. SameBoard
    BY <1>16, SameKept DEF RecordGroup, board
  <2>2. UNCHANGED <<confirmed, decided>>
    BY <1>16 DEF RecordGroup, board
  <2>3. up' = TRUE
    BY <1>16, <1>1, <1>3 DEF RecordGroup, SoundConfirmations, At, LeaseFree
  <2> QED BY <1>1, <2>1, <2>2, <2>3, ConfirmationsKept
<1>17. ASSUME Cancelled PROVE SoundConfirmations'
  <2>1. SameBoard
    BY <1>17, SameKept DEF Cancelled, board
  <2>2. UNCHANGED <<confirmed, decided>>
    BY <1>17 DEF Cancelled, board
  <2>3. up' = TRUE
    BY <1>17, <1>1, <1>3 DEF Cancelled, SoundConfirmations, At, LeaseFree
  <2> QED BY <1>1, <2>1, <2>2, <2>3, ConfirmationsKept
<1>18. ASSUME NEW ok \in BOOLEAN, CommitChanges(ok) PROVE SoundConfirmations'
  <2>1. SameBoard
    BY <1>18, SameKept DEF CommitChanges, board
  <2>2. UNCHANGED <<confirmed, decided>>
    BY <1>18 DEF CommitChanges, board
  <2>3. up' = TRUE
    BY <1>18, <1>1, <1>3 DEF CommitChanges, SoundConfirmations, At, LeaseFree
  <2> QED BY <1>1, <2>1, <2>2, <2>3, ConfirmationsKept
<1>19. ASSUME NEW o \in Outcomes, RecordCommitted(o) PROVE SoundConfirmations'
  <2>1. CASE mem.stage = "Started" /\ mem.run = worker.run
    <3> DEFINE t == [mem EXCEPT !.stage = "Committed", !.commit = worker.commit]
    <3>1. Publish(t, o) /\ Withdraw(o) /\ decided' = decided
      BY <1>19, <2>1 DEF RecordCommitted, Publish
    <3>2. t.decision = mem.decision
      BY <1>2, CommittedRecord DEF TaskRecord
    <3>3. up' = TRUE
      BY <1>19, <2>1, <1>1, <1>3 DEF RecordCommitted, SoundConfirmations, At, LeaseFree
    <3> HIDE DEF t
    <3> QED BY <1>1, <3>1, <3>2, <3>3, ConfirmationWithdrawn
  <2>2. CASE ~(mem.stage = "Started" /\ mem.run = worker.run)
    <3>1. SameBoard
      BY <1>19, <2>2, SamePublished, SameChanges DEF RecordCommitted
    <3>2. UNCHANGED <<confirmed, decided>>
      BY <1>19, <2>2 DEF RecordCommitted, board
    <3>3. up' = TRUE
      BY <1>19, <2>2, <1>1, <1>3 DEF RecordCommitted, SoundConfirmations, At, LeaseFree
    <3> QED BY <1>1, <3>1, <3>2, <3>3, ConfirmationsKept
  <2> QED BY <2>1, <2>2
<1>20. ASSUME NEW o \in Outcomes, RecordUnrecorded(o) PROVE SoundConfirmations'
  <2> DEFINE t == Recovery(mem, worker.run, worker.commit, "commit")
  <2>1. Publish(t, o) /\ Withdraw(o) /\ decided' = decided
    BY <1>20 DEF RecordUnrecorded, Publish
  <2>2. t.decision = mem.decision
    BY <1>2 DEF Recovery, TaskRecord
  <2>3. up' = TRUE
    BY <1>20, <1>1, <1>3 DEF RecordUnrecorded, SoundConfirmations, At, LeaseFree
  <2> HIDE DEF t
  <2> QED BY <1>1, <2>1, <2>2, <2>3, ConfirmationWithdrawn
<1>21. ASSUME NEW o \in Outcomes, RecordCompleted(o) PROVE SoundConfirmations'
  <2>1. CASE mem.stage = "Committed" /\ mem.run = worker.run
    <3> DEFINE t == Resolved(mem, mem.commit)
    <3>1. /\ Publish(t, o) /\ decided' = decided
          /\ confirmed' = (IF o = "failed" THEN confirmed ELSE o = "saved")
      BY <1>21, <2>1 DEF RecordCompleted
    <3>2. t.decision = mem.decision /\ t.stage = "Resolved"
      BY <1>2 DEF Resolved, TaskRecord
    <3>3. up' = TRUE
      BY <1>21, <2>1, <1>1, <1>3 DEF RecordCompleted, SoundConfirmations, At, LeaseFree
    <3> HIDE DEF t
    <3> QED BY <1>1, <3>1, <3>2, <3>3, ConfirmationGiven
  <2>2. CASE ~(mem.stage = "Committed" /\ mem.run = worker.run)
    <3>1. Publish(mem, o) /\ UNCHANGED <<confirmed, decided>>
      BY <1>21, <2>2 DEF RecordCompleted
    <3>2. SameBoard
      BY <3>1, SamePublished, SameChanges
    <3>3. up' = TRUE
      BY <1>21, <2>2, <1>1, <1>3 DEF RecordCompleted, SoundConfirmations, At, LeaseFree
    <3> QED BY <1>1, <3>1, <3>2, <3>3, ConfirmationsKept
  <2> QED BY <2>1, <2>2
<1>22. ASSUME NEW o \in Outcomes, RecordFailed(o) PROVE SoundConfirmations'
  <2>0. worker.run \in Runs
    BY <1>22, <1>1 DEF RecordFailed, SoundWorker
  <2> DEFINE t == Failed(mem, worker.run, worker.step = "failed")
  <2>1. Publish(t, o) /\ Withdraw(o) /\ decided' = decided
    BY <1>22 DEF RecordFailed, Publish
  <2>2. t.decision = mem.decision
    BY <2>0, <1>2, FailedRecord
  <2>3. up' = TRUE
    BY <1>22, <1>1, <1>3 DEF RecordFailed, SoundConfirmations, At, LeaseFree
  <2> HIDE DEF t
  <2> QED BY <1>1, <2>1, <2>2, <2>3, ConfirmationWithdrawn
<1>23. ASSUME EndRun PROVE SoundConfirmations'
  <2>1. SameBoard
    BY <1>23, SameKept DEF EndRun, board
  <2>2. UNCHANGED <<confirmed, decided>>
    BY <1>23 DEF EndRun, board
  <2>3. up' = TRUE
    BY <1>23, <1>1, <1>3 DEF EndRun, SoundConfirmations, At, LeaseFree
  <2> QED BY <1>1, <2>1, <2>2, <2>3, ConfirmationsKept
<1>24. ASSUME StopTimesOut PROVE SoundConfirmations'
  <2>1. SameBoard
    BY <1>24, SameKept DEF StopTimesOut, board
  <2>2. UNCHANGED <<confirmed, decided>>
    BY <1>24 DEF StopTimesOut, board
  <2>3. up' = TRUE
    BY <1>24, <1>1, <1>3 DEF StopTimesOut, SoundConfirmations, At, LeaseFree
  <2> QED BY <1>1, <2>1, <2>2, <2>3, ConfirmationsKept
<1>25. ASSUME NEW o \in Outcomes, SettleStop(o) PROVE SoundConfirmations'
  <2>1. CASE mem.status = "InProgress" /\ mem.stage = "Started"
    <3> DEFINE t == Stopped(mem)
    <3>1. Publish(t, o) /\ Withdraw(o) /\ decided' = decided
      BY <1>25, <2>1 DEF SettleStop, Publish
    <3>2. t.decision = mem.decision
      BY <1>2, StoppedRecord
    <3>3. up' = TRUE
      BY <1>25, <2>1, <1>1, <1>3 DEF SettleStop, SoundConfirmations, At, LeaseFree
    <3> HIDE DEF t
    <3> QED BY <1>1, <3>1, <3>2, <3>3, ConfirmationWithdrawn
  <2>2. CASE ~(mem.status = "InProgress" /\ mem.stage = "Started")
    <3>1. SameBoard
      <4>1. CASE mem.status = "InProgress"
        BY <1>25, <2>2, <4>1, SamePublished, SameChanges DEF SettleStop
      <4>2. CASE ~(mem.status = "InProgress")
        BY <1>25, <2>2, <4>2, SamePublished, SameKept, SameChanges DEF SettleStop
      <4> QED BY <4>1, <4>2
    <3>2. UNCHANGED <<confirmed, decided>>
      BY <1>25, <2>2 DEF SettleStop, board
    <3>3. up' = TRUE
      BY <1>25, <2>2, <1>1, <1>3 DEF SettleStop, SoundConfirmations, At, LeaseFree
    <3> QED BY <1>1, <3>1, <3>2, <3>3, ConfirmationsKept
  <2> QED BY <2>1, <2>2
<1>26. ASSUME NEW o \in Outcomes, Move(o) PROVE SoundConfirmations'
  <2>1. SameBoard
    <3>1. CASE op.from = "Queue" /\ op.to = "InProgress"
      BY <1>26, <3>1, SamePublished, SameChanges DEF Move
    <3>2. CASE ~(op.from = "Queue" /\ op.to = "InProgress")
      BY <1>26, <3>2, SamePublished, SameKept, SameChanges DEF Move
    <3> QED BY <3>1, <3>2
  <2>2. UNCHANGED <<confirmed, decided>>
    BY <1>26 DEF Move, board
  <2>3. up' = TRUE
    BY <1>26, <1>1, <1>3 DEF Move, SoundConfirmations, At, LeaseFree
  <2> QED BY <1>1, <2>1, <2>2, <2>3, ConfirmationsKept
<1>27. ASSUME RefuseMove PROVE SoundConfirmations'
  <2>1. SameBoard
    BY <1>27, SameKept DEF RefuseMove, board
  <2>2. UNCHANGED <<confirmed, decided>>
    BY <1>27 DEF RefuseMove, board
  <2>3. up' = TRUE
    BY <1>27, <1>1, <1>3 DEF RefuseMove, SoundConfirmations, At, LeaseFree
  <2> QED BY <1>1, <2>1, <2>2, <2>3, ConfirmationsKept
<1>28. ASSUME NEW o \in Outcomes, Accept(o) PROVE SoundConfirmations'
  <2> DEFINE t == [Resolved(mem, op.tip) EXCEPT !.accepted = TRUE]
  <2>1. Publish(t, o) /\ Withdraw(o) /\ decided' = decided
    BY <1>28 DEF Accept, Publish
  <2>2. t.decision = mem.decision
    BY <1>2 DEF Resolved, TaskRecord
  <2>3. up' = TRUE
    BY <1>28, <1>1, <1>3 DEF Accept, SoundConfirmations, At, LeaseFree
  <2> HIDE DEF t
  <2> QED BY <1>1, <2>1, <2>2, <2>3, ConfirmationWithdrawn
<1>29. ASSUME ConfirmAccept PROVE SoundConfirmations'
  <2>1. op.step = "accepted" /\ UNCHANGED <<mem, survivors, decided>>
    BY <1>29 DEF ConfirmAccept
  <2>2. \A r \in Records : r.stage = "Resolved" /\ r.commit = op.tip
    BY <1>1, <2>1 DEF SoundOperation
  <2>3. Records' = Records /\ mem'.commit = op.tip
    BY <2>1, <2>2 DEF Records
  <2>4. up' = TRUE
    BY <1>29, <1>1, <1>3 DEF ConfirmAccept, SoundConfirmations, At, LeaseFree
  <2> QED BY <1>1, <2>1, <2>2, <2>3, <2>4 DEF SoundConfirmations
<1>30. ASSUME NEW o \in Outcomes, ReturnToRecovery(o) PROVE SoundConfirmations'
  <2> DEFINE t == Recovery(mem, mem.run, NoCommit, "moved")
  <2>1. Publish(t, o) /\ Withdraw(o) /\ decided' = decided
    BY <1>30 DEF ReturnToRecovery, Publish
  <2>2. t.decision = mem.decision
    BY <1>2 DEF Recovery, TaskRecord
  <2>3. up' = TRUE
    BY <1>30, <1>1, <1>3 DEF ReturnToRecovery, SoundConfirmations, At, LeaseFree
  <2> HIDE DEF t
  <2> QED BY <1>1, <2>1, <2>2, <2>3, ConfirmationWithdrawn
<1>31. ASSUME BeginStop PROVE SoundConfirmations'
  <2>1. SameBoard
    BY <1>31, SameKept DEF BeginStop, board
  <2>2. UNCHANGED <<confirmed, decided>>
    BY <1>31 DEF BeginStop, board
  <2>3. up' = TRUE
    BY <1>31, <1>1, <1>3 DEF BeginStop, SoundConfirmations, At, LeaseFree
  <2> QED BY <1>1, <2>1, <2>2, <2>3, ConfirmationsKept
<1>32. ASSUME BeginAccept PROVE SoundConfirmations'
  <2>1. SameBoard
    BY <1>32, SameKept DEF BeginAccept, board
  <2>2. UNCHANGED <<confirmed, decided>>
    BY <1>32 DEF BeginAccept, board
  <2>3. up' = TRUE
    BY <1>32, <1>1, <1>3 DEF BeginAccept, SoundConfirmations, At, LeaseFree
  <2> QED BY <1>1, <2>1, <2>2, <2>3, ConfirmationsKept
<1>33. ASSUME NEW to \in Statuses, BeginMove(to) PROVE SoundConfirmations'
  <2>1. SameBoard
    BY <1>33, SameKept DEF BeginMove, board
  <2>2. UNCHANGED <<confirmed, decided>>
    BY <1>33 DEF BeginMove, board
  <2>3. up' = TRUE
    BY <1>33, <1>1, <1>3 DEF BeginMove, SoundConfirmations, At, LeaseFree
  <2> QED BY <1>1, <2>1, <2>2, <2>3, ConfirmationsKept
<1>34. ASSUME NEW o \in Outcomes, Promote(o) PROVE SoundConfirmations'
  <2>1. SameBoard
    BY <1>34, SamePublished, SameChanges DEF Promote
  <2>2. UNCHANGED <<confirmed, decided>>
    BY <1>34 DEF Promote, board
  <2>3. up' = TRUE
    BY <1>34, <1>1, <1>3 DEF Promote, SoundConfirmations, At, LeaseFree
  <2> QED BY <1>1, <2>1, <2>2, <2>3, ConfirmationsKept
<1>35. ASSUME NEW o \in Outcomes, Decide(o) PROVE SoundConfirmations'
  <2> DEFINE d == [run |-> mem.run, why |-> mem.why, commit |-> mem.commit, tip |-> tip, tree |-> tree]
             t == [mem EXCEPT !.authorized = @ \cup {mem.run}, !.decision = d]
  <2>1. /\ Publish(t, o) /\ confirmed' = confirmed
        /\ decided' = (IF o = "failed" THEN decided ELSE o = "saved")
    BY <1>35 DEF Decide
  <2>2. t.stage = mem.stage /\ t.commit = mem.commit /\ mem.stage = "Recovery"
    BY <1>35, <1>2 DEF Decide, TaskRecord
  <2>3. up' = TRUE
    BY <1>35, <1>1, <1>3 DEF Decide, SoundConfirmations, At, LeaseFree
  <2> HIDE DEF t
  <2>4. ~confirmed
    BY <1>1, <2>2 DEF SoundConfirmations, Records
  <2>5. CASE o = "failed"
    <3>1. SameBoard /\ decided' = decided
      BY <2>1, <2>5, SameFailed
    <3> QED BY <1>1, <2>1, <2>3, <3>1, ConfirmationsKept
  <2>6. CASE o = "saved"
    <3>1. mem' = t /\ \A r \in Records' : r = t
      BY <2>1, <2>6, PublishedRecords
    <3> QED BY <2>1, <2>3, <2>4, <3>1 DEF SoundConfirmations
  <2>7. CASE o = "unconfirmed"
    <3>1. ~decided'
      BY <2>1, <2>7
    <3> QED BY <2>1, <2>3, <2>4, <3>1 DEF SoundConfirmations
  <2> QED BY <2>5, <2>6, <2>7 DEF Outcomes
<1>36. ASSUME NEW kind \in {"Pending", "Direct", "NewAttempt"},
            NEW permit \in BOOLEAN, NEW o \in Outcomes, Admit(kind, permit, o) PROVE SoundConfirmations'
  <2>1. SameBoard
    <3>1. CASE kind = "Direct" /\ ~Ready(mem)
      BY <1>36, <3>1, SamePublished, SameChanges DEF Admit
    <3>2. CASE ~(kind = "Direct" /\ ~Ready(mem))
      BY <1>36, <3>2, SamePublished, SameKept, SameChanges DEF Admit
    <3> QED BY <3>1, <3>2
  <2>2. UNCHANGED <<confirmed, decided>>
    BY <1>36 DEF Admit, board
  <2>3. up' = TRUE
    BY <1>36, <1>1, <1>3 DEF Admit, SoundConfirmations, At, LeaseFree
  <2> QED BY <1>1, <2>1, <2>2, <2>3, ConfirmationsKept
<1>37. ASSUME NEW o \in Outcomes, ReconcileStarted(o) PROVE SoundConfirmations'
  <2> DEFINE t == Recovery(mem, mem.run, NoCommit, "unowned")
  <2>1. Publish(t, o) /\ Withdraw(o) /\ decided' = decided
    BY <1>37 DEF ReconcileStarted, Publish
  <2>2. t.decision = mem.decision
    BY <1>2 DEF Recovery, TaskRecord
  <2>3. up' = TRUE
    BY <1>37, <1>1, <1>3 DEF ReconcileStarted, SoundConfirmations, At, LeaseFree
  <2> HIDE DEF t
  <2> QED BY <1>1, <2>1, <2>2, <2>3, ConfirmationWithdrawn
<1>38. ASSUME NEW o \in Outcomes, ReconcileCommitted(o) PROVE SoundConfirmations'
  <2>1. CASE Verified(mem.commit)
    <3> DEFINE t == Resolved(mem, mem.commit)
    <3>1. /\ Publish(t, o) /\ decided' = decided
          /\ confirmed' = (IF o = "failed" THEN confirmed ELSE o = "saved")
      BY <1>38, <2>1 DEF ReconcileCommitted
    <3>2. t.decision = mem.decision /\ t.stage = "Resolved"
      BY <1>2 DEF Resolved, TaskRecord
    <3>3. up' = TRUE
      BY <1>38, <2>1, <1>1, <1>3 DEF ReconcileCommitted, SoundConfirmations, At, LeaseFree
    <3> HIDE DEF t
    <3> QED BY <1>1, <3>1, <3>2, <3>3, ConfirmationGiven
  <2>2. CASE ~(Verified(mem.commit))
    <3> DEFINE t == Recovery(mem, mem.run, NoCommit, "mismatch")
    <3>1. Publish(t, o) /\ Withdraw(o) /\ decided' = decided
      BY <1>38, <2>2 DEF ReconcileCommitted, Publish
    <3>2. t.decision = mem.decision
      BY <1>2 DEF Recovery, TaskRecord
    <3>3. up' = TRUE
      BY <1>38, <2>2, <1>1, <1>3 DEF ReconcileCommitted, SoundConfirmations, At, LeaseFree
    <3> HIDE DEF t
    <3> QED BY <1>1, <3>1, <3>2, <3>3, ConfirmationWithdrawn
  <2> QED BY <2>1, <2>2
<1>39. ASSUME Edit PROVE SoundConfirmations'
  <2>1. SameBoard
    BY <1>39, SameKept DEF Edit, board
  <2>2. UNCHANGED <<confirmed, decided, up, op, worker>>
    BY <1>39 DEF Edit, board
  <2> QED BY <1>1, <2>1, <2>2, ConfirmationsKept
<1>40. ASSUME GitCommit PROVE SoundConfirmations'
  <2>1. SameBoard
    BY <1>40, SameKept DEF GitCommit, board
  <2>2. UNCHANGED <<confirmed, decided, up, op, worker>>
    BY <1>40 DEF GitCommit, board
  <2> QED BY <1>1, <2>1, <2>2, ConfirmationsKept
<1>41. ASSUME Crash PROVE SoundConfirmations'
  <2>1. ~confirmed' /\ ~decided' /\ op' = Free /\ worker' = NoWorker
    BY <1>41 DEF Crash, Dies
  <2> QED BY <2>1 DEF SoundConfirmations
<1>42. ASSUME PowerLoss PROVE SoundConfirmations'
  <2>1. ~confirmed' /\ ~decided' /\ op' = Free /\ worker' = NoWorker
    BY <1>42 DEF PowerLoss, Dies
  <2> QED BY <2>1 DEF SoundConfirmations
<1>43. ASSUME NEW n \in Runs, GroupChanges(n) PROVE SoundConfirmations'
  <2>1. SameBoard
    BY <1>43, SameKept DEF GroupChanges, board
  <2>2. UNCHANGED <<confirmed, decided, up, op, worker>>
    BY <1>43 DEF GroupChanges, board
  <2> QED BY <1>1, <2>1, <2>2, ConfirmationsKept
<1>44. ASSUME NEW step \in {"exited", "failed", "broken"}, ProviderEnds(step)
      PROVE SoundConfirmations'
  <2>1. SameBoard
    BY <1>44, SameKept DEF ProviderEnds, board
  <2>2. UNCHANGED <<confirmed, decided>>
    BY <1>44 DEF ProviderEnds, board
  <2>3. up' = TRUE
    BY <1>44, <1>1, <1>3 DEF ProviderEnds, SoundConfirmations, At, LeaseFree
  <2> QED BY <1>1, <2>1, <2>2, <2>3, ConfirmationsKept
<1>45. ASSUME NEW o \in Outcomes, Startup(o) PROVE SoundConfirmations'
  <2>1. ~confirmed /\ ~decided /\ UNCHANGED <<confirmed, decided>>
    BY <1>45, <1>1 DEF Startup, SoundConfirmations
  <2>2. up' = TRUE
    BY <1>45 DEF Startup
  <2> QED BY <2>1, <2>2 DEF SoundConfirmations
<1> QED
  BY <1>5, <1>6, <1>7, <1>8, <1>9, <1>10, <1>11, <1>12, <1>13, <1>14, <1>15, <1>16, <1>17,
     <1>18, <1>19, <1>20, <1>21, <1>22, <1>23, <1>24, <1>25, <1>26, <1>27, <1>28, <1>29,
     <1>30, <1>31, <1>32, <1>33, <1>34, <1>35, <1>36, <1>37, <1>38, <1>39, <1>40, <1>41,
     <1>42, <1>43, <1>44, <1>45 DEF Next, StartStep, WorkerStep, LeaseStep, Request, Poll,
     Environment

------------------------------------------------------------------------------
(* The theorems *)

LEMMA InvInit == ASSUME Init PROVE Inv
<1>1. TypeOK
  <2>1. mem \in TaskRecord /\ file \in TaskRecord /\ survivors \in SUBSET TaskRecord
    BY Constants DEF Init
  <2>2. op \in Operations /\ worker \in Workers /\ tip \in Versions /\ tree \in Versions
    BY Constants DEF Init
  <2>3. procs \in [Runs -> {"none", "holds", "stray", "gone"}]
    BY DEF Init
  <2>4. faults \in 0 .. MaxFaults
    BY FaultsAssumption DEF Init
  <2>5. /\ confirmed \in BOOLEAN /\ decided \in BOOLEAN /\ cancel \in BOOLEAN
        /\ held \in BOOLEAN /\ up \in BOOLEAN /\ note \in {Missing, Mark, Empty} \cup Runs
        /\ settled \in SUBSET Runs
    BY DEF Init
  <2> QED BY <2>1, <2>2, <2>3, <2>4, <2>5 DEF TypeOK
<1>2. Records = {NewTask} /\ file \in survivors
  BY DEF Init, Records
<1>3. NoneAlive
  BY DEF Init, NoneAlive, Alive
<1>4. SoundRecord(NewTask, procs, settled)
  BY DEF Init, SoundRecord, NewTask
<1>5. /\ op.step = "free" /\ worker = NoWorker /\ worker.step = "none" /\ ~confirmed
      /\ ~decided /\ up
  BY Constants DEF Init
<1>6. SoundLease
  BY <1>3, <1>5 DEF SoundLease, NoneAlive
<1> QED BY <1>1, <1>2, <1>4, <1>5, <1>6 DEF Inv, SoundOperation, SoundWorker,
     SoundConfirmations

LEMMA InvStutter == ASSUME Inv, UNCHANGED vars PROVE Inv'
<1>1. TypeOK' /\ (file \in survivors)'
  BY DEF Inv, vars, TypeOK
<1>2. Records' = Records /\ (\A r \in Records : SoundRecord(r, procs, settled))'
  BY DEF Inv, vars, Records
<1>3. SoundLease'
  BY DEF Inv, vars, SoundLease, NoneAlive, Alive
<1>4. SoundOperation' /\ SoundWorker' /\ SoundConfirmations'
  BY <1>2 DEF Inv, vars, SoundOperation, SoundWorker, SoundConfirmations, Names
<1> QED BY <1>1, <1>2, <1>3, <1>4 DEF Inv

LEMMA InvNext == ASSUME Inv, Next PROVE Inv'
<1>1. /\ SoundBoard' /\ FlagTypes' /\ MachineTypes' /\ op' \in Operations
      /\ worker' \in Workers
  BY BoardInvariant, FlagTypesInvariant, MachineTypesInvariant, OperationType, WorkerType
<1>2. TypeOK'
  BY <1>1 DEF TypeOK, SoundBoard, FlagTypes, MachineTypes
<1>3. (file \in survivors)' /\ (\A r \in Records : SoundRecord(r, procs, settled))'
  BY <1>1 DEF SoundBoard
<1>4. SoundLease' /\ SoundOperation' /\ SoundWorker' /\ SoundConfirmations'
  BY LeaseInvariant, OperationInvariant, WorkerInvariant, ConfirmationsInvariant
<1> QED BY <1>2, <1>3, <1>4 DEF Inv

\* The invariant of every behaviour: what each record says of the runs that were
\* launched, and what each actor may rely on between its steps.
THEOREM Invariance == Spec => []Inv
<1>1. Init => Inv
  BY InvInit
<1>2. Inv /\ [Next]_vars => Inv'
  BY InvNext, InvStutter
<1> QED BY <1>1, <1>2, PTL DEF Spec

\* Every variable keeps its type, for any number of runs, edits and faults.
THEOREM TypeCorrect == Spec => []TypeOK
<1>1. Inv => TypeOK
  BY DEF Inv
<1> QED BY <1>1, Invariance, PTL

\* However often SlashIt starts, stops and dies, at most one run's provider
\* process group is alive in the task's checkout.
THEOREM ProvidersExclude == Spec => []OneProvider
<1>1. Inv => OneProvider
  <2> SUFFICES ASSUME Inv PROVE OneProvider
    OBVIOUS
  <2> DEFINE A == {n \in Runs : Alive(n)}
  <2>1. \A m, n \in A : m = n
    BY DEF Inv, SoundLease
  <2>2. CASE A = {}
    BY <2>2, FS_EmptySet DEF OneProvider
  <2>3. CASE A # {}
    <3>1. PICK n \in A : TRUE
      BY <2>3
    <3>2. A = {n}
      BY <2>1, <3>1
    <3>3. Cardinality({n}) = 1
      BY FS_Singleton
    <3> QED BY <3>2, <3>3 DEF OneProvider
  <2> QED BY <2>2, <2>3
<1> QED BY <1>1, Invariance, PTL

\* A run's provider is spawned only once no power loss can forget its start, and
\* no later write of the record forgets it while the run is unsettled.
THEOREM LaunchSurvives == Spec => []LaunchIsDurable
<1>1. Inv => LaunchIsDurable
  <2> SUFFICES ASSUME Inv, NEW n \in Runs, procs[n] # "none", NEW r \in survivors
      PROVE  r.runs >= n /\ (r.runs = n /\ n \notin settled => r.run = n /\ r.stage # "none")
    BY DEF LaunchIsDurable
  <2>1. SoundRecord(r, procs, settled) /\ r \in TaskRecord
    BY DEF Inv, Records, TypeOK
  <2>2. n <= r.runs /\ (n \in settled \/ (r.runs = n /\ r.run = n /\ r.stage # "none"))
    BY <2>1 DEF SoundRecord
  <2>3. r.runs >= n
    BY <2>1, <2>2, RunsAssumption DEF TaskRecord, Runs
  <2> QED BY <2>2, <2>3
<1> QED BY <1>1, Invariance, PTL

\* No provider is spawned on top of an earlier one that did not end in sight, did
\* not reach review, and that no person decided about.
THEOREM RerunIsDecided == Spec => []NoSilentRerun
<1>1. Inv => NoSilentRerun
  <2> SUFFICES ASSUME Inv, NEW m \in Runs, NEW n \in Runs, m < n, procs[m] # "none",
                      procs[n] # "none"
      PROVE  m \in settled
    BY DEF NoSilentRerun
  <2>1. SoundRecord(mem, procs, settled) /\ mem \in TaskRecord
    BY DEF Inv, Records, TypeOK
  <2>2. n <= mem.runs /\ (m \in settled \/ mem.runs = m)
    BY <2>1 DEF SoundRecord
  <2> QED BY <2>1, <2>2, RunsAssumption DEF TaskRecord, Runs
<1> QED BY <1>1, Invariance, PTL

\* Neither in-memory confirmation is ever held over a record that a power loss
\* could take back: both stand for what is on stable storage.
THEOREM ConfirmationsHold == Spec => []ConfirmedIsDurable
<1>1. Inv => ConfirmedIsDurable
  BY DEF Inv, SoundConfirmations, ConfirmedIsDurable, Records
<1> QED BY <1>1, Invariance, PTL
================================================================================
