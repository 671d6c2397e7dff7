-------------------------- MODULE WorkerEvidenceProofs --------------------------
(***************************************************************************)
(* WorkerRun keeps the commit that was recorded for a run: the action       *)
(* property CommitEvidenceKept, from the invariant of WorkerRunProofs.      *)
(***************************************************************************)
EXTENDS WorkerRunProofs

\* How a record numbers its runs.
Numbered(r) ==
  /\ r.stage = "none" => r.run = 0
  /\ r.stage = "Started" => r.run = r.runs
  /\ r.run <= r.runs

\* Run n's commit is in every record a power loss may leave.
Recorded(n) == \A r \in survivors : r.run = n /\ r.commit # NoCommit

\* What CommitEvidenceKept needs besides Inv: memory knows the commits that the
\* file cannot lose, also when the migrated board could not be saved.
Evidence ==
  /\ \A r \in Records : Numbered(r)
  /\ up => file.runs = mem.runs
  /\ up => \A n \in Runs : Recorded(n) /\ mem.run = n => mem.commit # NoCommit
  /\ worker.step = "committed" => worker.commit # NoCommit

CommitsKept ==
  \A n \in Runs : Recorded(n) => \A r \in survivors' : r.run = n => r.commit # NoCommit

LEMMA EvidenceKept ==
  ASSUME Evidence, UNCHANGED <<mem, file, survivors>>, up' => up,
         worker'.step = "committed" => worker'.commit # NoCommit
  PROVE  Evidence' /\ CommitsKept
BY DEF Evidence, CommitsKept, Recorded, Records

LEMMA EvidencePublished ==
  ASSUME Inv, Evidence, up, NEW t \in TaskRecord, NEW o \in Outcomes, Publish(t, o),
         Numbered(t),
         \/ t.run = mem.run /\ (mem.commit # NoCommit => t.commit # NoCommit)
         \/ t.run = 0
         \/ t.run = mem.runs + 1
         \/ t.commit # NoCommit,
         worker'.step = "committed" => worker'.commit # NoCommit
  PROVE  Evidence' /\ CommitsKept
<1>1. file \in survivors /\ mem \in TaskRecord /\ file \in TaskRecord
  BY DEF Inv, TypeOK
<1>2. \A r \in Records' : Numbered(r)
  BY PublishedRecords DEF Evidence
<1>3. file'.runs = mem'.runs
  BY DEF Publish, Save, Outcomes, Evidence
<1>4. CASE o = "failed"
  <2>1. UNCHANGED <<mem, file, survivors>>
    BY <1>4 DEF Publish, Save
  <2> QED BY <1>2, <1>3, <2>1 DEF Evidence, CommitsKept, Recorded
<1>5. CASE o # "failed"
  <2>1. mem' = t /\ t \in survivors' /\ survivors' \subseteq survivors \cup {t}
    BY <1>5 DEF Publish, Save, Outcomes
  <2>2. ASSUME NEW n \in Runs, Recorded(n), t.run = n PROVE t.commit # NoCommit
    <3>1. file.run = n /\ file.run <= file.runs /\ file.runs = mem.runs
      BY <1>1, <2>2 DEF Evidence, Records, Recorded, Numbered
    <3>2. n # mem.runs + 1 /\ n # 0
      BY <1>1, <3>1, RunsAssumption DEF TaskRecord, Runs
    <3>3. mem.run = n => mem.commit # NoCommit
      BY <2>2 DEF Evidence
    <3> QED BY <2>2, <3>2, <3>3
  <2>3. CommitsKept
    BY <2>1, <2>2 DEF CommitsKept, Recorded
  <2>4. \A n \in Runs : Recorded(n)' /\ mem'.run = n => mem'.commit # NoCommit
    BY <2>1 DEF Recorded
  <2> QED BY <1>2, <1>3, <2>3, <2>4 DEF Evidence
<1> QED BY <1>4, <1>5

\* The common case: the same run, with the commit that was recorded of it or
\* another one.
LEMMA EvidenceRewritten ==
  ASSUME Inv, Evidence, up, NEW t \in TaskRecord, NEW o \in Outcomes, Publish(t, o),
         t.run = mem.run, t.runs = mem.runs,
         t.stage = "none" => mem.stage = "none",
         t.stage = "Started" => mem.stage = "Started",
         mem.commit # NoCommit => t.commit # NoCommit,
         worker'.step = "committed" => worker'.commit # NoCommit
  PROVE  Evidence' /\ CommitsKept
<1>1. Numbered(mem)
  BY DEF Evidence, Records
<1>2. Numbered(t)
  BY <1>1 DEF Numbered
<1> QED BY <1>2, EvidencePublished

LEMMA HeldCommit ==
  ASSUME NEW r \in TaskRecord, NEW n \in 0 .. MaxRuns, NEW w
  PROVE  Recovery(r, n, NoCommit, w).commit = r.commit
BY DEF Recovery, TaskRecord

\* What a restart makes of the file.
LEMMA EvidenceMigrated ==
  ASSUME NEW r \in TaskRecord, Numbered(r)
  PROVE  /\ Numbered(Migrated(r)) /\ Migrated(r).runs = r.runs
         /\ Migrated(r).commit = r.commit
         /\ Migrated(r).run # r.run => r.run = 0
<1> DEFINE d == [r EXCEPT !.decision = NoDecision]
           open == d.runs # 0 /\ d.runs \notin d.failed \cup d.completed
           k == IF open THEN d.runs ELSE 0
           queued == [d EXCEPT !.status = "Queue"]
           m == IF d.status = "InProgress" /\ d.stage = "Started"
                THEN Recovery(d, k, NoCommit, "restart")
                ELSE IF d.status = "InProgress" /\ d.stage = "none"
                THEN IF open \/ d.phase = "Coding" THEN Recovery(d, k, NoCommit, "legacy")
                     ELSE queued
                ELSE IF d.stage = "Started" THEN Recovery(d, d.run, NoCommit, "previous")
                ELSE d
           AsRead(t) == /\ t \in TaskRecord /\ t.runs = r.runs /\ t.commit = r.commit
                        /\ t.run = r.run \/ (r.run = 0 /\ t.run = r.runs)
                        /\ t.stage = "Recovery" \/ (t.run = r.run /\ t.stage = r.stage)
<1>1. /\ d \in TaskRecord /\ d.run = r.run /\ d.runs = r.runs /\ d.stage = r.stage
      /\ d.commit = r.commit
  BY Constants DEF TaskRecord
<1>2. Migrated(r) = IF m.status \in {"Backlog", "Queue"} THEN [m EXCEPT !.phase = "Idle"] ELSE m
  BY DEF Migrated
<1> HIDE DEF d
<1>3. k \in 0 .. MaxRuns /\ (k = 0 \/ k = r.runs)
  BY <1>1, Constants DEF TaskRecord
<1>4. AsRead(d)
  BY <1>1
<1>5. AsRead(queued)
  BY <1>1 DEF TaskRecord, Statuses
<1>6. {"restart", "legacy", "previous"} \subseteq Whys
  BY DEF Whys
<1> HIDE DEF open, k, queued
<1>7. ASSUME NEW w \in Whys, NEW n \in 0 .. MaxRuns,
             n = 0 \/ n = r.run \/ (r.stage \in {"none", "Started"} /\ n = r.runs)
      PROVE  AsRead(Recovery(d, n, NoCommit, w))
  <2> DEFINE t == Recovery(d, n, NoCommit, w)
  <2>1. /\ t \in TaskRecord /\ t.runs = d.runs /\ t.stage = "Recovery"
        /\ t.run = (IF n = 0 THEN d.run ELSE n)
    BY <1>1, Constants, RecoveryRecord
  <2>2. t.commit = d.commit
    BY <1>1, HeldCommit
  <2>3. r.stage = "none" => r.run = 0
    BY DEF Numbered
  <2>4. r.stage = "Started" => r.run = r.runs
    BY DEF Numbered
  <2> HIDE DEF t
  <2>5. t.run = r.run \/ (r.run = 0 /\ t.run = r.runs)
    BY <1>1, <1>7, <2>1, <2>3, <2>4
  <2> QED BY <1>1, <2>1, <2>2, <2>5 DEF t
<1>8. AsRead(m)
  <2>1. CASE d.status = "InProgress" /\ d.stage = "Started"
    BY <1>1, <1>3, <1>6, <1>7, <2>1
  <2>2. CASE d.status = "InProgress" /\ d.stage = "none"
    BY <1>1, <1>3, <1>5, <1>6, <1>7, <2>2
  <2>3. CASE d.status # "InProgress" /\ d.stage = "Started"
    <3>1. r.run \in 0 .. MaxRuns
      BY DEF TaskRecord
    <3> QED BY <1>1, <1>6, <1>7, <2>3, <3>1
  <2>4. CASE d.stage # "Started" /\ ~(d.status = "InProgress" /\ d.stage = "none")
    BY <1>4, <2>4
  <2> QED BY <2>1, <2>2, <2>3, <2>4
<1>9. AsRead(Migrated(r))
  <2> HIDE DEF m
  <2>1. AsRead([m EXCEPT !.phase = "Idle"])
    BY <1>8 DEF TaskRecord, Phases
  <2> QED BY <1>2, <1>8, <2>1
<1> DEFINE s == Migrated(r)
<1> HIDE DEF s
<1>10. AsRead(s)
  BY <1>9 DEF s
<1>11. Numbered(s)
  <2>1. r.run \in Int /\ r.runs \in Int
    BY DEF TaskRecord
  <2>2. s.run <= s.runs
    BY <1>10, <2>1 DEF Numbered
  <2> QED BY <1>10, <2>2 DEF Numbered
<1> QED BY <1>10, <1>11 DEF s

LEMMA FailedCommit ==
  ASSUME NEW r \in TaskRecord, NEW n, NEW exited
  PROVE  LET t == Failed(r, n, exited)
         IN /\ t.run = 0 \/ (t.run = r.run /\ t.commit = r.commit)
            /\ t.stage = "none" => t.run = 0 \/ r.stage = "none"
BY DEF Failed, WithoutHandoff, TaskRecord

\* No step loses the commit of a run that every surviving record carries.
LEMMA EvidenceStep == ASSUME Inv, Evidence, Next PROVE Evidence' /\ CommitsKept
<1>1. /\ SoundOperation /\ SoundWorker /\ SoundConfirmations
      /\ SoundRecord(mem, procs, settled)
  BY DEF Inv, Records
<1>2. /\ worker \in Workers /\ mem \in TaskRecord /\ op \in Operations
      /\ tip \in Versions /\ tree \in Versions
  BY DEF Inv, TypeOK
<1>3. Free.step = "free" /\ NoWorker.step = "none"
  BY Constants
<1>4. worker.step = "committed" => worker.commit # NoCommit
  BY DEF Evidence
<1>5. \A c \in Versions : c # NoCommit
  BY EditsAssumption DEF Versions, NoCommit
<1>6. ASSUME NEW o \in Outcomes, CannotAttach(o) PROVE Evidence' /\ CommitsKept
  <2>1. CASE op.kind = "NewAttempt"
    <3>1. UNCHANGED <<mem, file, survivors>> /\ (up' => up)
      BY <1>6, <2>1 DEF CannotAttach, board, Dies
    <3>2. worker'.step = "committed" => worker'.commit # NoCommit
      BY <1>6, <2>1, <1>2, <1>3, <1>4, <1>5 DEF CannotAttach, At, Goto, Workers, Dies
    <3> QED BY <3>1, <3>2, EvidenceKept
  <2>2. CASE ~(op.kind = "NewAttempt")
    <3> DEFINE t == [mem EXCEPT !.status = "Error", !.phase = "Failed"]
    <3>1. Publish(t, o)
      BY <1>6, <2>2 DEF CannotAttach, Publish
    <3>2. /\ t \in TaskRecord /\ t.run = mem.run /\ t.runs = mem.runs
          /\ t.stage = "none" => mem.stage = "none"
          /\ t.stage = "Started" => mem.stage = "Started"
          /\ mem.commit # NoCommit => t.commit # NoCommit
      BY <1>2, ErrorRecord
    <3> HIDE DEF t
    <3>3. up
      BY <1>6, <2>2, <1>1, <1>3 DEF CannotAttach, SoundConfirmations, At, LeaseFree
    <3>4. worker'.step = "committed" => worker'.commit # NoCommit
      BY <1>6, <2>2, <1>2, <1>3, <1>4, <1>5 DEF CannotAttach, At, Goto, Workers, Dies
    <3> QED BY <3>1, <3>2, <3>3, <3>4, EvidenceRewritten
  <2> QED BY <2>1, <2>2
<1>7. ASSUME TakeLease PROVE Evidence' /\ CommitsKept
  <2>1. UNCHANGED <<mem, file, survivors>> /\ (up' => up)
    BY <1>7 DEF TakeLease, board, Dies
  <2>2. worker'.step = "committed" => worker'.commit # NoCommit
    BY <1>7, <1>2, <1>3, <1>4, <1>5 DEF TakeLease, At, Goto, Workers, Dies
  <2> QED BY <2>1, <2>2, EvidenceKept
<1>8. ASSUME NEW o \in Outcomes, RecordStart(o) PROVE Evidence' /\ CommitsKept
  <2> DEFINE t == Started(mem, op.kind)
  <2>1. Publish(t, o)
    BY <1>8 DEF RecordStart
  <2>2. /\ t \in TaskRecord /\ t.stage = "Started" /\ t.run = mem.runs + 1
        /\ t.runs = mem.runs + 1
    BY <1>8, <1>2, StartedRecord DEF RecordStart
  <2> HIDE DEF t
  <2>3. Numbered(t)
    <3>1. mem.runs + 1 <= mem.runs + 1 /\ mem.runs + 1 # 0
      BY <1>2, RunsAssumption DEF TaskRecord
    <3> QED BY <2>2, <3>1 DEF Numbered
  <2>4. up
    BY <1>8, <1>1, <1>3 DEF RecordStart, SoundConfirmations, At, LeaseFree
  <2>5. worker'.step = "committed" => worker'.commit # NoCommit
    BY <1>8, <1>2, <1>3, <1>4, <1>5 DEF RecordStart, At, Goto, Workers, Dies
  <2> QED BY <2>1, <2>2, <2>3, <2>4, <2>5, EvidencePublished
<1>9. ASSUME GiveUpStart PROVE Evidence' /\ CommitsKept
  <2>1. UNCHANGED <<mem, file, survivors>> /\ (up' => up)
    BY <1>9 DEF GiveUpStart, board, Dies
  <2>2. worker'.step = "committed" => worker'.commit # NoCommit
    BY <1>9, <1>2, <1>3, <1>4, <1>5 DEF GiveUpStart, At, Goto, Workers, Dies
  <2> QED BY <2>1, <2>2, EvidenceKept
<1>10. ASSUME NEW o \in Outcomes, HoldStart(o) PROVE Evidence' /\ CommitsKept
  <2>0. /\ (IF op.step = "hold" THEN "unconfirmed" ELSE "changed") \in Whys
        /\ NoCommit \in Versions \cup {NoCommit}
    BY DEF Whys
  <2>9. mem \in TaskRecord /\ mem.run \in 0 .. MaxRuns
    BY <1>2 DEF TaskRecord
  <2>8. Recovery(mem, mem.run, NoCommit, IF op.step = "hold" THEN "unconfirmed" ELSE "changed").commit = mem.commit
    BY <2>9, HeldCommit
  <2> DEFINE t == Recovery(mem, mem.run, NoCommit, IF op.step = "hold" THEN "unconfirmed" ELSE "changed")
  <2>1. Publish(t, o)
    BY <1>10 DEF HoldStart, Publish
  <2>2. /\ t \in TaskRecord /\ t.run = mem.run /\ t.runs = mem.runs
        /\ t.stage = "none" => mem.stage = "none"
        /\ t.stage = "Started" => mem.stage = "Started"
        /\ mem.commit # NoCommit => t.commit # NoCommit
    BY <2>0, <2>9, <2>8, RecoverySame
  <2> HIDE DEF t
  <2>3. up
    BY <1>10, <1>1, <1>3 DEF HoldStart, SoundConfirmations, At, LeaseFree
  <2>4. worker'.step = "committed" => worker'.commit # NoCommit
    BY <1>10, <1>2, <1>3, <1>4, <1>5 DEF HoldStart, At, Goto, Workers, Dies
  <2> QED BY <2>1, <2>2, <2>3, <2>4, EvidenceRewritten
<1>11. ASSUME Launch PROVE Evidence' /\ CommitsKept
  <2>1. UNCHANGED <<mem, file, survivors>> /\ (up' => up)
    BY <1>11 DEF Launch, board, Dies
  <2>2. worker'.step = "committed" => worker'.commit # NoCommit
    BY <1>11, <1>2, <1>3, <1>4, <1>5 DEF Launch, At, Goto, Workers, Dies
  <2> QED BY <2>1, <2>2, EvidenceKept
<1>12. ASSUME FindChanged PROVE Evidence' /\ CommitsKept
  <2>1. UNCHANGED <<mem, file, survivors>> /\ (up' => up)
    BY <1>12 DEF FindChanged, board, Dies
  <2>2. worker'.step = "committed" => worker'.commit # NoCommit
    BY <1>12, <1>2, <1>3, <1>4, <1>5 DEF FindChanged, At, Goto, Workers, Dies
  <2> QED BY <2>1, <2>2, EvidenceKept
<1>13. ASSUME RefuseLaunch PROVE Evidence' /\ CommitsKept
  <2>1. UNCHANGED <<mem, file, survivors>> /\ (up' => up)
    BY <1>13 DEF RefuseLaunch, board, Dies
  <2>2. worker'.step = "committed" => worker'.commit # NoCommit
    BY <1>13, <1>2, <1>3, <1>4, <1>5 DEF RefuseLaunch, At, Goto, Workers, Dies
  <2> QED BY <2>1, <2>2, EvidenceKept
<1>14. ASSUME NEW ok \in BOOLEAN, MarkSpawning(ok) PROVE Evidence' /\ CommitsKept
  <2>1. UNCHANGED <<mem, file, survivors>> /\ (up' => up)
    BY <1>14 DEF MarkSpawning, board, Dies
  <2>2. worker'.step = "committed" => worker'.commit # NoCommit
    BY <1>14, <1>2, <1>3, <1>4, <1>5 DEF MarkSpawning, At, Goto, Workers, Dies
  <2> QED BY <2>1, <2>2, EvidenceKept
<1>15. ASSUME Spawn PROVE Evidence' /\ CommitsKept
  <2>1. UNCHANGED <<mem, file, survivors>> /\ (up' => up)
    BY <1>15 DEF Spawn, board, Dies
  <2>2. worker'.step = "committed" => worker'.commit # NoCommit
    BY <1>15, <1>2, <1>3, <1>4, <1>5 DEF Spawn, At, Goto, Workers, Dies
  <2> QED BY <2>1, <2>2, EvidenceKept
<1>16. ASSUME NEW ok \in BOOLEAN, SpawnFails(ok) PROVE Evidence' /\ CommitsKept
  <2>1. UNCHANGED <<mem, file, survivors>> /\ (up' => up)
    BY <1>16 DEF SpawnFails, board, Dies
  <2>2. worker'.step = "committed" => worker'.commit # NoCommit
    BY <1>16, <1>2, <1>3, <1>4, <1>5 DEF SpawnFails, At, Goto, Workers, Dies
  <2> QED BY <2>1, <2>2, EvidenceKept
<1>17. ASSUME NEW ok \in BOOLEAN, RecordGroup(ok) PROVE Evidence' /\ CommitsKept
  <2>1. UNCHANGED <<mem, file, survivors>> /\ (up' => up)
    BY <1>17 DEF RecordGroup, board, Dies
  <2>2. worker'.step = "committed" => worker'.commit # NoCommit
    BY <1>17, <1>2, <1>3, <1>4, <1>5 DEF RecordGroup, At, Goto, Workers, Dies
  <2> QED BY <2>1, <2>2, EvidenceKept
<1>18. ASSUME Cancelled PROVE Evidence' /\ CommitsKept
  <2>1. UNCHANGED <<mem, file, survivors>> /\ (up' => up)
    BY <1>18 DEF Cancelled, board, Dies
  <2>2. worker'.step = "committed" => worker'.commit # NoCommit
    BY <1>18, <1>2, <1>3, <1>4, <1>5 DEF Cancelled, At, Goto, Workers, Dies
  <2> QED BY <2>1, <2>2, EvidenceKept
<1>19. ASSUME NEW ok \in BOOLEAN, CommitChanges(ok) PROVE Evidence' /\ CommitsKept
  <2>1. UNCHANGED <<mem, file, survivors>> /\ (up' => up)
    BY <1>19 DEF CommitChanges, board, Dies
  <2>2. worker'.step = "committed" => worker'.commit # NoCommit
    BY <1>19, <1>2, <1>3, <1>4, <1>5 DEF CommitChanges, At, Goto, Workers, Dies
  <2> QED BY <2>1, <2>2, EvidenceKept
<1>20. ASSUME NEW o \in Outcomes, RecordCommitted(o) PROVE Evidence' /\ CommitsKept
  <2>1. CASE mem.stage = "Started" /\ mem.run = worker.run
    <3>9. worker.commit # NoCommit /\ worker.commit \in Versions \cup {NoCommit}
      BY <1>20, <2>1, <1>2, <1>4 DEF RecordCommitted, At, Workers
    <3> DEFINE t == [mem EXCEPT !.stage = "Committed", !.commit = worker.commit]
    <3>1. Publish(t, o)
      BY <1>20, <2>1 DEF RecordCommitted, Publish
    <3>2. /\ t \in TaskRecord /\ t.run = mem.run /\ t.runs = mem.runs
          /\ t.stage = "none" => mem.stage = "none"
          /\ t.stage = "Started" => mem.stage = "Started"
          /\ mem.commit # NoCommit => t.commit # NoCommit
      BY <1>2, <3>9, CommittedRecord
    <3> HIDE DEF t
    <3>3. up
      BY <1>20, <2>1, <1>1, <1>3 DEF RecordCommitted, SoundConfirmations, At, LeaseFree
    <3>4. worker'.step = "committed" => worker'.commit # NoCommit
      BY <1>20, <2>1, <1>2, <1>3, <1>4, <1>5 DEF RecordCommitted, At, Goto, Workers, Dies
    <3> QED BY <3>1, <3>2, <3>3, <3>4, EvidenceRewritten
  <2>2. CASE ~(mem.stage = "Started" /\ mem.run = worker.run)
    <3> DEFINE t == mem
    <3>1. Publish(t, o)
      BY <1>20, <2>2 DEF RecordCommitted, Publish
    <3>2. /\ t \in TaskRecord /\ t.run = mem.run /\ t.runs = mem.runs
          /\ t.stage = "none" => mem.stage = "none"
          /\ t.stage = "Started" => mem.stage = "Started"
          /\ mem.commit # NoCommit => t.commit # NoCommit
      BY <1>2
    <3> HIDE DEF t
    <3>3. up
      BY <1>20, <2>2, <1>1, <1>3 DEF RecordCommitted, SoundConfirmations, At, LeaseFree
    <3>4. worker'.step = "committed" => worker'.commit # NoCommit
      BY <1>20, <2>2, <1>2, <1>3, <1>4, <1>5 DEF RecordCommitted, At, Goto, Workers, Dies
    <3> QED BY <3>1, <3>2, <3>3, <3>4, EvidenceRewritten
  <2> QED BY <2>1, <2>2
<1>21. ASSUME NEW o \in Outcomes, RecordUnrecorded(o) PROVE Evidence' /\ CommitsKept
  <2>0. "commit" \in Whys /\ worker.commit \in Versions \cup {NoCommit}
    BY <1>2 DEF Whys, Workers
  <2>8. mem \in TaskRecord /\ worker.run = mem.run
    BY <1>21, <1>1, <1>2 DEF RecordUnrecorded, At, SoundWorker, Names, Records
  <2>9. mem.commit # NoCommit => Recovery(mem, mem.run, worker.commit, "commit").commit # NoCommit
    BY <1>2 DEF Recovery, TaskRecord
  <2> DEFINE t == Recovery(mem, worker.run, worker.commit, "commit")
  <2>1. Publish(t, o)
    BY <1>21 DEF RecordUnrecorded, Publish
  <2>2. /\ t \in TaskRecord /\ t.run = mem.run /\ t.runs = mem.runs
        /\ t.stage = "none" => mem.stage = "none"
        /\ t.stage = "Started" => mem.stage = "Started"
        /\ mem.commit # NoCommit => t.commit # NoCommit
    BY <2>0, <2>8, <2>9, RecoverySame
  <2> HIDE DEF t
  <2>3. up
    BY <1>21, <1>1, <1>3 DEF RecordUnrecorded, SoundConfirmations, At, LeaseFree
  <2>4. worker'.step = "committed" => worker'.commit # NoCommit
    BY <1>21, <1>2, <1>3, <1>4, <1>5 DEF RecordUnrecorded, At, Goto, Workers, Dies
  <2> QED BY <2>1, <2>2, <2>3, <2>4, EvidenceRewritten
<1>22. ASSUME NEW o \in Outcomes, RecordCompleted(o) PROVE Evidence' /\ CommitsKept
  <2>1. CASE mem.stage = "Committed" /\ mem.run = worker.run
    <3>9. mem.run \in Runs /\ mem.commit \in Versions \cup {NoCommit}
      BY <1>22, <2>1, <1>1, <1>2 DEF RecordCompleted, SoundRecord, TaskRecord, Unreconciled
    <3> DEFINE t == Resolved(mem, mem.commit)
    <3>1. Publish(t, o)
      BY <1>22, <2>1 DEF RecordCompleted, Publish
    <3>2. /\ t \in TaskRecord /\ t.run = mem.run /\ t.runs = mem.runs
          /\ t.stage = "none" => mem.stage = "none"
          /\ t.stage = "Started" => mem.stage = "Started"
          /\ mem.commit # NoCommit => t.commit # NoCommit
      BY <1>2, <3>9, ResolvedRecord
    <3> HIDE DEF t
    <3>3. up
      BY <1>22, <2>1, <1>1, <1>3 DEF RecordCompleted, SoundConfirmations, At, LeaseFree
    <3>4. worker'.step = "committed" => worker'.commit # NoCommit
      BY <1>22, <2>1, <1>2, <1>3, <1>4, <1>5 DEF RecordCompleted, At, Goto, Workers, Dies
    <3> QED BY <3>1, <3>2, <3>3, <3>4, EvidenceRewritten
  <2>2. CASE ~(mem.stage = "Committed" /\ mem.run = worker.run)
    <3> DEFINE t == mem
    <3>1. Publish(t, o)
      BY <1>22, <2>2 DEF RecordCompleted, Publish
    <3>2. /\ t \in TaskRecord /\ t.run = mem.run /\ t.runs = mem.runs
          /\ t.stage = "none" => mem.stage = "none"
          /\ t.stage = "Started" => mem.stage = "Started"
          /\ mem.commit # NoCommit => t.commit # NoCommit
      BY <1>2
    <3> HIDE DEF t
    <3>3. up
      BY <1>22, <2>2, <1>1, <1>3 DEF RecordCompleted, SoundConfirmations, At, LeaseFree
    <3>4. worker'.step = "committed" => worker'.commit # NoCommit
      BY <1>22, <2>2, <1>2, <1>3, <1>4, <1>5 DEF RecordCompleted, At, Goto, Workers, Dies
    <3> QED BY <3>1, <3>2, <3>3, <3>4, EvidenceRewritten
  <2> QED BY <2>1, <2>2
<1>23. ASSUME NEW o \in Outcomes, RecordFailed(o) PROVE Evidence' /\ CommitsKept
  <2> DEFINE t == Failed(mem, worker.run, worker.step = "failed")
  <2>1. Publish(t, o)
    BY <1>23 DEF RecordFailed, Publish
  <2>2. worker.run \in Runs
    BY <1>23, <1>1 DEF RecordFailed, SoundWorker
  <2>3. /\ t \in TaskRecord /\ t.runs = mem.runs
        /\ \/ t.stage = "none"
           \/ /\ t.run = mem.run
              /\ t.stage = mem.stage \/ (mem.stage = "Started" /\ t.stage = "Recovery")
    BY <1>2, <2>2, FailedRecord
  <2>4. t.run = 0 \/ (t.run = mem.run /\ t.commit = mem.commit)
    BY <1>2, FailedCommit
  <2>5. t.stage = "none" => t.run = 0 \/ mem.stage = "none"
    BY <1>2, FailedCommit
  <2> HIDE DEF t
  <2>6. up
    BY <1>23, <1>1, <1>3 DEF RecordFailed, SoundConfirmations, At, LeaseFree
  <2>7. worker'.step = "committed" => worker'.commit # NoCommit
    BY <1>23, <1>2, <1>3, <1>4, <1>5 DEF RecordFailed, At, Goto, Workers, Dies
  <2>8. Numbered(mem)
    BY DEF Evidence, Records
  <2>9. Numbered(t)
    <3>1. 0 <= mem.runs
      BY <1>2, RunsAssumption DEF TaskRecord
    <3> QED BY <2>3, <2>4, <2>5, <2>8, <3>1 DEF Numbered
  <2> QED BY <2>1, <2>3, <2>4, <2>6, <2>7, <2>9, EvidencePublished
<1>24. ASSUME EndRun PROVE Evidence' /\ CommitsKept
  <2>1. UNCHANGED <<mem, file, survivors>> /\ (up' => up)
    BY <1>24 DEF EndRun, board, Dies
  <2>2. worker'.step = "committed" => worker'.commit # NoCommit
    BY <1>24, <1>2, <1>3, <1>4, <1>5 DEF EndRun, At, Goto, Workers, Dies
  <2> QED BY <2>1, <2>2, EvidenceKept
<1>25. ASSUME StopTimesOut PROVE Evidence' /\ CommitsKept
  <2>1. UNCHANGED <<mem, file, survivors>> /\ (up' => up)
    BY <1>25 DEF StopTimesOut, board, Dies
  <2>2. worker'.step = "committed" => worker'.commit # NoCommit
    BY <1>25, <1>2, <1>3, <1>4, <1>5 DEF StopTimesOut, At, Goto, Workers, Dies
  <2> QED BY <2>1, <2>2, EvidenceKept
<1>26. ASSUME NEW o \in Outcomes, SettleStop(o) PROVE Evidence' /\ CommitsKept
  <2>1. CASE mem.status = "InProgress"
    <3> DEFINE t == Stopped(mem)
    <3>1. Publish(t, o)
      BY <1>26, <2>1 DEF SettleStop, Publish
    <3>2. /\ t \in TaskRecord /\ t.run = mem.run /\ t.runs = mem.runs
          /\ t.stage = "none" => mem.stage = "none"
          /\ t.stage = "Started" => mem.stage = "Started"
          /\ mem.commit # NoCommit => t.commit # NoCommit
      BY <1>2, StoppedRecord
    <3> HIDE DEF t
    <3>3. up
      BY <1>26, <2>1, <1>1, <1>3 DEF SettleStop, SoundConfirmations, At, LeaseFree
    <3>4. worker'.step = "committed" => worker'.commit # NoCommit
      BY <1>26, <2>1, <1>2, <1>3, <1>4, <1>5 DEF SettleStop, At, Goto, Workers, Dies
    <3> QED BY <3>1, <3>2, <3>3, <3>4, EvidenceRewritten
  <2>2. CASE ~(mem.status = "InProgress")
    <3>1. UNCHANGED <<mem, file, survivors>> /\ (up' => up)
      BY <1>26, <2>2 DEF SettleStop, board, Dies
    <3>2. worker'.step = "committed" => worker'.commit # NoCommit
      BY <1>26, <2>2, <1>2, <1>3, <1>4, <1>5 DEF SettleStop, At, Goto, Workers, Dies
    <3> QED BY <3>1, <3>2, EvidenceKept
  <2> QED BY <2>1, <2>2
<1>27. ASSUME NEW o \in Outcomes, Move(o) PROVE Evidence' /\ CommitsKept
  <2>1. CASE op.from = "Queue" /\ op.to = "InProgress"
    <3> DEFINE t == Promoted(mem)
    <3>1. Publish(t, o)
      BY <1>27, <2>1 DEF Move, Publish
    <3>2. /\ t \in TaskRecord /\ t.run = mem.run /\ t.runs = mem.runs
          /\ t.stage = "none" => mem.stage = "none"
          /\ t.stage = "Started" => mem.stage = "Started"
          /\ mem.commit # NoCommit => t.commit # NoCommit
      BY <1>2, PromotedRecord
    <3> HIDE DEF t
    <3>3. up
      BY <1>27, <2>1, <1>1, <1>3 DEF Move, SoundConfirmations, At, LeaseFree
    <3>4. worker'.step = "committed" => worker'.commit # NoCommit
      BY <1>27, <2>1, <1>2, <1>3, <1>4, <1>5 DEF Move, At, Goto, Workers, Dies
    <3> QED BY <3>1, <3>2, <3>3, <3>4, EvidenceRewritten
  <2>2. CASE ~(op.from = "Queue" /\ op.to = "InProgress")
    <3> DEFINE t == MovedTo(mem, op.from, op.to)
    <3>1. Publish(t, o)
      BY <1>27, <2>2 DEF Move, Publish
    <3>2. /\ t \in TaskRecord /\ t.run = mem.run /\ t.runs = mem.runs
          /\ t.stage = "none" => mem.stage = "none"
          /\ t.stage = "Started" => mem.stage = "Started"
          /\ mem.commit # NoCommit => t.commit # NoCommit
      BY <1>27, <2>2, <1>1, <1>2, MovedRecord DEF Move, SoundOperation
    <3> HIDE DEF t
    <3>3. up
      BY <1>27, <2>2, <1>1, <1>3 DEF Move, SoundConfirmations, At, LeaseFree
    <3>4. worker'.step = "committed" => worker'.commit # NoCommit
      BY <1>27, <2>2, <1>2, <1>3, <1>4, <1>5 DEF Move, At, Goto, Workers, Dies
    <3> QED BY <3>1, <3>2, <3>3, <3>4, EvidenceRewritten
  <2> QED BY <2>1, <2>2
<1>28. ASSUME RefuseMove PROVE Evidence' /\ CommitsKept
  <2>1. UNCHANGED <<mem, file, survivors>> /\ (up' => up)
    BY <1>28 DEF RefuseMove, board, Dies
  <2>2. worker'.step = "committed" => worker'.commit # NoCommit
    BY <1>28, <1>2, <1>3, <1>4, <1>5 DEF RefuseMove, At, Goto, Workers, Dies
  <2> QED BY <2>1, <2>2, EvidenceKept
<1>29. ASSUME NEW o \in Outcomes, Accept(o) PROVE Evidence' /\ CommitsKept
  <2> DEFINE s == Resolved(mem, op.tip)
             t == [s EXCEPT !.accepted = TRUE]
  <2>1. op.step = "accepting" /\ Publish(t, o)
    BY <1>29 DEF Accept
  <2>2. mem.run \in Runs /\ op.tip \in Versions /\ op.tip \in Versions \cup {NoCommit}
    BY <1>1, <1>2, <2>1 DEF SoundOperation, SoundRecord, Operations
  <2>3. /\ s \in TaskRecord /\ s.stage = "Resolved" /\ s.run = mem.run /\ s.runs = mem.runs
        /\ s.commit = op.tip
    BY <1>2, <2>2, ResolvedRecord
  <2> HIDE DEF s
  <2>4. /\ t \in TaskRecord /\ t.stage = "Resolved" /\ t.run = mem.run /\ t.runs = mem.runs
        /\ t.commit # NoCommit
    BY <1>5, <2>2, <2>3, AcceptedRecord
  <2> HIDE DEF t
  <2>5. up
    BY <1>29, <1>1, <1>3 DEF Accept, SoundConfirmations, At, LeaseFree
  <2>6. worker'.step = "committed" => worker'.commit # NoCommit
    BY <1>29, <1>2, <1>3, <1>4, <1>5 DEF Accept, At, Goto, Workers, Dies
  <2> QED BY <2>1, <2>4, <2>5, <2>6, EvidenceRewritten
<1>30. ASSUME ConfirmAccept PROVE Evidence' /\ CommitsKept
  <2>1. UNCHANGED <<mem, file, survivors>> /\ (up' => up)
    BY <1>30 DEF ConfirmAccept, board, Dies
  <2>2. worker'.step = "committed" => worker'.commit # NoCommit
    BY <1>30, <1>2, <1>3, <1>4, <1>5 DEF ConfirmAccept, At, Goto, Workers, Dies
  <2> QED BY <2>1, <2>2, EvidenceKept
<1>31. ASSUME NEW o \in Outcomes, ReturnToRecovery(o) PROVE Evidence' /\ CommitsKept
  <2>0. ("moved") \in Whys /\ NoCommit \in Versions \cup {NoCommit}
    BY DEF Whys
  <2>9. mem \in TaskRecord /\ mem.run \in 0 .. MaxRuns
    BY <1>2 DEF TaskRecord
  <2>8. Recovery(mem, mem.run, NoCommit, "moved").commit = mem.commit
    BY <2>9, HeldCommit
  <2> DEFINE t == Recovery(mem, mem.run, NoCommit, "moved")
  <2>1. Publish(t, o)
    BY <1>31 DEF ReturnToRecovery, Publish
  <2>2. /\ t \in TaskRecord /\ t.run = mem.run /\ t.runs = mem.runs
        /\ t.stage = "none" => mem.stage = "none"
        /\ t.stage = "Started" => mem.stage = "Started"
        /\ mem.commit # NoCommit => t.commit # NoCommit
    BY <2>0, <2>9, <2>8, RecoverySame
  <2> HIDE DEF t
  <2>3. up
    BY <1>31, <1>1, <1>3 DEF ReturnToRecovery, SoundConfirmations, At, LeaseFree
  <2>4. worker'.step = "committed" => worker'.commit # NoCommit
    BY <1>31, <1>2, <1>3, <1>4, <1>5 DEF ReturnToRecovery, At, Goto, Workers, Dies
  <2> QED BY <2>1, <2>2, <2>3, <2>4, EvidenceRewritten
<1>32. ASSUME BeginStop PROVE Evidence' /\ CommitsKept
  <2>1. UNCHANGED <<mem, file, survivors>> /\ (up' => up)
    BY <1>32 DEF BeginStop, board, Dies
  <2>2. worker'.step = "committed" => worker'.commit # NoCommit
    BY <1>32, <1>2, <1>3, <1>4, <1>5 DEF BeginStop, At, Goto, Workers, Dies
  <2> QED BY <2>1, <2>2, EvidenceKept
<1>33. ASSUME BeginAccept PROVE Evidence' /\ CommitsKept
  <2>1. UNCHANGED <<mem, file, survivors>> /\ (up' => up)
    BY <1>33 DEF BeginAccept, board, Dies
  <2>2. worker'.step = "committed" => worker'.commit # NoCommit
    BY <1>33, <1>2, <1>3, <1>4, <1>5 DEF BeginAccept, At, Goto, Workers, Dies
  <2> QED BY <2>1, <2>2, EvidenceKept
<1>34. ASSUME NEW to \in Statuses, BeginMove(to) PROVE Evidence' /\ CommitsKept
  <2>1. UNCHANGED <<mem, file, survivors>> /\ (up' => up)
    BY <1>34 DEF BeginMove, board, Dies
  <2>2. worker'.step = "committed" => worker'.commit # NoCommit
    BY <1>34, <1>2, <1>3, <1>4, <1>5 DEF BeginMove, At, Goto, Workers, Dies
  <2> QED BY <2>1, <2>2, EvidenceKept
<1>35. ASSUME NEW o \in Outcomes, Promote(o) PROVE Evidence' /\ CommitsKept
  <2> DEFINE t == Promoted(mem)
  <2>1. Publish(t, o)
    BY <1>35 DEF Promote, Publish
  <2>2. /\ t \in TaskRecord /\ t.run = mem.run /\ t.runs = mem.runs
        /\ t.stage = "none" => mem.stage = "none"
        /\ t.stage = "Started" => mem.stage = "Started"
        /\ mem.commit # NoCommit => t.commit # NoCommit
    BY <1>2, PromotedRecord
  <2> HIDE DEF t
  <2>3. up
    BY <1>35, <1>1, <1>3 DEF Promote, SoundConfirmations, At, LeaseFree
  <2>4. worker'.step = "committed" => worker'.commit # NoCommit
    BY <1>35, <1>2, <1>3, <1>4, <1>5 DEF Promote, At, Goto, Workers, Dies
  <2> QED BY <2>1, <2>2, <2>3, <2>4, EvidenceRewritten
<1>36. ASSUME NEW o \in Outcomes, Decide(o) PROVE Evidence' /\ CommitsKept
  <2>0. mem.run \in Runs
    BY <1>36, <1>1 DEF Decide, SoundRecord
  <2> DEFINE t == [mem EXCEPT !.authorized = @ \cup {mem.run},
                        !.decision = [run |-> mem.run, why |-> mem.why, commit |-> mem.commit,
                                      tip |-> tip, tree |-> tree]]
  <2>1. Publish(t, o)
    BY <1>36 DEF Decide, Publish
  <2>2. /\ t \in TaskRecord /\ t.run = mem.run /\ t.runs = mem.runs
        /\ t.stage = "none" => mem.stage = "none"
        /\ t.stage = "Started" => mem.stage = "Started"
        /\ mem.commit # NoCommit => t.commit # NoCommit
    BY <1>2, <2>0, DecidedRecord
  <2> HIDE DEF t
  <2>3. up
    BY <1>36, <1>1, <1>3 DEF Decide, SoundConfirmations, At, LeaseFree
  <2>4. worker'.step = "committed" => worker'.commit # NoCommit
    BY <1>36, <1>2, <1>3, <1>4, <1>5 DEF Decide, At, Goto, Workers, Dies
  <2> QED BY <2>1, <2>2, <2>3, <2>4, EvidenceRewritten
<1>37. ASSUME NEW kind \in {"Pending", "Direct", "NewAttempt"},
            NEW permit \in BOOLEAN, NEW o \in Outcomes, Admit(kind, permit, o) PROVE Evidence' /\ CommitsKept
  <2>1. CASE kind = "Direct" /\ ~Ready(mem)
    <3> DEFINE t == Promoted(mem)
    <3>1. Publish(t, o)
      BY <1>37, <2>1 DEF Admit, Publish
    <3>2. /\ t \in TaskRecord /\ t.run = mem.run /\ t.runs = mem.runs
          /\ t.stage = "none" => mem.stage = "none"
          /\ t.stage = "Started" => mem.stage = "Started"
          /\ mem.commit # NoCommit => t.commit # NoCommit
      BY <1>2, PromotedRecord
    <3> HIDE DEF t
    <3>3. up
      BY <1>37, <2>1, <1>1, <1>3 DEF Admit, SoundConfirmations, At, LeaseFree
    <3>4. worker'.step = "committed" => worker'.commit # NoCommit
      BY <1>37, <2>1, <1>2, <1>3, <1>4, <1>5 DEF Admit, At, Goto, Workers, Dies
    <3> QED BY <3>1, <3>2, <3>3, <3>4, EvidenceRewritten
  <2>2. CASE ~(kind = "Direct" /\ ~Ready(mem))
    <3>1. UNCHANGED <<mem, file, survivors>> /\ (up' => up)
      BY <1>37, <2>2 DEF Admit, board, Dies
    <3>2. worker'.step = "committed" => worker'.commit # NoCommit
      BY <1>37, <2>2, <1>2, <1>3, <1>4, <1>5 DEF Admit, At, Goto, Workers, Dies
    <3> QED BY <3>1, <3>2, EvidenceKept
  <2> QED BY <2>1, <2>2
<1>38. ASSUME NEW o \in Outcomes, ReconcileStarted(o) PROVE Evidence' /\ CommitsKept
  <2>0. ("unowned") \in Whys /\ NoCommit \in Versions \cup {NoCommit}
    BY DEF Whys
  <2>9. mem \in TaskRecord /\ mem.run \in 0 .. MaxRuns
    BY <1>2 DEF TaskRecord
  <2>8. Recovery(mem, mem.run, NoCommit, "unowned").commit = mem.commit
    BY <2>9, HeldCommit
  <2> DEFINE t == Recovery(mem, mem.run, NoCommit, "unowned")
  <2>1. Publish(t, o)
    BY <1>38 DEF ReconcileStarted, Publish
  <2>2. /\ t \in TaskRecord /\ t.run = mem.run /\ t.runs = mem.runs
        /\ t.stage = "none" => mem.stage = "none"
        /\ t.stage = "Started" => mem.stage = "Started"
        /\ mem.commit # NoCommit => t.commit # NoCommit
    BY <2>0, <2>9, <2>8, RecoverySame
  <2> HIDE DEF t
  <2>3. up
    BY <1>38, <1>1, <1>3 DEF ReconcileStarted, SoundConfirmations, At, LeaseFree
  <2>4. worker'.step = "committed" => worker'.commit # NoCommit
    BY <1>38, <1>2, <1>3, <1>4, <1>5 DEF ReconcileStarted, At, Goto, Workers, Dies
  <2> QED BY <2>1, <2>2, <2>3, <2>4, EvidenceRewritten
<1>39. ASSUME NEW o \in Outcomes, ReconcileCommitted(o) PROVE Evidence' /\ CommitsKept
  <2>1. CASE Verified(mem.commit)
    <3>9. mem.run \in Runs /\ mem.commit \in Versions \cup {NoCommit}
      BY <1>39, <2>1, <1>1, <1>2 DEF ReconcileCommitted, SoundRecord, TaskRecord,
           Unreconciled
    <3> DEFINE t == Resolved(mem, mem.commit)
    <3>1. Publish(t, o)
      BY <1>39, <2>1 DEF ReconcileCommitted, Publish
    <3>2. /\ t \in TaskRecord /\ t.run = mem.run /\ t.runs = mem.runs
          /\ t.stage = "none" => mem.stage = "none"
          /\ t.stage = "Started" => mem.stage = "Started"
          /\ mem.commit # NoCommit => t.commit # NoCommit
      BY <1>2, <3>9, ResolvedRecord
    <3> HIDE DEF t
    <3>3. up
      BY <1>39, <2>1, <1>1, <1>3 DEF ReconcileCommitted, SoundConfirmations, At, LeaseFree
    <3>4. worker'.step = "committed" => worker'.commit # NoCommit
      BY <1>39, <2>1, <1>2, <1>3, <1>4, <1>5 DEF ReconcileCommitted, At, Goto, Workers, Dies
    <3> QED BY <3>1, <3>2, <3>3, <3>4, EvidenceRewritten
  <2>2. CASE ~(Verified(mem.commit))
    <3>0. ("mismatch") \in Whys /\ NoCommit \in Versions \cup {NoCommit}
      BY DEF Whys
    <3>9. mem \in TaskRecord /\ mem.run \in 0 .. MaxRuns
      BY <1>2 DEF TaskRecord
    <3>8. Recovery(mem, mem.run, NoCommit, "mismatch").commit = mem.commit
      BY <3>9, HeldCommit
    <3> DEFINE t == Recovery(mem, mem.run, NoCommit, "mismatch")
    <3>1. Publish(t, o)
      BY <1>39, <2>2 DEF ReconcileCommitted, Publish
    <3>2. /\ t \in TaskRecord /\ t.run = mem.run /\ t.runs = mem.runs
          /\ t.stage = "none" => mem.stage = "none"
          /\ t.stage = "Started" => mem.stage = "Started"
          /\ mem.commit # NoCommit => t.commit # NoCommit
      BY <3>0, <3>9, <3>8, RecoverySame
    <3> HIDE DEF t
    <3>3. up
      BY <1>39, <2>2, <1>1, <1>3 DEF ReconcileCommitted, SoundConfirmations, At, LeaseFree
    <3>4. worker'.step = "committed" => worker'.commit # NoCommit
      BY <1>39, <2>2, <1>2, <1>3, <1>4, <1>5 DEF ReconcileCommitted, At, Goto, Workers, Dies
    <3> QED BY <3>1, <3>2, <3>3, <3>4, EvidenceRewritten
  <2> QED BY <2>1, <2>2
<1>40. ASSUME Edit PROVE Evidence' /\ CommitsKept
  <2>1. UNCHANGED <<mem, file, survivors>> /\ (up' => up)
    BY <1>40 DEF Edit, board, Dies
  <2>2. worker'.step = "committed" => worker'.commit # NoCommit
    BY <1>40, <1>2, <1>3, <1>4, <1>5 DEF Edit, At, Goto, Workers, Dies
  <2> QED BY <2>1, <2>2, EvidenceKept
<1>41. ASSUME GitCommit PROVE Evidence' /\ CommitsKept
  <2>1. UNCHANGED <<mem, file, survivors>> /\ (up' => up)
    BY <1>41 DEF GitCommit, board, Dies
  <2>2. worker'.step = "committed" => worker'.commit # NoCommit
    BY <1>41, <1>2, <1>3, <1>4, <1>5 DEF GitCommit, At, Goto, Workers, Dies
  <2> QED BY <2>1, <2>2, EvidenceKept
<1>42. ASSUME Crash PROVE Evidence' /\ CommitsKept
  <2>1. UNCHANGED <<mem, file, survivors>> /\ (up' => up)
    BY <1>42 DEF Crash, board, Dies
  <2>2. worker'.step = "committed" => worker'.commit # NoCommit
    BY <1>42, <1>2, <1>3, <1>4, <1>5 DEF Crash, At, Goto, Workers, Dies
  <2> QED BY <2>1, <2>2, EvidenceKept
<1>43. ASSUME PowerLoss PROVE Evidence' /\ CommitsKept
  <2>1. /\ file' \in survivors /\ survivors' = {file'} /\ mem' = mem /\ ~up'
        /\ worker' = NoWorker
    BY <1>43 DEF PowerLoss, Dies
  <2>2. \A r \in Records' : r \in Records
    BY <2>1 DEF Records
  <2>3. worker'.step # "committed"
    BY <1>3, <2>1
  <2> QED BY <2>1, <2>2, <2>3 DEF Evidence, CommitsKept, Recorded
<1>44. ASSUME NEW n \in Runs, GroupChanges(n) PROVE Evidence' /\ CommitsKept
  <2>1. UNCHANGED <<mem, file, survivors>> /\ (up' => up)
    BY <1>44 DEF GroupChanges, board, Dies
  <2>2. worker'.step = "committed" => worker'.commit # NoCommit
    BY <1>44, <1>2, <1>3, <1>4, <1>5 DEF GroupChanges, At, Goto, Workers, Dies
  <2> QED BY <2>1, <2>2, EvidenceKept
<1>45. ASSUME NEW step \in {"exited", "failed", "broken"}, ProviderEnds(step)
      PROVE Evidence' /\ CommitsKept
  <2>1. UNCHANGED <<mem, file, survivors>> /\ (up' => up)
    BY <1>45 DEF ProviderEnds, board, Dies
  <2>2. worker'.step = "committed" => worker'.commit # NoCommit
    BY <1>45, <1>2, <1>3, <1>4, <1>5 DEF ProviderEnds, At, Goto, Workers, Dies
  <2> QED BY <2>1, <2>2, EvidenceKept
<1>46. ASSUME NEW o \in Outcomes, Startup(o) PROVE Evidence' /\ CommitsKept
  <2> DEFINE t == Migrated(file)
  <2>1. mem' = t /\ worker' = worker /\ ~up /\ (t = file \/ Save(t, o))
    BY <1>46 DEF Startup
  <2>2. t = file => UNCHANGED <<file, survivors>>
    BY <1>46 DEF Startup
  <2>3. file \in TaskRecord /\ file \in survivors /\ Numbered(file)
    BY DEF Inv, TypeOK, Evidence, Records
  <2>4. /\ Numbered(t) /\ t.runs = file.runs /\ t.commit = file.commit
        /\ t.run # file.run => file.run = 0
    BY <2>3, EvidenceMigrated
  <2>5. worker'.step # "committed"
    BY <1>46, <1>1, <1>3 DEF Startup, SoundConfirmations
  <2> HIDE DEF t
  <2>6. file' \in {file, t} /\ survivors' \subseteq survivors \cup {t}
    BY <2>1, <2>2 DEF Save
  <2>7. file \in survivors' \/ t \in survivors'
    BY <2>1, <2>2, <2>3 DEF Save
  <2>8. \A r \in Records' : r \in Records \/ r = t
    BY <2>1, <2>6 DEF Records
  <2>9. CommitsKept
    <3>1. ASSUME NEW n \in Runs, Recorded(n), t.run = n PROVE t.commit # NoCommit
      BY <2>3, <2>4, <3>1 DEF Recorded
    <3> QED BY <2>6, <3>1 DEF CommitsKept, Recorded
  <2>10. ASSUME NEW n \in Runs, Recorded(n)' PROVE mem'.run = n => mem'.commit # NoCommit
    BY <2>1, <2>4, <2>7, <2>10 DEF Recorded
  <2>11. \A r \in Records' : Numbered(r)
    BY <2>4, <2>8 DEF Evidence
  <2>12. file'.runs = mem'.runs
    BY <2>1, <2>4, <2>6
  <2> QED BY <2>5, <2>9, <2>10, <2>11, <2>12 DEF Evidence
<1> QED
  BY <1>6, <1>7, <1>8, <1>9, <1>10, <1>11, <1>12, <1>13, <1>14, <1>15, <1>16, <1>17,
     <1>18, <1>19, <1>20, <1>21, <1>22, <1>23, <1>24, <1>25, <1>26, <1>27, <1>28, <1>29,
     <1>30, <1>31, <1>32, <1>33, <1>34, <1>35, <1>36, <1>37, <1>38, <1>39, <1>40, <1>41,
     <1>42, <1>43, <1>44, <1>45, <1>46 DEF Next, StartStep, WorkerStep, LeaseStep,
     Request, Poll, Environment

\* A commit that was durably recorded for a run is in every later record of that
\* run: failures, stops, moves, restarts and power losses keep it.
THEOREM CommitsSurvive == Spec => CommitEvidenceKept
<1>1. Init => Inv /\ Evidence
  <2> SUFFICES ASSUME Init PROVE Evidence
    BY InvInit
  <2>2. Records = {NewTask} /\ file = NewTask /\ mem = NewTask /\ worker = NoWorker
    BY DEF Init, Records
  <2>3. NewTask.stage = "none" /\ NewTask.run = 0 /\ NewTask.runs = 0
    BY DEF NewTask
  <2>4. worker.step # "committed" /\ \A n \in Runs : n # 0
    BY <2>2, Constants
  <2> QED BY <2>2, <2>3, <2>4 DEF Evidence, Numbered
<1>2. Inv /\ Evidence /\ [Next]_vars => Inv' /\ Evidence' /\ CommitsKept
  <2>1. CASE Next
    BY <2>1, InvNext, EvidenceStep
  <2>2. CASE UNCHANGED vars
    BY <2>2, InvStutter, EvidenceKept DEF vars, Evidence
  <2> QED BY <2>1, <2>2
<1>3. CommitsKept => [\A n \in Runs :
       (\A r \in survivors : r.run = n /\ r.commit # NoCommit)
         => \A r \in survivors' : r.run = n => r.commit # NoCommit]_vars
  BY DEF CommitsKept, Recorded
<1> QED BY <1>1, <1>2, <1>3, PTL DEF Spec, CommitEvidenceKept
================================================================================
