------------------------- MODULE TaskLifecycleProofs -------------------------
(***************************************************************************)
(* TaskLifecycle for every set of tasks, observers and kinds of evidence    *)
(* and any number of faults.  The properties are not inductive: whether a   *)
(* flag may be cleared depends on where the operation holding the lease is, *)
(* so the invariant ties each operation's step to the record and to disk.   *)
(***************************************************************************)
EXTENDS TaskLifecycle, FiniteSetTheorems, TLAPS

Attaching == {"acquire", "created", "found"}

\* An operation runs on a task the board has, and only while the process does;
\* what it has already removed it does not have to keep.
Leased(t) ==
  /\ work[t].pc # "free" => up /\ mem[t] # NoTask
  /\ work[t].pc \in Attaching => ~mem[t].flag
  /\ work[t].pc = "stamp" => mem[t].hold \notin {"republish", "recovery"}
  /\ work[t].pc = "stamp" => mem[t].wt
  /\ work[t].pc = "cleaned" => checkout[t].dir = "absent" \/ ~mem[t].wt
  /\ work[t].pc = "erase" => ~mem[t].wt
  /\ t \in agents => /\ up /\ mem[t] # NoTask /\ ~mem[t].flag
                     /\ work[t].pc \in {"free"} \cup Attaching

\* A removal in progress belongs to the operation that started it, or to a
\* process that is gone; the registration goes last.
Removing(t) ==
  /\ git[t] => checkout[t].reg /\ work[t].pc \in {"git", "free"}
  /\ checkout[t].dir = "cut" => work[t].pc \in {"git", "free", "stamp", "remove"}

Unheld(board, t) == board[t].hold \notin {"republish", "recovery"}

\* What must be on record, in memory and in every board a restart may read.
Recorded(t) ==
  /\ git[t] \/ checkout[t].dir = "cut" \/ work[t].pc \in {"remove", "git"} =>
       /\ \A b \in survivors : FlaggedIn(b, t)
       /\ up => FlaggedIn(mem, t)
  /\ git[t] \/ work[t].pc \in {"remove", "git"} =>
       /\ \A b \in survivors : Unheld(b, t)
       /\ up => Unheld(mem, t)

FinishedIn(board, t) ==
  board[t] # NoTask /\ board[t].status = "Done" /\ ~board[t].wt /\ ~board[t].flag

\* An answer stands until the next request, and holds in memory too.
Answered(t) ==
  /\ work[t].pc # "free" => told[t] = "nothing"
  /\ told[t] = "deleted" => /\ \A b \in survivors : b[t] = NoTask
                            /\ up => mem[t] = NoTask
  /\ told[t] = "finished" => /\ \A b \in survivors : FinishedIn(b, t)
                             /\ up => FinishedIn(mem, t)

Good(t) == Leased(t) /\ Removing(t) /\ Recorded(t) /\ Answered(t)

\* The inductive invariant.
Inv ==
  /\ TypeOK
  /\ file \in survivors
  /\ MemoryFollowsFile
  /\ \A t \in Tasks : Good(t)

\* What NeverStranded asks of a step.
NoStranding ==
  \A t \in Tasks, b \in survivors' \ survivors :
    checkout[t].dir # "absent" /\ (b[t] = NoTask \/ ~b[t].wt)
      => \E old \in survivors \cup {mem} : old[t] = NoTask \/ ~old[t].wt

------------------------------------------------------------------------------
(* What the steps have in common *)

\* A durable write of task t's record, whatever its outcome.
LEMMA WriteEffect ==
  ASSUME Inv, up, up' = up, NEW t \in Tasks, NEW o \in Outcomes,
         NEW STATE r, r \in TaskRecord \cup {NoTask}, Publish([mem EXCEPT ![t] = r], o)
  PROVE  /\ mem' \in Boards /\ file' \in Boards /\ survivors' \in SUBSET Boards
         /\ unsaved' \in BOOLEAN /\ faults' \in 0 .. MaxFaults
         /\ file' \in survivors' /\ MemoryFollowsFile'
         /\ mem'[t] = IF o = "failed" THEN mem[t] ELSE r
         /\ \A b \in survivors' : b[t] = r \/ (o # "saved" /\ b \in survivors)
         /\ o = "failed" => survivors' = survivors
         /\ \A u \in Tasks \ {t} :
              /\ mem'[u] = mem[u]
              /\ \A b \in survivors' : b \in survivors \/ b[u] = mem[u]
<1> DEFINE board == [mem EXCEPT ![t] = r]
<1>1. TypeOK /\ file \in survivors /\ MemoryFollowsFile
  BY DEF Inv
<1>2. board \in Boards /\ board[t] = r /\ \A u \in Tasks \ {t} : board[u] = mem[u]
  BY <1>1 DEF TypeOK, Boards
<1>3. Publish(board, o)
  OBVIOUS
<1> HIDE DEF board
<1>4. CASE o = "saved"
  BY <1>1, <1>2, <1>3, <1>4 DEF TypeOK, Publish, Save, MemoryFollowsFile
<1>5. CASE o = "unconfirmed"
  <2>1. /\ mem' = board /\ file' = board /\ unsaved' = FALSE
        /\ survivors' = survivors \cup {board}
    BY <1>3, <1>5 DEF Publish, Save
  <2>2. faults' \in 0 .. MaxFaults
    BY <1>1, <1>3, <1>5, FaultAssumption DEF TypeOK, Publish, Save
  <2>3. MemoryFollowsFile'
    BY <2>1 DEF MemoryFollowsFile
  <2> QED
    BY <1>1, <1>2, <1>5, <2>1, <2>2, <2>3 DEF TypeOK
<1>6. CASE o = "failed"
  BY <1>1, <1>2, <1>3, <1>6, FaultAssumption DEF TypeOK, Publish, Save, MemoryFollowsFile
<1> QED
  BY <1>4, <1>5, <1>6 DEF Outcomes

\* The control state a step may touch, besides the boards.
Controls ==
  /\ work \in [Tasks -> Operations]
  /\ checkout \in [Tasks -> Checkouts]
  /\ git \in [Tasks -> BOOLEAN]
  /\ agents \in SUBSET Tasks
  /\ seen \in [Observers -> Tasks \cup {NoOne}]
  /\ told \in [Tasks -> {"nothing", "finished", "deleted"}]
  /\ attempts \in [Tasks -> Nat]

\* A step on task t leaves every other task's control state alone.
Only(t) ==
  /\ up' = up
  /\ \A u \in Tasks \ {t} :
       /\ work'[u] = work[u] /\ checkout'[u] = checkout[u] /\ git'[u] = git[u]
       /\ told'[u] = told[u]
       /\ u \in agents' => u \in agents

\* A step that writes task t's record preserves the invariant when it does so
\* for task t, and strands nothing when the checkout it forgets is gone.
LEMMA WriteStep ==
  ASSUME Inv, up, NEW t \in Tasks, NEW o \in Outcomes,
         NEW STATE r, r \in TaskRecord \cup {NoTask}, Publish([mem EXCEPT ![t] = r], o),
         Controls', Only(t), Good(t)',
         r = NoTask \/ ~r.wt => checkout[t].dir = "absent" \/ mem[t] = NoTask \/ ~mem[t].wt
  PROVE  Inv' /\ NoStranding
<1>1. up' = up /\ up' \in BOOLEAN
  BY DEF Only, Inv, TypeOK
<1>2. /\ mem' \in Boards /\ file' \in Boards /\ survivors' \in SUBSET Boards
      /\ unsaved' \in BOOLEAN /\ faults' \in 0 .. MaxFaults
      /\ file' \in survivors' /\ MemoryFollowsFile'
      /\ \A b \in survivors' : b[t] = r \/ (o # "saved" /\ b \in survivors)
      /\ \A u \in Tasks \ {t} :
           /\ mem'[u] = mem[u]
           /\ \A b \in survivors' : b \in survivors \/ b[u] = mem[u]
  BY <1>1, WriteEffect
<1>3. TypeOK'
  BY <1>1, <1>2 DEF TypeOK, Controls
<1>4. ASSUME NEW u \in Tasks \ {t} PROVE Good(u)'
  <2>1. Leased(u) /\ Removing(u) /\ Recorded(u) /\ Answered(u)
    BY DEF Inv, Good
  <2>2. Leased(u)' /\ Removing(u)'
    BY <1>2, <2>1 DEF Only, Leased, Removing
  <2>3. Recorded(u)'
    BY <1>2, <2>1 DEF Only, Recorded, FlaggedIn, Unheld
  <2>4. Answered(u)'
    BY <1>2, <2>1 DEF Only, Answered, FinishedIn
  <2> QED
    BY <2>2, <2>3, <2>4 DEF Good
<1>5. NoStranding
  BY <1>2 DEF NoStranding
<1> QED
  BY <1>2, <1>3, <1>4, <1>5 DEF Inv

\* A step that writes nothing.
LEMMA QuietStep ==
  ASSUME Inv, NEW t \in Tasks, UNCHANGED <<mem, disk, unsaved, faults>>,
         Controls', Only(t), Good(t)'
  PROVE  Inv' /\ NoStranding
<1>1. TypeOK'
  BY DEF Inv, TypeOK, Controls, Only, disk
<1>2. ASSUME NEW u \in Tasks \ {t} PROVE Good(u)'
  <2>1. Leased(u) /\ Removing(u) /\ Recorded(u) /\ Answered(u)
    BY DEF Inv, Good
  <2>2. Leased(u)' /\ Removing(u)'
    BY <2>1 DEF Only, Leased, Removing
  <2>3. Recorded(u)'
    BY <2>1 DEF Only, Recorded, FlaggedIn, Unheld, disk
  <2>4. Answered(u)'
    BY <2>1 DEF Only, Answered, FinishedIn, disk
  <2> QED
    BY <2>2, <2>3, <2>4 DEF Good
<1>3. MemoryFollowsFile' /\ (file \in survivors)'
  BY DEF Inv, MemoryFollowsFile, Only, disk
<1>4. NoStranding
  BY DEF NoStranding, disk
<1> QED
  BY <1>1, <1>2, <1>3, <1>4 DEF Inv

\* Where an operation goes next.
LEMMA Moves ==
  ASSUME TypeOK, NEW t \in Tasks, NEW pc \in Steps
  PROVE  /\ \A who \in {"user"} \cup Observers, goal \in Goals :
              Enter(t, who, goal, pc) =>
                /\ work' \in [Tasks -> Operations] /\ work'[t].pc = pc
                /\ \A u \in Tasks \ {t} : work'[u] = work[u]
         /\ work[t].pc # "free" /\ Goto(t, pc) =>
              /\ work' \in [Tasks -> Operations] /\ work'[t].pc = pc
              /\ \A u \in Tasks \ {t} : work'[u] = work[u]
         /\ Release(t) =>
              /\ work' \in [Tasks -> Operations] /\ work'[t].pc = "free"
              /\ \A u \in Tasks \ {t} : work'[u] = work[u]
BY DEF TypeOK, Enter, Goto, Release, Operations, Free

LEMMA InitInv == Init => Inv
<1> SUFFICES ASSUME Init PROVE Inv
  OBVIOUS
<1>1. mem \in Boards
  BY DEF Init, Boards, TaskRecord, Statuses
<1>2. TypeOK
  <2>1. checkout \in [Tasks -> Checkouts] /\ work \in [Tasks -> Operations]
    BY DEF Init, Checkouts, Operations
  <2>2. /\ git \in [Tasks -> BOOLEAN] /\ agents \in SUBSET Tasks
        /\ seen \in [Observers -> Tasks \cup {NoOne}]
        /\ told \in [Tasks -> {"nothing", "finished", "deleted"}]
        /\ attempts \in [Tasks -> Nat]
    BY DEF Init
  <2>3. file \in Boards /\ survivors \in SUBSET Boards
    BY <1>1 DEF Init
  <2>4. unsaved \in BOOLEAN /\ up \in BOOLEAN
    BY DEF Init
  <2>5. faults = 0
    BY DEF Init
  <2>6. faults \in 0 .. MaxFaults
    BY <2>5, FaultAssumption
  <2> QED
    BY <1>1, <2>1, <2>2, <2>3, <2>4, <2>6 DEF TypeOK
<1>3. \A t \in Tasks : Good(t)
  BY DEF Init, Good, Leased, Removing, Recorded, Answered, Free, Attaching, NoTask
<1>4. MemoryFollowsFile
  BY DEF Init, MemoryFollowsFile
<1> QED
  BY <1>2, <1>3, <1>4 DEF Inv, Init

------------------------------------------------------------------------------
(* The steps *)

\* stamp_cleanup_in_flight.
LEMMA StampStep ==
  ASSUME Inv, NEW t \in Tasks, NEW o \in Outcomes, Stamp(t, o)
  PROVE  Inv' /\ NoStranding
<1> DEFINE r == [mem[t] EXCEPT !.flag = TRUE, !.merged = @ \/ work[t].who # "user"]
<1>1. TypeOK /\ Leased(t) /\ Removing(t) /\ Recorded(t) /\ Answered(t)
  BY DEF Inv, Good
<1>2. up /\ work[t].pc = "stamp" /\ mem[t] \in TaskRecord /\ mem[t].wt
  BY <1>1 DEF Stamp, Leased, TypeOK, Boards
<1>3. /\ r \in TaskRecord /\ r # NoTask
      /\ r.wt = mem[t].wt /\ r.flag = TRUE /\ r.hold = mem[t].hold
  BY <1>2 DEF TaskRecord, NoTask, Statuses
<1>4. Publish([mem EXCEPT ![t] = r], o)
  BY DEF Stamp
<1> HIDE DEF r
<1>5. UNCHANGED <<checkout, git, agents, seen, told, attempts, up>>
  BY DEF Stamp
<1>6. /\ mem'[t] = IF o = "failed" THEN mem[t] ELSE r
      /\ \A b \in survivors' : b[t] = r \/ (o # "saved" /\ b \in survivors)
      /\ o = "failed" => survivors' = survivors
  BY <1>2, <1>3, <1>4, <1>5, WriteEffect
<1>7. /\ work' \in [Tasks -> Operations]
      /\ \A u \in Tasks \ {t} : work'[u] = work[u]
      /\ work'[t].pc = IF o = "saved" THEN "remove" ELSE "free"
  BY <1>1, <1>2, Moves DEF Stamp, Steps
<1>8. Controls' /\ Only(t)
  BY <1>1, <1>5, <1>7 DEF TypeOK, Controls, Only
<1>9. t \notin agents /\ ~git[t] /\ told[t] = "nothing"
  BY <1>1, <1>2 DEF Leased, Removing, Answered, Attaching
<1>10. Leased(t)' /\ Removing(t)' /\ Answered(t)'
  BY <1>2, <1>3, <1>5, <1>6, <1>7, <1>9 DEF Leased, Removing, Answered, Attaching
<1>11. Recorded(t)'
  BY <1>1, <1>2, <1>3, <1>5, <1>6, <1>7, <1>9 DEF Leased, Recorded, FlaggedIn, Unheld
<1> QED
  BY <1>2, <1>3, <1>4, <1>8, <1>10, <1>11, WriteStep DEF Good

\* terminalize_leased admits a task: nobody owns it, no evidence holds it.
LEMMA TerminalizeStep ==
  ASSUME Inv, NEW t \in Tasks, NEW who \in {"user"} \cup Observers, NEW goal \in Goals,
         LeaseFree(t), Settled(t), Exists(t), Terminalize(t, who, goal),
         told' = [told EXCEPT ![t] = "nothing"],
         seen' \in [Observers -> Tasks \cup {NoOne}],
         UNCHANGED <<mem, disk, unsaved, checkout, git, agents, attempts, up, faults>>
  PROVE  Inv' /\ NoStranding
<1>1. TypeOK /\ Leased(t) /\ Removing(t) /\ Recorded(t) /\ Answered(t)
  BY DEF Inv, Good
<1>2. up /\ work[t].pc = "free" /\ mem[t] # NoTask /\ mem[t] \in TaskRecord /\ ~git[t]
  BY <1>1 DEF LeaseFree, Settled, Exists, Free, TypeOK, Boards
<1>3. /\ work' \in [Tasks -> Operations]
      /\ \A u \in Tasks \ {t} : work'[u] = work[u]
      /\ work'[t].pc = IF mem[t].wt THEN "stamp" ELSE "cleaned"
  BY <1>1, Moves DEF Terminalize, Steps
<1>4. t \notin agents /\ mem[t].hold \notin {"republish", "recovery"}
  BY DEF Terminalize, TerminalizeRefused
<1>5. Controls' /\ Only(t)
  BY <1>1, <1>3 DEF TypeOK, Controls, Only
<1>6. told'[t] = "nothing"
  BY <1>1 DEF TypeOK
<1>7. checkout[t].dir = "cut" => mem[t].wt
  BY <1>1, <1>2 DEF Recorded, FlaggedIn
<1>8. Leased(t)' /\ Removing(t)' /\ Answered(t)'
  BY <1>2, <1>3, <1>4, <1>6, <1>7 DEF Leased, Removing, Answered, Attaching
<1>9. Recorded(t)'
  BY <1>1, <1>2, <1>3 DEF Recorded, FlaggedIn, Unheld, disk
<1> QED
  BY <1>5, <1>8, <1>9, QuietStep DEF Good

LEMMA AskStep ==
  ASSUME Inv, NEW t \in Tasks, NEW goal \in Goals, Ask(t, goal)
  PROVE  Inv' /\ NoStranding
<1>1. seen' \in [Observers -> Tasks \cup {NoOne}]
  BY DEF Ask, Inv, TypeOK
<1> QED
  BY <1>1, TerminalizeStep DEF Ask

\* commit: Cleaned forgets a checkout that is gone, Kept forgets nothing.
LEMMA CommitStep ==
  ASSUME Inv, NEW t \in Tasks, NEW o \in Outcomes, Commit(t, o)
  PROVE  Inv' /\ NoStranding
<1> DEFINE cleaned == work[t].pc = "cleaned"
           r == [mem[t] EXCEPT !.flag = FALSE, !.merged = @ \/ work[t].who # "user",
                               !.wt = @ /\ ~cleaned,
                               !.status = IF cleaned /\ work[t].goal = "done" THEN "Done" ELSE @]
<1>1. TypeOK /\ Leased(t) /\ Removing(t) /\ Recorded(t) /\ Answered(t)
  BY DEF Inv, Good
<1>2. up /\ work[t].pc \in {"cleaned", "kept"} /\ mem[t] \in TaskRecord
  BY <1>1 DEF Commit, Leased, TypeOK, Boards
<1>3. /\ r \in TaskRecord /\ r # NoTask
      /\ r.wt = (mem[t].wt /\ ~cleaned) /\ r.flag = FALSE
      /\ cleaned /\ work[t].goal = "done" => r.status = "Done"
  BY <1>2 DEF TaskRecord, NoTask, Statuses
<1>4. Publish([mem EXCEPT ![t] = r], o)
  BY DEF Commit
<1> HIDE DEF r
<1>5. UNCHANGED <<checkout, git, agents, seen, attempts, up>>
  BY DEF Commit
<1>6. /\ mem'[t] = IF o = "failed" THEN mem[t] ELSE r
      /\ \A b \in survivors' : b[t] = r \/ (o # "saved" /\ b \in survivors)
  BY <1>2, <1>3, <1>4, <1>5, WriteEffect
<1>7. /\ work' \in [Tasks -> Operations]
      /\ \A u \in Tasks \ {t} : work'[u] = work[u]
      /\ work'[t].pc = IF o = "saved" /\ cleaned /\ work[t].goal = "delete" THEN "erase" ELSE "free"
  BY <1>1, <1>2, Moves DEF Commit, Steps
<1>8. /\ told' = [told EXCEPT ![t] =
                    IF o = "saved" /\ cleaned /\ work[t].goal = "done" THEN "finished" ELSE @]
      /\ told' \in [Tasks -> {"nothing", "finished", "deleted"}]
  BY <1>1 DEF Commit, TypeOK
<1>9. Controls' /\ Only(t)
  BY <1>1, <1>5, <1>7, <1>8 DEF TypeOK, Controls, Only
<1>10. t \notin agents /\ ~git[t] /\ checkout[t].dir # "cut" /\ told[t] = "nothing"
  BY <1>1, <1>2 DEF Leased, Removing, Answered, Attaching
<1>11. Leased(t)' /\ Removing(t)' /\ Recorded(t)'
  BY <1>2, <1>3, <1>5, <1>6, <1>7, <1>10 DEF Leased, Removing, Recorded, Attaching
<1>12. Answered(t)'
  <2>1. CASE o = "saved" /\ cleaned /\ work[t].goal = "done"
    <3>1. told'[t] = "finished" /\ work'[t].pc = "free"
      BY <1>1, <1>7, <1>8, <2>1 DEF TypeOK
    <3>2. r # NoTask /\ r.status = "Done" /\ ~r.wt /\ ~r.flag
      BY <1>3, <2>1
    <3>3. mem'[t] = r /\ \A b \in survivors' : b[t] = r
      BY <1>6, <2>1
    <3> QED
      BY <3>1, <3>2, <3>3 DEF Answered, FinishedIn
  <2>2. CASE ~(o = "saved" /\ cleaned /\ work[t].goal = "done")
    BY <1>1, <1>8, <1>10, <2>2 DEF Answered, TypeOK
  <2> QED
    BY <2>1, <2>2
<1>13. r = NoTask \/ ~r.wt => checkout[t].dir = "absent" \/ mem[t] = NoTask \/ ~mem[t].wt
  BY <1>1, <1>3 DEF Leased
<1> QED
  BY <1>2, <1>3, <1>4, <1>9, <1>11, <1>12, <1>13, WriteStep DEF Good

\* The tail of delete.
LEMMA EraseStep ==
  ASSUME Inv, NEW t \in Tasks, NEW o \in Outcomes, Erase(t, o)
  PROVE  Inv' /\ NoStranding
<1>1. TypeOK /\ Leased(t) /\ Removing(t) /\ Recorded(t) /\ Answered(t)
  BY DEF Inv, Good
<1>2. up /\ work[t].pc = "erase" /\ Publish([mem EXCEPT ![t] = NoTask], o)
  BY DEF Erase
<1>3. UNCHANGED <<checkout, git, agents, seen, attempts, up>>
  BY DEF Erase
<1>4. /\ mem'[t] = IF o = "failed" THEN mem[t] ELSE NoTask
      /\ \A b \in survivors' : b[t] = NoTask \/ (o # "saved" /\ b \in survivors)
  BY <1>2, <1>3, WriteEffect
<1>5. /\ work' \in [Tasks -> Operations]
      /\ \A u \in Tasks \ {t} : work'[u] = work[u]
      /\ work'[t].pc = "free"
  BY <1>1, Moves DEF Erase, Steps
<1>6. /\ told' = [told EXCEPT ![t] = IF o = "saved" THEN "deleted" ELSE @]
      /\ told' \in [Tasks -> {"nothing", "finished", "deleted"}]
      /\ told'[t] = IF o = "saved" THEN "deleted" ELSE told[t]
  BY <1>1 DEF Erase, TypeOK
<1>7. Controls' /\ Only(t)
  BY <1>1, <1>3, <1>5, <1>6 DEF TypeOK, Controls, Only
<1>8. t \notin agents /\ ~git[t] /\ checkout[t].dir # "cut" /\ told[t] = "nothing"
  BY <1>1, <1>2 DEF Leased, Removing, Answered, Attaching
<1>9. Leased(t)' /\ Removing(t)' /\ Recorded(t)'
  BY <1>2, <1>3, <1>5, <1>8 DEF Leased, Removing, Recorded, Attaching
<1>10. Answered(t)'
  BY <1>4, <1>5, <1>6, <1>8 DEF Answered
<1>11. ~mem[t].wt
  BY <1>1, <1>2 DEF Leased
<1> QED
  BY <1>2, <1>7, <1>9, <1>10, <1>11, WriteStep DEF Good

------------------------------------------------------------------------------
(* WorktreeManager::remove *)

\* The steps of remove up to git's start: whatever becomes of the checkout, no
\* removal is running yet, and none is left unreported.
LEMMA RemoveStep ==
  ASSUME Inv, NEW t \in Tasks,
         RefuseRemoval(t) \/ RunGit(t) \/ RemoveMissing(t) \/ RemoveUnregistered(t)
  PROVE  Inv' /\ NoStranding
<1>1. TypeOK /\ Leased(t) /\ Removing(t) /\ Recorded(t) /\ Answered(t)
  BY DEF Inv, Good
<1>2. up /\ work[t].pc = "remove" /\ Counted(t)
  BY DEF RefuseRemoval, RunGit, RemoveMissing, RemoveUnregistered
<1>3. UNCHANGED <<mem, disk, unsaved, faults, agents, seen, told, up>>
  BY DEF RefuseRemoval, RunGit, RemoveMissing, RemoveUnregistered
<1>4. t \notin agents /\ ~git[t] /\ told[t] = "nothing" /\ mem[t] # NoTask
  BY <1>1, <1>2 DEF Leased, Removing, Answered, Attaching
<1>5. attempts' \in [Tasks -> Nat]
  <2>1. CASE work[t].who = "user"
    BY <1>1, <1>2, <2>1 DEF Counted, TypeOK
  <2>2. CASE work[t].who # "user"
    <3>1. attempts' = [attempts EXCEPT ![t] = attempts[t] + 1] /\ attempts[t] \in Nat
      BY <1>1, <1>2, <2>2 DEF Counted, TypeOK
    <3>2. attempts[t] + 1 \in Nat
      BY <3>1
    <3> QED
      BY <1>1, <3>1, <3>2 DEF TypeOK
  <2> QED
    BY <2>1, <2>2
<1>6. ASSUME NEW c \in Checkouts, checkout' = [checkout EXCEPT ![t] = c], NEW pc \in Steps,
             Goto(t, pc), git' = [git EXCEPT ![t] = (pc = "git")],
             pc \in {"git", "cleaned", "kept"},
             pc = "git" => c.reg,
             pc # "git" => c.dir # "cut",
             pc = "cleaned" => c.dir = "absent"
      PROVE  Inv' /\ NoStranding
  <2>1. /\ work' \in [Tasks -> Operations] /\ work'[t].pc = pc
        /\ \A u \in Tasks \ {t} : work'[u] = work[u]
    BY <1>1, <1>2, <1>6, Moves
  <2>2. checkout' \in [Tasks -> Checkouts] /\ checkout'[t] = c
    BY <1>1, <1>6 DEF TypeOK
  <2>3. git' \in [Tasks -> BOOLEAN] /\ git'[t] = (pc = "git")
    BY <1>1, <1>6 DEF TypeOK
  <2>4. Controls' /\ Only(t)
    BY <1>1, <1>3, <1>5, <1>6, <2>1, <2>2, <2>3 DEF TypeOK, Controls, Only
  <2>5. Leased(t)' /\ Removing(t)' /\ Answered(t)'
    BY <1>2, <1>3, <1>4, <1>6, <2>1, <2>2, <2>3 DEF Leased, Removing, Answered, Attaching
  <2>6. Recorded(t)'
    BY <1>1, <1>2, <1>3, <1>6, <2>1, <2>2, <2>3 DEF Recorded, FlaggedIn, Unheld, disk
  <2> QED
    BY <1>3, <2>4, <2>5, <2>6, QuietStep DEF Good
<1>7. checkout[t] \in Checkouts /\ git = [git EXCEPT ![t] = FALSE]
  BY <1>1, <1>4 DEF TypeOK
<1>8. CASE RefuseRemoval(t)
  <2> DEFINE c == [checkout[t] EXCEPT !.dir = IF @ = "cut" THEN "left" ELSE @]
  <2>1. c \in Checkouts /\ c.dir # "cut"
    BY <1>7 DEF Checkouts
  <2>2. checkout' = [checkout EXCEPT ![t] = c] /\ Goto(t, "kept")
    BY <1>8 DEF RefuseRemoval
  <2>3. git' = [git EXCEPT ![t] = ("kept" = "git")]
    BY <1>7, <1>8 DEF RefuseRemoval
  <2> HIDE DEF c
  <2> QED
    BY <1>6, <2>1, <2>2, <2>3 DEF Steps
<1>9. CASE RunGit(t)
  <2> DEFINE c == [checkout[t] EXCEPT !.saved = TRUE]
  <2>1. c \in Checkouts /\ c.reg
    BY <1>7, <1>9 DEF Checkouts, RunGit
  <2>2. checkout' = [checkout EXCEPT ![t] = c] /\ Goto(t, "git")
    BY <1>9 DEF RunGit
  <2>3. git' = [git EXCEPT ![t] = ("git" = "git")]
    BY <1>9 DEF RunGit
  <2> HIDE DEF c
  <2> QED
    BY <1>6, <2>1, <2>2, <2>3 DEF Steps
<1>10. CASE RemoveMissing(t)
  <2> DEFINE c == [checkout[t] EXCEPT !.reg = FALSE, !.saved = FALSE]
  <2>1. c \in Checkouts /\ c.dir = "absent"
    BY <1>7, <1>10 DEF Checkouts, RemoveMissing
  <2>2. checkout' = [checkout EXCEPT ![t] = c] /\ Goto(t, "cleaned")
    BY <1>10 DEF RemoveMissing
  <2>3. git' = [git EXCEPT ![t] = ("cleaned" = "git")]
    BY <1>7, <1>10 DEF RemoveMissing
  <2> HIDE DEF c
  <2> QED
    BY <1>6, <2>1, <2>2, <2>3 DEF Steps
<1>11. CASE RemoveUnregistered(t)
  <2>1. PICK k \in PutBack(checkout[t]) :
          checkout' = [checkout EXCEPT ![t] = [k EXCEPT !.dir = IF checkout[t].dir = "cut"
                                                    THEN "left" ELSE checkout[t].dir]]
    BY <1>11 DEF RemoveUnregistered
  <2> DEFINE c == [k EXCEPT !.dir = IF checkout[t].dir = "cut" THEN "left" ELSE checkout[t].dir]
  <2>2. k \in Checkouts
    BY <1>7 DEF PutBack, Checkouts
  <2>3. c \in Checkouts /\ c.dir # "cut"
    BY <1>7, <2>2 DEF Checkouts
  <2>4. checkout' = [checkout EXCEPT ![t] = c] /\ Goto(t, "kept")
    BY <1>11, <2>1 DEF RemoveUnregistered
  <2>5. git' = [git EXCEPT ![t] = ("kept" = "git")]
    BY <1>7, <1>11 DEF RemoveUnregistered
  <2> HIDE DEF c
  <2> QED
    BY <1>6, <2>3, <2>4, <2>5 DEF Steps
<1> QED
  BY <1>8, <1>9, <1>10, <1>11

\* git has exited and remove returns.
LEMMA RemovalReportedStep ==
  ASSUME Inv, NEW t \in Tasks, RemovalReported(t)
  PROVE  Inv' /\ NoStranding
<1>1. TypeOK /\ Leased(t) /\ Removing(t) /\ Recorded(t) /\ Answered(t)
  BY DEF Inv, Good
<1>2. up /\ work[t].pc = "git" /\ ~git[t] /\ checkout[t] \in Checkouts
  BY <1>1 DEF RemovalReported, TypeOK
<1>3. UNCHANGED <<mem, disk, unsaved, git, agents, seen, told, attempts, up, faults>>
  BY DEF RemovalReported
<1>4. \E c \in Checkouts :
        /\ checkout' = [checkout EXCEPT ![t] = c] /\ c.dir # "cut"
        /\ (c.dir = "absent" /\ Goto(t, "cleaned")) \/ Goto(t, "kept")
  <2>1. CASE checkout[t].dir = "absent"
    <3> DEFINE c == [checkout[t] EXCEPT !.saved = FALSE]
    <3>1. c \in Checkouts /\ c.dir = "absent" /\ checkout' = [checkout EXCEPT ![t] = c]
      BY <1>2, <2>1 DEF RemovalReported, Checkouts
    <3>2. Goto(t, "cleaned")
      BY <2>1 DEF RemovalReported
    <3> HIDE DEF c
    <3> QED
      BY <3>1, <3>2
  <2>2. CASE checkout[t].dir # "absent"
    <3>1. PICK k \in PutBack(checkout[t]) : checkout' = [checkout EXCEPT ![t] = k]
      BY <2>2 DEF RemovalReported
    <3>2. k \in Checkouts /\ k.dir # "cut"
      BY <1>2 DEF PutBack, Checkouts
    <3>3. Goto(t, "kept")
      BY <2>2 DEF RemovalReported
    <3> QED
      BY <3>1, <3>2, <3>3
  <2> QED
    BY <2>1, <2>2
<1>5. PICK c \in Checkouts :
        /\ checkout' = [checkout EXCEPT ![t] = c] /\ c.dir # "cut"
        /\ (c.dir = "absent" /\ Goto(t, "cleaned")) \/ Goto(t, "kept")
  BY <1>4
<1>6. /\ work' \in [Tasks -> Operations]
      /\ \A u \in Tasks \ {t} : work'[u] = work[u]
      /\ (c.dir = "absent" /\ work'[t].pc = "cleaned") \/ work'[t].pc = "kept"
  BY <1>1, <1>2, <1>5, Moves DEF Steps
<1>7. checkout' \in [Tasks -> Checkouts] /\ checkout'[t] = c
  BY <1>1, <1>5 DEF TypeOK
<1>8. Controls' /\ Only(t)
  BY <1>1, <1>3, <1>5, <1>6, <1>7 DEF TypeOK, Controls, Only
<1>9. t \notin agents /\ told[t] = "nothing" /\ mem[t] # NoTask
  BY <1>1, <1>2 DEF Leased, Answered, Attaching
<1>10. Good(t)'
  BY <1>2, <1>3, <1>5, <1>6, <1>7, <1>9 DEF Good, Leased, Removing, Recorded, Answered, Attaching
<1> QED
  BY <1>3, <1>8, <1>10, QuietStep

\* git at work, and a directory that goes without it.
LEMMA DirectoryStep ==
  ASSUME Inv, NEW t \in Tasks, GitStep(t) \/ DirectoryVanishes(t)
  PROVE  Inv' /\ NoStranding
<1>1. TypeOK /\ Leased(t) /\ Removing(t) /\ Recorded(t) /\ Answered(t)
  BY DEF Inv, Good
<1>2. UNCHANGED <<mem, disk, unsaved, work, agents, seen, told, attempts, up, faults>>
  BY DEF GitStep, GitCuts, GitEmpties, GitUnregisters, DirectoryVanishes
<1>3. checkout[t] \in Checkouts
  BY <1>1 DEF TypeOK
<1>4. ASSUME NEW c \in Checkouts, checkout' = [checkout EXCEPT ![t] = c],
             NEW g \in BOOLEAN, git' = [git EXCEPT ![t] = g],
             g => git[t] /\ c.reg,
             c.dir \in {"cut", "absent"},
             c.dir = "cut" => git[t]
      PROVE  Inv' /\ NoStranding
  <2>1. checkout' \in [Tasks -> Checkouts] /\ checkout'[t] = c
    BY <1>1, <1>4 DEF TypeOK
  <2>2. git' \in [Tasks -> BOOLEAN] /\ git'[t] = g
    BY <1>1, <1>4 DEF TypeOK
  <2>3. Controls' /\ Only(t)
    BY <1>1, <1>2, <1>4, <2>1, <2>2 DEF TypeOK, Controls, Only
  <2>4. Leased(t)' /\ Removing(t)' /\ Answered(t)'
    BY <1>1, <1>2, <1>4, <2>1, <2>2
    DEF Leased, Removing, Answered, FinishedIn, Attaching, disk
  <2>5. Recorded(t)'
    BY <1>1, <1>2, <1>4, <2>1, <2>2 DEF Recorded, FlaggedIn, Unheld, disk
  <2> QED
    BY <1>2, <2>3, <2>4, <2>5, QuietStep DEF Good
<1>5. git[t] \in BOOLEAN /\ git = [git EXCEPT ![t] = git[t]]
  BY <1>1 DEF TypeOK
<1>6. CASE GitCuts(t)
  <2> DEFINE c == [checkout[t] EXCEPT !.dir = "cut"]
  <2>1. c \in Checkouts /\ c.dir = "cut" /\ c.reg = checkout[t].reg
    BY <1>3 DEF Checkouts
  <2>2. checkout' = [checkout EXCEPT ![t] = c] /\ git' = git /\ git[t] /\ checkout[t].reg
    BY <1>1, <1>6 DEF GitCuts, Removing
  <2> HIDE DEF c
  <2> QED
    BY <1>4, <1>5, <2>1, <2>2
<1>7. CASE GitEmpties(t) \/ DirectoryVanishes(t)
  <2> DEFINE c == [checkout[t] EXCEPT !.dir = "absent"]
  <2>1. c \in Checkouts /\ c.dir = "absent" /\ c.reg = checkout[t].reg
    BY <1>3 DEF Checkouts
  <2>2. checkout' = [checkout EXCEPT ![t] = c] /\ git' = git
    BY <1>7 DEF GitEmpties, DirectoryVanishes
  <2>3. git[t] => checkout[t].reg
    BY <1>1 DEF Removing
  <2> HIDE DEF c
  <2> QED
    BY <1>4, <1>5, <2>1, <2>2, <2>3
<1>8. CASE GitUnregisters(t)
  <2> DEFINE c == [checkout[t] EXCEPT !.reg = FALSE]
  <2>1. c \in Checkouts /\ c.dir = checkout[t].dir
    BY <1>3 DEF Checkouts
  <2>2. /\ checkout' = [checkout EXCEPT ![t] = c] /\ git' = [git EXCEPT ![t] = FALSE]
        /\ git[t] /\ checkout[t].dir \in {"cut", "absent"}
    BY <1>8 DEF GitUnregisters
  <2> HIDE DEF c
  <2> QED
    BY <1>4, <2>1, <2>2
<1> QED
  BY <1>6, <1>7, <1>8 DEF GitStep

------------------------------------------------------------------------------
(* Checkouts and their owners *)

LEMMA BeginAttachStep ==
  ASSUME Inv, NEW t \in Tasks, NEW goal \in Goals, BeginAttach(t, goal)
  PROVE  Inv' /\ NoStranding
<1>1. TypeOK /\ Leased(t) /\ Removing(t) /\ Recorded(t) /\ Answered(t)
  BY DEF Inv, Good
<1>2. up /\ work[t].pc = "free" /\ mem[t] # NoTask /\ ~git[t] /\ ~mem[t].flag
  BY DEF BeginAttach, LeaseFree, Settled, Exists, Free
<1>3. UNCHANGED <<mem, disk, unsaved, checkout, git, agents, seen, attempts, up, faults>>
  BY DEF BeginAttach
<1>4. /\ work' \in [Tasks -> Operations] /\ work'[t].pc = "acquire"
      /\ \A u \in Tasks \ {t} : work'[u] = work[u]
  BY <1>1, Moves DEF BeginAttach, Steps
<1>5. /\ told' = [told EXCEPT ![t] = "nothing"] /\ told'[t] = "nothing"
      /\ told' \in [Tasks -> {"nothing", "finished", "deleted"}]
  BY <1>1 DEF BeginAttach, TypeOK
<1>6. Controls' /\ Only(t)
  BY <1>1, <1>3, <1>4, <1>5 DEF TypeOK, Controls, Only
<1>7. checkout[t].dir # "cut"
  BY <1>1, <1>2 DEF Recorded, FlaggedIn
<1>8. Good(t)'
  BY <1>2, <1>3, <1>4, <1>5, <1>7
  DEF Good, Leased, Removing, Recorded, Answered, Attaching
<1> QED
  BY <1>3, <1>6, <1>8, QuietStep

\* acquire_task_worktree.
LEMMA AcquireStep ==
  ASSUME Inv, NEW t \in Tasks, Acquire(t)
  PROVE  Inv' /\ NoStranding
<1>1. TypeOK /\ Leased(t) /\ Removing(t) /\ Recorded(t) /\ Answered(t)
  BY DEF Inv, Good
<1>2. up /\ work[t].pc = "acquire" /\ checkout[t] \in Checkouts
  BY <1>1 DEF Acquire, TypeOK
<1>3. UNCHANGED <<mem, disk, unsaved, git, agents, seen, told, attempts, up, faults>>
  BY DEF Acquire
<1>4. /\ mem[t] # NoTask /\ ~mem[t].flag /\ ~git[t] /\ checkout[t].dir # "cut"
      /\ told[t] = "nothing"
  BY <1>1, <1>2 DEF Leased, Removing, Answered, Attaching
<1>5. /\ work' \in [Tasks -> Operations]
      /\ \A u \in Tasks \ {t} : work'[u] = work[u]
      /\ work'[t].pc \in {"found", "created", "free"}
  BY <1>1, <1>2, Moves DEF Acquire, Steps
<1>6. /\ checkout' \in [Tasks -> Checkouts] /\ checkout'[t].dir # "cut"
      /\ \A u \in Tasks \ {t} : checkout'[u] = checkout[u]
  <2>1. CASE UNCHANGED checkout
    BY <1>1, <1>4, <2>1 DEF TypeOK
  <2>2. CASE checkout' = [checkout EXCEPT ![t].dir = "whole", ![t].reg = TRUE]
    BY <1>1, <1>2, <2>2 DEF TypeOK, Checkouts
  <2> QED
    BY <2>1, <2>2 DEF Acquire
<1>7. Controls' /\ Only(t)
  BY <1>1, <1>3, <1>5, <1>6 DEF TypeOK, Controls, Only
<1>8. Good(t)'
  BY <1>1, <1>2, <1>3, <1>4, <1>5, <1>6
  DEF Good, Leased, Removing, Recorded, Answered, Attaching
<1> QED
  BY <1>3, <1>7, <1>8, QuietStep

\* The record that names the checkout; only a confirmed one starts an agent.
LEMMA RecordCheckoutStep ==
  ASSUME Inv, NEW t \in Tasks, NEW o \in Outcomes, RecordCheckout(t, o)
  PROVE  Inv' /\ NoStranding
<1> DEFINE r == [mem[t] EXCEPT !.wt = TRUE]
<1>1. TypeOK /\ Leased(t) /\ Removing(t) /\ Recorded(t) /\ Answered(t)
  BY DEF Inv, Good
<1>2. /\ up /\ work[t].pc \in {"created", "found"} /\ mem[t] \in TaskRecord
      /\ checkout[t] \in Checkouts
  BY <1>1 DEF RecordCheckout, Leased, TypeOK, Boards
<1>3. r \in TaskRecord /\ r # NoTask /\ r.wt = TRUE /\ r.flag = mem[t].flag
  BY <1>2 DEF TaskRecord, NoTask, Statuses
<1>4. Publish([mem EXCEPT ![t] = r], o)
  BY DEF RecordCheckout
<1> HIDE DEF r
<1>5. UNCHANGED <<git, seen, told, attempts, up>>
  BY DEF RecordCheckout
<1>6. mem'[t] = IF o = "failed" THEN mem[t] ELSE r
  BY <1>2, <1>3, <1>4, <1>5, WriteEffect
<1>7. /\ work' \in [Tasks -> Operations] /\ work'[t].pc = "free"
      /\ \A u \in Tasks \ {t} : work'[u] = work[u]
  BY <1>1, Moves DEF RecordCheckout, Steps
<1>8. /\ mem[t] # NoTask /\ ~mem[t].flag /\ ~git[t] /\ checkout[t].dir # "cut"
      /\ told[t] = "nothing"
  BY <1>1, <1>2 DEF Leased, Removing, Answered, Attaching
<1>9. /\ checkout' \in [Tasks -> Checkouts] /\ checkout'[t].dir # "cut"
      /\ \A u \in Tasks \ {t} : checkout'[u] = checkout[u]
  <2>1. CASE UNCHANGED checkout
    BY <1>1, <1>8, <2>1 DEF TypeOK
  <2>2. CASE checkout' = [checkout EXCEPT ![t].dir = "absent", ![t].reg = FALSE]
    BY <1>1, <1>2, <2>2 DEF TypeOK, Checkouts
  <2> QED
    BY <2>1, <2>2 DEF RecordCheckout
<1>10. agents' \in SUBSET Tasks /\ \A u \in Tasks \ {t} : u \in agents' => u \in agents
  BY <1>1 DEF RecordCheckout, TypeOK
<1>11. Controls' /\ Only(t)
  BY <1>1, <1>5, <1>7, <1>9, <1>10 DEF TypeOK, Controls, Only
<1>12. Good(t)'
  BY <1>2, <1>3, <1>5, <1>6, <1>7, <1>8, <1>9
  DEF Good, Leased, Removing, Recorded, Answered, Attaching
<1> QED
  BY <1>2, <1>3, <1>4, <1>11, <1>12, WriteStep

LEMMA AgentEndsStep ==
  ASSUME Inv, NEW t \in Tasks, AgentEnds(t)
  PROVE  Inv' /\ NoStranding
<1>1. TypeOK /\ Leased(t) /\ Removing(t) /\ Recorded(t) /\ Answered(t)
  BY DEF Inv, Good
<1>2. UNCHANGED <<mem, disk, unsaved, work, checkout, git, seen, told, attempts, up, faults>>
  BY DEF AgentEnds
<1>3. agents' = agents \ {t}
  BY DEF AgentEnds
<1>4. Controls' /\ Only(t)
  BY <1>1, <1>2, <1>3 DEF TypeOK, Controls, Only
<1>5. Good(t)'
  BY <1>1, <1>2, <1>3
  DEF Good, Leased, Removing, Recorded, Answered, FlaggedIn, Unheld, FinishedIn, Attaching, disk
<1> QED
  BY <1>2, <1>4, <1>5, QuietStep

\* A write under a free lease that leaves the path and the flag alone: a status,
\* evidence that begins or ends, a merge.
LEMMA FreeWriteStep ==
  ASSUME Inv, NEW t \in Tasks, NEW o \in Outcomes, LeaseFree(t), Exists(t),
         NEW STATE r, r \in TaskRecord, Publish([mem EXCEPT ![t] = r], o),
         r.wt = mem[t].wt, r.flag = mem[t].flag,
         git[t] => r.hold = mem[t].hold,
         told' \in {told, [told EXCEPT ![t] = "nothing"]},
         told'[t] # "nothing" => told' = told /\ r.status = mem[t].status,
         agents' \in {agents, agents \ {t}},
         seen' \in [Observers -> Tasks \cup {NoOne}],
         UNCHANGED <<work, checkout, git, attempts, up>>
  PROVE  Inv' /\ NoStranding
<1>1. TypeOK /\ Leased(t) /\ Removing(t) /\ Recorded(t) /\ Answered(t)
  BY DEF Inv, Good
<1>2. up /\ work[t].pc = "free" /\ mem[t] # NoTask /\ r # NoTask
  BY DEF LeaseFree, Exists, Free, TaskRecord, NoTask, Statuses
<1>3. /\ mem'[t] = IF o = "failed" THEN mem[t] ELSE r
      /\ \A b \in survivors' : b[t] = r \/ (o # "saved" /\ b \in survivors)
  BY <1>2, WriteEffect
<1>4. Controls' /\ Only(t)
  BY <1>1 DEF TypeOK, Controls, Only
<1>5. Leased(t)' /\ Removing(t)'
  BY <1>1, <1>2, <1>3 DEF Leased, Removing, Attaching
<1>6. Recorded(t)'
  BY <1>1, <1>2, <1>3 DEF Recorded, FlaggedIn, Unheld
<1>7. Answered(t)'
  <2>1. CASE told'[t] = "nothing"
    BY <2>1 DEF Answered
  <2>2. CASE told'[t] # "nothing"
    <3>1. told' = told
      BY <1>1, <2>2 DEF TypeOK
    <3> QED
      BY <1>1, <1>2, <1>3, <3>1 DEF Answered, FinishedIn
  <2> QED
    BY <2>1, <2>2
<1> QED
  BY <1>2, <1>4, <1>5, <1>6, <1>7, WriteStep DEF Good

\* set_task_status to any column but Done.
LEMMA SetStatusStep ==
  ASSUME Inv, NEW t \in Tasks, NEW st \in Statuses, NEW o \in Outcomes, SetStatus(t, st, o)
  PROVE  Inv' /\ NoStranding
<1> DEFINE r == [mem[t] EXCEPT !.status = st]
<1>1. mem[t] \in TaskRecord /\ told \in [Tasks -> {"nothing", "finished", "deleted"}]
  BY DEF Inv, TypeOK, Boards, SetStatus, Exists
<1>2. /\ r \in TaskRecord /\ r.wt = mem[t].wt /\ r.flag = mem[t].flag
      /\ r.hold = mem[t].hold
  BY <1>1 DEF TaskRecord
<1>3. Publish([mem EXCEPT ![t] = r], o)
  BY DEF SetStatus
<1>4. LeaseFree(t) /\ Exists(t) /\ UNCHANGED <<work, checkout, git, seen, attempts, up>>
  BY DEF SetStatus
<1>5. told' = [told EXCEPT ![t] = "nothing"] /\ agents' = agents \ {t}
  BY DEF SetStatus
<1>6. seen' \in [Observers -> Tasks \cup {NoOne}]
  BY <1>4 DEF Inv, TypeOK
<1>7. told'[t] = "nothing"
  BY <1>1, <1>5
<1> HIDE DEF r
<1> QED
  BY <1>2, <1>3, <1>4, <1>5, <1>6, <1>7, FreeWriteStep

LEMMA SetEvidenceStep ==
  ASSUME Inv, NEW t \in Tasks, NEW h \in Evidence \cup {"none"}, NEW o \in Outcomes,
         SetEvidence(t, h, o)
  PROVE  Inv' /\ NoStranding
<1> DEFINE r == [mem[t] EXCEPT !.hold = h]
<1>1. mem[t] \in TaskRecord
  BY DEF Inv, TypeOK, Boards, SetEvidence, Exists
<1>2. /\ r \in TaskRecord /\ r.wt = mem[t].wt /\ r.flag = mem[t].flag
      /\ r.status = mem[t].status
  BY <1>1 DEF TaskRecord
<1>3. Publish([mem EXCEPT ![t] = r], o)
  BY DEF SetEvidence
<1>4. /\ LeaseFree(t) /\ Exists(t) /\ ~git[t]
      /\ UNCHANGED <<work, checkout, git, agents, seen, told, attempts, up>>
  BY DEF SetEvidence, Settled
<1>5. seen' \in [Observers -> Tasks \cup {NoOne}]
  BY <1>4 DEF Inv, TypeOK
<1> HIDE DEF r
<1> QED
  BY <1>2, <1>3, <1>4, <1>5, FreeWriteStep

------------------------------------------------------------------------------
(* Merged pull requests *)

LEMMA LatchMergeStep ==
  ASSUME Inv, NEW p \in Observers, NEW o \in Outcomes, LatchMerge(p, o)
  PROVE  Inv' /\ NoStranding
<1> DEFINE t == seen[p]
           r == [mem[t] EXCEPT !.merged = TRUE]
<1>1. t \in Tasks /\ mem[t] \in TaskRecord /\ mem[t] # NoTask
  BY DEF Inv, TypeOK, Boards, LatchMerge, InPrLifecycle
<1>2. /\ r \in TaskRecord /\ r.wt = mem[t].wt /\ r.flag = mem[t].flag
      /\ r.status = mem[t].status /\ r.hold = mem[t].hold
  BY <1>1 DEF TaskRecord
<1>3. Publish([mem EXCEPT ![t] = r], o)
  BY DEF LatchMerge
<1>4. /\ LeaseFree(t) /\ Exists(t)
      /\ UNCHANGED <<work, checkout, git, agents, told, attempts, up>>
  BY <1>1 DEF LatchMerge, Exists
<1>5. seen' \in [Observers -> Tasks \cup {NoOne}]
  BY DEF LatchMerge, Inv, TypeOK
<1> HIDE DEF r, t
<1> QED
  BY <1>1, <1>2, <1>3, <1>4, <1>5, FreeWriteStep

LEMMA CompleteMergedStep ==
  ASSUME Inv, NEW p \in Observers, CompleteMerged(p)
  PROVE  Inv' /\ NoStranding
<1>1. seen[p] \in Tasks /\ Exists(seen[p])
  BY DEF Inv, TypeOK, CompleteMerged, InPrLifecycle, Exists
<1>2. seen' \in [Observers -> Tasks \cup {NoOne}]
  BY DEF CompleteMerged, Inv, TypeOK
<1>3. "done" \in Goals
  BY DEF Goals
<1> QED
  BY <1>1, <1>2, <1>3, TerminalizeStep DEF CompleteMerged

\* An observer that decides, or declines, moves nothing but its own decision.
LEMMA SeenStep ==
  ASSUME Inv, NEW p \in Observers, Decline(p) \/ \E t \in Tasks : Observe(p, t)
  PROVE  Inv' /\ NoStranding
<1>1. UNCHANGED <<mem, file, survivors, unsaved, work, checkout, git, agents, told, attempts,
                  up, faults>>
  BY DEF Decline, Observe, disk
<1>2. seen' \in [Observers -> Tasks \cup {NoOne}]
  BY DEF Decline, Observe, Inv, TypeOK
<1>3. TypeOK'
  BY <1>1, <1>2 DEF Inv, TypeOK
<1>4. \A t \in Tasks : Good(t)'
  BY <1>1
  DEF Inv, Good, Leased, Removing, Recorded, Answered, FlaggedIn, Unheld, FinishedIn
<1>5. MemoryFollowsFile' /\ (file \in survivors)' /\ NoStranding
  BY <1>1 DEF Inv, MemoryFollowsFile, NoStranding
<1> QED
  BY <1>3, <1>4, <1>5 DEF Inv

------------------------------------------------------------------------------
(* Crashes and the next start *)

\* Nothing that stops the process adds a board, and what it leaves half done was
\* on record before it began.
LEMMA StopStep ==
  ASSUME Inv, Crash \/ PowerLoss
  PROVE  Inv' /\ NoStranding
<1>1. /\ up' = FALSE /\ work' = [t \in Tasks |-> Free] /\ agents' = {}
      /\ seen' = [p \in Observers |-> NoOne]
      /\ UNCHANGED <<mem, unsaved, checkout, told, attempts>>
  BY DEF Crash, PowerLoss, disk
<1>2. faults' \in 0 .. MaxFaults
  <2>1. faults \in 0 .. MaxFaults
    BY DEF Inv, TypeOK
  <2>2. faults < MaxFaults /\ faults' = faults + 1
    BY DEF Crash, PowerLoss
  <2> QED
    BY <2>1, <2>2, FaultAssumption
<1>3. file' \in survivors' /\ survivors' \subseteq survivors
  BY DEF Crash, PowerLoss, disk, Inv
<1>4. git' \in [Tasks -> BOOLEAN] /\ \A t \in Tasks : git'[t] => git[t]
  <2>1. CASE Crash
    <3>1. PICK dies \in SUBSET Tasks : git' = [t \in Tasks |-> git[t] /\ t \notin dies]
      BY <2>1 DEF Crash
    <3> QED
      BY <3>1
  <2>2. CASE PowerLoss
    BY <2>2 DEF PowerLoss
  <2> QED
    BY <2>1, <2>2
<1>5. TypeOK'
  <2>1. work' \in [Tasks -> Operations]
    BY <1>1 DEF Operations
  <2> QED
    BY <1>1, <1>2, <1>3, <1>4, <2>1 DEF Inv, TypeOK
<1>6. ASSUME NEW t \in Tasks PROVE Good(t)'
  <2>1. Removing(t) /\ Recorded(t) /\ Answered(t)
    BY DEF Inv, Good
  <2>2. work'[t].pc = "free"
    BY <1>1 DEF Free
  <2>3. Leased(t)' /\ Removing(t)'
    BY <1>1, <1>4, <2>1, <2>2 DEF Leased, Removing, Attaching
  <2>4. Recorded(t)'
    BY <1>1, <1>3, <1>4, <2>1, <2>2 DEF Recorded
  <2>5. Answered(t)'
    BY <1>1, <1>3, <2>1, <2>2 DEF Answered
  <2> QED
    BY <2>3, <2>4, <2>5 DEF Good
<1>7. MemoryFollowsFile' /\ NoStranding
  BY <1>1, <1>3 DEF MemoryFollowsFile, NoStranding
<1> QED
  BY <1>3, <1>5, <1>6, <1>7 DEF Inv

\* What the reconciliation of one task may change, and on what evidence.
LEMMA ReconciledEffect ==
  ASSUME NEW r \in TaskRecord \cup {NoTask}, NEW c \in Checkouts, NEW answers \in BOOLEAN,
         NEW q, q = Reconciled(r, c, answers)
  PROVE  /\ q \in TaskRecord \cup {NoTask} /\ (q = NoTask <=> r = NoTask)
         /\ q.hold = r.hold /\ q.status = r.status
         /\ q.flag => r.flag
         /\ q.wt => r.wt
         /\ r.wt /\ ~q.wt => c.dir = "absent"
         /\ r.wt /\ r.flag /\ ~(q.wt /\ q.flag) => c.dir = "absent" /\ ~c.reg
<1>1. CASE r = NoTask
  BY <1>1 DEF Reconciled, NoTask
<1>2. CASE r \in TaskRecord /\ r # NoTask
  BY <1>2 DEF Reconciled, TaskRecord, NoTask, Statuses
<1> QED
  BY <1>1, <1>2

LEMMA StartupStep ==
  ASSUME Inv, NEW o \in Outcomes, Startup(o)
  PROVE  Inv' /\ NoStranding
<1>1. TypeOK /\ file \in survivors
  BY DEF Inv
<1>2. PICK answers \in BOOLEAN :
        LET board == [t \in Tasks |-> Reconciled(file[t], checkout[t], answers)]
        IN Save(board, o) /\ mem' = board /\ unsaved' = (o = "failed")
  BY DEF Startup
<1> DEFINE board == [t \in Tasks |-> Reconciled(file[t], checkout[t], answers)]
<1>3. Save(board, o) /\ mem' = board /\ unsaved' = (o = "failed")
  BY <1>2
<1>4. ~up /\ up' = TRUE /\ UNCHANGED <<work, checkout, git, agents, seen, told, attempts>>
  BY DEF Startup
<1>5. \A t \in Tasks : board[t] = Reconciled(file[t], checkout[t], answers)
  OBVIOUS
<1>6. ASSUME NEW t \in Tasks
      PROVE  /\ board[t] \in TaskRecord \cup {NoTask} /\ (board[t] = NoTask <=> file[t] = NoTask)
             /\ board[t].hold = file[t].hold /\ board[t].status = file[t].status
             /\ board[t].flag => file[t].flag
             /\ board[t].wt => file[t].wt
             /\ file[t].wt /\ ~board[t].wt => checkout[t].dir = "absent"
             /\ file[t].wt /\ file[t].flag /\ ~(board[t].wt /\ board[t].flag)
                  => checkout[t].dir = "absent" /\ ~checkout[t].reg
  <2>1. file[t] \in TaskRecord \cup {NoTask} /\ checkout[t] \in Checkouts
    BY <1>1 DEF TypeOK, Boards
  <2> HIDE DEF board
  <2> QED
    BY <1>5, <2>1, ReconciledEffect
<1>7. board \in Boards
  BY <1>6 DEF Boards
<1> HIDE DEF board
<1>8. /\ file' \in survivors' /\ survivors' \in SUBSET Boards /\ file' \in Boards
      /\ \A b \in survivors' : b = board \/ b \in survivors
      /\ file' = IF o = "failed" THEN file ELSE board
  <2>1. CASE o = "saved"
    BY <1>1, <1>3, <1>7, <2>1 DEF Save, TypeOK
  <2>2. CASE o = "unconfirmed"
    <3>1. file' = board /\ survivors' = survivors \cup {board}
      BY <1>3, <2>2 DEF Save
    <3> QED
      BY <1>1, <1>7, <2>2, <3>1 DEF TypeOK
  <2>3. CASE o = "failed"
    BY <1>1, <1>3, <2>3 DEF Save, TypeOK
  <2> QED
    BY <2>1, <2>2, <2>3 DEF Outcomes
<1>9. faults' \in 0 .. MaxFaults
  <2>1. CASE o = "saved"
    BY <1>1, <1>3, <2>1 DEF Save, TypeOK
  <2>2. CASE o # "saved"
    BY <1>1, <1>3, <2>2, FaultAssumption DEF Save, TypeOK
  <2> QED
    BY <2>1, <2>2
<1>10. TypeOK'
  BY <1>1, <1>3, <1>4, <1>7, <1>8, <1>9 DEF TypeOK
<1>11. ASSUME NEW t \in Tasks PROVE Good(t)'
  <2>1. Leased(t) /\ Removing(t) /\ Recorded(t) /\ Answered(t)
    BY DEF Inv, Good
  <2>2. work[t].pc = "free" /\ t \notin agents
    BY <1>4, <2>1 DEF Leased
  <2>3. Leased(t)' /\ Removing(t)'
    BY <1>4, <2>1, <2>2 DEF Leased, Removing, Attaching
  <2>4. git[t] \/ checkout[t].dir = "cut" => FlaggedIn(board, t)
    <3>1. git[t] \/ checkout[t].dir = "cut" =>
            /\ file[t] # NoTask /\ file[t].wt /\ file[t].flag
            /\ checkout[t].dir # "absent" \/ git[t]
      BY <1>1, <2>1 DEF Recorded, FlaggedIn
    <3>2. git[t] => checkout[t].reg
      BY <2>1 DEF Removing
    <3> QED
      BY <1>6, <3>1, <3>2 DEF FlaggedIn
  <2>5. git[t] => Unheld(board, t)
    BY <1>1, <1>6, <2>1 DEF Recorded, Unheld
  <2>6. Recorded(t)'
    BY <1>3, <1>4, <1>8, <2>1, <2>2, <2>4, <2>5 DEF Recorded, FlaggedIn, Unheld
  <2>7. /\ told[t] = "deleted" => board[t] = NoTask
        /\ told[t] = "finished" => FinishedIn(board, t)
    BY <1>1, <1>6, <2>1 DEF Answered, FinishedIn
  <2>8. Answered(t)'
    BY <1>3, <1>4, <1>8, <2>1, <2>2, <2>7 DEF Answered, FinishedIn
  <2> QED
    BY <2>3, <2>6, <2>8 DEF Good
<1>12. MemoryFollowsFile'
  <2>1. CASE o = "failed"
    BY <1>3, <1>6, <1>8, <2>1 DEF MemoryFollowsFile
  <2>2. CASE o # "failed"
    BY <1>3, <1>8, <2>2 DEF MemoryFollowsFile
  <2> QED
    BY <2>1, <2>2
<1>13. NoStranding
  BY <1>1, <1>6, <1>8 DEF NoStranding
<1> QED
  BY <1>8, <1>10, <1>11, <1>12, <1>13 DEF Inv

------------------------------------------------------------------------------
(* The theorems *)

LEMMA NextInv ==
  ASSUME Inv, [Next]_vars
  PROVE  Inv' /\ (NoStranding \/ UNCHANGED vars)
<1>1. CASE UNCHANGED vars
  <2>1. UNCHANGED <<mem, file, survivors, unsaved, work, checkout, git, agents, seen, told,
                    attempts, up, faults>>
    BY <1>1 DEF vars
  <2>2. TypeOK' /\ MemoryFollowsFile' /\ (file \in survivors)'
    BY <2>1 DEF Inv, TypeOK, MemoryFollowsFile
  <2>3. \A t \in Tasks : Good(t)'
    BY <2>1
    DEF Inv, Good, Leased, Removing, Recorded, Answered, FlaggedIn, Unheld, FinishedIn
  <2> QED
    BY <1>1, <2>2, <2>3 DEF Inv
<1>2. ASSUME NEW t \in Tasks, Operation(t) PROVE Inv' /\ NoStranding
  BY <1>2, AskStep, BeginAttachStep, StampStep, CommitStep, EraseStep, RecordCheckoutStep,
     RemoveStep, RemovalReportedStep, AcquireStep, AgentEndsStep, SetStatusStep, SetEvidenceStep
  DEF Operation
<1>3. ASSUME NEW p \in Observers, Observer(p) PROVE Inv' /\ NoStranding
  BY <1>3, SeenStep, CompleteMergedStep, LatchMergeStep DEF Observer
<1>4. ASSUME Next PROVE Inv' /\ NoStranding
  BY <1>2, <1>3, <1>4, DirectoryStep, StopStep, StartupStep DEF Next
<1> QED
  BY <1>1, <1>4

\* The invariant holds in every reachable state of the code the model describes.
THEOREM Invariance == Spec => []Inv
<1>1. Inv /\ [Next]_vars => Inv'
  BY NextInv
<1> QED
  BY <1>1, InitInv, PTL DEF Spec

\* Every variable keeps its type through every operation, fault and restart.
THEOREM TypeCorrect == Spec => []TypeOK
<1>1. Inv => TypeOK
  BY DEF Inv
<1> QED
  BY <1>1, Invariance, PTL

\* stamp_cleanup_in_flight before remove: whatever stops the process or the
\* machine, a checkout a removal was taking apart is flagged in every board the
\* next start may read.
THEOREM DurableBeforeDestructive == Spec => []InterruptedIsFlagged
<1>1. Inv => InterruptedIsFlagged
  BY DEF Inv, Good, Recorded, InterruptedIsFlagged
<1> QED
  BY <1>1, Invariance, PTL

\* terminalize_leased and create_worktree exclude each other through the lease
\* and the flag: no agent owns a checkout a removal is at.
THEOREM AgentsExcludeRemovals == Spec => []AgentOutOfRemoval
<1>1. Inv => AgentOutOfRemoval
  <2> SUFFICES ASSUME Inv, NEW t \in agents
               PROVE  ~git[t] /\ checkout[t].dir # "cut" /\ mem[t] # NoTask /\ ~mem[t].flag
    BY DEF AgentOutOfRemoval
  <2>1. t \in Tasks /\ Leased(t) /\ Recorded(t)
    BY DEF Inv, Good, TypeOK
  <2> QED
    BY <2>1 DEF Leased, Recorded, FlaggedIn
<1> QED
  BY <1>1, Invariance, PTL

\* commit and delete answer only for what is confirmed: no power loss takes back
\* a Done or a deletion the user was told of.
THEOREM AnswersSurvive == Spec => []AnswersAreDurable
<1>1. Inv => AnswersAreDurable
  BY DEF Inv, Good, Answered, FinishedIn, AnswersAreDurable
<1> QED
  BY <1>1, Invariance, PTL

\* publish_typed adopts exactly what the file holds, so no sibling's save undoes
\* a write or brings a deleted task back.
THEOREM NoDrift == Spec => []MemoryFollowsFile
<1>1. Inv => MemoryFollowsFile
  BY DEF Inv
<1> QED
  BY <1>1, Invariance, PTL

\* No removal runs on a checkout a pending restack or an interrupted Worker needs.
THEOREM EvidenceIsKept == Spec => []EvidenceKeepsCheckout
<1>1. Inv => EvidenceKeepsCheckout
  BY DEF Inv, Good, Recorded, Unheld, EvidenceKeepsCheckout
<1> QED
  BY <1>1, Invariance, PTL

\* No write forgets a checkout that is still there.
THEOREM NothingStranded == Spec => NeverStranded
<1>1. Inv /\ [Next]_vars => Inv' /\ [NoStranding]_vars
  BY NextInv
<1>2. Spec => [][NoStranding]_vars
  BY <1>1, Invariance, PTL DEF Spec
<1> QED
  BY <1>2, PTL DEF NeverStranded, NoStranding
------------------------------------------------------------------------------
(* Automatic removals *)

\* A record that no longer asks an observer for anything: merged, or gone.
Closed(r) == r = NoTask \/ r.merged

\* The merge is on record wherever it could be read again.
Latched(t) ==
  /\ \A b \in survivors : Closed(b[t])
  /\ up => Closed(mem[t])

Removable == {"stamp", "remove"}

\* The observers that may still start a removal of the task: those that have
\* decided to, and the one whose removal has not begun.
Pending(t) ==
  {p \in Observers : seen[p] = t \/ (work[t].who = p /\ work[t].pc \in Removable)}

\* The first removal waits for the merge to be on record; every later one uses
\* up a decision made before it was.
Spent(t) ==
  /\ attempts[t] > 0 => Latched(t)
  /\ work[t].who # "user" /\ work[t].pc = "remove" => Latched(t)
  /\ attempts[t] = 0 \/ attempts[t] + Cardinality(Pending(t)) <= Cardinality(Observers)

\* An observer's decision is taken up by one operation at a time.
OneAnswer == \A p \in Observers : seen[p] # NoOne => \A u \in Tasks : work[u].who # p

\* The second inductive invariant, on top of Inv.
Spending == OneAnswer /\ \A t \in Tasks : Spent(t)

\* No write takes a recorded merge back.
LEMMA LatchWritten ==
  ASSUME Inv, up, up' = up, NEW t \in Tasks, NEW o \in Outcomes,
         NEW STATE r, r \in TaskRecord \cup {NoTask}, Publish([mem EXCEPT ![t] = r], o),
         Closed(mem[t]) => Closed(r), NEW u \in Tasks, Latched(u)
  PROVE  Latched(u)'
<1>1. /\ mem'[t] = IF o = "failed" THEN mem[t] ELSE r
      /\ \A b \in survivors' : b[t] = r \/ b \in survivors
      /\ \A v \in Tasks \ {t} :
           /\ mem'[v] = mem[v]
           /\ \A b \in survivors' : b \in survivors \/ b[v] = mem[v]
  BY WriteEffect
<1>2. Closed(mem[u]) /\ \A b \in survivors : Closed(b[u])
  BY DEF Latched
<1>3. CASE u = t
  <2>1. Closed(r)
    BY <1>2, <1>3
  <2>2. mem'[u] = mem[u] \/ mem'[u] = r
    BY <1>1, <1>3
  <2>3. Closed(mem'[u])
    BY <1>2, <2>1, <2>2
  <2>4. \A b \in survivors' : Closed(b[u])
    BY <1>1, <1>2, <1>3, <2>1
  <2> QED
    BY <2>3, <2>4 DEF Latched, Closed
<1>4. CASE u # t
  <2>1. Closed(mem'[u]) /\ \A b \in survivors' : Closed(b[u])
    BY <1>1, <1>2, <1>4
  <2> QED
    BY <2>1 DEF Latched, Closed
<1> QED
  BY <1>3, <1>4

LEMMA LatchQuiet ==
  ASSUME UNCHANGED <<mem, survivors, up>>, NEW u \in Tasks, Latched(u)
  PROVE  Latched(u)'
BY DEF Latched, Closed

\* How an operation's step moves the lease: it never passes to an observer, and
\* an observer's removal begins only once the merge is on record.
Onward(u) ==
  /\ work'[u].who \in {"user", work[u].who}
  /\ work'[u].who # "user" /\ work'[u].pc \in Removable => work[u].pc \in Removable
  /\ work'[u].who # "user" /\ work'[u].pc = "remove" => Latched(u)'

LEMMA PendingShrinks ==
  ASSUME IsFiniteSet(Observers), NEW u \in Tasks, Pending(u)' \subseteq Pending(u)
  PROVE  /\ IsFiniteSet(Pending(u)) /\ IsFiniteSet(Pending(u)')
         /\ Cardinality(Pending(u)) \in Nat /\ Cardinality(Pending(u)') \in Nat
         /\ Cardinality(Observers) \in Nat
         /\ Cardinality(Pending(u)') <= Cardinality(Pending(u))
         /\ Cardinality(Pending(u)) <= Cardinality(Observers)
<1>1. Pending(u) \subseteq Observers
  BY DEF Pending
<1>2. IsFiniteSet(Pending(u)) /\ Cardinality(Pending(u)) <= Cardinality(Observers)
  BY <1>1, FS_Subset
<1>3. IsFiniteSet(Pending(u)') /\ Cardinality(Pending(u)') <= Cardinality(Pending(u))
  BY <1>2, FS_Subset
<1> QED
  BY <1>2, <1>3, FS_CardinalityType

\* A step that tries no removal and decides nothing.
LEMMA SpendingFrame ==
  ASSUME IsFiniteSet(Observers), TypeOK, Spending,
         \A u \in Tasks : Latched(u) => Latched(u)',
         \A u \in Tasks : Onward(u),
         \A p \in Observers : seen'[p] \in {seen[p], NoOne},
         attempts' = attempts
  PROVE  Spending'
<1>1. OneAnswer'
  <2> SUFFICES ASSUME NEW p \in Observers, seen'[p] # NoOne, NEW u \in Tasks
               PROVE  work'[u].who # p
    BY DEF OneAnswer
  <2>1. work[u].who # p /\ p # "user"
    BY ObserversAssumption DEF Spending, OneAnswer
  <2> QED
    BY <2>1 DEF Onward
<1>2. ASSUME NEW u \in Tasks PROVE Spent(u)'
  <2>1. Pending(u)' \subseteq Pending(u)
    BY TasksAssumption, ObserversAssumption DEF Pending, Onward
  <2>2. Spent(u) /\ attempts'[u] = attempts[u] /\ attempts[u] \in Nat
    BY DEF Spending, TypeOK
  <2>3. /\ Cardinality(Pending(u)) \in Nat /\ Cardinality(Pending(u)') \in Nat
        /\ Cardinality(Observers) \in Nat
        /\ Cardinality(Pending(u)') <= Cardinality(Pending(u))
    BY <2>1, PendingShrinks
  <2>4. attempts'[u] = 0 \/ attempts'[u] + Cardinality(Pending(u)') <= Cardinality(Observers)
    BY <2>2, <2>3 DEF Spent
  <2> QED
    BY <2>2, <2>4 DEF Spent, Onward
<1> QED
  BY <1>1, <1>2 DEF Spending

\* A removal by an observer uses its decision up.
LEMMA SpendingRemove ==
  ASSUME IsFiniteSet(Observers), Inv, Spending, NEW t \in Tasks,
         RefuseRemoval(t) \/ RunGit(t) \/ RemoveMissing(t) \/ RemoveUnregistered(t)
  PROVE  Spending'
<1>1. /\ up /\ work[t].pc = "remove" /\ Counted(t) /\ UNCHANGED <<mem, survivors, seen, up>>
      /\ \E pc \in {"kept", "git", "cleaned"} : Goto(t, pc)
  BY DEF RefuseRemoval, RunGit, RemoveMissing, RemoveUnregistered, disk
<1>2. TypeOK /\ work[t] \in Operations
  BY DEF Inv, TypeOK
<1>3. /\ work'[t].who = work[t].who /\ work'[t].pc \in {"kept", "git", "cleaned"}
      /\ \A u \in Tasks \ {t} : work'[u] = work[u]
  BY <1>1, <1>2 DEF Goto, TypeOK, Operations, Free
<1>4. \A u \in Tasks : Latched(u) => Latched(u)'
  BY <1>1, LatchQuiet
<1>5. ASSUME NEW u \in Tasks PROVE Onward(u)
  <2>1. CASE u = t
    BY <1>3, <2>1 DEF Onward, Removable
  <2>2. CASE u # t
    BY <1>3, <1>4, <2>2 DEF Onward, Spending, Spent
  <2> QED
    BY <2>1, <2>2
<1>6. CASE work[t].who = "user"
  <2>1. attempts' = attempts
    BY <1>1, <1>6 DEF Counted
  <2> QED
    BY <1>1, <1>2, <1>4, <1>5, <2>1, SpendingFrame
<1>7. CASE work[t].who # "user"
  <2>1. work[t].who \in Observers
    BY <1>2, <1>7 DEF Operations, Free
  <2>2. attempts' = [attempts EXCEPT ![t] = attempts[t] + 1] /\ attempts \in [Tasks -> Nat]
    BY <1>1, <1>2, <1>7 DEF Counted, TypeOK
  <2>3. OneAnswer'
    BY <1>1, <1>3 DEF Spending, OneAnswer
  <2>4. ASSUME NEW u \in Tasks \ {t} PROVE Spent(u)'
    <3>1. attempts'[u] = attempts[u] /\ work'[u] = work[u] /\ seen' = seen
      BY <1>1, <1>3, <2>2
    <3>2. Pending(u)' = Pending(u)
      BY <3>1 DEF Pending
    <3> QED
      BY <1>4, <3>1, <3>2 DEF Spending, Spent
  <2>5. Spent(t)'
    <3> DEFINE p == work[t].who
    <3>1. p \in Pending(t)
      BY <1>1, <2>1 DEF Pending, Removable
    <3>2. seen[p] # t
      BY <2>1, TasksAssumption DEF Spending, OneAnswer
    <3>3. p \notin Pending(t)' /\ Pending(t)' \subseteq Pending(t)
      BY <1>1, <1>3, <3>2 DEF Pending, Removable
    <3>4. /\ IsFiniteSet(Pending(t)) /\ Cardinality(Pending(t)) \in Nat
          /\ Cardinality(Pending(t)') \in Nat /\ Cardinality(Observers) \in Nat
          /\ Cardinality(Pending(t)) <= Cardinality(Observers)
      BY <3>3, PendingShrinks
    <3>5. Cardinality(Pending(t)') + 1 <= Cardinality(Pending(t))
      <4>1. Pending(t)' \subseteq Pending(t) \ {p}
        BY <3>3
      <4>2. /\ IsFiniteSet(Pending(t) \ {p})
            /\ Cardinality(Pending(t) \ {p}) = Cardinality(Pending(t)) - 1
        BY <3>1, <3>4, FS_RemoveElement
      <4>3. Cardinality(Pending(t)') <= Cardinality(Pending(t) \ {p})
        BY <4>1, <4>2, FS_Subset
      <4> QED
        BY <3>4, <4>2, <4>3
    <3>6. attempts'[t] = attempts[t] + 1 /\ attempts[t] \in Nat
      BY <2>2
    <3>7. attempts[t] = 0 \/ attempts[t] + Cardinality(Pending(t)) <= Cardinality(Observers)
      BY DEF Spending, Spent
    <3>8. attempts'[t] + Cardinality(Pending(t)') <= Cardinality(Observers)
      BY <3>4, <3>5, <3>6, <3>7
    <3>9. Latched(t)'
      BY <1>1, <1>4, <1>7 DEF Spending, Spent
    <3> QED
      BY <3>8, <3>9 DEF Spent
  <2> QED
    BY <2>3, <2>4, <2>5 DEF Spending
<1> QED
  BY <1>6, <1>7

\* An observer decides only about a task whose merge is not on record, and so
\* before its first removal.
LEMMA SpendingObserve ==
  ASSUME IsFiniteSet(Observers), Inv, Spending, NEW p \in Observers, NEW t \in Tasks,
         Observe(p, t)
  PROVE  Spending'
<1>1. /\ up /\ mem[t] # NoTask /\ ~mem[t].merged /\ \A u \in Tasks : work[u].who # p
      /\ seen' = [seen EXCEPT ![p] = t]
      /\ UNCHANGED <<mem, survivors, work, attempts, up>>
  BY DEF Observe, InPrLifecycle, disk
<1>2. seen \in [Observers -> Tasks \cup {NoOne}] /\ attempts \in [Tasks -> Nat]
  BY DEF Inv, TypeOK
<1>3. OneAnswer'
  BY <1>1, <1>2 DEF Spending, OneAnswer
<1>4. ASSUME NEW u \in Tasks PROVE Spent(u)'
  <2>1. Latched(u) => Latched(u)'
    BY <1>1, LatchQuiet
  <2>2. CASE u = t
    <3>1. ~Latched(t)
      BY <1>1 DEF Latched, Closed
    <3>2. attempts[t] = 0
      BY <1>2, <3>1 DEF Spending, Spent
    <3> QED
      BY <1>1, <2>1, <2>2, <3>2 DEF Spending, Spent
  <2>3. CASE u # t
    <3>1. Pending(u)' \subseteq Pending(u)
      BY <1>1, <1>2, <2>3 DEF Pending
    <3>2. /\ Cardinality(Pending(u)) \in Nat /\ Cardinality(Pending(u)') \in Nat
          /\ Cardinality(Observers) \in Nat
          /\ Cardinality(Pending(u)') <= Cardinality(Pending(u))
      BY <3>1, PendingShrinks
    <3>3. attempts'[u] = attempts[u] /\ attempts[u] \in Nat /\ work'[u] = work[u]
      BY <1>1, <1>2
    <3>4. attempts'[u] = 0 \/ attempts'[u] + Cardinality(Pending(u)') <= Cardinality(Observers)
      BY <3>2, <3>3 DEF Spending, Spent
    <3> QED
      BY <2>1, <3>3, <3>4 DEF Spending, Spent
  <2> QED
    BY <2>2, <2>3
<1> QED
  BY <1>3, <1>4 DEF Spending

\* complete_merged_task turns the decision into an operation.
LEMMA SpendingComplete ==
  ASSUME IsFiniteSet(Observers), Inv, Spending, NEW p \in Observers, CompleteMerged(p)
  PROVE  Spending'
<1> DEFINE t == seen[p]
           pc == IF mem[t].wt THEN "stamp" ELSE "cleaned"
<1>1. /\ up /\ t # NoOne /\ Enter(t, p, "done", pc)
      /\ seen' = [seen EXCEPT ![p] = NoOne]
      /\ UNCHANGED <<mem, survivors, attempts, up>>
  BY DEF CompleteMerged, Terminalize, disk
<1>2. /\ seen \in [Observers -> Tasks \cup {NoOne}] /\ attempts \in [Tasks -> Nat]
      /\ work \in [Tasks -> Operations]
  BY DEF Inv, TypeOK
<1>3. t \in Tasks
  BY <1>1, <1>2
<1>4. work'[t].who = p /\ work'[t].pc = pc /\ \A u \in Tasks \ {t} : work'[u] = work[u]
  BY <1>1, <1>2, <1>3 DEF Enter
<1>5. seen'[p] = NoOne /\ \A q \in Observers \ {p} : seen'[q] = seen[q]
  BY <1>1, <1>2
<1> HIDE DEF t
<1>6. OneAnswer'
  <2> SUFFICES ASSUME NEW q \in Observers, seen'[q] # NoOne, NEW u \in Tasks
               PROVE  work'[u].who # q
    BY DEF OneAnswer
  <2>1. q # p /\ seen[q] # NoOne
    BY <1>5
  <2>2. work[u].who # q
    BY <2>1 DEF Spending, OneAnswer
  <2> QED
    BY <1>4, <2>1, <2>2
<1>7. ASSUME NEW u \in Tasks PROVE Spent(u)'
  <2>1. Latched(u) => Latched(u)'
    BY <1>1, LatchQuiet
  <2>2. attempts'[u] = attempts[u] /\ attempts[u] \in Nat /\ Spent(u)
    BY <1>1, <1>2 DEF Spending
  <2>3. Pending(u)' \subseteq Pending(u)
    <3>1. CASE u = t
      BY <1>4, <1>5, <3>1 DEF t, Pending
    <3>2. CASE u # t
      BY <1>3, <1>4, <1>5, <3>2, TasksAssumption DEF Pending
    <3> QED
      BY <3>1, <3>2
  <2>4. /\ Cardinality(Pending(u)) \in Nat /\ Cardinality(Pending(u)') \in Nat
        /\ Cardinality(Observers) \in Nat
        /\ Cardinality(Pending(u)') <= Cardinality(Pending(u))
    BY <2>3, PendingShrinks
  <2>5. attempts'[u] = 0 \/ attempts'[u] + Cardinality(Pending(u)') <= Cardinality(Observers)
    BY <2>2, <2>4 DEF Spent
  <2>6. work'[u].who # "user" /\ work'[u].pc = "remove" => Latched(u)'
    <3>1. CASE u = t
      BY <1>4, <3>1
    <3>2. CASE u # t
      BY <1>4, <2>1, <2>2, <3>2 DEF Spent
    <3> QED
      BY <3>1, <3>2
  <2> QED
    BY <2>1, <2>2, <2>5, <2>6 DEF Spent
<1> QED
  BY <1>6, <1>7 DEF Spending

\* Where an operation's step leaves the lease.
LEMMA Holder ==
  ASSUME TypeOK, NEW t \in Tasks, NEW pc
  PROVE  /\ \A who, goal : Enter(t, who, goal, pc) =>
              /\ work'[t].who = who /\ work'[t].pc = pc
              /\ \A u \in Tasks \ {t} : work'[u] = work[u]
         /\ Goto(t, pc) =>
              /\ work'[t].who = work[t].who /\ work'[t].pc = pc
              /\ \A u \in Tasks \ {t} : work'[u] = work[u]
         /\ Release(t) =>
              /\ work'[t].who = "user"
              /\ \A u \in Tasks \ {t} : work'[u] = work[u]
<1>1. work \in [Tasks -> Operations] /\ work[t] \in Operations
  BY DEF TypeOK
<1>2. ASSUME NEW who, NEW goal, Enter(t, who, goal, pc)
      PROVE  /\ work'[t].who = who /\ work'[t].pc = pc
             /\ \A u \in Tasks \ {t} : work'[u] = work[u]
  BY <1>1, <1>2 DEF Enter
<1>3. ASSUME Goto(t, pc)
      PROVE  /\ work'[t].who = work[t].who /\ work'[t].pc = pc
             /\ \A u \in Tasks \ {t} : work'[u] = work[u]
  BY <1>1, <1>3 DEF Goto, Operations, Free
<1>4. ASSUME Release(t)
      PROVE  work'[t].who = "user" /\ \A u \in Tasks \ {t} : work'[u] = work[u]
  BY <1>1, <1>4 DEF Release, Free
<1> QED
  BY <1>2, <1>3, <1>4

\* A task whose lease stays where it is stays as far as it was.
LEMMA OnwardIdle ==
  ASSUME Spending, NEW u \in Tasks, work'[u] = work[u], Latched(u) => Latched(u)'
  PROVE  Onward(u)
BY DEF Onward, Spending, Spent

\* The steps of a task that neither try a removal nor write a record.
LEMMA SpendingQuiet ==
  ASSUME IsFiniteSet(Observers), Inv, Spending, NEW t \in Tasks,
         UNCHANGED <<mem, survivors, up, seen, attempts>>,
         work' = work \/ Release(t)
           \/ (\E goal, pc : Enter(t, "user", goal, pc))
           \/ (\E pc \in {"cleaned", "kept", "found", "created"} : Goto(t, pc))
  PROVE  Spending'
<1>1. TypeOK
  BY DEF Inv
<1>2. \A u \in Tasks : Latched(u) => Latched(u)'
  BY LatchQuiet
<1>3. /\ \A u \in Tasks \ {t} : work'[u] = work[u]
      /\ \/ work'[t] = work[t]
         \/ work'[t].who = "user"
         \/ /\ work'[t].who = work[t].who
            /\ work'[t].pc \in {"cleaned", "kept", "found", "created"}
  BY <1>1, Holder
<1>4. \A u \in Tasks : Onward(u)
  <2>1. Onward(t)
    <3>1. CASE work'[t] = work[t]
      BY <1>2, <3>1, OnwardIdle
    <3>2. CASE work'[t].who = "user"
      BY <3>2 DEF Onward
    <3>3. CASE /\ work'[t].who = work[t].who
               /\ work'[t].pc \in {"cleaned", "kept", "found", "created"}
      BY <3>3 DEF Onward, Removable
    <3> QED
      BY <1>3, <3>1, <3>2, <3>3
  <2>2. ASSUME NEW u \in Tasks \ {t} PROVE Onward(u)
    BY <1>2, <1>3, OnwardIdle
  <2> QED
    BY <2>1, <2>2
<1> QED
  BY <1>1, <1>2, <1>4, SpendingFrame

\* The steps that write task t's record; only stamp_cleanup_in_flight goes on to
\* the removal, and what it wrote for an observer is the merge.
LEMMA SpendingWrite ==
  ASSUME IsFiniteSet(Observers), Inv, Spending, up, up' = up,
         NEW t \in Tasks, NEW o \in Outcomes,
         NEW STATE r, r \in TaskRecord \cup {NoTask}, Publish([mem EXCEPT ![t] = r], o),
         Closed(mem[t]) => Closed(r),
         attempts' = attempts, \A p \in Observers : seen'[p] \in {seen[p], NoOne},
         \/ work' = work
         \/ Release(t)
         \/ Goto(t, "erase")
         \/ work[t].pc = "stamp" /\ Goto(t, "remove") /\ o = "saved"
              /\ (work[t].who # "user" => Closed(r))
  PROVE  Spending'
<1>1. TypeOK
  BY DEF Inv
<1>2. \A u \in Tasks : Latched(u) => Latched(u)'
  BY LatchWritten
<1>3. \A u \in Tasks \ {t} : work'[u] = work[u]
  BY <1>1, Holder
<1>4. Onward(t)
  <2>1. CASE work' = work
    BY <1>2, <2>1, OnwardIdle
  <2>2. CASE Release(t)
    BY <1>1, <2>2, Holder DEF Onward
  <2>3. CASE Goto(t, "erase")
    BY <1>1, <2>3, Holder DEF Onward, Removable
  <2>4. CASE work[t].pc = "stamp" /\ Goto(t, "remove") /\ o = "saved"
               /\ (work[t].who # "user" => Closed(r))
    <3>1. work'[t].who = work[t].who
      BY <1>1, <2>4, Holder
    <3>2. mem'[t] = r /\ \A b \in survivors' : b[t] = r
      BY <2>4, WriteEffect
    <3>3. work[t].who # "user" => Latched(t)'
      BY <2>4, <3>2 DEF Latched, Closed
    <3> QED
      BY <2>4, <3>1, <3>3 DEF Onward, Removable
  <2> QED
    BY <2>1, <2>2, <2>3, <2>4
<1>5. ASSUME NEW u \in Tasks PROVE Onward(u)
  BY <1>2, <1>3, <1>4, OnwardIdle
<1> QED
  BY <1>1, <1>2, <1>5, SpendingFrame

\* Whatever stops the process or starts it reads a board that was on record.
LEMMA SpendingRestart ==
  ASSUME IsFiniteSet(Observers), Inv, Spending,
         Crash \/ PowerLoss \/ \E o \in Outcomes : Startup(o)
  PROVE  Spending'
<1>1. TypeOK /\ file \in survivors
  BY DEF Inv
<1>2. CASE Crash \/ PowerLoss
  <2>1. /\ up' = FALSE /\ work' = [t \in Tasks |-> Free] /\ seen' = [p \in Observers |-> NoOne]
        /\ attempts' = attempts
    BY <1>2 DEF Crash, PowerLoss
  <2>2. survivors' \subseteq survivors
    BY <1>2 DEF Crash, PowerLoss, disk
  <2>3. \A u \in Tasks : Latched(u) => Latched(u)'
    BY <2>1, <2>2 DEF Latched, Closed
  <2>4. \A u \in Tasks : Onward(u)
    BY <2>1 DEF Onward, Free
  <2> QED
    BY <1>1, <2>1, <2>3, <2>4, SpendingFrame
<1>3. ASSUME NEW o \in Outcomes, Startup(o) PROVE Spending'
  <2>1. PICK answers \in BOOLEAN :
          LET board == [t \in Tasks |-> Reconciled(file[t], checkout[t], answers)]
          IN Save(board, o) /\ mem' = board
    BY <1>3 DEF Startup
  <2> DEFINE board == [t \in Tasks |-> Reconciled(file[t], checkout[t], answers)]
  <2>2. /\ Save(board, o) /\ mem' = board
        /\ UNCHANGED <<work, seen, attempts>>
    BY <1>3, <2>1 DEF Startup
  <2>3. ASSUME NEW u \in Tasks, Closed(file[u]) PROVE Closed(board[u])
    <3>1. file[u] \in TaskRecord \cup {NoTask}
      BY <1>1 DEF TypeOK, Boards
    <3>2. CASE file[u] = NoTask
      BY <3>2 DEF Reconciled, Closed
    <3>3. CASE file[u] \in TaskRecord /\ file[u].merged
      BY <3>3 DEF Reconciled, Closed, TaskRecord
    <3> QED
      BY <2>3, <3>1, <3>2, <3>3 DEF Closed
  <2> HIDE DEF board
  <2>4. \A b \in survivors' : b = board \/ b \in survivors
    BY <2>2 DEF Save
  <2>5. \A u \in Tasks : Latched(u) => Latched(u)'
    <3> SUFFICES ASSUME NEW u \in Tasks, Latched(u) PROVE Latched(u)'
      OBVIOUS
    <3>1. Closed(file[u]) /\ \A b \in survivors : Closed(b[u])
      BY <1>1 DEF Latched
    <3>2. Closed(mem'[u]) /\ \A b \in survivors' : Closed(b[u])
      BY <2>2, <2>3, <2>4, <3>1
    <3> QED
      BY <3>2 DEF Latched, Closed
  <2>6. \A u \in Tasks : Onward(u)
    BY <2>2, <2>5, OnwardIdle
  <2>7. \A p \in Observers : seen'[p] \in {seen[p], NoOne}
    BY <2>2
  <2> QED
    BY <1>1, <2>2, <2>5, <2>6, <2>7, SpendingFrame
<1> QED
  BY <1>2, <1>3

LEMMA SpendingOperation ==
  ASSUME IsFiniteSet(Observers), Inv, Spending, NEW t \in Tasks,
         Operation(t) \/ GitStep(t) \/ DirectoryVanishes(t)
  PROVE  Spending'
<1>1. TypeOK /\ mem \in Boards /\ mem[t] \in TaskRecord \cup {NoTask}
  BY DEF Inv, TypeOK, Boards
<1>2. ASSUME NEW goal, Ask(t, goal) \/ BeginAttach(t, goal) PROVE Spending'
  <2>1. UNCHANGED <<mem, survivors, up, seen, attempts>>
    BY <1>2 DEF Ask, BeginAttach, disk
  <2>2. \E g, pc : Enter(t, "user", g, pc)
    BY <1>2 DEF Ask, BeginAttach, Terminalize
  <2> QED
    BY <2>1, <2>2, SpendingQuiet
<1>3. ASSUME NEW o \in Outcomes, Stamp(t, o) PROVE Spending'
  <2> DEFINE r == [mem[t] EXCEPT !.flag = TRUE, !.merged = @ \/ work[t].who # "user"]
  <2>1. up /\ work[t].pc = "stamp" /\ Publish([mem EXCEPT ![t] = r], o)
        /\ (IF o = "saved" THEN Goto(t, "remove") ELSE Release(t))
        /\ UNCHANGED <<seen, attempts, up>>
    BY <1>3 DEF Stamp
  <2>2. mem[t] \in TaskRecord /\ mem[t] # NoTask
    BY <1>1, <2>1 DEF Inv, Good, Leased
  <2>3. r \in TaskRecord \cup {NoTask} /\ (Closed(mem[t]) => Closed(r))
        /\ (work[t].who # "user" => Closed(r))
    <3>1. r \in TaskRecord
      BY <2>2 DEF TaskRecord, Statuses
    <3>2. (mem[t].merged => r.merged) /\ (work[t].who # "user" => r.merged)
      BY <2>2 DEF TaskRecord
    <3> HIDE DEF r
    <3> QED
      BY <2>2, <3>1, <3>2 DEF Closed
  <2> HIDE DEF r
  <2> QED
    BY <2>1, <2>3, SpendingWrite
<1>4. ASSUME NEW o \in Outcomes, Commit(t, o) PROVE Spending'
  <2> DEFINE cleaned == work[t].pc = "cleaned"
             r == [mem[t] EXCEPT !.flag = FALSE, !.merged = @ \/ work[t].who # "user",
                                 !.wt = @ /\ ~cleaned,
                                 !.status = IF cleaned /\ work[t].goal = "done" THEN "Done" ELSE @]
  <2>1. up /\ work[t].pc \in {"cleaned", "kept"} /\ Publish([mem EXCEPT ![t] = r], o)
        /\ (Goto(t, "erase") \/ Release(t)) /\ UNCHANGED <<seen, attempts, up>>
    BY <1>4 DEF Commit
  <2>2. mem[t] \in TaskRecord /\ mem[t] # NoTask
    BY <1>1, <2>1 DEF Inv, Good, Leased
  <2>3. r \in TaskRecord \cup {NoTask} /\ (Closed(mem[t]) => Closed(r))
    <3>1. r \in TaskRecord
      BY <2>2 DEF TaskRecord, Statuses
    <3>2. mem[t].merged => r.merged
      BY <2>2 DEF TaskRecord
    <3> HIDE DEF r
    <3> QED
      BY <2>2, <3>1, <3>2 DEF Closed
  <2> HIDE DEF r
  <2> QED
    BY <2>1, <2>3, SpendingWrite
<1>5. ASSUME NEW o \in Outcomes, Erase(t, o) PROVE Spending'
  <2>1. up /\ Publish([mem EXCEPT ![t] = NoTask], o) /\ Release(t)
        /\ UNCHANGED <<seen, attempts, up>>
    BY <1>5 DEF Erase
  <2> QED
    BY <2>1, SpendingWrite DEF Closed
<1>6. ASSUME NEW o \in Outcomes, RecordCheckout(t, o) PROVE Spending'
  <2> DEFINE r == [mem[t] EXCEPT !.wt = TRUE]
  <2>1. up /\ work[t].pc \in {"created", "found"} /\ Publish([mem EXCEPT ![t] = r], o)
        /\ Release(t) /\ UNCHANGED <<seen, attempts, up>>
    BY <1>6 DEF RecordCheckout
  <2>2. mem[t] \in TaskRecord /\ mem[t] # NoTask
    BY <1>1, <2>1 DEF Inv, Good, Leased
  <2>3. r \in TaskRecord \cup {NoTask} /\ (Closed(mem[t]) => Closed(r))
    <3>1. r \in TaskRecord
      BY <2>2 DEF TaskRecord, Statuses
    <3>2. mem[t].merged => r.merged
      BY <2>2 DEF TaskRecord
    <3> HIDE DEF r
    <3> QED
      BY <2>2, <3>1, <3>2 DEF Closed
  <2> HIDE DEF r
  <2> QED
    BY <2>1, <2>3, SpendingWrite
<1>7. ASSUME RemovalReported(t) PROVE Spending'
  <2>1. UNCHANGED <<mem, survivors, up, seen, attempts>>
    BY <1>7 DEF RemovalReported, disk
  <2>2. \E pc \in {"cleaned", "kept", "found", "created"} : Goto(t, pc)
    BY <1>7 DEF RemovalReported
  <2> QED
    BY <2>1, <2>2, SpendingQuiet
<1>8. ASSUME Acquire(t) PROVE Spending'
  <2>1. UNCHANGED <<mem, survivors, up, seen, attempts>>
    BY <1>8 DEF Acquire, disk
  <2>2. Release(t) \/ \E pc \in {"cleaned", "kept", "found", "created"} : Goto(t, pc)
    BY <1>8 DEF Acquire
  <2> QED
    BY <2>1, <2>2, SpendingQuiet
<1>9. ASSUME AgentEnds(t) \/ GitStep(t) \/ DirectoryVanishes(t) PROVE Spending'
  <2>1. UNCHANGED <<mem, survivors, up, seen, attempts, work>>
    BY <1>9 DEF AgentEnds, GitStep, GitCuts, GitEmpties, GitUnregisters, DirectoryVanishes, disk
  <2> QED
    BY <2>1, SpendingQuiet
<1>10. ASSUME NEW o \in Outcomes, NEW s \in Statuses, SetStatus(t, s, o) PROVE Spending'
  <2> DEFINE r == [mem[t] EXCEPT !.status = s]
  <2>1. up /\ mem[t] # NoTask /\ Publish([mem EXCEPT ![t] = r], o)
        /\ UNCHANGED <<work, seen, attempts, up>>
    BY <1>10 DEF SetStatus, LeaseFree, Exists
  <2>2. r \in TaskRecord \cup {NoTask} /\ (Closed(mem[t]) => Closed(r))
    BY <1>1, <2>1 DEF TaskRecord, Closed
  <2> HIDE DEF r
  <2> QED
    BY <2>1, <2>2, SpendingWrite
<1>11. ASSUME NEW o \in Outcomes, NEW h \in Evidence \cup {"none"}, SetEvidence(t, h, o)
       PROVE  Spending'
  <2> DEFINE r == [mem[t] EXCEPT !.hold = h]
  <2>1. up /\ mem[t] # NoTask /\ Publish([mem EXCEPT ![t] = r], o)
        /\ UNCHANGED <<work, seen, attempts, up>>
    BY <1>11 DEF SetEvidence, LeaseFree, Exists
  <2>2. r \in TaskRecord \cup {NoTask} /\ (Closed(mem[t]) => Closed(r))
    BY <1>1, <2>1 DEF TaskRecord, Closed
  <2> HIDE DEF r
  <2> QED
    BY <2>1, <2>2, SpendingWrite
<1> QED
  BY <1>2, <1>3, <1>4, <1>5, <1>6, <1>7, <1>8, <1>9, <1>10, <1>11, SpendingRemove DEF Operation

LEMMA SpendingObserver ==
  ASSUME IsFiniteSet(Observers), Inv, Spending, NEW p \in Observers, Observer(p)
  PROVE  Spending'
<1>1. TypeOK
  BY DEF Inv
<1>2. CASE \E t \in Tasks : Observe(p, t)
  BY <1>2, SpendingObserve
<1>3. CASE CompleteMerged(p)
  BY <1>3, SpendingComplete
<1>4. CASE Decline(p)
  <2>1. /\ seen' = [seen EXCEPT ![p] = NoOne]
        /\ UNCHANGED <<mem, survivors, up, work, attempts>>
    BY <1>4 DEF Decline, disk
  <2>2. \A q \in Observers : seen'[q] \in {seen[q], NoOne}
    BY <1>1, <2>1 DEF TypeOK
  <2>3. \A u \in Tasks : Latched(u) => Latched(u)'
    BY <2>1, LatchQuiet
  <2>4. \A u \in Tasks : Onward(u)
    BY <2>1, <2>3, OnwardIdle
  <2> QED
    BY <1>1, <2>1, <2>2, <2>3, <2>4, SpendingFrame
<1>5. ASSUME NEW o \in Outcomes, LatchMerge(p, o) PROVE Spending'
  <2> DEFINE t == seen[p]
             r == [mem[t] EXCEPT !.merged = TRUE]
  <2>1. /\ up /\ t # NoOne /\ mem[t] # NoTask /\ Publish([mem EXCEPT ![t] = r], o)
        /\ seen' = [seen EXCEPT ![p] = NoOne]
        /\ UNCHANGED <<work, attempts, up>>
    BY <1>5 DEF LatchMerge, LeaseFree, InPrLifecycle
  <2>2. t \in Tasks
    BY <1>1, <2>1 DEF TypeOK
  <2>3. r \in TaskRecord \cup {NoTask} /\ (Closed(mem[t]) => Closed(r))
    BY <1>1, <2>1, <2>2 DEF TypeOK, Boards, TaskRecord, Closed
  <2>4. \A q \in Observers : seen'[q] \in {seen[q], NoOne}
    BY <1>1, <2>1 DEF TypeOK
  <2> HIDE DEF r, t
  <2> QED
    BY <2>1, <2>2, <2>3, <2>4, SpendingWrite
<1> QED
  BY <1>2, <1>3, <1>4, <1>5 DEF Observer

LEMMA SpendingInit == IsFiniteSet(Observers) /\ Init => Spending
<1> SUFFICES ASSUME IsFiniteSet(Observers), Init PROVE Spending
  OBVIOUS
<1>1. OneAnswer
  BY DEF Init, OneAnswer
<1>2. ASSUME NEW t \in Tasks PROVE Spent(t)
  BY DEF Init, Spent, Free
<1> QED
  BY <1>1, <1>2 DEF Spending

LEMMA SpendingNext ==
  ASSUME IsFiniteSet(Observers), Inv, Spending, [Next]_vars
  PROVE  Spending'
<1>1. CASE UNCHANGED vars
  <2>1. UNCHANGED <<mem, survivors, work, seen, attempts, up>>
    BY <1>1 DEF vars, disk
  <2>2. \A u \in Tasks : Latched(u) => Latched(u)'
    BY <2>1, LatchQuiet
  <2>3. \A u \in Tasks : Onward(u)
    BY <2>1, <2>2, OnwardIdle
  <2>4. \A p \in Observers : seen'[p] \in {seen[p], NoOne}
    BY <2>1
  <2> QED
    BY <2>1, <2>2, <2>3, <2>4, SpendingFrame DEF Inv
<1>2. CASE Next
  BY <1>2, SpendingOperation, SpendingObserver, SpendingRestart DEF Next
<1> QED
  BY <1>1, <1>2

\* complete_merged_task records the merge in the write that announces the
\* removal, and the poll passes over a recorded merge: however often the process
\* is restarted, an observer's stale decision is worth one automatic removal, so
\* a task has at most as many as there are observers.
THEOREM AutomaticBounded ==
  ASSUME IsFiniteSet(Observers)
  PROVE  Spec => [](\A t \in Tasks : attempts[t] <= Cardinality(Observers))
<1>1. Inv /\ Spending /\ [Next]_vars => Inv' /\ Spending'
  BY NextInv, SpendingNext
<1>2. Init => Inv /\ Spending
  BY InitInv, SpendingInit
<1>3. Inv /\ Spending => \A t \in Tasks : attempts[t] <= Cardinality(Observers)
  <2> SUFFICES ASSUME Inv, Spending, NEW t \in Tasks PROVE attempts[t] <= Cardinality(Observers)
    OBVIOUS
  <2>1. attempts[t] \in Nat
    BY DEF Inv, TypeOK
  <2>2. Pending(t) \subseteq Observers
    BY DEF Pending
  <2>3. Cardinality(Pending(t)) \in Nat /\ Cardinality(Observers) \in Nat
    BY <2>2, FS_Subset, FS_CardinalityType
  <2> QED
    BY <2>1, <2>3 DEF Spending, Spent
<1> QED
  BY <1>1, <1>2, <1>3, PTL DEF Spec

\* With the poll alone, that is once, ever: "once the merge is durable, only an
\* explicit lifecycle action finishes the task".
THEOREM OneAutomaticRemoval ==
  ASSUME \A p, q \in Observers : p = q
  PROVE  Spec => []AutomaticOnce
<1>1. IsFiniteSet(Observers) /\ Cardinality(Observers) <= 1
  <2>1. CASE Observers = {}
    BY <2>1, FS_EmptySet
  <2>2. CASE Observers # {}
    <3>1. PICK p \in Observers : TRUE
      BY <2>2
    <3>2. Observers = {p}
      BY <3>1
    <3>3. IsFiniteSet({p}) /\ Cardinality({p}) = 1
      BY FS_Singleton
    <3> QED
      BY <3>2, <3>3
  <2> QED
    BY <2>1, <2>2
<1>2. Cardinality(Observers) \in Nat
  BY <1>1, FS_CardinalityType
<1>3. Inv /\ (\A t \in Tasks : attempts[t] <= Cardinality(Observers)) => AutomaticOnce
  <2> SUFFICES ASSUME TypeOK, NEW t \in Tasks, attempts[t] <= Cardinality(Observers)
               PROVE  attempts[t] <= 1
    BY DEF Inv, AutomaticOnce
  <2>1. attempts[t] \in Nat
    BY DEF TypeOK
  <2> QED
    BY <1>1, <1>2, <2>1
<1>4. Spec => [](\A t \in Tasks : attempts[t] <= Cardinality(Observers))
  BY <1>1, AutomaticBounded
<1> QED
  BY <1>3, <1>4, Invariance, PTL
=============================================================================
