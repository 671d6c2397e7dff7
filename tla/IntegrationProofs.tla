-------------------------- MODULE IntegrationProofs --------------------------
(***************************************************************************)
(* IntegrationSystem for every set of tasks and checkouts and any number of *)
(* commits and faults.  What a request does rests on what it planned, what   *)
(* it planned on what the target was then: the invariant carries that from   *)
(* the plan through the record, every board a crash may leave, and the move. *)
(***************************************************************************)
EXTENDS IntegrationSystem, TLAPS

\* What a plan says stays true while the target's history h and the names m
\* given to commits only grow.
Sound(plan, h, m) ==
  /\ plan.state = "none" => plan.completes = FALSE
  /\ plan.state # "none" => /\ plan.approved # NoCommit
                            /\ plan.approved \subseteq plan.result
                            /\ plan.old \subseteq h
                            /\ plan.result # plan.old =>
                                 \E n \in 0 .. m : plan.result = plan.old \cup plan.approved \cup {n}
  /\ plan.state = "integrated" => plan.approved \subseteq h

SoundRecord(r, h, m) ==
  /\ Sound(r.local, h, m)
  /\ r.approved # NoCommit => 0 \in r.approved
  /\ r.status = "done" /\ r.local.completes => r.local.state = "integrated"

\* A board the process, or the next one, may work from.
SoundBoard(b, h, m) ==
  /\ \A t \in Tasks : SoundRecord(b[t], h, m)
  /\ \A t, u \in Tasks : b[t].local.state = "pending" /\ b[u].local.state = "pending" => t = u

Moving == {"advance", "updateRef", "merge", "mergeRef"}

\* What the request under way has established, step by step.
SoundRequest ==
  LET t == op.task plan == op.plan IN
  /\ op.step = "record" =>
       /\ plan.state = "pending" /\ Sound(plan, held, made)
       /\ \A u \in Tasks : ~Pending(u)
       /\ plan.completes => task[t].status = "review"
  /\ op.step \in Moving \cup {"observe", "finish"} => Pending(t) /\ task[t].local = plan
  /\ op.step \in Moving \cup {"record"} =>
       /\ plan.approved = task[t].approved
       /\ plan.result # plan.old => t \in pins
  /\ op.step \in {"updateRef", "merge", "mergeRef"} => plan.result # plan.old
  /\ op.step = "finish" => plan.approved \subseteq held
  /\ op.step = "resume" => Pending(t)

\* While Undisturbed keeps the checkout still, the branch never moves under it.
FilesAhead ==
  /\ op.step = "updateRef" /\ where # "none" => files # target
  /\ op.step = "mergeRef" => files = op.plan.result

\* The inductive invariant.
Inv ==
  /\ TypeOK
  /\ target \subseteq held /\ 0 \in held
  /\ \A t \in Tasks : 0 \in tip[t]
  /\ \A b \in survivors : SoundBoard(b, held, made)
  /\ SoundRequest

\* What TargetMovesAsPlanned asks of a step.
PlannedMove ==
  (op.step # "idle" /\ op' # op /\ target' # target) =>
    /\ Pending(op.task) /\ op.task \in pins
    /\ \E n \in 0 .. made : target' = target \cup task[op.task].approved \cup {n}
    /\ where # "none" => files # target

------------------------------------------------------------------------------
(* What the steps have in common *)

Requests == [step : Steps, task : Tasks \cup {"none"}, completes : BOOLEAN, tip : Commits,
             checkout : Checkouts \cup {"none"}, plan : Plans]

LEMMA Grows ==
  ASSUME NEW h, NEW h2, h \subseteq h2, NEW m \in Nat, NEW m2 \in Nat, m <= m2
  PROVE  /\ \A plan : Sound(plan, h, m) => Sound(plan, h2, m2)
         /\ \A b : SoundBoard(b, h, m) => SoundBoard(b, h2, m2)
<1>1. \A plan : Sound(plan, h, m) => Sound(plan, h2, m2)
  <2> SUFFICES ASSUME NEW plan, Sound(plan, h, m)
               PROVE  Sound(plan, h2, m2)
    OBVIOUS
  <2>1. 0 .. m \subseteq 0 .. m2
    OBVIOUS
  <2> QED
    BY <2>1 DEF Sound
<1> QED
  BY <1>1 DEF SoundBoard, SoundRecord

\* A durable write of one sound record, whatever its outcome.
LEMMA SaveStep ==
  ASSUME Inv, NEW t \in Tasks, NEW o \in Outcomes, NEW STATE r, r \in TaskRecords,
         SoundRecord(r, held, made),
         r.local.state = "pending" => \A u \in Tasks \ {t} : ~Pending(u),
         Save(t, r, o)
  PROVE  /\ task' \in Boards /\ survivors' \subseteq Boards /\ task' \in survivors'
         /\ faults' \in 0 .. MaxFaults
         /\ \A b \in survivors' : SoundBoard(b, held, made)
         /\ \A u \in Tasks \ {t} : task'[u] = task[u]
         /\ task'[t] = IF o = "failed" THEN task[t] ELSE r
<1> DEFINE b == [task EXCEPT ![t] = r]
<1>1. task \in Boards /\ survivors \subseteq Boards /\ task \in survivors /\ faults \in 0 .. MaxFaults
  BY DEF Inv, TypeOK
<1>2. b \in Boards /\ b[t] = r /\ \A u \in Tasks \ {t} : b[u] = task[u]
  BY <1>1 DEF Boards
<1>3. SoundBoard(task, held, made) /\ \A c \in survivors : SoundBoard(c, held, made)
  BY <1>1 DEF Inv
<1>4. SoundBoard(b, held, made)
  <2>1. \A u \in Tasks : SoundRecord(b[u], held, made)
    BY <1>2, <1>3 DEF SoundBoard
  <2>2. \A u, v \in Tasks : b[u].local.state = "pending" /\ b[v].local.state = "pending" => u = v
    BY <1>2, <1>3 DEF SoundBoard, Pending
  <2> QED
    BY <2>1, <2>2 DEF SoundBoard
<1>5. /\ faults' = (IF o = "saved" THEN faults ELSE faults + 1)
      /\ o # "saved" => faults < MaxFaults
      /\ task' = (IF o = "failed" THEN task ELSE b)
      /\ survivors' = (IF o = "saved" THEN {b}
                       ELSE IF o = "unconfirmed" THEN survivors \cup {b} ELSE survivors)
  BY DEF Save
<1> HIDE DEF b
<1>6. faults' \in 0 .. MaxFaults
  BY <1>1, <1>5, IntegrationAssumption
<1> QED
  BY <1>1, <1>2, <1>3, <1>4, <1>5, <1>6 DEF Outcomes

\* Whoever writes a task beside the request leaves its plan, and, unless the
\* request does not hold that task, its column and its approval.
LEMMA WriteBeside ==
  ASSUME Inv, NEW t \in Tasks, NEW o \in Outcomes, NEW STATE r, r \in TaskRecords,
         Save(t, r, o), r.local = task[t].local,
         r.approved # NoCommit => 0 \in r.approved,
         r.status = "done" /\ r.local.completes => r.local.state = "integrated",
         Free(t) \/ (r.status = task[t].status /\ r.approved = task[t].approved),
         UNCHANGED <<repository, checkout, pins, op>>,
         delivery' \in [Tasks -> {"no", "marked", "reserved", "requested"}],
         opened' \subseteq Tasks, lost' \subseteq Tasks
  PROVE  Inv'
<1>1. TypeOK /\ SoundRequest /\ SoundBoard(task, held, made)
  BY DEF Inv, TypeOK
<1>2. SoundRecord(r, held, made)
  BY <1>1 DEF SoundRecord, SoundBoard
<1>3. r.local.state = "pending" => \A u \in Tasks \ {t} : ~Pending(u)
  BY <1>1 DEF SoundBoard, Pending
<1>4. /\ task' \in Boards /\ survivors' \subseteq Boards /\ task' \in survivors'
      /\ faults' \in 0 .. MaxFaults
      /\ \A b \in survivors' : SoundBoard(b, held, made)
      /\ \A u \in Tasks \ {t} : task'[u] = task[u]
      /\ task'[t] = IF o = "failed" THEN task[t] ELSE r
  BY <1>2, <1>3, SaveStep
<1>5. UNCHANGED <<tip, made, target, held, where, files, pins, op>>
  BY DEF repository, checkout
<1>6. TypeOK'
  BY <1>1, <1>4, <1>5 DEF TypeOK
<1>7. \A u \in Tasks : task'[u].local = task[u].local
  BY <1>4
<1>8. op.task \in Tasks =>
        task'[op.task].status = task[op.task].status /\ task'[op.task].approved = task[op.task].approved
  BY <1>4 DEF Free
<1>9. SoundRequest'
  BY <1>1, <1>5, <1>7, <1>8 DEF TypeOK, SoundRequest, Pending, Moving
<1> QED
  BY <1>4, <1>5, <1>6, <1>9 DEF Inv

\* The branches and their checkout move, and deliveries come and go.
LEMMA MoveBeside ==
  ASSUME Inv, UNCHANGED <<task, survivors, pins, op>>, TypeOK',
         held \subseteq held', made <= made', target' \subseteq held',
         \A t \in Tasks : 0 \in tip'[t]
  PROVE  Inv'
<1>1. TypeOK /\ SoundRequest
  BY DEF Inv
<1>2. made \in Nat /\ made' \in Nat
  BY <1>1, IntegrationAssumption DEF TypeOK
<1>3. /\ \A plan : Sound(plan, held, made) => Sound(plan, held', made')
      /\ \A b : SoundBoard(b, held, made) => SoundBoard(b, held', made')
  BY <1>2, Grows
<1>4. \A b \in survivors' : SoundBoard(b, held', made')
  BY <1>3 DEF Inv
<1>5. SoundRequest'
  BY <1>1, <1>3 DEF SoundRequest, Pending, Moving
<1> QED
  BY <1>4, <1>5 DEF Inv

\* The request goes on, and writes nothing.
LEMMA GoesOn ==
  ASSUME Inv, UNCHANGED <<board, repository, checkout, github>>,
         op' \in Requests, op'.step # "idle" => op'.task \in Tasks, pins' \subseteq Tasks,
         SoundRequest'
  PROVE  Inv'
BY DEF Inv, TypeOK, Requests, board, repository, checkout, github

------------------------------------------------------------------------------
(* The steps around a request *)

LEMMA Base == 0 \in 0 .. MaxNames /\ Root \in Commits /\ NoCommit \in Commits
BY IntegrationAssumption DEF Root, Commits, Names, NoCommit

LEMMA NoPlanIsSound == NoPlan \in Plans /\ \A h, m : Sound(NoPlan, h, m)
BY Base DEF NoPlan, Plans, Sound

LEMMA InitInv == Init => Inv
<1> SUFFICES ASSUME Init
             PROVE  Inv
  OBVIOUS
<1>1. \A t \in Tasks : Root \cup {t} \in Commits /\ 0 \in Root \cup {t}
  BY Base DEF Root, Commits, Names
<1>2. task \in Boards
  BY Base, NoPlanIsSound DEF Init, Boards, TaskRecords
<1>3. Idle \in Requests
  BY Base, NoPlanIsSound DEF Idle, Requests, Steps
<1>4. TypeOK
  BY <1>1, <1>2, <1>3, Base, IntegrationAssumption DEF Init, TypeOK, Requests, Idle
<1>5. SoundBoard(task, held, made)
  BY NoPlanIsSound DEF Init, SoundBoard, SoundRecord, NoPlan
<1>6. SoundRequest
  BY DEF Init, Idle, SoundRequest, Moving
<1> QED
  BY <1>1, <1>4, <1>5, <1>6 DEF Init, Inv, Root

LEMMA BesideInv ==
  ASSUME Inv, NEW t \in Tasks, NEW o \in Outcomes,
         Approve(t, o) \/ ApproveAgain(t, o) \/ CompleteLocally(t, o) \/ BeginWork(t, o)
           \/ FinishRun(t, o) \/ Request(t, o) \/ Link(t, o)
  PROVE  Inv'
<1> DEFINE r == task[t]
<1>1. /\ TypeOK /\ SoundRecord(r, held, made)
      /\ tip[t] \in Commits /\ 0 \in tip[t]
  BY DEF Inv, TypeOK, SoundBoard
<1>2. /\ r \in TaskRecords
      /\ r.approved # NoCommit => 0 \in r.approved
      /\ r.status = "done" /\ r.local.completes => r.local.state = "integrated"
  BY <1>1 DEF TypeOK, Boards, SoundRecord
<1>3. CASE UNCHANGED github
  <2>1. /\ delivery' \in [Tasks -> {"no", "marked", "reserved", "requested"}]
        /\ opened' \subseteq Tasks /\ lost' \subseteq Tasks
    BY <1>1, <1>3 DEF TypeOK, github
  <2>2. CASE Approve(t, o) \/ ApproveAgain(t, o)
    <3>1. [r EXCEPT !.approved = tip[t]] \in TaskRecords
      BY <1>1, <1>2 DEF TaskRecords
    <3> QED
      BY <1>1, <1>2, <2>1, <2>2, <3>1, WriteBeside DEF Approve, ApproveAgain, TaskRecords
  <2>3. CASE CompleteLocally(t, o)
    <3>1. [r EXCEPT !.status = "done"] \in TaskRecords
      BY <1>2 DEF TaskRecords
    <3>2. r.local.completes => r.local.state = "integrated"
      <4>1. r.local.state \in {"none", "integrated"}
        BY <1>2, <2>3 DEF CompleteLocally, Completable, Pending, TaskRecords, Plans
      <4> QED
        BY <1>1, <4>1 DEF SoundRecord, Sound
    <3> QED
      BY <1>2, <2>1, <2>3, <3>1, <3>2, WriteBeside DEF CompleteLocally, TaskRecords
  <2>4. CASE BeginWork(t, o)
    <3>1. [r EXCEPT !.status = "work", !.approved = NoCommit] \in TaskRecords
      BY <1>2, Base DEF TaskRecords
    <3> QED
      BY <1>2, <2>1, <2>4, <3>1, WriteBeside DEF BeginWork, TaskRecords
  <2>5. CASE FinishRun(t, o)
    <3>1. [r EXCEPT !.status = "review", !.approved = NoCommit] \in TaskRecords
      BY <1>2, Base DEF TaskRecords
    <3> QED
      BY <1>2, <2>1, <2>5, <3>1, WriteBeside DEF FinishRun, TaskRecords
  <2>6. CASE Request(t, o) \/ Link(t, o)
    <3>1. delivery[t] # delivery'[t]
      BY <1>1, <2>6 DEF Request, Link, TypeOK
    <3> QED
      BY <1>3, <3>1 DEF github
  <2> QED
    BY <2>2, <2>3, <2>4, <2>5, <2>6
<1>4. CASE Request(t, o)
  <2>1. /\ delivery' \in [Tasks -> {"no", "marked", "reserved", "requested"}]
        /\ opened' \subseteq Tasks /\ lost' \subseteq Tasks
    BY <1>1, <1>4 DEF TypeOK, Request
  <2>2. CASE task[t].asked
    <3>1. UNCHANGED <<task, survivors, faults, repository, checkout, pins, op, lost>>
      BY <1>4, <2>2 DEF Request, board
    <3>2. TypeOK'
      BY <1>1, <2>1, <3>1 DEF TypeOK, repository, checkout
    <3> QED
      BY <1>1, <3>1, <3>2, MoveBeside DEF Inv, TypeOK, repository
  <2>3. CASE ~task[t].asked
    <3>1. [r EXCEPT !.asked = TRUE] \in TaskRecords
      BY <1>2 DEF TaskRecords
    <3> QED
      BY <1>2, <1>4, <2>1, <2>3, <3>1, WriteBeside DEF Request, TaskRecords
  <2> QED
    BY <2>2, <2>3
<1>5. CASE Link(t, o)
  <2>1. /\ delivery' \in [Tasks -> {"no", "marked", "reserved", "requested"}]
        /\ opened' \subseteq Tasks /\ lost' \subseteq Tasks
    BY <1>1, <1>5 DEF TypeOK, Link
  <2> DEFINE linked == [r EXCEPT !.pr = TRUE, !.asked = FALSE,
                                 !.status = IF Pinned(t) THEN @ ELSE "created"]
  <2>2. linked \in TaskRecords /\ linked.local = r.local /\ linked.approved = r.approved
    BY <1>2 DEF TaskRecords
  <2>3. linked.status = "done" => r.status = "done"
    BY <1>2 DEF TaskRecords
  <2>4. Save(t, linked, o) /\ Free(t) /\ UNCHANGED <<repository, checkout, pins, op>>
    BY <1>5 DEF Link
  <2> QED
    BY <1>2, <2>1, <2>2, <2>3, <2>4, WriteBeside
<1> QED
  BY <1>3, <1>4, <1>5 DEF Approve, ApproveAgain, CompleteLocally, BeginWork, FinishRun

LEMMA MoveInv ==
  ASSUME Inv,
         \/ \E t \in Tasks :
              Deliver(t) \/ Reserve(t) \/ LoseAnswer(t) \/ Commit(t) \/ Rewrite(t)
         \/ TargetGrows \/ TargetReset \/ (\E path \in Checkouts : CheckOut(path))
         \/ Leave \/ Edit \/ Restore
  PROVE  Inv'
<1>1. /\ TypeOK /\ target \subseteq held /\ \A u \in Tasks : 0 \in tip[u]
      /\ made \in Nat /\ \A n \in 0 .. MaxNames : n \in Names
  BY IntegrationAssumption DEF Inv, TypeOK, Names
<1>2. ASSUME NEW t \in Tasks, Deliver(t) \/ Reserve(t) \/ LoseAnswer(t)
      PROVE  Inv'
  <2>1. UNCHANGED <<task, survivors, repository, checkout, pins, op, opened>>
    BY <1>2 DEF Deliver, Reserve, LoseAnswer, board
  <2>2. /\ faults' \in 0 .. MaxFaults /\ lost' \subseteq Tasks
        /\ delivery' \in [Tasks -> {"no", "marked", "reserved", "requested"}]
    BY <1>1, <1>2, IntegrationAssumption DEF TypeOK, Deliver, Reserve, LoseAnswer, board
  <2>3. TypeOK'
    BY <1>1, <2>1, <2>2 DEF TypeOK, repository, checkout
  <2> QED
    BY <1>1, <2>1, <2>3, MoveBeside DEF repository
<1>3. ASSUME NEW t \in Tasks, Commit(t) \/ Rewrite(t)
      PROVE  Inv'
  <2>1. UNCHANGED <<task, survivors, faults, target, held, checkout, pins, op, github>>
    BY <1>3 DEF Commit, Rewrite, board
  <2>2. made' \in 0 .. MaxNames /\ made <= made' /\ made' \in Names
    BY <1>1, <1>3, IntegrationAssumption DEF Commit, Rewrite, Name, TypeOK
  <2>3. tip' \in [Tasks -> Commits] /\ \A u \in Tasks : 0 \in tip'[u]
    BY <1>1, <1>3, <2>2, Base DEF Commit, Rewrite, TypeOK, Commits, Root
  <2>4. TypeOK'
    BY <1>1, <2>1, <2>2, <2>3 DEF TypeOK, checkout, github
  <2> QED
    BY <1>1, <2>1, <2>2, <2>3, <2>4, MoveBeside
<1>4. CASE TargetGrows
  <2>1. UNCHANGED <<task, survivors, faults, tip, where, pins, op, github>>
    BY <1>4 DEF TargetGrows, board
  <2>2. made' \in 0 .. MaxNames /\ made <= made' /\ made' \in Names
    BY <1>1, <1>4, IntegrationAssumption DEF TargetGrows, Name, TypeOK
  <2>3. /\ target' \in Commits /\ held' \in Commits /\ files' \in Commits
        /\ held \subseteq held' /\ target' \subseteq held'
    BY <1>1, <1>4, <2>2 DEF TargetGrows, TypeOK, Commits
  <2>4. TypeOK'
    BY <1>1, <2>1, <2>2, <2>3 DEF TypeOK, github
  <2> QED
    BY <1>1, <2>1, <2>2, <2>3, <2>4, MoveBeside
<1>5. CASE TargetReset
  <2>1. UNCHANGED <<task, survivors, faults, tip, made, held, where, pins, op, github>>
    BY <1>5 DEF TargetReset, board
  <2>2. Root \subseteq held
    BY <1>1 DEF Inv, TypeOK, Root
  <2>3. target' \in Commits /\ files' \in Commits /\ target' \subseteq held
    BY <1>1, <1>5, <2>2, Base DEF TargetReset, TypeOK, NoCommit
  <2>4. TypeOK'
    BY <1>1, <2>1, <2>3 DEF TypeOK, github
  <2> QED
    BY <1>1, <2>1, <2>3, <2>4, MoveBeside
<1>6. CASE (\E path \in Checkouts : CheckOut(path)) \/ Leave \/ Edit \/ Restore
  <2>1. UNCHANGED <<board, repository, pins, op, github>>
    BY <1>6 DEF CheckOut, Leave, Edit, Restore
  <2>2. where' \in Checkouts \cup {"none"} /\ files' \in Commits
    BY <1>1, <1>6, Base DEF CheckOut, Leave, Edit, Restore, TypeOK, Edited
  <2>3. TypeOK'
    BY <1>1, <2>1, <2>2 DEF TypeOK, board, repository, github
  <2> QED
    BY <1>1, <2>1, <2>3, MoveBeside DEF board, repository
<1> QED
  BY <1>2, <1>3, <1>4, <1>5, <1>6

LEMMA CrashInv ==
  ASSUME Inv, Crash
  PROVE  Inv'
<1>1. TypeOK /\ Idle \in Requests
  BY Base, NoPlanIsSound DEF Inv, Idle, Requests, Steps
<1>2. task' \in survivors /\ survivors' \subseteq survivors /\ task' \in survivors'
  BY <1>1 DEF Crash, TypeOK
<1>3. faults' \in 0 .. MaxFaults
  BY <1>1, IntegrationAssumption DEF Crash, TypeOK
<1>4. UNCHANGED <<tip, made, target, held, where, files, pins, opened>> /\ op' = Idle
  BY DEF Crash, repository, checkout
<1>5. TypeOK'
  BY <1>1, <1>2, <1>3, <1>4 DEF TypeOK, Crash, Requests, Idle
<1>6. SoundRequest'
  BY <1>4 DEF SoundRequest, Idle, Moving
<1> QED
  BY <1>2, <1>4, <1>5, <1>6 DEF Inv

------------------------------------------------------------------------------
(* The steps of a request *)

LEMMA StartInv ==
  ASSUME Inv, NEW t \in Tasks,
         AskResume(t) \/ Discard(t) \/ \E completes \in BOOLEAN : Ask(t, completes)
  PROVE  Inv'
<1>1. TypeOK /\ SoundRequest
  BY DEF Inv
<1>2. /\ UNCHANGED <<board, repository, checkout, pins, github>>
      /\ op'.task = t /\ op'.step \in {"resume", "complete", "plan", "clear"}
      /\ op'.step = "resume" => Pending(t)
  <2>1. CASE AskResume(t) \/ Discard(t)
    BY <2>1 DEF AskResume, Discard, Idle
  <2>2. CASE \E completes \in BOOLEAN : Ask(t, completes)
    BY <2>2 DEF Ask
  <2> QED
    BY <2>1, <2>2
<1>3. op' \in Requests
  <2>1. Idle \in Requests /\ NoPlan \in Plans /\ task[t].local \in Plans
    BY <1>1, Base, NoPlanIsSound DEF Idle, Requests, Steps, TypeOK, Boards, TaskRecords
  <2>2. CASE AskResume(t) \/ Discard(t)
    BY <2>1, <2>2 DEF AskResume, Discard, Requests, Steps
  <2>3. CASE \E completes \in BOOLEAN : Ask(t, completes)
    BY <1>1, <2>1, <2>3 DEF Ask, Requests, Steps, TypeOK
  <2> QED
    BY <2>2, <2>3
<1>4. SoundRequest'
  BY <1>2 DEF SoundRequest, Moving, Pending, board
<1>5. pins' \subseteq Tasks
  BY <1>1, <1>2 DEF TypeOK
<1> QED
  BY <1>2, <1>3, <1>4, <1>5, GoesOn

\* The request ends, or is refused, having written nothing.
LEMMA EndInv ==
  ASSUME Inv, Refuse
  PROVE  Inv'
<1>1. Idle \in Requests /\ TypeOK
  BY Base, NoPlanIsSound DEF Idle, Requests, Steps, Inv
<1>2. SoundRequest'
  BY DEF Refuse, End, SoundRequest, Moving, Idle
<1> QED
  BY <1>1, <1>2, GoesOn DEF Refuse, End, Idle, TypeOK

\* The plan keeps everything on the target and adds what was approved.
LEMMA PlanInv ==
  ASSUME Inv, Plan
  PROVE  Inv'
<1> DEFINE t == op.task
           plan == [state |-> "pending", old |-> target, approved |-> task[t].approved,
                    result |-> Result(t), completes |-> op.completes,
                    checkout |-> IF Contained(t) THEN "none" ELSE where]
<1>1. /\ TypeOK /\ op.step = "plan" /\ t \in Tasks /\ made \in Nat
      /\ Eligible(t, op.completes) /\ target # NoCommit
      /\ task[t] \in TaskRecords
  BY IntegrationAssumption DEF Inv, TypeOK, Plan, Steps, Boards
<1>2. /\ task[t].approved \in Commits /\ task[t].approved # NoCommit
      /\ task[t].approved \subseteq Names /\ 0 \in task[t].approved
      /\ op.completes \in BOOLEAN /\ op.completes => task[t].status = "review"
  <2>1. SoundRecord(task[t], held, made)
    BY <1>1 DEF Inv, TypeOK, SoundBoard
  <2> QED
    BY <1>1, <2>1 DEF TaskRecords, Eligible, Commits, TypeOK, SoundRecord
<1>3. \A u \in Tasks : ~Pending(u)
  BY DEF Plan
<1>4. op' = [Idle EXCEPT !.step = "record", !.task = t, !.plan = plan]
  BY DEF Plan
<1>5. /\ UNCHANGED <<task, survivors, faults, tip, target, held, where, files,
                     delivery, opened, lost>>
      /\ pins' = (IF Contained(t) THEN Swept ELSE Swept \cup {t})
      /\ made' = (IF NeedsMerge(t) THEN made + 1 ELSE made)
      /\ NeedsMerge(t) => made < MaxNames
  BY DEF Plan, board, checkout, github
<1>6. made' \in 0 .. MaxNames /\ made <= made' /\ made' \in Nat
  BY <1>1, <1>5, IntegrationAssumption DEF TypeOK
<1>7. /\ Result(t) \in Commits /\ task[t].approved \subseteq Result(t)
      /\ Result(t) # target => \E n \in 0 .. made' : Result(t) = target \cup task[t].approved \cup {n}
  <2>0. target \subseteq Names
    BY <1>1 DEF TypeOK, Commits
  <2>1. CASE Contained(t)
    BY <1>1, <1>2, <2>0, <2>1 DEF Result, Contained, Includes, Commits
  <2>2. CASE ~Contained(t) /\ Includes(task[t].approved, target)
    <3>1. Result(t) = target \cup task[t].approved \cup {0} /\ 0 \in 0 .. made'
      BY <1>2, <1>6, <2>2 DEF Result, Includes
    <3> QED
      BY <1>2, <2>0, <2>2, <3>1 DEF Result, Commits
  <2>3. CASE NeedsMerge(t)
    <3>1. made + 1 \in Names /\ made' = made + 1 /\ made' \in 0 .. made'
      BY <1>1, <1>5, <1>6, <2>3 DEF Names
    <3>2. Result(t) = target \cup task[t].approved \cup {made + 1}
      BY <2>3 DEF Result, NeedsMerge
    <3> QED
      BY <1>2, <2>0, <3>1, <3>2 DEF Commits
  <2> QED
    BY <2>1, <2>2, <2>3 DEF NeedsMerge
<1>8. plan \in Plans
  BY <1>1, <1>2, <1>7 DEF Plans, TypeOK
<1> HIDE DEF plan
<1>9. op' \in Requests /\ op'.step = "record" /\ op'.task = t /\ op'.plan = plan
  BY <1>1, <1>4, <1>8, Base DEF Idle, Requests, Steps
<1>10. pins' \subseteq Tasks /\ (plan.result # plan.old => t \in pins')
  BY <1>1, <1>5 DEF plan, Swept, TypeOK, Result
<1>11. TypeOK'
  BY <1>1, <1>5, <1>6, <1>9, <1>10 DEF TypeOK, Requests
<1>12. Sound(plan, held', made')
  BY <1>1, <1>2, <1>5, <1>7 DEF Inv, Sound, plan
<1>13. SoundRequest'
  <2>1. plan.state = "pending" /\ plan.approved = task'[t].approved /\ plan.completes = op.completes
    BY <1>5 DEF plan
  <2>2. plan.completes => task'[t].status = "review"
    BY <1>2, <1>5, <2>1
  <2> QED
    BY <1>3, <1>5, <1>9, <1>10, <1>12, <2>1, <2>2 DEF SoundRequest, Moving, Pending
<1>14. \A b \in survivors' : SoundBoard(b, held', made')
  BY <1>1, <1>5, <1>6, Grows DEF Inv
<1> QED
  BY <1>5, <1>11, <1>13, <1>14 DEF Inv

\* The request writes its task.
LEMMA WriteInv ==
  ASSUME Inv, NEW t \in Tasks, NEW o \in Outcomes, NEW STATE r, r \in TaskRecords,
         SoundRecord(r, held, made),
         r.local.state = "pending" => \A u \in Tasks \ {t} : ~Pending(u),
         Save(t, r, o),
         UNCHANGED <<repository, checkout, github>>,
         op' \in Requests, op'.step # "idle" => op'.task \in Tasks, pins' \subseteq Tasks,
         SoundRequest'
  PROVE  Inv'
<1>1. /\ task' \in Boards /\ survivors' \subseteq Boards /\ task' \in survivors'
      /\ faults' \in 0 .. MaxFaults
      /\ \A b \in survivors' : SoundBoard(b, held, made)
  BY SaveStep
<1>2. UNCHANGED <<tip, made, target, held, where, files, delivery, opened, lost>>
  BY DEF repository, checkout, github
<1>3. TypeOK'
  BY <1>1, <1>2 DEF Inv, TypeOK, Requests
<1> QED
  BY <1>1, <1>2, <1>3 DEF Inv

LEMMA RecordPlanInv ==
  ASSUME Inv, NEW o \in Outcomes, RecordPlan(o)
  PROVE  Inv'
<1> DEFINE t == op.task
           r == [task[t] EXCEPT !.local = op.plan]
<1>1. /\ TypeOK /\ SoundRequest /\ op.step = "record" /\ t \in Tasks /\ op.plan \in Plans
      /\ task[t] \in TaskRecords /\ SoundRecord(task[t], held, made)
  BY DEF Inv, TypeOK, RecordPlan, Steps, Boards, SoundBoard
<1>2. /\ op.plan.state = "pending" /\ Sound(op.plan, held, made)
      /\ \A u \in Tasks : ~Pending(u)
      /\ op.plan.completes => task[t].status = "review"
      /\ op.plan.approved = task[t].approved
      /\ op.plan.result # op.plan.old => t \in pins
  BY <1>1 DEF SoundRequest
<1>3. /\ r \in TaskRecords /\ r.local = op.plan
      /\ r.status = task[t].status /\ r.approved = task[t].approved
  BY <1>1 DEF TaskRecords
<1>4. SoundRecord(r, held, made)
  BY <1>1, <1>2, <1>3 DEF SoundRecord
<1>5. Save(t, r, o) /\ UNCHANGED <<repository, checkout, github>>
  BY DEF RecordPlan
<1> HIDE DEF r
<1>6. task' \in Boards /\ (task'[t] = IF o = "failed" THEN task[t] ELSE r)
  BY <1>1, <1>2, <1>3, <1>4, <1>5, SaveStep
<1>7. CASE o = "saved"
  <2>1. op' = [op EXCEPT !.step = "advance"] /\ pins' = pins
    BY <1>7 DEF RecordPlan, Goto
  <2>2. op' \in Requests /\ op'.step = "advance" /\ op'.task = t /\ op'.plan = op.plan
    BY <1>1, <2>1 DEF TypeOK, Requests, Steps
  <2>3. SoundRequest'
    BY <1>2, <1>3, <1>6, <1>7, <2>1, <2>2 DEF SoundRequest, Moving, Pending
  <2> QED
    BY <1>1, <1>2, <1>3, <1>4, <1>5, <2>1, <2>2, <2>3, WriteInv DEF TypeOK
<1>8. CASE o # "saved"
  <2>1. op' = Idle /\ pins' = pins \ {t} /\ Idle \in Requests
    BY <1>8, Base, NoPlanIsSound DEF RecordPlan, End, Idle, Requests, Steps
  <2>2. SoundRequest'
    BY <2>1 DEF SoundRequest, Moving, Idle
  <2> QED
    BY <1>1, <1>2, <1>3, <1>4, <1>5, <2>1, <2>2, WriteInv DEF TypeOK, Idle
<1> QED
  BY <1>7, <1>8

\* finish, complete_after_integration and clear_pending end a plan that was
\* recorded, or complete a task none is pending for.
LEMMA EndPlanInv ==
  ASSUME Inv, NEW o \in Outcomes, Finish(o) \/ Complete(o) \/ Clear(o)
  PROVE  Inv'
<1> DEFINE t == op.task
<1>1. /\ TypeOK /\ SoundRequest /\ op \in Requests /\ op.step # "idle" /\ t \in Tasks
      /\ task[t] \in TaskRecords /\ task[t].local \in Plans
      /\ SoundRecord(task[t], held, made)
      /\ Idle \in Requests
  BY Base, NoPlanIsSound
     DEF Inv, TypeOK, Finish, Complete, Clear, Boards, SoundBoard, TaskRecords, Requests, Idle, Steps
<1>2. pins' \subseteq Tasks
  BY <1>1 DEF TypeOK, Finish, Complete, Clear
<1>3. UNCHANGED <<repository, checkout, github>>
  BY DEF Finish, Complete, Clear
<1>4. op' \in Requests /\ (op' = Idle \/ (op'.step = "complete" /\ op'.task = t))
  BY <1>1 DEF Finish, Complete, Clear, Goto, End, Requests, Steps
<1>5. SoundRequest'
  BY <1>4 DEF SoundRequest, Moving, Idle
<1>6. op'.step # "idle" => op'.task \in Tasks
  BY <1>1, <1>4 DEF Idle
<1>7. CASE Finish(o)
  <2> DEFINE r == [task[t] EXCEPT !.local.state = "integrated"]
  <2>1. /\ r \in TaskRecords /\ r.local.state = "integrated"
        /\ r.local = [task[t].local EXCEPT !.state = "integrated"]
        /\ r.status = task[t].status /\ r.approved = task[t].approved
    BY <1>1 DEF TaskRecords, Plans
  <2>2. Pending(t) /\ task[t].local.approved \subseteq held
    BY <1>1, <1>7 DEF SoundRequest, Finish
  <2>3. SoundRecord(r, held, made)
    BY <1>1, <2>1, <2>2 DEF SoundRecord, Sound, Pending, Plans
  <2>4. Save(t, r, o)
    BY <1>7 DEF Finish
  <2> QED
    BY <1>1, <1>2, <1>3, <1>4, <1>5, <1>6, <2>1, <2>3, <2>4, WriteInv
<1>8. CASE Complete(o)
  <2> DEFINE r == [task[t] EXCEPT !.status = "done"]
  <2>1. /\ r \in TaskRecords /\ r.local = task[t].local /\ r.approved = task[t].approved
    BY <1>1 DEF TaskRecords
  <2>2. r.local.state \in {"none", "integrated"}
    BY <1>1, <1>8, <2>1 DEF Complete, Completable, Pending, Plans
  <2>3. SoundRecord(r, held, made)
    BY <1>1, <2>1, <2>2 DEF SoundRecord, Sound
  <2>4. Save(t, r, o)
    BY <1>8 DEF Complete
  <2> QED
    BY <1>1, <1>2, <1>3, <1>4, <1>5, <1>6, <2>1, <2>2, <2>3, <2>4, WriteInv
<1>9. CASE Clear(o)
  <2> DEFINE r == [task[t] EXCEPT !.local = NoPlan]
  <2>1. /\ r \in TaskRecords /\ r.local = NoPlan
        /\ r.status = task[t].status /\ r.approved = task[t].approved
    BY <1>1, NoPlanIsSound DEF TaskRecords
  <2>2. NoPlan.state = "none" /\ NoPlan.completes = FALSE /\ Sound(NoPlan, held, made)
    BY NoPlanIsSound DEF NoPlan
  <2>3. Save(t, r, o)
    BY <1>9 DEF Clear
  <2> HIDE DEF r
  <2>4. SoundRecord(r, held, made)
    BY <1>1, <2>1, <2>2 DEF SoundRecord
  <2>5. r.local.state # "pending"
    BY <2>1, <2>2
  <2> QED
    BY <1>1, <1>2, <1>3, <1>4, <1>5, <1>6, <2>1, <2>3, <2>4, <2>5, WriteInv
<1> QED
  BY <1>7, <1>8, <1>9

\* advance, its two ways of moving the target, and what it answers when it
\* could not.
LEMMA AdvanceInv ==
  ASSUME Inv, Advance \/ UpdateRef \/ Merge \/ MergeRef \/ Observe
  PROVE  Inv'
<1> DEFINE t == op.task
           plan == op.plan
<1>1. /\ TypeOK /\ op \in Requests /\ op.step \in Moving \cup {"observe"} /\ t \in Tasks
      /\ plan \in Plans /\ target \subseteq held
      /\ Idle \in Requests
  BY Base, NoPlanIsSound
     DEF Inv, TypeOK, Advance, UpdateRef, Merge, MergeRef, Observe, Moving, Requests, Idle, Steps
<1>2. /\ Pending(t) /\ task[t].local = plan
      /\ op.step \in Moving => /\ plan.approved = task[t].approved
                               /\ plan.result # plan.old => t \in pins
      /\ op.step \in {"updateRef", "merge", "mergeRef"} => plan.result # plan.old
  BY <1>1 DEF Inv, SoundRequest
<1>3. /\ Sound(plan, held, made) /\ plan.state = "pending"
      /\ plan.approved \subseteq plan.result /\ plan.old \subseteq held
  BY <1>1, <1>2 DEF Inv, TypeOK, SoundBoard, SoundRecord, Sound, Pending
<1>4. UNCHANGED <<task, survivors, faults, pins, tip, made, where, delivery, opened, lost>>
  BY DEF Advance, UpdateRef, Merge, MergeRef, Observe, Step, Refuse, MoveTarget,
         board, repository, checkout, github
<1>5. /\ files' \in Commits /\ target' \in Commits /\ held' \in Commits
      /\ held \subseteq held' /\ target' \subseteq held'
  <2>1. CASE UNCHANGED <<target, held, files>>
    BY <1>1, <2>1 DEF TypeOK
  <2>2. CASE MoveTarget(plan.result) /\ UNCHANGED files
    BY <1>1, <2>2 DEF TypeOK, MoveTarget, Plans, Commits
  <2>3. CASE files' = plan.result /\ UNCHANGED repository
    BY <1>1, <2>3 DEF TypeOK, Plans, repository
  <2> QED
    BY <2>1, <2>2, <2>3
       DEF Advance, UpdateRef, Merge, MergeRef, Observe, Step, Refuse, repository, checkout
<1>6. \/ op' = Idle
      \/ /\ op' = [op EXCEPT !.step = op'.step]
         /\ \/ op'.step = "finish" /\ plan.approved \subseteq held'
            \/ op'.step \in {"observe", "clear"}
            \/ op'.step \in {"updateRef", "merge", "mergeRef"} /\ plan.result # plan.old
               /\ op.step \in Moving
  <2>1. CASE Advance
    BY <1>1, <1>3, <1>5, <2>1 DEF Advance, Step, Goto, Requests, Moving
  <2>2. CASE UpdateRef \/ Merge \/ MergeRef
    BY <1>1, <1>2, <1>3, <2>2 DEF UpdateRef, Merge, MergeRef, Goto, MoveTarget, Requests, Moving
  <2>3. CASE Observe
    <3>1. Applied(plan) => plan.approved \subseteq held'
      BY <1>1, <1>3, <1>5, <2>3 DEF Applied, Includes, Observe, Step, Refuse, repository
    <3> QED
      BY <1>1, <2>3, <3>1 DEF Observe, Step, Refuse, Goto, End, Requests
  <2> QED
    BY <2>1, <2>2, <2>3
<1>7. /\ op' \in Requests
      /\ op' = Idle \/ (op'.task = t /\ op'.plan = plan)
  BY <1>1, <1>6 DEF Requests, Steps, Idle
<1>8. TypeOK'
  BY <1>1, <1>4, <1>5, <1>7 DEF TypeOK, Requests, Idle
<1>9. SoundRequest'
  <2>1. CASE op' = Idle
    BY <2>1 DEF SoundRequest, Moving, Idle
  <2>2. CASE op' # Idle
    <3>1. op'.task = t /\ op'.plan = plan
      BY <1>7, <2>2
    <3>0. op'.step \in {"observe", "clear", "finish", "updateRef", "merge", "mergeRef"}
      BY <1>6, <2>2
    <3>2. task'[t].local = plan /\ task'[t].local.state = "pending"
      BY <1>2, <1>4 DEF Pending
    <3>3. op'.step \in Moving => /\ plan.result # plan.old /\ op.step \in Moving
      BY <1>6, <2>2 DEF Moving
    <3> QED
      BY <1>2, <1>4, <1>6, <2>2, <3>0, <3>1, <3>2, <3>3 DEF SoundRequest, Moving, Pending
  <2> QED
    BY <2>1, <2>2
<1>10. \A b \in survivors' : SoundBoard(b, held', made')
  <2>1. made \in Nat /\ made <= made
    BY <1>1, IntegrationAssumption DEF TypeOK
  <2>2. \A b : SoundBoard(b, held, made) => SoundBoard(b, held', made)
    BY <1>5, <2>1, Grows
  <2> QED
    BY <1>4, <2>2 DEF Inv
<1> QED
  BY <1>4, <1>5, <1>8, <1>9, <1>10 DEF Inv

LEMMA ResumeInv ==
  ASSUME Inv, Resume
  PROVE  Inv'
<1> DEFINE t == op.task
           plan == task[t].local
<1>1. /\ TypeOK /\ op \in Requests /\ op.step = "resume" /\ t \in Tasks /\ Pending(t)
      /\ plan \in Plans /\ target \subseteq held
  <2>1. TypeOK /\ SoundRequest /\ target \subseteq held /\ op.step = "resume"
    BY DEF Inv, Resume
  <2> QED
    BY <2>1 DEF TypeOK, Requests, Boards, TaskRecords, SoundRequest
<1>0. Sound(plan, held, made)
  BY <1>1 DEF Inv, TypeOK, SoundBoard, SoundRecord
<1>2. UNCHANGED <<board, repository, checkout, github>>
  BY DEF Resume
<1>3. /\ op' \in Requests /\ op'.task = t /\ op'.plan = plan
      /\ op'.step = IF Applied(plan) THEN "finish" ELSE IF ~Unmoved(plan) THEN "clear" ELSE "advance"
  BY <1>1 DEF Resume, Requests, Steps
<1>4. /\ pins' \subseteq Tasks
      /\ op'.step = "advance" => /\ plan.approved = task[t].approved
                                 /\ plan.result # plan.old => t \in pins'
  BY <1>1, <1>3 DEF Resume, TypeOK
<1>5. Applied(plan) => plan.approved \subseteq held
  BY <1>0, <1>1 DEF Applied, Includes, Sound, Pending
<1>6. SoundRequest'
  <2>1. /\ task'[t].local = plan /\ task'[t].local.state = "pending"
        /\ task'[t].approved = task[t].approved /\ held' = held
    BY <1>1, <1>2 DEF Pending, board, repository
  <2>2. op'.step \in {"finish", "clear", "advance"}
    BY <1>3
  <2>3. op'.step = "finish" => plan.approved \subseteq held
    BY <1>3, <1>5
  <2>4. op'.task = t /\ op'.plan = plan
    BY <1>3
  <2> HIDE DEF t, plan
  <2>5. CASE op'.step \in {"finish", "clear"}
    BY <2>1, <2>3, <2>4, <2>5 DEF SoundRequest, Moving, Pending
  <2>6. CASE op'.step = "advance"
    <3>1. task'[op'.task].local = op'.plan /\ task'[op'.task].local.state = "pending"
      BY <2>1, <2>4
    <3>2. op'.plan.approved = task'[op'.task].approved
      BY <1>4, <2>1, <2>4, <2>6
    <3>3. op'.plan.result # op'.plan.old => op'.task \in pins'
      BY <1>4, <2>4, <2>6
    <3> QED
      BY <2>6, <3>1, <3>2, <3>3 DEF SoundRequest, Moving, Pending
  <2> QED
    BY <2>2, <2>5, <2>6
<1> QED
  BY <1>1, <1>2, <1>3, <1>4, <1>6, GoesOn

LEMMA StepInv ==
  ASSUME Inv, op.step = "plan", Step("complete")
  PROVE  Inv'
<1>1. /\ TypeOK /\ op' \in Requests /\ op'.step = "complete" /\ op'.task = op.task
      /\ op.task \in Tasks
  BY DEF Inv, TypeOK, Step, Goto, Requests, Steps
<1>2. SoundRequest'
  BY <1>1 DEF SoundRequest, Moving
<1> QED
  BY <1>1, <1>2, GoesOn DEF Step, TypeOK

------------------------------------------------------------------------------
(* Every step preserves the invariant, and moves the target as planned *)

LEMMA NextInv == Inv /\ [Next]_vars => Inv'
<1> SUFFICES ASSUME Inv, [Next]_vars
             PROVE  Inv'
  OBVIOUS
<1>1. CASE Integration
  <2>1. ASSUME NEW t \in Tasks,
               AskResume(t) \/ Discard(t) \/ \E completes \in BOOLEAN : Ask(t, completes)
        PROVE  Inv'
    BY <2>1, StartInv
  <2>2. CASE Plan
    BY <2>2, PlanInv
  <2>3. CASE PlanMade \/ PlanRefused \/ CompleteRefused \/ ResumeRefused
    BY <2>3, StepInv, EndInv DEF PlanMade, PlanRefused, CompleteRefused, ResumeRefused
  <2>4. CASE Advance \/ UpdateRef \/ Merge \/ MergeRef \/ Observe
    BY <2>4, AdvanceInv
  <2>5. CASE Resume
    BY <2>5, ResumeInv
  <2>6. ASSUME NEW o \in Outcomes, RecordPlan(o) \/ Finish(o) \/ Complete(o) \/ Clear(o)
        PROVE  Inv'
    BY <2>6, RecordPlanInv, EndPlanInv
  <2> QED
    BY <1>1, <2>1, <2>2, <2>3, <2>4, <2>5, <2>6 DEF Integration
<1>2. CASE Surroundings
  <2>1. ASSUME NEW t \in Tasks, NEW o \in Outcomes,
               Approve(t, o) \/ ApproveAgain(t, o) \/ CompleteLocally(t, o) \/ BeginWork(t, o)
                 \/ FinishRun(t, o) \/ Request(t, o) \/ Link(t, o)
        PROVE  Inv'
    BY <2>1, BesideInv
  <2>2. CASE \/ \E t \in Tasks :
                  Deliver(t) \/ Reserve(t) \/ LoseAnswer(t) \/ Commit(t) \/ Rewrite(t)
             \/ TargetGrows \/ TargetReset \/ (\E path \in Checkouts : CheckOut(path))
             \/ Leave \/ Edit \/ Restore
    BY <2>2, MoveInv
  <2>3. CASE Crash
    BY <2>3, CrashInv
  <2> QED
    BY <1>2, <2>1, <2>2, <2>3 DEF Surroundings
<1>3. CASE UNCHANGED vars
  BY <1>3 DEF vars, board, repository, checkout, github, Inv, TypeOK, SoundRequest, Pending
<1> QED
  BY <1>1, <1>2, <1>3 DEF Next

\* Only a step of another part, or of a request with the checkout kept still,
\* separates the files from what the request left them at.
LEMMA FilesInv ==
  ASSUME {"updateRef", "mergeRef"} \subseteq Undisturbed
  PROVE  Inv /\ FilesAhead /\ [Next]_vars => FilesAhead'
<1> SUFFICES ASSUME Inv, FilesAhead, [Next]_vars
             PROVE  FilesAhead'
  OBVIOUS
<1>1. CASE op' = op
  <2>1. CASE UNCHANGED <<target, where, files>>
    BY <1>1, <2>1 DEF FilesAhead
  <2>2. CASE op.step \notin {"updateRef", "mergeRef"}
    BY <1>1, <2>2 DEF FilesAhead
  <2>3. CASE op.step \in {"updateRef", "mergeRef"} /\ ~UNCHANGED <<target, where, files>>
    <3>1. ~Calm /\ op # Idle
      BY <2>3 DEF Calm, Idle
    <3>2. CASE TargetGrows \/ TargetReset
      BY <1>1, <3>1, <3>2 DEF TargetGrows, TargetReset, FilesAhead
    <3>3. ~(\E path \in Checkouts : CheckOut(path)) /\ ~Leave /\ ~Edit /\ ~Restore
      BY <3>1 DEF CheckOut, Leave, Edit, Restore
    <3>4. ASSUME NEW t \in Tasks, NEW o \in Outcomes,
                 Approve(t, o) \/ ApproveAgain(t, o) \/ CompleteLocally(t, o) \/ BeginWork(t, o)
                   \/ FinishRun(t, o) \/ Request(t, o) \/ Link(t, o)
                   \/ Deliver(t) \/ Reserve(t) \/ LoseAnswer(t) \/ Commit(t) \/ Rewrite(t)
          PROVE  UNCHANGED <<target, where, files>>
      <4>1. /\ Request(t, o) \/ Link(t, o) \/ Deliver(t) \/ Reserve(t) \/ LoseAnswer(t)
                 => UNCHANGED <<target, where, files>>
            /\ Approve(t, o) \/ ApproveAgain(t, o) \/ CompleteLocally(t, o) \/ BeginWork(t, o)
                 \/ FinishRun(t, o) => UNCHANGED <<target, where, files>>
        BY DEF Approve, ApproveAgain, CompleteLocally, BeginWork, FinishRun, Request, Link,
               Deliver, Reserve, LoseAnswer, repository, checkout
      <4>2. Commit(t) \/ Rewrite(t) => UNCHANGED <<target, where, files>>
        BY DEF Commit, Rewrite, checkout
      <4> QED
        BY <3>4, <4>1, <4>2
    <3>5. Outcomes # {}
      BY DEF Outcomes
    <3>6. ~Surroundings \/ TargetGrows \/ TargetReset
      <4>1. Crash => op' = Idle
        BY DEF Crash
      <4> QED
        BY <1>1, <2>3, <3>1, <3>3, <3>4, <3>5, <4>1 DEF Surroundings
    <3>7. ~Integration
      <4>1. \A t \in Tasks : /\ ~AskResume(t) /\ ~Discard(t)
                             /\ \A completes \in BOOLEAN : ~Ask(t, completes)
        BY <3>1 DEF AskResume, Discard, Ask
      <4>2. /\ ~Plan /\ ~PlanMade /\ ~PlanRefused /\ ~Advance /\ ~Merge /\ ~Observe
            /\ ~CompleteRefused /\ ~Resume /\ ~ResumeRefused
            /\ \A o \in Outcomes : ~RecordPlan(o) /\ ~Finish(o) /\ ~Complete(o) /\ ~Clear(o)
        BY <2>3 DEF Plan, PlanMade, PlanRefused, Advance, Merge, Observe, CompleteRefused,
                    Resume, ResumeRefused, RecordPlan, Finish, Complete, Clear
      <4>3. op \in Requests
        BY DEF Inv, TypeOK, Requests
      <4>4. ~UpdateRef /\ ~MergeRef
        BY <1>1, <2>3, <4>3 DEF UpdateRef, MergeRef, Goto, Requests
      <4> QED
        BY <4>1, <4>2, <4>4 DEF Integration
    <3>8. ~UNCHANGED vars
      BY <2>3 DEF vars, repository, checkout
    <3> QED
      BY <3>2, <3>6, <3>7, <3>8 DEF Next
  <2> QED
    BY <2>1, <2>2, <2>3
<1>2. CASE op' # op
  <2>1. op \in Requests
    BY DEF Inv, TypeOK, Requests
  <2>2. CASE op'.step \notin {"updateRef", "mergeRef"}
    BY <2>2 DEF FilesAhead
  <2>3. CASE op'.step \in {"updateRef", "mergeRef"}
    <3>1. Advance \/ Merge
      <4>0. /\ op' = Idle => FALSE
            /\ \A step \in Steps : op' = [op EXCEPT !.step = step] =>
                                     step \in {"updateRef", "mergeRef"}
        BY <2>1, <2>3 DEF Idle, Requests
      <4>1. ASSUME NEW t \in Tasks
            PROVE  ~AskResume(t) /\ ~Discard(t) /\ \A completes \in BOOLEAN : ~Ask(t, completes)
        <5>1. AskResume(t) => op'.step = "resume"
          BY DEF AskResume, Idle
        <5>2. Discard(t) => op'.step = "clear"
          BY DEF Discard, Idle
        <5>3. \A completes \in BOOLEAN : Ask(t, completes) => op'.step \in {"resume", "complete", "plan"}
          BY DEF Ask
        <5> QED
          BY <2>3, <5>1, <5>2, <5>3
      <4>2. /\ ~Plan /\ ~PlanMade /\ ~PlanRefused /\ ~CompleteRefused /\ ~ResumeRefused
            /\ ~UpdateRef /\ ~MergeRef /\ ~Observe
        <5>1. Plan => op'.step = "record"
          BY DEF Plan, Idle
        <5>2. ~PlanMade /\ ~PlanRefused /\ ~CompleteRefused /\ ~ResumeRefused
          BY <4>0 DEF PlanMade, PlanRefused, CompleteRefused, ResumeRefused, Step, Goto, Refuse,
                      End, Steps
        <5>3. ~UpdateRef /\ ~MergeRef /\ ~Observe
          BY <4>0 DEF UpdateRef, MergeRef, Observe, Step, Goto, Refuse, End, Steps
        <5> QED
          BY <2>3, <5>1, <5>2, <5>3
      <4>3. ~Resume /\ \A o \in Outcomes : ~RecordPlan(o) /\ ~Finish(o) /\ ~Complete(o) /\ ~Clear(o)
        <5>1. Resume => op'.step \in {"finish", "clear", "advance"}
          BY <2>1 DEF Resume, Requests
        <5>2. \A o \in Outcomes : ~RecordPlan(o) /\ ~Finish(o) /\ ~Complete(o) /\ ~Clear(o)
          BY <4>0 DEF RecordPlan, Finish, Complete, Clear, Goto, End, Steps
        <5> QED
          BY <2>3, <5>1, <5>2
      <4>4. Surroundings => Crash
        BY <1>2 DEF Surroundings, Approve, ApproveAgain, CompleteLocally, BeginWork, FinishRun,
                    Request, Link, Deliver, Reserve, LoseAnswer, Commit, Rewrite, TargetGrows,
                    TargetReset, CheckOut, Leave, Edit, Restore
      <4>5. ~Crash
        BY <2>3 DEF Crash, Idle
      <4>6. ~UNCHANGED vars
        BY <1>2 DEF vars
      <4> QED
        BY <4>1, <4>2, <4>3, <4>4, <4>5, <4>6 DEF Next, Integration
    <3>2. CASE Advance
      BY <2>1, <2>3, <3>2
         DEF Advance, Step, Goto, Refuse, Requests, FilesAlreadyUpdated, FilesAhead, checkout, repository
    <3>3. CASE Merge
      BY <2>1, <2>3, <3>3 DEF Merge, Goto, Requests, FilesAhead
    <3> QED
      BY <3>1, <3>2, <3>3
  <2> QED
    BY <2>2, <2>3
<1> QED
  BY <1>1, <1>2

LEMMA MovesOnlyByRequest ==
  ASSUME [Next]_vars, op' # op, target' # target
  PROVE  UpdateRef \/ MergeRef
<1>1. ~Surroundings
  <2>1. ASSUME NEW t \in Tasks, NEW o \in Outcomes
        PROVE  /\ ~Approve(t, o) /\ ~ApproveAgain(t, o) /\ ~CompleteLocally(t, o)
               /\ ~BeginWork(t, o) /\ ~FinishRun(t, o) /\ ~Request(t, o) /\ ~Link(t, o)
    BY DEF Approve, ApproveAgain, CompleteLocally, BeginWork, FinishRun, Request, Link
  <2>2. ASSUME NEW t \in Tasks
        PROVE  ~Deliver(t) /\ ~Reserve(t) /\ ~LoseAnswer(t) /\ ~Commit(t) /\ ~Rewrite(t)
    BY DEF Deliver, Reserve, LoseAnswer, Commit, Rewrite
  <2>3. /\ ~TargetGrows /\ ~TargetReset /\ ~Leave /\ ~Edit /\ ~Restore /\ ~Crash
        /\ ~\E path \in Checkouts : CheckOut(path)
    BY DEF TargetGrows, TargetReset, Leave, Edit, Restore, Crash, CheckOut, repository
  <2> QED
    BY <2>1, <2>2, <2>3 DEF Surroundings
<1>2. Integration => UpdateRef \/ MergeRef
  <2>1. ASSUME NEW t \in Tasks
        PROVE  ~AskResume(t) /\ ~Discard(t) /\ \A completes \in BOOLEAN : ~Ask(t, completes)
    BY DEF AskResume, Discard, Ask, repository
  <2>2. /\ ~Plan /\ ~PlanMade /\ ~PlanRefused /\ ~Advance /\ ~Merge /\ ~Observe
        /\ ~CompleteRefused /\ ~Resume /\ ~ResumeRefused
    BY DEF Plan, PlanMade, PlanRefused, Advance, Merge, Observe, CompleteRefused, Resume,
           ResumeRefused, Step, Refuse, repository
  <2>3. ASSUME NEW o \in Outcomes
        PROVE  ~RecordPlan(o) /\ ~Finish(o) /\ ~Complete(o) /\ ~Clear(o)
    BY DEF RecordPlan, Finish, Complete, Clear, repository
  <2> QED
    BY <2>1, <2>2, <2>3 DEF Integration
<1> QED
  BY <1>1, <1>2 DEF Next, vars

LEMMA MoveIsPlanned ==
  ASSUME Inv, FilesAhead, [Next]_vars
  PROVE  PlannedMove
<1> SUFFICES ASSUME op.step # "idle", op' # op, target' # target
             PROVE  /\ Pending(op.task) /\ op.task \in pins
                    /\ \E n \in 0 .. made : target' = target \cup task[op.task].approved \cup {n}
                    /\ where # "none" => files # target
  BY DEF PlannedMove
<1> DEFINE t == op.task
           plan == op.plan
<1>1. UpdateRef \/ MergeRef
  BY MovesOnlyByRequest
<1>2. /\ op.step \in {"updateRef", "mergeRef"}
      /\ target = plan.old /\ target' = plan.result
  BY <1>1 DEF UpdateRef, MergeRef, MoveTarget, repository
<1>3. /\ TypeOK /\ t \in Tasks /\ Pending(t) /\ task[t].local = plan
      /\ plan.approved = task[t].approved /\ plan.result # plan.old /\ t \in pins
  BY <1>2 DEF Inv, TypeOK, SoundRequest, Moving
<1>4. \E n \in 0 .. made : plan.result = plan.old \cup plan.approved \cup {n}
  BY <1>3 DEF Inv, TypeOK, SoundBoard, SoundRecord, Sound, Pending
<1>5. where # "none" => files # target
  BY <1>2, <1>3 DEF FilesAhead
<1> QED
  BY <1>2, <1>3, <1>4, <1>5

------------------------------------------------------------------------------
(* One delivery *)

\* The names given so far: a new commit is in none of these histories.
Known(m) == Tasks \cup 0 .. m

KnownRecord(r, m) == r.approved \subseteq Known(m) /\ r.local.approved \subseteq Known(m)

NamesKnown ==
  /\ \A t \in Tasks : tip[t] \subseteq Known(made)
  /\ \A b \in survivors, t \in Tasks : KnownRecord(b[t], made)

\* Nothing of the record's plan stands for what is, or could now be, approved.
Apart(r, c) ==
  \/ r.local.state = "none"
  \/ r.local.state = "integrated" /\ r.local.approved \notin {r.approved, c}

\* The pull request is on record whatever survives.
Linked(t) == \A b \in survivors : b[t].pr /\ Apart(b[t], tip[t])

InFlight(t) == delivery[t] \in {"reserved", "requested"}

\* From create_pr_for_approved_task to link_pr_to_task_reserved the delivery
\* itself keeps integrations out, after it the record does; a plan about to be
\* recorded was made while there was neither.
Single(t) ==
  /\ InFlight(t) => Apart(task[t], tip[t])
  /\ t \in opened \ lost => Linked(t) \/ delivery[t] = "requested"
  /\ op.task = t /\ op.step = "record" => ~InFlight(t) /\ ~task[t].pr

LEMMA SaveEffect ==
  ASSUME Inv, NEW t \in Tasks, NEW o \in Outcomes, NEW STATE r, Save(t, r, o)
  PROVE  /\ task'[t] = IF o = "failed" THEN task[t] ELSE r
         /\ \A u \in Tasks \ {t} : task'[u] = task[u]
         /\ \A b \in survivors' : \/ b \in survivors
                                  \/ b[t] = r /\ \A u \in Tasks \ {t} : b[u] = task[u]
         /\ o = "saved" => \A b \in survivors' : b[t] = r
         /\ task \in survivors
<1> DEFINE c == [task EXCEPT ![t] = r]
<1>1. task \in [Tasks -> TaskRecords] /\ task \in survivors
  BY DEF Inv, TypeOK, Boards
<1>2. c[t] = r /\ \A u \in Tasks \ {t} : c[u] = task[u]
  BY <1>1
<1>3. /\ task' = (IF o = "failed" THEN task ELSE c)
      /\ survivors' = (IF o = "saved" THEN {c}
                       ELSE IF o = "unconfirmed" THEN survivors \cup {c} ELSE survivors)
  BY DEF Save
<1> HIDE DEF c
<1> QED
  BY <1>1, <1>2, <1>3 DEF Outcomes

------------------------------------------------------------------------------
(* Names *)

LEMMA KnownGrows ==
  ASSUME NEW m \in Nat, NEW m2 \in Nat, m <= m2
  PROVE  Known(m) \subseteq Known(m2)
BY DEF Known

\* A write of a record whose names are known.
LEMMA NamesWritten ==
  ASSUME Inv, NamesKnown, NEW t \in Tasks, NEW o \in Outcomes, NEW STATE r, Save(t, r, o),
         KnownRecord(r, made), UNCHANGED <<tip, made>>
  PROVE  NamesKnown'
<1>1. /\ task \in survivors
      /\ \A b \in survivors' : \/ b \in survivors
                               \/ b[t] = r /\ \A u \in Tasks \ {t} : b[u] = task[u]
  BY SaveEffect
<1>2. \A b \in survivors', u \in Tasks : KnownRecord(b[u], made)
  BY <1>1 DEF NamesKnown
<1> QED
  BY <1>2 DEF NamesKnown, KnownRecord

\* Nothing is written, and names are only added.
LEMMA NamesKept ==
  ASSUME Inv, NamesKnown, survivors' \subseteq survivors, made' \in Nat, made <= made',
         \A t \in Tasks : tip'[t] \subseteq Known(made')
  PROVE  NamesKnown'
<1>1. made \in Nat
  BY IntegrationAssumption DEF Inv, TypeOK
<1>2. Known(made) \subseteq Known(made')
  BY <1>1, KnownGrows
<1> QED
  BY <1>2 DEF NamesKnown, KnownRecord

\* The second inductive invariant, on top of Inv.
Delivering == NamesKnown /\ \A t \in Tasks : Single(t)

\* A plan's approved commit is apart from a commit with a new name.
LEMMA ApartAnew ==
  ASSUME NEW m, NEW r, KnownRecord(r, m), NEW c, NEW d, Apart(r, c),
         d = c \/ ~(d \subseteq Known(m))
  PROVE  Apart(r, d)
BY DEF KnownRecord, Apart

\* Task t's record is written, by whoever holds its lease: no delivery goes on
\* or ends with it, and the plan it holds stays apart from what is approved.
LEMMA DeliveringWritten ==
  ASSUME Inv, Delivering, NEW t \in Tasks, NEW o \in Outcomes, NEW STATE r, Save(t, r, o),
         KnownRecord(r, made), r.pr = task[t].pr, Apart(task[t], tip[t]) => Apart(r, tip[t]),
         UNCHANGED <<tip, made, github>>,
         op'.step # "record" \/ (Free(t) /\ op' = op)
  PROVE  Delivering'
<1>1. /\ task'[t] = IF o = "failed" THEN task[t] ELSE r
      /\ \A u \in Tasks \ {t} : task'[u] = task[u]
      /\ \A b \in survivors' : \/ b \in survivors
                               \/ b[t] = r /\ \A u \in Tasks \ {t} : b[u] = task[u]
      /\ task \in survivors
  BY SaveEffect
<1>2. UNCHANGED <<delivery, opened, lost>>
  BY DEF github
<1>3. NamesKnown'
  BY NamesWritten DEF Delivering
<1>4. ASSUME NEW u \in Tasks PROVE Single(u)'
  <2>1. Single(u)
    BY DEF Delivering
  <2>2. (InFlight(u) => Apart(task[u], tip[u]))'
    BY <1>1, <1>2, <2>1 DEF Single, InFlight
  <2>3. Linked(u) => Linked(u)'
    <3> SUFFICES ASSUME Linked(u), NEW b \in survivors'
                 PROVE  b[u].pr /\ Apart(b[u], tip[u])
      BY DEF Linked
    <3>1. task[u].pr /\ Apart(task[u], tip[u])
      BY <1>1 DEF Linked
    <3>2. CASE b \in survivors
      BY <3>2 DEF Linked
    <3>3. CASE b[t] = r /\ \A v \in Tasks \ {t} : b[v] = task[v]
      BY <3>1, <3>3
    <3> QED
      BY <1>1, <3>2, <3>3
  <2>4. (op.task = u /\ op.step = "record" => ~InFlight(u) /\ ~task[u].pr)'
    BY <1>1, <1>2, <2>1 DEF Single, InFlight, Free
  <2> QED
    BY <1>2, <2>1, <2>2, <2>3, <2>4 DEF Single
<1> QED
  BY <1>3, <1>4 DEF Delivering

\* Nothing is written; a branch moves, if at all, to a new commit, a delivery, if
\* at all, out of flight, and a plan is made only while there is none.
LEMMA DeliveringQuiet ==
  ASSUME Inv, Delivering, UNCHANGED <<task, survivors, opened>>, lost \subseteq lost',
         made' \in Nat, made <= made',
         \A u \in Tasks :
           /\ tip'[u] = tip[u] \/ (tip'[u] \subseteq Known(made') /\ ~(tip'[u] \subseteq Known(made)))
           /\ \/ delivery'[u] = delivery[u]
              \/ /\ delivery'[u] \in {"no", "marked"}
                 /\ delivery[u] = "requested" => u \in lost'
           /\ op'.task = u /\ op'.step = "record" =>
                \/ op' = op
                \/ delivery[u] = "no" /\ ~task[u].pr
  PROVE  Delivering'
<1>1. task \in survivors /\ made \in Nat
  BY IntegrationAssumption DEF Inv, TypeOK
<1>2. /\ \A u \in Tasks : tip[u] \subseteq Known(made)
      /\ \A b \in survivors, u \in Tasks : KnownRecord(b[u], made)
  BY DEF Delivering, NamesKnown
<1>3. \A u \in Tasks : tip'[u] \subseteq Known(made')
  BY <1>1, <1>2, KnownGrows
<1>4. NamesKnown'
  BY <1>3, NamesKept DEF Delivering
<1>5. ASSUME NEW u \in Tasks PROVE Single(u)'
  <2>1. Single(u)
    BY DEF Delivering
  <2>2. ASSUME NEW b \in survivors, Apart(b[u], tip[u]) PROVE Apart(b[u], tip'[u])
    <3>1. tip'[u] = tip[u] \/ ~(tip'[u] \subseteq Known(made))
      OBVIOUS
    <3> QED
      BY <1>2, <2>2, <3>1, ApartAnew
  <2>3. InFlight(u)' => Apart(task'[u], tip'[u])
    <3>1. InFlight(u)' => InFlight(u)
      BY DEF InFlight
    <3> QED
      BY <1>1, <2>1, <2>2, <3>1 DEF Single
  <2>4. Linked(u) => Linked(u)'
    BY <2>2 DEF Linked, Apart
  <2>5. (op.task = u /\ op.step = "record" => ~InFlight(u) /\ ~task[u].pr)'
    <3>1. CASE op' = op
      BY <2>1, <3>1 DEF Single, InFlight
    <3>2. CASE delivery[u] = "no" /\ ~task[u].pr
      BY <3>2 DEF InFlight
    <3> QED
      BY <3>1, <3>2
  <2> QED
    BY <2>1, <2>3, <2>4, <2>5 DEF Single, Apart
<1> QED
  BY <1>4, <1>5 DEF Delivering

\* Human Review and moves back to work: an approval is of the branch as it is.
LEMMA DeliveringReview ==
  ASSUME Inv, Delivering, NEW t \in Tasks, NEW o \in Outcomes,
         Approve(t, o) \/ ApproveAgain(t, o) \/ CompleteLocally(t, o) \/ BeginWork(t, o)
           \/ FinishRun(t, o)
  PROVE  Delivering'
<1> DEFINE r == task[t]
<1>1. /\ r \in TaskRecords /\ KnownRecord(r, made) /\ tip[t] \subseteq Known(made)
      /\ SoundRecord(r, held, made)
  BY DEF Inv, TypeOK, Boards, Delivering, NamesKnown, SoundBoard
<1>2. UNCHANGED <<tip, made, github, op>> /\ Free(t)
  BY DEF Approve, ApproveAgain, CompleteLocally, BeginWork, FinishRun, repository
<1>3. ASSUME NEW STATE s, s \in TaskRecords, Save(t, s, o), s.local = r.local, s.pr = r.pr,
             s.approved \in {r.approved, tip[t], NoCommit}
      PROVE  Delivering'
  <2>1. KnownRecord(s, made)
    BY <1>1, <1>3 DEF KnownRecord, NoCommit
  <2>2. r.local.state = "integrated" => r.local.approved # NoCommit
    BY <1>1 DEF SoundRecord, Sound
  <2>3. Apart(r, tip[t]) => Apart(s, tip[t])
    BY <1>3, <2>2 DEF Apart
  <2> QED
    BY <1>2, <1>3, <2>1, <2>3, DeliveringWritten
<1>4. CASE Approve(t, o) \/ ApproveAgain(t, o)
  <2> DEFINE s == [r EXCEPT !.approved = tip[t]]
  <2>1. s \in TaskRecords /\ s.local = r.local /\ s.pr = r.pr /\ s.approved = tip[t]
    BY <1>1 DEF TaskRecords, Inv, TypeOK
  <2>2. Save(t, s, o)
    BY <1>4 DEF Approve, ApproveAgain
  <2> HIDE DEF s, r
  <2> QED
    BY <1>3, <2>1, <2>2
<1>5. CASE CompleteLocally(t, o)
  <2> DEFINE s == [r EXCEPT !.status = "done"]
  <2>1. s \in TaskRecords /\ s.local = r.local /\ s.pr = r.pr /\ s.approved = r.approved
    BY <1>1 DEF TaskRecords
  <2>2. Save(t, s, o)
    BY <1>5 DEF CompleteLocally
  <2> HIDE DEF s, r
  <2> QED
    BY <1>3, <2>1, <2>2
<1>6. ASSUME NEW status \in {"work", "review"},
             Save(t, [r EXCEPT !.status = status, !.approved = NoCommit], o)
      PROVE  Delivering'
  <2> DEFINE s == [r EXCEPT !.status = status, !.approved = NoCommit]
  <2>1. s \in TaskRecords /\ s.local = r.local /\ s.pr = r.pr /\ s.approved = NoCommit
    BY <1>1, Base DEF TaskRecords
  <2>2. Save(t, s, o)
    BY <1>6
  <2> HIDE DEF s, r
  <2> QED
    BY <1>3, <2>1, <2>2
<1> QED
  BY <1>4, <1>5, <1>6 DEF BeginWork, FinishRun

\* The steps of a request that write: only RecordPlan gives a task a plan it did
\* not have.
LEMMA DeliveringRequestWrites ==
  ASSUME Inv, Delivering, NEW o \in Outcomes, Finish(o) \/ Complete(o) \/ Clear(o)
  PROVE  Delivering'
<1> DEFINE t == op.task
           r == task[t]
<1>1. op.step \in {"finish", "complete", "clear"} /\ t \in Tasks
  BY DEF Finish, Complete, Clear, Inv, TypeOK
<1>2. r \in TaskRecords /\ KnownRecord(r, made)
  BY <1>1 DEF Inv, TypeOK, Boards, Delivering, NamesKnown
<1>3. UNCHANGED <<tip, made, github>>
  BY DEF Finish, Complete, Clear, repository
<1>4. op'.step # "record"
  <2>1. op \in Requests
    BY DEF Inv, TypeOK, Requests
  <2> QED
    BY <2>1 DEF Finish, Complete, Clear, Goto, End, Idle, Requests
<1>5. CASE Finish(o)
  <2> DEFINE s == [r EXCEPT !.local.state = "integrated"]
  <2>1. /\ s.pr = r.pr /\ s.approved = r.approved
        /\ s.local.approved = r.local.approved
    BY <1>2 DEF TaskRecords, Plans
  <2>2. r.local.state = "pending"
    BY <1>5 DEF Finish, Inv, SoundRequest, Pending
  <2>3. ~Apart(r, tip[t])
    BY <2>2 DEF Apart
  <2>4. KnownRecord(s, made)
    BY <1>2, <2>1 DEF KnownRecord
  <2>5. Save(t, s, o)
    BY <1>5 DEF Finish
  <2> HIDE DEF s, r, t
  <2> QED
    BY <1>1, <1>3, <1>4, <2>1, <2>3, <2>4, <2>5, DeliveringWritten DEF r
<1>6. CASE Complete(o)
  <2> DEFINE s == [r EXCEPT !.status = "done"]
  <2>1. s.pr = r.pr /\ s.approved = r.approved /\ s.local = r.local
    BY <1>2 DEF TaskRecords
  <2>2. KnownRecord(s, made) /\ (Apart(r, tip[t]) => Apart(s, tip[t]))
    BY <1>2, <2>1 DEF KnownRecord, Apart
  <2>3. Save(t, s, o)
    BY <1>6 DEF Complete
  <2> HIDE DEF s, r, t
  <2> QED
    BY <1>1, <1>3, <1>4, <2>1, <2>2, <2>3, DeliveringWritten DEF r
<1>7. CASE Clear(o)
  <2> DEFINE s == [r EXCEPT !.local = NoPlan]
  <2>1. s.pr = r.pr /\ s.approved = r.approved /\ s.local = NoPlan
    BY <1>2 DEF TaskRecords
  <2>2. KnownRecord(s, made) /\ Apart(s, tip[t])
    BY <1>2, <2>1 DEF KnownRecord, Apart, NoPlan, NoCommit
  <2>3. Save(t, s, o)
    BY <1>7 DEF Clear
  <2> HIDE DEF s, r, t
  <2> QED
    BY <1>1, <1>3, <1>4, <2>1, <2>2, <2>3, DeliveringWritten DEF r
<1> QED
  BY <1>5, <1>6, <1>7

\* The plan was made with no delivery and no pull request, and the lease has kept
\* both away since.
LEMMA DeliveringRecordPlan ==
  ASSUME Inv, Delivering, NEW o \in Outcomes, RecordPlan(o)
  PROVE  Delivering'
<1>0. PICK t \in Tasks : t = op.task
  BY DEF RecordPlan, Inv, TypeOK
<1> DEFINE s == [task[t] EXCEPT !.local = op.plan]
<1>1. op.step = "record" /\ t = op.task /\ Save(t, s, o)
  BY <1>0 DEF RecordPlan
<1>2. /\ task[t] \in TaskRecords /\ KnownRecord(task[t], made)
      /\ op.plan.approved = task[t].approved
  BY <1>1 DEF Inv, TypeOK, Boards, Delivering, NamesKnown, SoundRequest, Moving
<1>3. s.approved = task[t].approved /\ s.local = op.plan
  BY <1>2 DEF TaskRecords
<1>4. KnownRecord(s, made)
  BY <1>2, <1>3 DEF KnownRecord
<1>5. UNCHANGED <<tip, made, delivery, opened, lost>>
  BY DEF RecordPlan, repository, github
<1>6. op'.step # "record"
  <2>1. op \in Requests
    BY DEF Inv, TypeOK, Requests
  <2> QED
    BY <2>1 DEF RecordPlan, Goto, End, Idle, Requests
<1> HIDE DEF s
<1>7. NamesKnown'
  BY <1>1, <1>4, <1>5, NamesWritten DEF Delivering
<1>8. /\ \A u \in Tasks \ {t} : task'[u] = task[u]
      /\ \A b \in survivors' : \/ b \in survivors
                               \/ b[t] = s /\ \A u \in Tasks \ {t} : b[u] = task[u]
      /\ task \in survivors
  BY <1>1, SaveEffect
<1>9. ~InFlight(t) /\ ~task[t].pr
  BY <1>1 DEF Delivering, Single
<1>10. t \notin opened \ lost
  BY <1>1, <1>8, <1>9 DEF Delivering, Single, Linked, InFlight
<1>11. Single(t)'
  BY <1>5, <1>6, <1>9, <1>10 DEF Single, InFlight
<1>12. ASSUME NEW u \in Tasks \ {t} PROVE Single(u)'
  <2>1. Single(u)
    BY DEF Delivering
  <2>2. Linked(u) => Linked(u)'
    BY <1>5, <1>8 DEF Linked, Apart
  <2> QED
    BY <1>5, <1>6, <1>8, <2>1, <2>2 DEF Single, InFlight, Apart
<1> QED
  BY <1>7, <1>11, <1>12 DEF Delivering

\* create_pr_for_approved_task: what it admits is approved, at the branch, and
\* not what a plan integrates.
LEMMA DeliveringReserve ==
  ASSUME Inv, Delivering, NEW t \in Tasks, Reserve(t)
  PROVE  Delivering'
<1>1. /\ Free(t) /\ delivery[t] = "marked"
      /\ delivery' = [delivery EXCEPT ![t] = IF Admitted(t) THEN "reserved" ELSE "no"]
      /\ UNCHANGED <<task, survivors, tip, made, op, opened, lost>>
  BY DEF Reserve, board, repository
<1>2. /\ task[t] \in TaskRecords /\ task \in survivors /\ SoundBoard(task, held, made)
      /\ delivery \in [Tasks -> {"no", "marked", "reserved", "requested"}]
  BY DEF Inv, TypeOK, Boards
<1>3. NamesKnown'
  BY <1>1 DEF Delivering, NamesKnown, KnownRecord
<1>4. ASSUME NEW u \in Tasks PROVE Single(u)'
  <2>1. Single(u) /\ (Linked(u) => Linked(u)')
    BY <1>1 DEF Delivering, Linked, Apart
  <2>2. CASE u # t
    BY <1>1, <1>2, <2>1, <2>2 DEF Single, InFlight, Apart
  <2>3. CASE u = t
    <3>1. Admitted(t) => Apart(task[t], tip[t])
      <4> SUFFICES ASSUME Admitted(t)
                   PROVE  Apart(task[t], tip[t])
        OBVIOUS
      <4>1. task[t].approved = tip[t] /\ ~Integrating(t) /\ tip[t] # NoCommit
        BY DEF Admitted, Inv, NoCommit
      <4>2. task[t].local.state \in {"none", "integrated"}
        BY <1>2, <4>1 DEF Integrating, Pending, TaskRecords, Plans
      <4> QED
        BY <4>1, <4>2 DEF Integrating, Apart
    <3>2. delivery'[t] \in {"reserved", "no"} /\ (delivery'[t] = "reserved" => Admitted(t))
      BY <1>1, <1>2
    <3>3. InFlight(t)' => Apart(task'[t], tip'[t])
      BY <1>1, <3>1, <3>2 DEF InFlight
    <3>4. t \in opened \ lost => Linked(t)'
      BY <1>1, <2>1, <2>3 DEF Single
    <3>5. ~(op'.task = t)
      BY <1>1 DEF Free
    <3> QED
      BY <1>1, <2>3, <3>3, <3>4, <3>5 DEF Single, Apart
  <2> QED
    BY <2>2, <2>3
<1> QED
  BY <1>3, <1>4 DEF Delivering

\* The request, recorded before it is sent, or the search for an earlier one's
\* pull request.
LEMMA DeliveringRequest ==
  ASSUME Inv, Delivering, NEW t \in Tasks, NEW o \in Outcomes, Request(t, o)
  PROVE  Delivering'
<1>1. /\ delivery[t] = "reserved" /\ UNCHANGED <<tip, made, op, lost>>
      /\ task[t] \in TaskRecords /\ task \in survivors
      /\ delivery \in [Tasks -> {"no", "marked", "reserved", "requested"}]
      /\ KnownRecord(task[t], made) /\ Single(t)
  BY DEF Request, repository, Inv, TypeOK, Boards, Delivering, NamesKnown
<1>2. CASE task[t].asked
  <2>1. /\ UNCHANGED <<task, survivors, opened>>
        /\ delivery' = [delivery EXCEPT ![t] = IF t \in opened THEN "requested" ELSE "no"]
    BY <1>2 DEF Request, board
  <2>2. NamesKnown'
    BY <1>1, <2>1 DEF Delivering, NamesKnown, KnownRecord
  <2>3. ASSUME NEW u \in Tasks PROVE Single(u)'
    <3>1. Single(u) /\ (Linked(u) => Linked(u)')
      BY <1>1, <2>1 DEF Delivering, Linked, Apart
    <3>2. delivery'[u] = "requested" => InFlight(u)
      BY <1>1, <2>1 DEF InFlight
    <3>3. InFlight(u)' => InFlight(u)
      BY <1>1, <2>1 DEF InFlight
    <3>4. u \in opened \ lost /\ delivery[u] = "requested" => delivery'[u] = "requested"
      BY <1>1, <2>1
    <3> QED
      BY <1>1, <2>1, <3>1, <3>3, <3>4 DEF Single, Apart
  <2> QED
    BY <2>2, <2>3 DEF Delivering
<1>3. CASE ~task[t].asked
  <2> DEFINE s == [task[t] EXCEPT !.asked = TRUE]
  <2>1. /\ Save(t, s, o)
        /\ delivery' = [delivery EXCEPT ![t] = IF o = "saved" THEN "requested" ELSE "no"]
        /\ opened' = IF o = "saved" THEN opened \cup {t} ELSE opened
    BY <1>3 DEF Request
  <2>2. s.approved = task[t].approved /\ s.local = task[t].local /\ s.pr = task[t].pr
    BY <1>1 DEF TaskRecords
  <2> HIDE DEF s
  <2>3. NamesKnown'
    BY <1>1, <2>1, <2>2, NamesWritten DEF Delivering, KnownRecord
  <2>4. /\ task'[t] = IF o = "failed" THEN task[t] ELSE s
        /\ \A u \in Tasks \ {t} : task'[u] = task[u]
        /\ \A b \in survivors' : \/ b \in survivors
                                 \/ b[t] = s /\ \A u \in Tasks \ {t} : b[u] = task[u]
    BY <2>1, SaveEffect
  <2>5. ASSUME NEW u \in Tasks PROVE Single(u)'
    <3>1. Single(u)
      BY DEF Delivering
    <3>2. Linked(u) => Linked(u)'
      <4> SUFFICES ASSUME Linked(u), NEW b \in survivors'
                   PROVE  b[u].pr /\ Apart(b[u], tip[u])
        BY <1>1 DEF Linked, Apart
      <4>1. task[u].pr /\ Apart(task[u], tip[u])
        BY <1>1 DEF Linked
      <4>2. CASE b \in survivors
        BY <4>2 DEF Linked
      <4>3. CASE b[t] = s /\ \A v \in Tasks \ {t} : b[v] = task[v]
        BY <2>2, <4>1, <4>3 DEF Apart
      <4> QED
        BY <2>4, <4>2, <4>3
    <3>3. CASE u = t
      <4>1. Apart(task[t], tip[t]) /\ ~(op.task = t /\ op.step = "record")
        BY <1>1 DEF Single, InFlight
      <4>2. Apart(task'[t], tip'[t])
        BY <1>1, <2>2, <2>4, <4>1 DEF Apart
      <4>3. t \in opened' \ lost' => Linked(t)' \/ delivery'[t] = "requested"
        BY <1>1, <2>1, <3>1, <3>2, <3>3 DEF Single
      <4> QED
        BY <1>1, <3>3, <4>1, <4>2, <4>3 DEF Single, Apart
    <3>4. CASE u # t
      <4>1. delivery'[u] = delivery[u] /\ task'[u] = task[u] /\ (u \in opened' => u \in opened)
        BY <1>1, <2>1, <2>4, <3>4
      <4> QED
        BY <1>1, <3>1, <3>2, <4>1 DEF Single, InFlight, Apart
    <3> QED
      BY <3>3, <3>4
  <2> QED
    BY <2>3, <2>5 DEF Delivering
<1> QED
  BY <1>2, <1>3

\* link_pr_to_task_reserved: the pull request is on record whatever survives, or
\* its outcome is lost.
LEMMA DeliveringLink ==
  ASSUME Inv, Delivering, NEW t \in Tasks, NEW o \in Outcomes, Link(t, o)
  PROVE  Delivering'
<1> DEFINE s == [task[t] EXCEPT !.pr = TRUE, !.asked = FALSE,
                                !.status = IF Pinned(t) THEN @ ELSE "created"]
<1>1. /\ Free(t) /\ delivery[t] = "requested" /\ UNCHANGED <<tip, made, op, opened>>
      /\ task[t] \in TaskRecords /\ task \in survivors
      /\ delivery \in [Tasks -> {"no", "marked", "reserved", "requested"}]
      /\ KnownRecord(task[t], made)
  BY DEF Link, repository, Inv, TypeOK, Boards, Delivering, NamesKnown
<1>2. /\ Save(t, s, o) /\ delivery' = [delivery EXCEPT ![t] = "no"]
      /\ lost' = IF o = "saved" THEN lost ELSE lost \cup {t}
  BY DEF Link
<1>3. s.approved = task[t].approved /\ s.local = task[t].local /\ s.pr = TRUE
  BY <1>1 DEF TaskRecords
<1> HIDE DEF s
<1>4. NamesKnown'
  BY <1>1, <1>2, <1>3, NamesWritten DEF Delivering, KnownRecord
<1>5. /\ \A u \in Tasks \ {t} : task'[u] = task[u]
      /\ \A b \in survivors' : \/ b \in survivors
                               \/ b[t] = s /\ \A u \in Tasks \ {t} : b[u] = task[u]
      /\ o = "saved" => \A b \in survivors' : b[t] = s
  BY <1>2, SaveEffect
<1>6. Single(t)'
  <2>1. Apart(task[t], tip[t])
    BY <1>1 DEF Delivering, Single, InFlight
  <2>2. Apart(s, tip[t])
    BY <1>3, <2>1 DEF Apart
  <2>3. o = "saved" => Linked(t)'
    BY <1>1, <1>3, <1>5, <2>2 DEF Linked, Apart
  <2>4. delivery'[t] = "no" /\ ~(op'.task = t)
    BY <1>1, <1>2 DEF Free
  <2> QED
    BY <1>1, <1>2, <2>3, <2>4 DEF Single, InFlight
<1>7. ASSUME NEW u \in Tasks \ {t} PROVE Single(u)'
  <2>1. Single(u) /\ (Linked(u) => Linked(u)')
    BY <1>1, <1>5 DEF Delivering, Linked, Apart
  <2>2. delivery'[u] = delivery[u] /\ task'[u] = task[u] /\ (u \in lost <=> u \in lost')
    BY <1>1, <1>2, <1>5
  <2> QED
    BY <1>1, <2>1, <2>2 DEF Single, InFlight, Apart
<1> QED
  BY <1>4, <1>6, <1>7 DEF Delivering

\* A crash forgets the deliveries under way, and loses the requests among them.
LEMMA DeliveringCrash ==
  ASSUME Inv, Delivering, Crash
  PROVE  Delivering'
<1>1. /\ survivors' \subseteq survivors /\ UNCHANGED <<tip, made, opened>>
      /\ op' = Idle /\ delivery' = [u \in Tasks |-> "no"]
      /\ lost' = lost \cup {u \in Tasks : delivery[u] = "requested"}
  BY DEF Crash, repository, Inv, TypeOK
<1>2. NamesKnown'
  BY <1>1 DEF Delivering, NamesKnown, KnownRecord
<1>3. ASSUME NEW u \in Tasks PROVE Single(u)'
  <2>1. Single(u) /\ (Linked(u) => Linked(u)')
    BY <1>1 DEF Delivering, Linked, Apart
  <2>2. op'.step # "record"
    BY <1>1 DEF Idle
  <2> QED
    BY <1>1, <2>1, <2>2 DEF Single, InFlight
<1> QED
  BY <1>2, <1>3 DEF Delivering

\* A request goes on without writing: only Plan, in which eligible has seen no
\* delivery and no pull request, leads to a record.
LEMMA DeliveringRequestGoes ==
  ASSUME Inv, Delivering,
         \/ \E t \in Tasks :
              AskResume(t) \/ Discard(t) \/ \E completes \in BOOLEAN : Ask(t, completes)
         \/ Plan \/ PlanMade \/ PlanRefused
         \/ Advance \/ UpdateRef \/ Merge \/ MergeRef \/ Observe
         \/ CompleteRefused \/ Resume \/ ResumeRefused
  PROVE  Delivering'
<1>1. TypeOK /\ made \in Nat /\ op \in Requests
  BY IntegrationAssumption DEF Inv, TypeOK, Requests
<1>2. UNCHANGED <<task, survivors, tip, delivery, opened, lost>>
  BY DEF AskResume, Discard, Ask, Plan, PlanMade, PlanRefused, Advance, UpdateRef, Merge, MergeRef,
         Observe, CompleteRefused, Resume, ResumeRefused, Step, Refuse, MoveTarget,
         board, repository, github
<1>3. CASE Plan
  <2>1. made' \in Nat /\ made <= made'
    BY <1>1, <1>3 DEF Plan
  <2>2. /\ op'.task = op.task
        /\ delivery[op.task] = "no" /\ ~task[op.task].pr
    BY <1>3 DEF Plan, Eligible, Idle
  <2> QED
    BY <1>2, <2>1, <2>2, DeliveringQuiet
<1>4. CASE ~Plan
  <2>1. made' = made
    BY <1>4 DEF AskResume, Discard, Ask, PlanMade, PlanRefused, Advance, UpdateRef, Merge,
         MergeRef, Observe, CompleteRefused, Resume, ResumeRefused, Step, Refuse, MoveTarget,
         repository
  <2>2. op'.step # "record"
    <3>1. ASSUME NEW t \in Tasks,
                 AskResume(t) \/ Discard(t) \/ \E completes \in BOOLEAN : Ask(t, completes)
          PROVE  op'.step # "record"
      <4>1. CASE AskResume(t) \/ Discard(t)
        BY <4>1 DEF AskResume, Discard, Idle
      <4>2. CASE \E completes \in BOOLEAN : Ask(t, completes)
        BY <4>2 DEF Ask
      <4> QED
        BY <3>1, <4>1, <4>2
    <3>2. CASE Resume
      BY <1>1, <3>2 DEF Resume, Requests
    <3>3. CASE \/ PlanMade \/ PlanRefused \/ Advance \/ UpdateRef \/ Merge \/ MergeRef \/ Observe
               \/ CompleteRefused \/ ResumeRefused
      <4>1. \/ op' = Idle
            \/ \E step \in Steps \ {"record"} : Goto(step)
        BY <3>3 DEF PlanMade, PlanRefused, Advance, UpdateRef, Merge, MergeRef, Observe,
                    CompleteRefused, ResumeRefused, Step, Refuse, End, Steps
      <4> QED
        BY <1>1, <4>1 DEF Goto, Idle, Requests
    <3> QED
      BY <1>4, <3>1, <3>2, <3>3
  <2> QED
    BY <1>1, <1>2, <2>1, <2>2, DeliveringQuiet
<1> QED
  BY <1>3, <1>4

\* The branches, the target and its checkout move; a delivery is asked for, or
\* its answer lost.
LEMMA DeliveringMoves ==
  ASSUME Inv, Delivering,
         \/ \E t \in Tasks : Deliver(t) \/ LoseAnswer(t) \/ Commit(t) \/ Rewrite(t)
         \/ TargetGrows \/ TargetReset \/ (\E path \in Checkouts : CheckOut(path))
         \/ Leave \/ Edit \/ Restore
  PROVE  Delivering'
<1>1. /\ made \in Nat /\ \A u \in Tasks : tip[u] \subseteq Known(made)
      /\ delivery \in [Tasks -> {"no", "marked", "reserved", "requested"}]
      /\ tip \in [Tasks -> Commits]
  BY IntegrationAssumption DEF Inv, TypeOK, Delivering, NamesKnown
<1>2. ASSUME NEW t \in Tasks, Deliver(t) \/ LoseAnswer(t)
      PROVE  Delivering'
  <2>1. /\ UNCHANGED <<task, survivors, opened, tip, made, op>> /\ lost \subseteq lost'
        /\ \/ delivery[t] = "no" /\ delivery' = [delivery EXCEPT ![t] = "marked"]
           \/ delivery' = [delivery EXCEPT ![t] = "no"] /\ t \in lost'
    BY <1>2 DEF Deliver, LoseAnswer, board, repository
  <2>2. \A u \in Tasks : \/ delivery'[u] = delivery[u]
                         \/ /\ delivery'[u] \in {"no", "marked"}
                            /\ delivery[u] = "requested" => u \in lost'
    BY <1>1, <2>1
  <2> QED
    BY <1>1, <2>1, <2>2, DeliveringQuiet
<1>3. ASSUME NEW t \in Tasks, Commit(t) \/ Rewrite(t)
      PROVE  Delivering'
  <2>1. /\ UNCHANGED <<task, survivors, op, delivery, opened, lost>>
        /\ made' = made + 1
        /\ \/ tip' = [tip EXCEPT ![t] = tip[t] \cup {made'}]
           \/ tip' = [tip EXCEPT ![t] = Root \cup {made'}]
    BY <1>3 DEF Commit, Rewrite, Name, board, github
  <2>2. made' \in Nat /\ made <= made' /\ made' \notin Known(made) /\ made' \in Known(made')
    BY <1>1, <2>1, IntegrationAssumption DEF Known
  <2>3. Root \subseteq Known(made') /\ Known(made) \subseteq Known(made')
    BY <1>1, <2>2, KnownGrows DEF Root, Known
  <2>4. \A u \in Tasks :
          tip'[u] = tip[u] \/ (tip'[u] \subseteq Known(made') /\ ~(tip'[u] \subseteq Known(made)))
    <3> SUFFICES ASSUME NEW u \in Tasks, u = t
                 PROVE  tip'[u] \subseteq Known(made') /\ ~(tip'[u] \subseteq Known(made))
      BY <1>1, <2>1
    <3>1. tip'[t] = tip[t] \cup {made'} \/ tip'[t] = Root \cup {made'}
      BY <1>1, <2>1
    <3> QED
      BY <1>1, <2>2, <2>3, <3>1
  <2> QED
    BY <2>1, <2>2, <2>4, DeliveringQuiet
<1>4. CASE \/ TargetGrows \/ TargetReset \/ (\E path \in Checkouts : CheckOut(path))
           \/ Leave \/ Edit \/ Restore
  <2>1. UNCHANGED <<task, survivors, opened, lost, delivery, tip, op>>
    BY <1>4 DEF TargetGrows, TargetReset, CheckOut, Leave, Edit, Restore, board, repository, github
  <2>2. made' \in Nat /\ made <= made'
    BY <1>1, <1>4
    DEF TargetGrows, TargetReset, CheckOut, Leave, Edit, Restore, Name, repository
  <2> QED
    BY <2>1, <2>2, DeliveringQuiet
<1> QED
  BY <1>2, <1>3, <1>4

LEMMA DeliveringNext ==
  ASSUME Inv, Delivering, [Next]_vars
  PROVE  Delivering'
<1>1. CASE UNCHANGED vars
  <2>1. UNCHANGED <<task, survivors, opened, lost, delivery, tip, made, op>>
    BY <1>1 DEF vars, board, repository, github
  <2>2. made \in Nat
    BY IntegrationAssumption DEF Inv, TypeOK
  <2> QED
    BY <2>1, <2>2, DeliveringQuiet
<1>2. CASE Integration
  BY <1>2, DeliveringRequestGoes, DeliveringRequestWrites, DeliveringRecordPlan DEF Integration
<1>3. CASE Surroundings
  BY <1>3, DeliveringReview, DeliveringReserve, DeliveringRequest, DeliveringLink,
     DeliveringCrash, DeliveringMoves
  DEF Surroundings
<1> QED
  BY <1>1, <1>2, <1>3 DEF Next

LEMMA DeliveringInit == Init => Delivering
<1> SUFFICES ASSUME Init
             PROVE  Delivering
  OBVIOUS
<1>1. NamesKnown
  BY DEF Init, NamesKnown, KnownRecord, Known, Root, NoPlan, NoCommit
<1>2. \A t \in Tasks : Single(t)
  BY DEF Init, Single, InFlight, Idle
<1> QED
  BY <1>1, <1>2 DEF Delivering

------------------------------------------------------------------------------
(* Theorems *)

THEOREM Invariance == Spec => []Inv
<1>1. Init => Inv
  BY InitInv
<1>2. Inv /\ [Next]_vars => Inv'
  BY NextInv
<1> QED
  BY <1>1, <1>2, PTL DEF Spec

\* Every record, request and branch keeps the shape the code gives it.
THEOREM TypeCorrect == Spec => []TypeOK
<1>1. Inv => TypeOK
  BY DEF Inv
<1> QED
  BY <1>1, Invariance, PTL

\* record and finish come after what they record: no power loss leaves a board
\* that claims more than the target holds, or a Task an integration completed
\* whose work was not integrated.
THEOREM RecordsAreTrue == Spec => []RecordIsTrue
<1>1. Inv => RecordIsTrue
  <2> SUFFICES ASSUME Inv, NEW b \in survivors, NEW t \in Tasks
               PROVE  /\ b[t].local.state = "integrated" => Includes(held, b[t].local.approved)
                      /\ b[t].status = "done" /\ b[t].local.completes
                           => b[t].local.state = "integrated"
    BY DEF RecordIsTrue
  <2>1. SoundRecord(b[t], held, made)
    BY DEF Inv, SoundBoard
  <2> QED
    BY <2>1 DEF SoundRecord, Sound, Includes
<1> QED
  BY <1>1, Invariance, PTL

\* other_pending_on under the target's lock: no board, in memory or surviving a
\* crash, holds two unfinished plans for the one target.
THEOREM PlansExclude == Spec => []OnePlan
<1>1. Inv => OnePlan
  BY DEF Inv, SoundBoard, OnePlan
<1> QED
  BY <1>1, Invariance, PTL

\* advance and apply: provided nobody changes the target's checkout inside git's
\* own move, the target only ever moves to what was planned, recorded and kept.
THEOREM TargetMoves ==
  ASSUME {"updateRef", "mergeRef"} \subseteq Undisturbed
  PROVE  Spec => TargetMovesAsPlanned
<1>1. Init => FilesAhead
  BY DEF Init, Idle, FilesAhead
<1>2. Inv /\ FilesAhead /\ [Next]_vars => FilesAhead'
  BY FilesInv
<1>3. Inv /\ FilesAhead /\ [Next]_vars => [PlannedMove]_vars
  BY MoveIsPlanned
<1>4. Spec => [][PlannedMove]_vars
  BY <1>1, <1>2, <1>3, Invariance, PTL DEF Spec
<1> QED
  BY <1>4, PTL DEF TargetMovesAsPlanned, PlannedMove

\* Approve & Create PR and Complete and Integrate race for one task across a
\* lease each gives up in between: eligible and create_pr_for_approved_task see
\* the delivery in flight, the plan or the pull request, also after a crash, so
\* the approved work goes one way only while SlashIt knows what its request did.
THEOREM OneWayOnly == Spec => []OneDelivery
<1>1. Inv /\ Delivering => OneDelivery
  <2> SUFFICES ASSUME Inv, Delivering, NEW t \in opened \ lost
               PROVE  ~Integrating(t)
    BY DEF OneDelivery
  <2>1. t \in Tasks /\ task \in survivors
    BY DEF Inv, TypeOK
  <2>2. Apart(task[t], tip[t])
    BY <2>1 DEF Delivering, Single, Linked, InFlight
  <2> QED
    BY <2>2 DEF Apart, Integrating, Pending
<1>2. Inv /\ Delivering /\ [Next]_vars => Inv' /\ Delivering'
  BY NextInv, DeliveringNext
<1>3. Init => Inv /\ Delivering
  BY InitInv, DeliveringInit
<1> QED
  BY <1>1, <1>2, <1>3, PTL DEF Spec
=============================================================================
