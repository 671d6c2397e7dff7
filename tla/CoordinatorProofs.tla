--------------------------- MODULE CoordinatorProofs ---------------------------
(***************************************************************************)
(* That one approval admits one run of the Task, for any number of actions,  *)
(* inputs, runs and faults.                                                   *)
(*                                                                           *)
(* The two files are not written together, so the invariant speaks of every   *)
(* record of the Task and every Conversation a power loss may leave, in any   *)
(* combination: a binding agrees with each of the Conversations that still    *)
(* knows the action, and every record of the Task remembers every approval    *)
(* under which a run was launched.                                            *)
(***************************************************************************)
EXTENDS Coordinator, TLAPS

\* What the person was shown, and what a binding or a run was made with.
Agrees(binding, m) ==
  /\ binding.input = m.input
  /\ binding.request = (m.kind = "execute")
  /\ binding.request => binding.run = m.run

\* A record of the Task, beside the Conversations C and the launched runs L.
SoundBoard(b, C, L) ==
  LET a == b.bound.approval IN
  /\ a \notin b.executed
  /\ a # "none" => \A c \in C : c[a].kind # "none" => Agrees(b.bound, c[a])
  /\ \A l \in L : l.under.approval # "none" => l.under.approval \in b.executed
  /\ ~Exists(b) => L = {}

SoundRun(l, C, L) ==
  LET a == l.under.approval IN
  a # "none" =>
    /\ l.under.run = l.run /\ l.under.input = l.input
    /\ \A k \in L : k.under.approval = a => k = l
    /\ \A c \in C : c[a].kind # "none" => Agrees(l.under, c[a])

SameProposal(m, n) ==
  n.kind = m.kind /\ n.input = m.input /\ n.reuses = m.reuses /\ n.run = m.run

WellFormed(m) ==
  /\ m.kind = "none" <=> m.status = "none"
  /\ m.kind = "execute" => m.run >= 1 /\ (m.reuses <=> m.run > 1)

\* A Conversation, beside the latest: what it knows of an action is still so.
SoundConversation(c, latest) ==
  \A a \in Actions : /\ WellFormed(c[a])
                     /\ c[a].kind # "none" => SameProposal(c[a], latest[a])

Sound ==
  /\ \A b \in boards : SoundBoard(b, convs, launched)
  /\ \A l \in launched : SoundRun(l, convs, launched)
  /\ \A c \in convs : SoundConversation(c, conv)

Inv ==
  /\ TypeOK
  /\ op.step # "idle" => op.action \in Actions
  /\ op.step = "record" => op.outcome \in {"applied", "refused"}
  /\ Sound

------------------------------------------------------------------------------
(* The records, once *)

LEMMA Constants ==
  /\ NoInput \in Inputs
  /\ NoBinding \in Bindings /\ NoBinding.approval = "none"
  /\ Unproposed \in Mutations /\ Unproposed.kind = "none"
  /\ WellFormed(Unproposed)
  /\ \A s \in Statuses, i \in Inputs :
       /\ Fresh(s, i) \in Tasks /\ Fresh(s, i).bound = NoBinding
       /\ Fresh(s, i).executed = {} /\ Fresh(s, i).status = s
<1>1. NoInput \in Inputs
  BY CoordinatorAssumption DEF NoInput
<1>2. NoBinding \in Bindings /\ NoBinding.approval = "none"
  BY <1>1, CoordinatorAssumption DEF NoBinding, Bindings
<1>3. Unproposed \in Mutations /\ Unproposed.kind = "none" /\ WellFormed(Unproposed)
  BY <1>1, CoordinatorAssumption DEF Unproposed, Mutations, Kinds, Statuses, WellFormed
<1>4. ASSUME NEW s \in Statuses, NEW i \in Inputs
      PROVE  /\ Fresh(s, i) \in Tasks /\ Fresh(s, i).bound = NoBinding
             /\ Fresh(s, i).executed = {} /\ Fresh(s, i).status = s
  BY <1>2, CoordinatorAssumption DEF Fresh, Tasks
<1> QED BY <1>1, <1>2, <1>3, <1>4

\* Every proposal is well formed.
LEMMA Proposals ==
  ASSUME NEW m \in Shown PROVE m \in Mutations /\ WellFormed(m) /\ m.kind # "none"
BY CoordinatorAssumption DEF Shown, Mutations, WellFormed

\* What a save leaves: the old record, or the new one with it, or it alone.
LEMMA SaveEffect ==
  ASSUME NEW t, NEW o \in Outcomes, Save(t, o), TypeOK, t \in Tasks
  PROVE  /\ boards' \subseteq boards \cup {t} /\ task' \in boards'
         /\ task' \in {task, t} /\ boards' \subseteq Tasks
         /\ faults' \in 0 .. MaxFaults
         /\ o = "saved" => task' = t /\ boards' = {t}
         /\ o = "failed" => task' = task /\ boards' = boards
BY CoordinatorAssumption DEF Save, Count, After, Survive, Outcomes, TypeOK

LEMMA PersistEffect ==
  ASSUME NEW c, NEW o \in Outcomes, Persist(c, o), TypeOK, c \in [Actions -> Mutations]
  PROVE  /\ convs' \subseteq convs \cup {c} /\ conv' \in convs'
         /\ convs' \subseteq [Actions -> Mutations]
         /\ faults' \in 0 .. MaxFaults
         /\ conv' = c \/ (conv' = conv /\ convs' = convs)
         /\ o # "failed" => conv' = c
BY CoordinatorAssumption DEF Persist, Count, After, Survive, Outcomes, TypeOK

------------------------------------------------------------------------------
(* What a write preserves *)

\* A write of the board that launches nothing.
LEMMA BoardWrite ==
  ASSUME Inv, NEW t \in Tasks, NEW o \in Outcomes, Save(t, o),
         UNCHANGED <<conversation, launched>>, SoundBoard(t, convs, launched)
  PROVE  Sound'
<1>1. /\ \A b \in boards' : SoundBoard(b, convs, launched)
      /\ \A l \in launched : SoundRun(l, convs, launched)
      /\ \A c \in convs : SoundConversation(c, conv)
  BY SaveEffect DEF Inv, Sound
<1> QED BY <1>1 DEF Sound, conversation

\* A write of the Conversation that changes no proposal, and adds at most
\* proposals nothing has named.
LEMMA ConversationWrite ==
  ASSUME Inv, NEW c \in [Actions -> Mutations], NEW o \in Outcomes, Persist(c, o),
         UNCHANGED <<board, launched>>,
         \A a \in Actions : WellFormed(c[a]),
         \A a \in Actions : SameProposal(conv[a], c[a]) \/ Unused(a)
  PROVE  Sound'
<1>1. conv \in convs /\ convs' \subseteq convs \cup {c}
      /\ (conv' = c \/ (conv' = conv /\ convs' = convs))
  BY PersistEffect DEF Inv, TypeOK
<1>2. ASSUME NEW b \in boards PROVE SoundBoard(b, convs', launched)
  <2> DEFINE a == b.bound.approval
  <2>1. SoundBoard(b, convs, launched) /\ (a # "none" => a \in Actions)
    BY DEF Inv, Sound, TypeOK, Tasks, Bindings
  <2>2. ASSUME a # "none", c[a].kind # "none" PROVE Agrees(b.bound, c[a])
    <3>1. SameProposal(conv[a], c[a])
      BY <2>1, <2>2 DEF Unused
    <3>2. conv[a].kind # "none" /\ Agrees(b.bound, conv[a])
      BY <1>1, <2>1, <2>2, <3>1 DEF SoundBoard, SameProposal
    <3> QED BY <3>1, <3>2 DEF Agrees, SameProposal
  <2> QED BY <1>1, <2>1, <2>2 DEF SoundBoard
<1>3. ASSUME NEW l \in launched PROVE SoundRun(l, convs', launched)
  <2> DEFINE a == l.under.approval
  <2>1. SoundRun(l, convs, launched) /\ (a # "none" => a \in Actions)
    BY DEF Inv, Sound, TypeOK, Bindings
  <2>2. ASSUME a # "none", c[a].kind # "none" PROVE Agrees(l.under, c[a])
    <3>1. SameProposal(conv[a], c[a])
      BY <2>1, <2>2 DEF Unused
    <3>2. conv[a].kind # "none" /\ Agrees(l.under, conv[a])
      BY <1>1, <2>1, <2>2, <3>1 DEF SoundRun, SameProposal
    <3> QED BY <3>1, <3>2 DEF Agrees, SameProposal
  <2> QED BY <1>1, <2>1, <2>2 DEF SoundRun
<1>4. ASSUME NEW d \in convs' PROVE SoundConversation(d, conv')
  <2>1. CASE d = c /\ conv' = c
    BY <2>1 DEF SoundConversation, SameProposal
  <2>2. CASE d \in convs /\ conv' = c
    <3> SUFFICES ASSUME NEW a \in Actions
                 PROVE  /\ WellFormed(d[a])
                        /\ d[a].kind # "none" => SameProposal(d[a], c[a])
      BY <2>2 DEF SoundConversation
    <3>1. WellFormed(d[a]) /\ (d[a].kind # "none" => SameProposal(d[a], conv[a]))
      BY <2>2 DEF Inv, Sound, SoundConversation
    <3>2. CASE SameProposal(conv[a], c[a])
      BY <3>1, <3>2 DEF SameProposal
    <3>3. CASE Unused(a)
      BY <2>2, <3>1, <3>3, Constants DEF Unused
    <3> QED BY <3>2, <3>3
  <2>3. CASE conv' = conv /\ convs' = convs
    BY <2>3 DEF Inv, Sound
  <2> QED BY <1>1, <2>1, <2>2, <2>3
<1>5. boards' = boards /\ launched' = launched
  BY DEF board
<1> QED BY <1>2, <1>3, <1>4, <1>5 DEF Sound

\* A record made from another one that binds nothing new and forgets no approval.
LEMMA Derived ==
  ASSUME NEW b, NEW t, NEW C, NEW L, SoundBoard(b, C, L), t \in Tasks,
         t.executed = b.executed, t.bound \in {b.bound, NoBinding}, Exists(b) => Exists(t)
  PROVE  SoundBoard(t, C, L)
<1>1. t.executed \subseteq Actions
  BY DEF Tasks
<1> QED BY <1>1, Constants, CoordinatorAssumption DEF SoundBoard

LEMMA FreshSound ==
  ASSUME NEW s \in Statuses, NEW i \in Inputs, NEW C
  PROVE  SoundBoard(Fresh(s, i), C, {})
BY Constants DEF SoundBoard

\* Moved, as the record it is.
LEMMA MovedTask ==
  ASSUME NEW t \in Tasks, NEW s \in Statuses
  PROVE  /\ Moved(t, s) \in Tasks /\ Moved(t, s).executed = t.executed
         /\ Moved(t, s).bound \in {t.bound, NoBinding} /\ Moved(t, s).status = s
BY Constants DEF Moved, Tasks

------------------------------------------------------------------------------
(* Steps of one shape *)

OpOK ==
  /\ op \in [step : {"idle", "execute", "check", "record"}, action : Actions \cup {"none"},
             outcome : {"none", "applied", "refused"}]
  /\ op.step # "idle" => op.action \in Actions /\ conv[op.action].status = "approved"
  /\ op.step = "record" => op.outcome \in {"applied", "refused"}

LEMMA BoardStep ==
  ASSUME Inv, NEW t \in Tasks, NEW o \in Outcomes, Save(t, o),
         UNCHANGED <<conversation, launched>>, SoundBoard(t, convs, launched),
         OpOK', live' \in BOOLEAN
  PROVE  Inv'
<1>1. Sound'
  BY BoardWrite
<1>2. TypeOK'
  BY SaveEffect DEF Inv, TypeOK, OpOK, conversation
<1> QED BY <1>1, <1>2 DEF Inv, OpOK

LEMMA ConversationStep ==
  ASSUME Inv, NEW c \in [Actions -> Mutations], NEW o \in Outcomes, Persist(c, o),
         UNCHANGED <<board, launched, live>>,
         \A a \in Actions : WellFormed(c[a]),
         \A a \in Actions : SameProposal(conv[a], c[a]) \/ Unused(a),
         OpOK'
  PROVE  Inv'
<1>1. Sound'
  BY ConversationWrite
<1>2. TypeOK'
  BY PersistEffect DEF Inv, TypeOK, OpOK, board
<1> QED BY <1>1, <1>2 DEF Inv, OpOK

\* The person's answer, on an action that was proposed.
LEMMA DecidedWrite ==
  ASSUME Inv, NEW a \in Actions, conv[a].status # "none",
         NEW s \in {"approved", "rejected", "applied", "refused"}
  PROVE  /\ Decided(a, s) \in [Actions -> Mutations]
         /\ Decided(a, s)[a].status = s
         /\ \A x \in Actions : WellFormed(Decided(a, s)[x]) /\ SameProposal(conv[x], Decided(a, s)[x])
<1>1. conv \in [Actions -> Mutations] /\ \A x \in Actions : WellFormed(conv[x])
  BY DEF Inv, TypeOK, Sound, SoundConversation
<1> QED BY <1>1 DEF Decided, Mutations, WellFormed, SameProposal

LEMMA ExecutingOp ==
  ASSUME Inv, NEW kinds, Executing(kinds)
  PROVE  /\ OpOK /\ op.step = "execute" /\ op.action \in Actions
         /\ Mutation \in Mutations /\ Mutation.kind \in kinds
BY DEF Inv, TypeOK, Executing, Mutation, OpOK

\* An outcome that needs no write.
LEMMA FoundStep ==
  ASSUME Inv, op.step \in {"execute", "check"}, NEW r \in {"applied", "refused"}, Found(r)
  PROVE  Inv'
BY DEF Inv, TypeOK, Sound, Found, board, conversation

\* Step 2's write.
LEMMA ChangeStep ==
  ASSUME Inv, op.step = "execute", NEW t \in Tasks, NEW o \in Outcomes, Change(t, o),
         SoundBoard(t, convs, launched)
  PROVE  Inv'
<1>1. OpOK'
  BY DEF Inv, TypeOK, OpOK, Change, Idle, conversation
<1> QED BY <1>1, BoardStep DEF Change, Inv, TypeOK

\* A write of the executor's or of a person's.
LEMMA AmendStep ==
  ASSUME Inv, NEW t \in Tasks, NEW o \in Outcomes, Amend(t, o), launched' = launched,
         live' \in BOOLEAN, SoundBoard(t, convs, launched)
  PROVE  Inv'
<1>1. OpOK'
  BY DEF Inv, TypeOK, OpOK, Amend, conversation
<1> QED BY <1>1, BoardStep DEF Amend

LEMMA Present ==
  ASSUME Inv
  PROVE  /\ task \in Tasks /\ task \in boards /\ SoundBoard(task, convs, launched)
         /\ conv \in convs /\ conv \in [Actions -> Mutations] /\ live \in BOOLEAN
BY DEF Inv, TypeOK, Sound

------------------------------------------------------------------------------
(* Decisions *)

LEMMA ProposeStep ==
  ASSUME Inv, NEW a \in Actions, NEW m \in Shown, NEW o \in Outcomes, Propose(a, m, o)
  PROVE  Inv'
<1> DEFINE c == [conv EXCEPT ![a] = m]
<1>1. m \in Mutations /\ WellFormed(m)
  BY Proposals
<1>2. c \in [Actions -> Mutations]
  BY <1>1, Present
<1>3. \A x \in Actions : WellFormed(c[x])
  BY <1>1, Present DEF Inv, Sound, SoundConversation
<1>4. \A x \in Actions : SameProposal(conv[x], c[x]) \/ Unused(x)
  BY Present DEF Propose, SameProposal
<1>5. OpOK'
  BY DEF Propose, Inv, TypeOK, OpOK, Idle
<1> QED BY <1>2, <1>3, <1>4, <1>5, ConversationStep DEF Propose

LEMMA ApproveStep ==
  ASSUME Inv, NEW a \in Actions, NEW o \in Outcomes, Approve(a, o)
  PROVE  Inv'
<1>1. CASE conv[a].status = "proposed" /\ Persist(Decided(a, "approved"), o)
  <2>1. /\ Decided(a, "approved") \in [Actions -> Mutations]
        /\ Decided(a, "approved")[a].status = "approved"
        /\ \A x \in Actions : /\ WellFormed(Decided(a, "approved")[x])
                              /\ SameProposal(conv[x], Decided(a, "approved")[x])
    BY <1>1, DecidedWrite
  <2>2. OpOK'
    BY <1>1, <2>1, PersistEffect DEF Approve, OpOK, Idle, Inv
  <2> QED BY <1>1, <2>1, <2>2, ConversationStep DEF Approve
<1>2. CASE conv[a].status = "approved" /\ o = "saved" /\ UNCHANGED <<conversation, faults>>
  BY <1>2 DEF Approve, Inv, TypeOK, Sound, Idle, board, conversation
<1> QED BY <1>1, <1>2 DEF Approve

LEMMA RejectStep ==
  ASSUME Inv, NEW a \in Actions, NEW o \in Outcomes, Reject(a, o)
  PROVE  Inv'
<1>1. /\ Decided(a, "rejected") \in [Actions -> Mutations]
      /\ \A x \in Actions : /\ WellFormed(Decided(a, "rejected")[x])
                            /\ SameProposal(conv[x], Decided(a, "rejected")[x])
  BY DecidedWrite DEF Reject
<1>2. OpOK'
  BY DEF Reject, OpOK, Idle, Inv, TypeOK
<1> QED BY <1>1, <1>2, ConversationStep DEF Reject

LEMMA RecordDecision ==
  ASSUME Inv, NEW o \in Outcomes, Record(o)
  PROVE  Inv'
<1>1. /\ op.action \in Actions /\ conv[op.action].status # "none"
      /\ op.outcome \in {"applied", "refused"}
  BY DEF Record, Inv, TypeOK
<1>2. /\ Decided(op.action, op.outcome) \in [Actions -> Mutations]
      /\ \A x \in Actions : /\ WellFormed(Decided(op.action, op.outcome)[x])
                            /\ SameProposal(conv[x], Decided(op.action, op.outcome)[x])
  BY <1>1, DecidedWrite
<1>3. OpOK'
  BY DEF Record, OpOK, Idle
<1> QED BY <1>2, <1>3, ConversationStep DEF Record

LEMMA CreateStep ==
  ASSUME Inv, NEW o \in Outcomes, Create(o)
  PROVE  Inv'
<1>1. CASE Exists(task)
  BY <1>1, FoundStep DEF Create, Executing
<1>2. CASE ~Exists(task)
  <2>1. Fresh("backlog", Mutation.input) \in Tasks
    BY Constants, ExecutingOp DEF Create, Statuses, Mutations
  <2>2. launched = {}
    BY <1>2, Present DEF SoundBoard
  <2>3. SoundBoard(Fresh("backlog", Mutation.input), convs, launched)
    BY <2>2, FreshSound, ExecutingOp DEF Create, Statuses, Mutations
  <2> QED BY <1>2, <2>1, <2>3, ChangeStep DEF Create, Executing
<1> QED BY <1>1, <1>2

LEMMA EditStep ==
  ASSUME Inv, NEW o \in Outcomes, Edit(o)
  PROVE  Inv'
<1>1. CASE Exists(task) /\ task.input = Mutation.to
  BY <1>1, FoundStep DEF Edit, Executing
<1>2. CASE ~(Exists(task) /\ task.input = Mutation.to) /\ (~Exists(task) \/ task.input # Mutation.input)
  BY <1>2, FoundStep DEF Edit, Executing
<1>3. CASE Exists(task) /\ task.input # Mutation.to /\ task.input = Mutation.input
  <2> DEFINE t == [task EXCEPT !.input = Mutation.to]
  <2>1. t \in Tasks /\ t.executed = task.executed /\ t.bound = task.bound /\ t.status = task.status
    BY Present, ExecutingOp DEF Edit, Tasks, Mutations
  <2>2. SoundBoard(t, convs, launched)
    BY <2>1, Present, Derived DEF Exists
  <2> QED BY <1>3, <2>1, <2>2, ChangeStep DEF Edit, Executing
<1> QED BY <1>1, <1>2, <1>3

LEMMA MovedSound ==
  ASSUME Inv, NEW s \in Statuses \ {"unborn", "deleted"}
  PROVE  Moved(task, s) \in Tasks /\ SoundBoard(Moved(task, s), convs, launched)
BY Present, MovedTask, Derived DEF Exists

LEMMA MoveStep ==
  ASSUME Inv, NEW o \in Outcomes, Move(o)
  PROVE  Inv'
<1>1. CASE task.status = "backlog"
  BY <1>1, FoundStep DEF Move, Executing
<1>2. CASE task.status # "backlog" /\ task.status # Mutation.from
  BY <1>2, FoundStep DEF Move, Executing
<1>3. CASE task.status # "backlog" /\ task.status = Mutation.from
  BY <1>3, MovedSound, ChangeStep DEF Move, Executing, Statuses
<1> QED BY <1>1, <1>2, <1>3

\* The binding says of the coming run what every Conversation that knows the
\* action says, and no run was made under it.
LEMMA EnqueueStep ==
  ASSUME Inv, NEW o \in Outcomes, Enqueue(o)
  PROVE  Inv'
<1> DEFINE a == op.action
           t == [Moved(task, "queue") EXCEPT !.bound = Binding(a)]
<1>1. CASE ~QueueEntry(a)
  BY <1>1, FoundStep DEF Enqueue, Executing
<1>2. CASE QueueEntry(a)
  <2>1. /\ a \in Actions /\ conv[a] \in Mutations /\ conv[a].kind \in {"enqueue", "execute"}
        /\ WellFormed(conv[a]) /\ a # "none"
    BY ExecutingOp, CoordinatorAssumption, Present DEF Enqueue, Mutation, Inv, Sound, SoundConversation
  <2>2. task \in Tasks /\ task.runs \in 0 .. MaxRuns /\ a \notin task.executed
    BY <1>2, Present DEF QueueEntry, Tasks
  <2>3. Binding(a) \in Bindings /\ Binding(a).approval = a /\ Binding(a).input = conv[a].input
    BY <2>1, <2>2, CoordinatorAssumption DEF Binding, Bindings, Mutations
  <2>4. Agrees(Binding(a), conv[a])
    <3>1. CASE conv[a].kind = "execute" /\ task.runs > 0
      BY <1>2, <3>1 DEF QueueEntry, Binding, Agrees
    <3>2. CASE conv[a].kind = "execute" /\ task.runs = 0
      BY <1>2, <2>1, <3>2 DEF QueueEntry, Binding, Agrees, WellFormed, Mutations
    <3>3. CASE conv[a].kind # "execute"
      BY <3>3 DEF Binding, Agrees
    <3> QED BY <2>2, <3>1, <3>2, <3>3
  <2>5. /\ t \in Tasks /\ t.bound = Binding(a) /\ t.executed = task.executed
        /\ t.status = "queue"
    BY <2>2, <2>3, MovedTask DEF Tasks, Statuses
  <2>6. \A c \in convs : c[a].kind # "none" => Agrees(Binding(a), c[a])
    BY <2>1, <2>4 DEF Inv, Sound, SoundConversation, SameProposal, Agrees
  <2>7. \A l \in launched : l.under.approval # "none" => l.under.approval \in task.executed
    BY Present DEF SoundBoard
  <2>8. SoundBoard(t, convs, launched)
    BY <2>2, <2>3, <2>5, <2>6, <2>7 DEF SoundBoard, Exists
  <2> HIDE DEF t
  <2>9. Change(t, o)
    BY <1>2 DEF Enqueue, t
  <2> QED BY <2>5, <2>8, <2>9, ChangeStep DEF Enqueue, Executing
<1> QED BY <1>1, <1>2

LEMMA EnqueueAlreadyStep ==
  ASSUME Inv, EnqueueAlready
  PROVE  Inv'
<1>1. CASE Mutation.kind = "enqueue"
  BY <1>1, FoundStep DEF EnqueueAlready, Executing
<1>2. CASE Mutation.kind # "enqueue"
  BY <1>2, ExecutingOp DEF EnqueueAlready, Inv, TypeOK, Sound, board, conversation
<1> QED BY <1>1, <1>2

LEMMA CheckStep ==
  ASSUME Inv, Check
  PROVE  Inv'
BY FoundStep DEF Check

------------------------------------------------------------------------------
(* The executor and people *)

\* A change of the Task's column or handoff alone.
LEMMA AmendedSound ==
  ASSUME Inv, Exists(task), NEW s \in Statuses \ {"unborn", "deleted"}, NEW r \in BOOLEAN
  PROVE  LET t == [task EXCEPT !.status = s, !.recovery = r]
         IN t \in Tasks /\ SoundBoard(t, convs, launched)
<1> DEFINE t == [task EXCEPT !.status = s, !.recovery = r]
<1>1. t \in Tasks /\ t.executed = task.executed /\ t.bound = task.bound /\ t.status = s
  BY Present DEF Tasks
<1> QED BY <1>1, Present, Derived DEF Exists

LEMMA PromoteStep ==
  ASSUME Inv, NEW o \in Outcomes, Promote(o)
  PROVE  Inv'
<1> DEFINE t == [task EXCEPT !.status = "work"]
<1>1. t \in Tasks /\ t.executed = task.executed /\ t.bound = task.bound /\ t.status = "work"
  BY Present DEF Tasks, Statuses
<1>2. SoundBoard(t, convs, launched)
  BY <1>1, Present, Derived DEF Exists
<1> QED BY <1>1, <1>2, AmendStep, Present DEF Promote

LEMMA StaleApprovalStep ==
  ASSUME Inv, NEW o \in Outcomes, StaleApproval(o)
  PROVE  Inv'
BY MovedSound, AmendStep, Present DEF StaleApproval, Statuses

LEMMA HoldStartStep ==
  ASSUME Inv, NEW o \in Outcomes, HoldStart(o)
  PROVE  Inv'
<1> DEFINE t == [task EXCEPT !.status = "error", !.recovery = TRUE]
<1>1. t \in Tasks /\ SoundBoard(t, convs, launched)
  BY AmendedSound DEF HoldStart, Exists, Statuses
<1> QED BY <1>1, AmendStep, Present DEF HoldStart

LEMMA FinishRunStep ==
  ASSUME Inv, NEW o \in Outcomes, NEW to \in {"review", "error"}, FinishRun(to, o)
  PROVE  Inv'
BY MovedSound, AmendStep DEF FinishRun, Statuses

LEMMA EditTaskStep ==
  ASSUME Inv, NEW o \in Outcomes, NEW input \in Inputs, EditTask(input, o)
  PROVE  Inv'
<1> DEFINE t == [task EXCEPT !.input = input]
<1>1. t \in Tasks /\ t.executed = task.executed /\ t.bound = task.bound /\ t.status = task.status
  BY Present DEF Tasks
<1>2. SoundBoard(t, convs, launched)
  BY <1>1, Present, Derived DEF Exists
<1> QED BY <1>1, <1>2, AmendStep, Present DEF EditTask

LEMMA MoveTaskStep ==
  ASSUME Inv, NEW o \in Outcomes, MoveTask(o)
  PROVE  Inv'
BY MovedSound, AmendStep, Present DEF MoveTask, Statuses

LEMMA EnqueueTaskStep ==
  ASSUME Inv, NEW o \in Outcomes, EnqueueTask(o)
  PROVE  Inv'
BY MovedSound, AmendStep, Present DEF EnqueueTask, Statuses

LEMMA AcceptStep ==
  ASSUME Inv, NEW o \in Outcomes, Accept(o)
  PROVE  Inv'
<1> DEFINE t == [task EXCEPT !.status = "review", !.recovery = FALSE]
<1>1. t \in Tasks /\ SoundBoard(t, convs, launched)
  BY AmendedSound DEF Accept, Exists, Statuses
<1> QED BY <1>1, AmendStep, Present DEF Accept

\* The start takes the one binding there is for the run it records: that run is
\* the first under the approval, and what the binding says.
LEMMA RecordStartStep ==
  ASSUME Inv, NEW o \in Outcomes, RecordStart(o)
  PROVE  Inv'
<1> DEFINE a == task.bound.approval
           l == [run |-> task.runs + 1, under |-> task.bound, input |-> task.input]
<1>1. /\ task \in Tasks /\ task.bound \in Bindings /\ task.input \in Inputs
      /\ task.runs \in Nat /\ task.runs < MaxRuns
      /\ SoundBoard(task, convs, launched)
  BY Present, CoordinatorAssumption DEF RecordStart, Tasks
<1>2. /\ Started \in Tasks /\ Started.bound = NoBinding /\ Started.status = "running"
      /\ Started.executed = task.executed \cup ({a} \ {"none"})
  <2>1. task.executed \cup ({a} \ {"none"}) \subseteq Actions
    BY <1>1 DEF Tasks, Bindings
  <2>2. task.runs + 1 \in 0 .. MaxRuns
    BY <1>1, CoordinatorAssumption
  <2> QED BY <1>1, <2>1, <2>2, Constants DEF Started, Tasks, Statuses
<1>3. SoundBoard(Started, convs, launched)
  BY <1>1, <1>2, Constants, CoordinatorAssumption DEF SoundBoard, Exists, Tasks
<1>4. CASE o # "saved"
  BY <1>2, <1>3, <1>4, AmendStep, Present DEF RecordStart
<1>5. CASE o = "saved"
  <2>1. boards' = {Started} /\ task' = Started /\ launched' = launched \cup {l}
        /\ faults' \in 0 .. MaxFaults /\ live' = TRUE /\ conv' = conv /\ convs' = convs /\ op' = op
    BY <1>2, <1>5, SaveEffect DEF RecordStart, Amend, Inv, conversation
  <2>2. l \in [run : 1 .. MaxRuns, under : Bindings, input : Inputs]
    BY <1>1, CoordinatorAssumption
  <2>3. l.under = task.bound /\ l.run = task.runs + 1 /\ l.input = task.input
    OBVIOUS
  <2> HIDE DEF l
  <2>4. TypeOK'
    BY <1>2, <2>1, <2>2 DEF Inv, TypeOK
  <2>5. ASSUME NEW k \in launched PROVE k.under.approval = a => a = "none"
    BY <1>1 DEF SoundBoard
  <2>6. SoundBoard(Started, convs, launched')
    <3>1. \A k \in launched : k.under.approval # "none" => k.under.approval \in Started.executed
      BY <1>3 DEF SoundBoard
    <3>2. l.under.approval # "none" => l.under.approval \in Started.executed
      BY <1>2, <2>3
    <3> QED BY <1>2, <1>3, <2>1, <3>1, <3>2 DEF SoundBoard, Exists
  <2>7. SoundRun(l, convs, launched')
    <3>1. a # "none" => task.bound.run = task.runs + 1 /\ task.bound.input = task.input
      BY Constants DEF RecordStart, Refused_at_start
    <3> QED BY <1>1, <2>1, <2>3, <2>5, <3>1 DEF SoundRun, SoundBoard
  <2>8. ASSUME NEW k \in launched PROVE SoundRun(k, convs, launched')
    BY <2>1, <2>3, <2>5 DEF Inv, Sound, SoundRun
  <2>9. Sound'
    BY <2>1, <2>6, <2>7, <2>8 DEF Sound, Inv
  <2> QED BY <2>1, <2>4, <2>9 DEF Inv
<1> QED BY <1>4, <1>5

LEMMA DeleteStep ==
  ASSUME Inv, NEW o \in Outcomes, Delete(o)
  PROVE  Inv'
<1> DEFINE t == Fresh("deleted", NoInput)
<1>1. t \in Tasks
  BY Constants DEF Statuses
<1>2. CASE o = "failed"
  BY <1>1, <1>2, SaveEffect DEF Delete, Amend, Inv, TypeOK, Sound, conversation
<1>3. CASE o # "failed"
  <2>1. /\ boards' \subseteq boards \cup {t} /\ task' \in boards' /\ boards' \subseteq Tasks
        /\ faults' \in 0 .. MaxFaults /\ launched' = {} /\ conv' = conv /\ convs' = convs
        /\ op' = op /\ live' = live
    BY <1>1, <1>3, SaveEffect DEF Delete, Amend, Inv, conversation
  <2>2. SoundBoard(t, convs, {})
    BY FreshSound, Constants DEF Statuses
  <2>3. ASSUME NEW b \in boards PROVE SoundBoard(b, convs, {})
    BY DEF Inv, Sound, SoundBoard
  <2>4. TypeOK'
    BY <2>1 DEF Inv, TypeOK
  <2> QED BY <2>1, <2>2, <2>3, <2>4 DEF Inv, Sound
<1> QED BY <1>2, <1>3

LEMMA MigratedSound ==
  ASSUME Inv, NEW t \in boards
  PROVE  /\ t \in Tasks /\ SoundBoard(t, convs, launched)
         /\ Migrated(t) \in Tasks /\ SoundBoard(Migrated(t), convs, launched)
<1>1. t \in Tasks /\ SoundBoard(t, convs, launched)
  BY DEF Inv, TypeOK, Sound
<1>2. /\ Migrated(t) \in Tasks /\ Migrated(t).executed = t.executed
      /\ Migrated(t).bound = t.bound /\ (Exists(t) => Exists(Migrated(t)))
  BY <1>1 DEF Migrated, Tasks, Statuses, Exists
<1> QED BY <1>1, <1>2, Derived

\* Any combination of what the two files may hold.
LEMMA CrashStep ==
  ASSUME Inv, Crash
  PROVE  Inv'
<1>1. faults' \in 0 .. MaxFaults /\ op' = Idle /\ live' = FALSE /\ launched' = launched
  BY CoordinatorAssumption DEF Crash, Inv, TypeOK
<1>2. CASE task' = Migrated(task) /\ boards' = boards \cup {task'} /\ UNCHANGED conversation
  <2>1. TypeOK'
    BY <1>1, <1>2, MigratedSound, Present DEF Inv, TypeOK, Idle, conversation
  <2>2. Sound'
    BY <1>1, <1>2, MigratedSound, Present DEF Inv, Sound, conversation
  <2> QED BY <1>1, <2>1, <2>2 DEF Inv, Idle
<1>3. CASE /\ \E t \in boards : task' = Migrated(t) /\ boards' = {t, task'}
           /\ conv' \in convs /\ convs' = {conv'}
  <2> PICK t \in boards : task' = Migrated(t) /\ boards' = {t, task'}
    BY <1>3
  <2>1. TypeOK'
    BY <1>1, <1>3, MigratedSound DEF Inv, TypeOK, Idle
  <2>2. \A b \in boards' : SoundBoard(b, convs, launched)
    BY MigratedSound
  <2>3. \A b \in boards' : SoundBoard(b, convs', launched')
    BY <1>1, <1>3, <2>2 DEF SoundBoard
  <2>4. \A l \in launched' : SoundRun(l, convs', launched')
    BY <1>1, <1>3 DEF Inv, Sound, SoundRun
  <2>5. \A c \in convs' : SoundConversation(c, conv')
    BY <1>3 DEF Inv, Sound, SoundConversation, SameProposal
  <2>6. Sound'
    BY <2>3, <2>4, <2>5 DEF Sound
  <2> QED BY <1>1, <2>1, <2>6 DEF Inv, Idle
<1> QED BY <1>2, <1>3 DEF Crash

------------------------------------------------------------------------------
(* Theorems *)

LEMMA Initially == Init => Inv
<1> SUFFICES ASSUME Init PROVE Inv
  OBVIOUS
<1>1. task \in Tasks /\ task.bound = NoBinding /\ task.executed = {}
  BY Constants DEF Init, Statuses
<1>2. TypeOK
  <2>1. conv \in [Actions -> Mutations] /\ convs \subseteq [Actions -> Mutations] /\ conv \in convs
    BY Constants, Zenon DEF Init
  <2>2. task \in boards /\ boards \subseteq Tasks
    BY <1>1 DEF Init
  <2>3. faults \in 0 .. MaxFaults
    BY CoordinatorAssumption DEF Init
  <2> QED BY <1>1, <2>1, <2>2, <2>3 DEF Init, TypeOK, Idle
<1>3. SoundBoard(task, convs, launched)
  BY <1>1, Constants DEF Init, SoundBoard
<1>4. \A c \in convs : SoundConversation(c, conv)
  BY Constants DEF Init, SoundConversation
<1>5. Sound
  BY <1>3, <1>4 DEF Init, Sound
<1> QED BY <1>2, <1>5 DEF Init, Inv, Idle

LEMMA Step == Inv /\ [Next]_vars => Inv'
<1> SUFFICES ASSUME Inv, [Next]_vars PROVE Inv'
  OBVIOUS
<1>1. CASE UNCHANGED vars
  BY <1>1 DEF vars, board, conversation, Inv, TypeOK, Sound
<1>2. CASE Decisions
  <2>1. CASE EnqueueAlready \/ Check
    BY <2>1, EnqueueAlreadyStep, CheckStep
  <2>2. CASE \E o \in Outcomes, a \in Actions :
               (\E m \in Shown : Propose(a, m, o)) \/ Approve(a, o) \/ Reject(a, o)
    BY <2>2, ProposeStep, ApproveStep, RejectStep
  <2>3. CASE \E o \in Outcomes : Create(o) \/ Edit(o) \/ Move(o) \/ Enqueue(o) \/ Record(o)
    BY <2>3, CreateStep, EditStep, MoveStep, EnqueueStep, RecordDecision
  <2> QED BY <1>2, <2>1, <2>2, <2>3 DEF Decisions
<1>3. CASE Executor
  BY <1>3, PromoteStep, StaleApprovalStep, RecordStartStep, HoldStartStep, FinishRunStep DEF Executor
<1>4. CASE People
  BY <1>4, EditTaskStep, MoveTaskStep, EnqueueTaskStep, AcceptStep, DeleteStep DEF People
<1>5. CASE Crash
  BY <1>5, CrashStep
<1> QED BY <1>1, <1>2, <1>3, <1>4, <1>5 DEF Next

\* The inductive invariant, of decisions over two files.
THEOREM Invariance == Spec => []Inv
BY Initially, Step, PTL DEF Spec

\* Every variable keeps its type, for any actions, inputs, runs and faults.
THEOREM TypeCorrect == Spec => []TypeOK
<1>1. Inv => TypeOK
  BY DEF Inv
<1> QED BY <1>1, Invariance, PTL

\* One approval admits one run, on what the person saw, whatever of the two
\* files survives (decide, queue_entry_check, check_approved_input).
THEOREM ApprovalRunsOnce == Spec => []ApprovedRunOnce
<1>1. Inv => ApprovedRunOnce
  <2> SUFFICES ASSUME Inv, NEW a \in Actions, NEW l \in Under(a)
               PROVE  /\ Under(a) = {l}
                      /\ a \in task.executed
                      /\ l.under.run = l.run /\ l.under.input = l.input
                      /\ \A c \in convs : c[a].kind # "none" =>
                           /\ l.input = c[a].input
                           /\ l.under.request = (c[a].kind = "execute")
                           /\ l.under.request => l.run = c[a].run
    BY DEF ApprovedRunOnce
  <2>1. l \in launched /\ l.under.approval = a /\ a # "none"
    BY CoordinatorAssumption DEF Under
  <2>2. SoundRun(l, convs, launched) /\ SoundBoard(task, convs, launched)
    BY <2>1, Present DEF Inv, Sound
  <2>3. Under(a) = {l}
    BY <2>1, <2>2 DEF Under, SoundRun
  <2> QED BY <2>1, <2>2, <2>3 DEF SoundRun, SoundBoard, Agrees
<1> QED BY <1>1, Invariance, PTL
==============================================================================
