------------------------------ MODULE Admission ------------------------------
(***************************************************************************)
(* The capacity gate of the queue, src-tauri/src/queue/admission.rs.       *)
(*                                                                         *)
(* `reconcile` holds the tokio mutex `total` for its whole body, so one    *)
(* resize runs at a time; but it touches the semaphore and the std mutex   *)
(* `pending_shrink` in separate critical sections, and `try_acquire` and   *)
(* `AdmissionPermit::drop` run between them on other threads.  One action  *)
(* here is one such critical section (or one semaphore operation).         *)
(***************************************************************************)
EXTENDS Integers, FiniteSets

CONSTANTS
  Flows,      \* the executions and reviews that may ask for a permit
  MaxLimit,   \* MAX_PARALLEL_TASK_LIMIT: config.toml and set_config bound the limit
  InitLimit   \* the limit the gate is created with

ASSUME FlowsAssumption == IsFiniteSet(Flows)
ASSUME LimitAssumption == /\ MaxLimit \in Nat \ {0}
                          /\ InitLimit \in 1 .. MaxLimit

VARIABLES
  available,  \* the semaphore's free permits
  total,      \* AdmissionInner::total
  pending,    \* AdmissionInner::pending_shrink
  permit,     \* [Flows -> PermitStates], the AdmissionPermit of each flow
  step,       \* where the running reconcile is, "idle" when there is none
  left        \* its `grow` or `shrink_by`, what it still has to do

vars == <<available, total, pending, permit, step, left>>

\* "returning": Drop has seen no debt and released the mutex, and has not yet
\* dropped the semaphore permit itself.
PermitStates == {"none", "held", "returning"}
Steps == {"idle", "cancel", "add", "reclaim", "queue"}

\* The permits taken out of the semaphore and not yet put back or forgotten.
Out == {f \in Flows : permit[f] # "none"}

\* The flows that own a permit, as far as the rest of the program can tell.
Holders == {f \in Flows : permit[f] = "held"}

Least(a, b) == IF a < b THEN a ELSE b

TypeOK ==
  /\ available \in Nat
  /\ total \in 1 .. MaxLimit
  /\ pending \in Nat
  /\ permit \in [Flows -> PermitStates]
  /\ step \in Steps
  /\ left \in Nat

Init ==
  /\ available = InitLimit
  /\ total = InitLimit
  /\ pending = 0
  /\ permit = [f \in Flows |-> "none"]
  /\ step = "idle"
  /\ left = 0

------------------------------------------------------------------------------
(* reconcile(new_limit), growing *)

BeginGrow(n) ==
  /\ step = "idle"
  /\ n > total
  /\ total' = n
  /\ left' = n - total
  /\ step' = "cancel"
  /\ UNCHANGED <<available, pending, permit>>

\* Mutated form: the growth is added in full on top of the debt it cancelled.
CancelDebt_adds_twice ==
  /\ step = "cancel"
  /\ pending' = pending - Least(left, pending)
  /\ left' = left
  /\ step' = "add"
  /\ UNCHANGED <<available, total, permit>>

\* The debt is cancelled first; only the growth beyond it adds permits.
CancelDebt ==
  /\ step = "cancel"
  /\ LET cancelled == Least(left, pending)
     IN /\ pending' = pending - cancelled
        /\ left' = left - cancelled
        /\ step' = IF left - cancelled > 0 THEN "add" ELSE "idle"
  /\ UNCHANGED <<available, total, permit>>

AddPermits ==
  /\ step = "add"
  /\ available' = available + left
  /\ left' = 0
  /\ step' = "idle"
  /\ UNCHANGED <<total, pending, permit>>

------------------------------------------------------------------------------
(* reconcile(new_limit), shrinking *)

BeginShrink(n) ==
  /\ step = "idle"
  /\ n < total
  /\ total' = n
  /\ left' = total - n
  /\ step' = "reclaim"
  /\ UNCHANGED <<available, pending, permit>>

\* One turn of the loop: an idle permit is acquired and forgotten.
ReclaimIdle ==
  /\ step = "reclaim"
  /\ available > 0
  /\ available' = available - 1
  /\ left' = left - 1
  /\ step' = IF left = 1 THEN "idle" ELSE "reclaim"
  /\ UNCHANGED <<total, pending, permit>>

\* try_acquire failed, so the loop breaks; the debt is not queued yet.
NothingIdle ==
  /\ step = "reclaim"
  /\ available = 0
  /\ step' = "queue"
  /\ UNCHANGED <<available, total, pending, permit, left>>

\* Mutated form: what could not be reclaimed at once is never queued.
QueueDebt_lost ==
  /\ step = "queue"
  /\ left' = 0
  /\ step' = "idle"
  /\ UNCHANGED <<available, total, pending, permit>>

QueueDebt ==
  /\ step = "queue"
  /\ pending' = pending + left
  /\ left' = 0
  /\ step' = "idle"
  /\ UNCHANGED <<available, total, permit>>

------------------------------------------------------------------------------
(* Permits *)

\* try_acquire; declining changes nothing.
TryAcquire(f) ==
  /\ permit[f] = "none"
  /\ available > 0
  /\ available' = available - 1
  /\ permit' = [permit EXCEPT ![f] = "held"]
  /\ UNCHANGED <<total, pending, step, left>>

\* Mutated form: the debt is settled and the permit goes back all the same.
DropForget_returns(f) ==
  /\ permit[f] = "held"
  /\ pending > 0
  /\ pending' = pending - 1
  /\ permit' = [permit EXCEPT ![f] = "returning"]
  /\ UNCHANGED <<available, total, step, left>>

\* Mutated form: a reset of the debt that forgets to look at it first.
DropForget_unchecked(f) ==
  /\ permit[f] = "held"
  /\ pending' = pending - 1
  /\ permit' = [permit EXCEPT ![f] = "none"]
  /\ UNCHANGED <<available, total, step, left>>

\* AdmissionPermit::drop with a debt outstanding: the permit is forgotten.
DropForget(f) ==
  /\ permit[f] = "held"
  /\ pending > 0
  /\ pending' = pending - 1
  /\ permit' = [permit EXCEPT ![f] = "none"]
  /\ UNCHANGED <<available, total, step, left>>

\* AdmissionPermit::drop without one: the mutex is released ...
DropCheck(f) ==
  /\ permit[f] = "held"
  /\ pending = 0
  /\ permit' = [permit EXCEPT ![f] = "returning"]
  /\ UNCHANGED <<available, total, pending, step, left>>

\* ... and only then does the permit go back to the semaphore.
DropReturn(f) ==
  /\ permit[f] = "returning"
  /\ available' = available + 1
  /\ permit' = [permit EXCEPT ![f] = "none"]
  /\ UNCHANGED <<total, pending, step, left>>

Reconcile ==
  \/ \E n \in 1 .. MaxLimit : BeginGrow(n) \/ BeginShrink(n)
  \/ CancelDebt \/ AddPermits
  \/ ReclaimIdle \/ NothingIdle \/ QueueDebt

Release(f) == DropForget(f) \/ DropCheck(f) \/ DropReturn(f)

Next == Reconcile \/ \E f \in Flows : TryAcquire(f) \/ Release(f)

Spec == Init /\ [][Next]_vars

\* A started reconcile runs to its end and an admitted flow ends: every agent
\* process has a timeout and every drop is on the unwinding path of its future.
\* Nothing obliges a flow to ask for a permit or a user to change the limit.
Fairness ==
  /\ WF_vars(CancelDebt \/ AddPermits \/ ReclaimIdle \/ NothingIdle \/ QueueDebt)
  /\ \A f \in Flows : WF_vars(Release(f))

FairSpec == Spec /\ Fairness

------------------------------------------------------------------------------
(* Properties *)

\* What the running reconcile still owes to the sum below: permits it has
\* promised and not added, or capacity it has withdrawn from `total` and not
\* yet taken back or queued.
Owed ==
  IF step \in {"cancel", "add"} THEN -left
  ELSE IF step \in {"reclaim", "queue"} THEN left
  ELSE 0

\* Capacity is conserved: the permits in the semaphore and those taken out of
\* it are exactly the limit plus the debt, at every point of every resize, so
\* no race of a drop with a resize ever creates a slot or loses one.
Conservation == available + Cardinality(Out) = total + pending + Owed

\* A resize that is over leaves at most the debt above the limit in use.
BoundedOverrun == step = "idle" => Cardinality(Holders) <= total + pending

\* "a shrink converges exactly as fast as in-flight work naturally finishes":
\* once the limit rests at n, the flows in progress end up within n for good,
\* however releases and new admissions interleave.
Converges ==
  \A n \in 1 .. MaxLimit :
    <>[](total = n /\ step = "idle") => <>[](Cardinality(Holders) <= n)
==============================================================================
