-------------------------- MODULE AdmissionProofs --------------------------
(***************************************************************************)
(* Conservation of admission permits, for any finite set of flows and any  *)
(* limits.  The invariant is TypeOK, Conservation and the range of `left`: *)
(* without the last, ReclaimIdle could take `left` below zero and          *)
(* CancelDebt could stop with work still owed.                             *)
(***************************************************************************)
EXTENDS Admission, FiniteSetTheorems, TLAPS

\* A resize in progress has something left to do; a finished one has nothing.
LeftOK == left > 0 <=> step # "idle"

IInv == TypeOK /\ LeftOK /\ Conservation

\* Out is finite, so its cardinality is a number.
LEMMA OutFinite == TypeOK => IsFiniteSet(Out) /\ Cardinality(Out) \in Nat
<1>1. IsFiniteSet(Out)
  BY FlowsAssumption, FS_Subset DEF Out
<1> QED
  BY <1>1, FS_CardinalityType

\* Taking a permit adds one element to Out.
LEMMA OutAdds ==
  ASSUME TypeOK, NEW f \in Flows, permit[f] = "none",
         permit' = [permit EXCEPT ![f] = "held"]
  PROVE  Cardinality(Out') = Cardinality(Out) + 1
<1>1. Out' = Out \cup {f}
  BY DEF Out, TypeOK, PermitStates
<1>2. f \notin Out
  BY DEF Out
<1> QED
  BY <1>1, <1>2, OutFinite, FS_AddElement

\* Giving one back, or forgetting it, removes one.
LEMMA OutRemoves ==
  ASSUME TypeOK, NEW f \in Flows, permit[f] # "none",
         permit' = [permit EXCEPT ![f] = "none"]
  PROVE  Cardinality(Out') = Cardinality(Out) - 1
<1>1. Out' = Out \ {f}
  BY DEF Out, TypeOK, PermitStates
<1>2. f \in Out
  BY DEF Out
<1> QED
  BY <1>1, <1>2, OutFinite, FS_RemoveElement

LEMMA InitIInv == Init => IInv
<1> SUFFICES ASSUME Init PROVE IInv
  OBVIOUS
<1>1. TypeOK
  BY LimitAssumption DEF Init, TypeOK, PermitStates, Steps
<1>2. LeftOK
  BY DEF Init, LeftOK
<1>3. Out = {}
  BY DEF Init, Out
<1>4. Conservation
  BY <1>1, <1>3, FS_EmptySet DEF Init, Conservation, Owed, TypeOK
<1> QED
  BY <1>1, <1>2, <1>4 DEF IInv

LEMMA NextIInv == IInv /\ [Next]_vars => IInv'
<1> SUFFICES ASSUME IInv, [Next]_vars PROVE IInv'
  OBVIOUS
<1> USE DEF IInv
<1>0. IsFiniteSet(Out) /\ Cardinality(Out) \in Nat
  BY OutFinite
<1>1. ASSUME NEW n \in 1 .. MaxLimit, BeginGrow(n) PROVE IInv'
  <2>1. TypeOK' /\ LeftOK'
    BY <1>1, LimitAssumption DEF BeginGrow, TypeOK, LeftOK, Steps
  <2>2. Out' = Out
    BY <1>1 DEF BeginGrow, Out
  <2> QED
    BY <1>0, <1>1, <2>1, <2>2, LimitAssumption
       DEF BeginGrow, TypeOK, LeftOK, Conservation, Owed, Steps
<1>2. ASSUME NEW n \in 1 .. MaxLimit, BeginShrink(n) PROVE IInv'
  <2>1. TypeOK' /\ LeftOK'
    BY <1>2, LimitAssumption DEF BeginShrink, TypeOK, LeftOK, Steps
  <2>2. Out' = Out
    BY <1>2 DEF BeginShrink, Out
  <2> QED
    BY <1>0, <1>2, <2>1, <2>2, LimitAssumption
       DEF BeginShrink, TypeOK, LeftOK, Conservation, Owed, Steps
<1>3. CASE CancelDebt
  <2>1. Least(left, pending) \in Nat /\ Least(left, pending) <= left
          /\ Least(left, pending) <= pending
    BY DEF Least, TypeOK
  <2>2. TypeOK' /\ LeftOK'
    BY <1>3, <2>1, LimitAssumption DEF CancelDebt, TypeOK, LeftOK, Steps
  <2>3. Out' = Out
    BY <1>3 DEF CancelDebt, Out
  <2> QED
    BY <1>0, <1>3, <2>1, <2>2, <2>3, LimitAssumption
       DEF CancelDebt, TypeOK, LeftOK, Conservation, Owed, Steps
<1>4. CASE AddPermits
  <2>1. TypeOK' /\ LeftOK'
    BY <1>4, LimitAssumption DEF AddPermits, TypeOK, LeftOK, Steps
  <2>2. Out' = Out
    BY <1>4 DEF AddPermits, Out
  <2> QED
    BY <1>0, <1>4, <2>1, <2>2, LimitAssumption
       DEF AddPermits, TypeOK, Conservation, Owed, Steps
<1>5. CASE ReclaimIdle
  <2>1. TypeOK' /\ LeftOK'
    BY <1>5, LimitAssumption DEF ReclaimIdle, TypeOK, LeftOK, Steps
  <2>2. Out' = Out
    BY <1>5 DEF ReclaimIdle, Out
  <2> QED
    BY <1>0, <1>5, <2>1, <2>2, LimitAssumption
       DEF ReclaimIdle, TypeOK, LeftOK, Conservation, Owed, Steps
<1>6. CASE NothingIdle
  <2>1. TypeOK' /\ LeftOK'
    BY <1>6, LimitAssumption DEF NothingIdle, TypeOK, LeftOK, Steps
  <2>2. Out' = Out
    BY <1>6 DEF NothingIdle, Out
  <2> QED
    BY <1>0, <1>6, <2>1, <2>2, LimitAssumption
       DEF NothingIdle, TypeOK, Conservation, Owed, Steps
<1>7. CASE QueueDebt
  <2>1. TypeOK' /\ LeftOK'
    BY <1>7, LimitAssumption DEF QueueDebt, TypeOK, LeftOK, Steps
  <2>2. Out' = Out
    BY <1>7 DEF QueueDebt, Out
  <2> QED
    BY <1>0, <1>7, <2>1, <2>2, LimitAssumption
       DEF QueueDebt, TypeOK, Conservation, Owed, Steps
<1>8. ASSUME NEW f \in Flows, TryAcquire(f) PROVE IInv'
  <2>1. TypeOK' /\ LeftOK'
    BY <1>8 DEF TryAcquire, TypeOK, LeftOK, PermitStates
  <2>2. Cardinality(Out') = Cardinality(Out) + 1
    BY <1>8, OutAdds DEF TryAcquire
  <2>3. Owed' = Owed /\ Owed \in Int
    BY <1>8 DEF TryAcquire, Owed, TypeOK
  <2> QED
    BY <1>0, <1>8, <2>1, <2>2, <2>3 DEF TryAcquire, TypeOK, Conservation
<1>9. ASSUME NEW f \in Flows, DropForget(f) PROVE IInv'
  <2>1. TypeOK' /\ LeftOK'
    BY <1>9 DEF DropForget, TypeOK, LeftOK, PermitStates
  <2>2. Cardinality(Out') = Cardinality(Out) - 1
    BY <1>9, OutRemoves DEF DropForget
  <2>3. Owed' = Owed /\ Owed \in Int
    BY <1>9 DEF DropForget, Owed, TypeOK
  <2> QED
    BY <1>0, <1>9, <2>1, <2>2, <2>3 DEF DropForget, TypeOK, Conservation
<1>10. ASSUME NEW f \in Flows, DropCheck(f) PROVE IInv'
  <2>1. TypeOK' /\ LeftOK'
    BY <1>10 DEF DropCheck, TypeOK, LeftOK, PermitStates
  <2>2. Out' = Out
    BY <1>10 DEF DropCheck, Out, TypeOK
  <2>3. Owed' = Owed
    BY <1>10 DEF DropCheck, Owed
  <2> QED
    BY <1>0, <1>10, <2>1, <2>2, <2>3 DEF DropCheck, TypeOK, Conservation
<1>11. ASSUME NEW f \in Flows, DropReturn(f) PROVE IInv'
  <2>1. TypeOK' /\ LeftOK'
    BY <1>11 DEF DropReturn, TypeOK, LeftOK, PermitStates
  <2>2. Cardinality(Out') = Cardinality(Out) - 1
    BY <1>11, OutRemoves DEF DropReturn
  <2>3. Owed' = Owed /\ Owed \in Int
    BY <1>11 DEF DropReturn, Owed, TypeOK
  <2> QED
    BY <1>0, <1>11, <2>1, <2>2, <2>3 DEF DropReturn, TypeOK, Conservation
<1>12. CASE UNCHANGED vars
  BY <1>12 DEF vars, TypeOK, LeftOK, Conservation, Owed, Out
<1> QED
  BY <1>1, <1>2, <1>3, <1>4, <1>5, <1>6, <1>7, <1>8, <1>9, <1>10, <1>11, <1>12
     DEF Next, Reconcile, Release

\* The inductive invariant holds in every reachable state.
LEMMA SpecIInv == Spec => []IInv
BY InitIInv, NextIInv, PTL DEF Spec

\* The gate's counters keep their types: in particular `pending_shrink` and
\* the semaphore never go below zero, which in the code would be a usize
\* underflow.
THEOREM AdmissionTypeOK == Spec => []TypeOK
<1>1. IInv => TypeOK
  BY DEF IInv
<1> QED
  BY <1>1, SpecIInv, PTL

\* No interleaving of resizes, admissions and drops creates or loses a slot.
THEOREM AdmissionConserves == Spec => []Conservation
<1>1. IInv => Conservation
  BY DEF IInv
<1> QED
  BY <1>1, SpecIInv, PTL

\* Between resizes the flows in progress exceed the limit by at most the debt.
THEOREM AdmissionBounded == Spec => []BoundedOverrun
<1>1. IInv => BoundedOverrun
  <2> SUFFICES ASSUME IInv, step = "idle"
               PROVE  Cardinality(Holders) <= total + pending
    BY DEF BoundedOverrun
  <2>1. IsFiniteSet(Out) /\ Cardinality(Out) \in Nat
    BY OutFinite DEF IInv
  <2>2. Holders \subseteq Out
    BY DEF Holders, Out
  <2>3. Cardinality(Holders) <= Cardinality(Out) /\ Cardinality(Holders) \in Nat
    BY <2>1, <2>2, FS_Subset, FS_CardinalityType
  <2>4. available + Cardinality(Out) = total + pending
    BY <2>1 DEF IInv, TypeOK, Conservation, Owed
  <2> QED
    BY <2>1, <2>3, <2>4 DEF IInv, TypeOK
<1> QED
  BY <1>1, SpecIInv, PTL
=============================================================================
