--------------------------- MODULE DurableFsProofs ---------------------------
(***************************************************************************)
(* Proofs about DurableFs, for any number of threads, directories and       *)
(* publications: an Ok that says fully durable survives every power loss,   *)
(* and the protocol implements AtomicFile.                                  *)
(***************************************************************************)
EXTENDS DurableFs, TLAPS

NoneMissing == \A d \in Dirs : entry[d] # "absent"

\* Nothing exists below a directory that does not, and every content around was
\* published.
Layout ==
  /\ NoneMissing \/ (entry[Depth] = "absent" /\ visible = 0 /\ entries = {0} /\ former = {})
  /\ entry[Depth] = "durable" => former = {}
  /\ visible \in entries
  /\ entries \subseteq 0 .. published
  /\ former \subseteq 0 .. published
  /\ committed \subseteq 1 .. published
  /\ gone \in 0 .. published

\* What a thread has established by each step of its write.
Established ==
  \A w \in Writers :
    /\ writer[w].step \notin {"idle", "creating"} => NoneMissing
    /\ At(w, "creating") => \A d \in Dirs : entry[d] = "absent" => d \in owed
    /\ At(w, "syncing") => writer[w].todo \subseteq Dirs
    /\ At(w, "staged") => writer[w].flushed
    /\ At(w, "replaced") => writer[w].content \in 1 .. visible

Inv == TypeOK /\ Owed /\ Layout /\ Established

USE DEF At, Goto, Leave, Idle, Dirs, Nobody

LEMMA EnterInv ==
  ASSUME Inv, NEW w \in Writers, Enter(w)
  PROVE  Inv'
<1> USE DepthAssumption, WritesAssumption, WritersAssumption DEF Inv, Enter, Missing, fileSystem, account
<1>1. writer' \in [Writers -> WriterStates]
  BY DEF TypeOK, WriterStates
<1>2. \A v \in Writers : writer'[v].step \in {"creating", "syncing"} <=> lock' = v
  BY DEF TypeOK, WriterStates
<1>3. TypeOK'
  BY <1>1, <1>2 DEF TypeOK
<1>4. Owed'
  BY DEF TypeOK, WriterStates, Owed, PathDurable, Established, NoneMissing
<1>5. Layout'
  BY DEF TypeOK, WriterStates, Layout, NoneMissing, Established
<1>6. Established'
  BY DEF TypeOK, WriterStates, Layout, NoneMissing, Established
<1> QED  BY <1>3, <1>4, <1>5, <1>6

LEMMA CreateDirsInv ==
  ASSUME Inv, NEW w \in Writers, NEW made \in 0 .. Depth, CreateDirs(w, made)
  PROVE  Inv'
<1> USE DepthAssumption, WritesAssumption, WritersAssumption DEF Inv, CreateDirs, Missing, fileSystem, account
<1>1. writer' \in [Writers -> WriterStates]
  <2>1. Idle \in WriterStates
    BY DEF WriterStates
  <2>2. [writer[w] EXCEPT !.step = "syncing", !.todo = owed'] \in WriterStates
    BY DEF TypeOK, WriterStates
  <2> QED  BY <2>1, <2>2 DEF TypeOK
<1>2. \A v \in Writers : writer'[v].step \in {"creating", "syncing"} <=> lock' = v
  <2>1. CASE made = Depth
    BY <2>1 DEF TypeOK, WriterStates
  <2>2. CASE made # Depth
    BY <2>2 DEF TypeOK, WriterStates
  <2> QED  BY <2>1, <2>2
<1>3. TypeOK'
  BY <1>1, <1>2 DEF TypeOK
<1>4. Owed'
  <2>1. \A d \in Dirs : entry'[d] = "pending" /\ d # Depth => d \in owed'
    BY DEF TypeOK, Owed, Established
  <2>2. \A v \in Writers : v # w => writer'[v] = writer[v] /\ ~ At(v, "syncing")
    BY DEF TypeOK
  <2>3. PathDurable => PathDurable'
    BY DEF PathDurable
  <2>4. CASE made = Depth
    <3>1. \A d \in Dirs : entry'[d] = "durable" \/ d \in owed'
      BY <2>1, <2>4 DEF TypeOK
    <3>2. writer'[w].step = "syncing"
      BY <2>4 DEF TypeOK, WriterStates
    <3> QED  BY <2>1, <2>2, <2>3, <3>1, <3>2 DEF Owed
  <2>5. CASE made # Depth
    <3>1. writer'[w].step = "idle"
      BY <2>5 DEF TypeOK
    <3> QED  BY <2>1, <2>2, <2>3, <3>1 DEF Owed
  <2> QED  BY <2>4, <2>5
<1>5. Layout'
  BY DEF TypeOK, WriterStates, Layout, NoneMissing, Established
<1>6. Established'
  BY DEF TypeOK, WriterStates, Layout, NoneMissing, Established
<1> QED  BY <1>3, <1>4, <1>5, <1>6

LEMMA SyncEntryInv ==
  ASSUME Inv, NEW w \in Writers, NEW o \in Outcomes, SyncEntry(w, o)
  PROVE  Inv'
<1> USE DepthAssumption, WritesAssumption, WritersAssumption DEF Inv, SyncEntry, Outcomes, fileSystem, account
<1>0. PICK d \in writer[w].todo :
        \/ /\ writer' = [writer EXCEPT ![w] = Idle]
           /\ lock' = Nobody
           /\ UNCHANGED <<entry, former, owed>>
        \/ /\ writer' = [writer EXCEPT ![w] = [writer[w] EXCEPT !.todo = @ \ {d}]]
           /\ UNCHANGED lock
           /\ \/ /\ entry' = [entry EXCEPT ![d] = "durable"]
                 /\ former' = IF d = Depth THEN {} ELSE former
                 /\ owed' = owed \ {d}
              \/ UNCHANGED <<entry, former, owed>>
  OBVIOUS
<1>a. d \in Dirs
  BY DEF Established
<1>b. /\ At(w, "syncing") /\ lock = w
      /\ UNCHANGED <<visible, entries, published, committed, gone>>
  BY DEF TypeOK
<1> HIDE DEF SyncEntry
<1>c. \A v \in Writers : v # w =>
        writer'[v] = writer[v] /\ ~ At(v, "creating") /\ ~ At(v, "syncing")
  BY <1>0, <1>b DEF TypeOK
<1>1. writer' \in [Writers -> WriterStates]
  <2>1. Idle \in WriterStates
    BY DEF WriterStates
  <2>2. [writer[w] EXCEPT !.todo = @ \ {d}] \in WriterStates
    BY DEF TypeOK, WriterStates
  <2> HIDE DEF Idle
  <2> QED  BY <1>0, <2>1, <2>2 DEF TypeOK
<1>2. \A v \in Writers : writer'[v].step \in {"creating", "syncing"} <=> lock' = v
  BY <1>0, <1>b DEF TypeOK, WriterStates
<1>3. TypeOK'
  BY <1>0, <1>a, <1>b, <1>1, <1>2 DEF TypeOK
<1>4. Owed'
  <2>1. \A e \in Dirs : entry'[e] = "pending" /\ e # Depth => e \in owed'
    BY <1>0, <1>a DEF TypeOK, Owed
  <2>2. PathDurable => PathDurable'
    BY <1>0, <1>a DEF TypeOK, PathDurable
  <2>3. writer'[w].step \in {"idle", "syncing"}
    BY <1>0, <1>b DEF TypeOK, WriterStates
  <2>4. \A e \in Dirs : entry'[e] = "durable" \/ e \in owed'
    BY <1>0, <1>a, <1>b DEF TypeOK, Owed
  <2> QED  BY <1>c, <2>1, <2>2, <2>3, <2>4 DEF Owed
<1>5. Layout'
  <2>1. NoneMissing /\ NoneMissing'
    BY <1>0, <1>a, <1>b DEF TypeOK, Established, NoneMissing
  <2>2. former' \subseteq former /\ (entry'[Depth] = "durable" => former' = {})
    BY <1>0, <1>a DEF TypeOK, Layout
  <2> QED  BY <1>b, <2>1, <2>2 DEF Layout
<1>6. Established'
  <2>1. NoneMissing'
    BY <1>0, <1>a, <1>b DEF TypeOK, Established, NoneMissing
  <2>2. /\ writer'[w].step \in {"idle", "syncing"}
        /\ writer'[w].step = "syncing" => writer'[w].todo \subseteq Dirs
    BY <1>0, <1>b DEF TypeOK, WriterStates, Established
  <2> QED  BY <1>b, <1>c, <2>1, <2>2 DEF Established
<1> QED  BY <1>3, <1>4, <1>5, <1>6

LEMMA FinishDirsInv ==
  ASSUME Inv, NEW w \in Writers, FinishDirs(w)
  PROVE  Inv'
<1> USE DepthAssumption, WritesAssumption, WritersAssumption DEF Inv, FinishDirs, fileSystem, account
<1>1. writer' \in [Writers -> WriterStates]
  <2>1. \A claim \in {"Synced", "Unsupported"} :
          [writer[w] EXCEPT !.step = "staging", !.sync = claim] \in WriterStates
    BY DEF TypeOK, WriterStates
  <2> QED  BY <2>1 DEF TypeOK
<1>2. \A v \in Writers : writer'[v].step \in {"creating", "syncing"} <=> lock' = v
  BY DEF TypeOK, WriterStates
<1>3. TypeOK'
  BY <1>1, <1>2 DEF TypeOK
<1>4. Owed'
  BY DEF TypeOK, WriterStates, Owed, PathDurable, Established, NoneMissing
<1>5. Layout'
  BY DEF TypeOK, WriterStates, Layout, NoneMissing, Established
<1>6. Established'
  BY DEF TypeOK, WriterStates, Layout, NoneMissing, Established
<1> QED  BY <1>3, <1>4, <1>5, <1>6

LEMMA WriteTempInv ==
  ASSUME Inv, NEW w \in Writers, WriteTemp(w)
  PROVE  Inv'
<1> USE DepthAssumption, WritesAssumption, WritersAssumption DEF Inv, WriteTemp, fileSystem, account
<1>1. writer' \in [Writers -> WriterStates]
  BY DEF TypeOK, WriterStates
<1>2. \A v \in Writers : writer'[v].step \in {"creating", "syncing"} <=> lock' = v
  BY DEF TypeOK, WriterStates
<1>3. TypeOK'
  BY <1>1, <1>2 DEF TypeOK
<1>4. Owed'
  BY DEF TypeOK, WriterStates, Owed, PathDurable, Established, NoneMissing
<1>5. Layout'
  BY DEF TypeOK, WriterStates, Layout, NoneMissing, Established
<1>6. Established'
  BY DEF TypeOK, WriterStates, Layout, NoneMissing, Established
<1> QED  BY <1>3, <1>4, <1>5, <1>6

LEMMA SyncTempInv ==
  ASSUME Inv, NEW w \in Writers, SyncTemp(w)
  PROVE  Inv'
<1> USE DepthAssumption, WritesAssumption, WritersAssumption DEF Inv, SyncTemp, fileSystem, account
<1>1. writer' \in [Writers -> WriterStates]
  <2>1. [writer[w] EXCEPT !.step = "staged", !.flushed = TRUE] \in WriterStates
    BY DEF TypeOK, WriterStates
  <2> QED  BY <2>1 DEF TypeOK
<1>2. \A v \in Writers : writer'[v].step \in {"creating", "syncing"} <=> lock' = v
  BY DEF TypeOK, WriterStates
<1>3. TypeOK'
  BY <1>1, <1>2 DEF TypeOK
<1>4. Owed'
  BY DEF TypeOK, WriterStates, Owed, PathDurable, Established, NoneMissing
<1>5. Layout'
  BY DEF TypeOK, WriterStates, Layout, NoneMissing, Established
<1>6. Established'
  BY DEF TypeOK, WriterStates, Layout, NoneMissing, Established
<1> QED  BY <1>3, <1>4, <1>5, <1>6

LEMMA NotPublishedInv ==
  ASSUME Inv, NEW w \in Writers, NotPublished(w)
  PROVE  Inv'
<1> USE DepthAssumption, WritesAssumption, WritersAssumption DEF Inv, NotPublished, fileSystem, account
<1>1. writer' \in [Writers -> WriterStates]
  BY DEF TypeOK, WriterStates
<1>2. \A v \in Writers : writer'[v].step \in {"creating", "syncing"} <=> lock' = v
  BY DEF TypeOK, WriterStates
<1>3. TypeOK'
  BY <1>1, <1>2 DEF TypeOK
<1>4. Owed'
  BY DEF TypeOK, WriterStates, Owed, PathDurable, Established, NoneMissing
<1>5. Layout'
  BY DEF TypeOK, WriterStates, Layout, NoneMissing, Established
<1>6. Established'
  BY DEF TypeOK, WriterStates, Layout, NoneMissing, Established
<1> QED  BY <1>3, <1>4, <1>5, <1>6

LEMMA ReplaceInv ==
  ASSUME Inv, NEW w \in Writers, NEW fresh \in BOOLEAN, Replace(w, fresh)
  PROVE  Inv'
<1> USE DepthAssumption, WritesAssumption, WritersAssumption DEF Inv, Replace, fileSystem, account
<1>1. writer' \in [Writers -> WriterStates]
  <2>1. published' \in 0 .. MaxWrites
    BY DEF TypeOK
  <2>2. [writer[w] EXCEPT !.step = "replaced", !.content = published'] \in WriterStates
    BY <2>1 DEF TypeOK, WriterStates
  <2> QED  BY <2>2 DEF TypeOK
<1>2. \A v \in Writers : writer'[v].step \in {"creating", "syncing"} <=> lock' = v
  BY DEF TypeOK, WriterStates
<1>3. TypeOK'
  <2>1. published' \in 0 .. MaxWrites /\ published' \in Torn .. MaxWrites
    BY DEF TypeOK, Torn
  <2>2. entries' \subseteq Torn .. MaxWrites
    BY <2>1 DEF TypeOK, Torn
  <2> QED  BY <1>1, <1>2, <2>1, <2>2 DEF TypeOK
<1>4. Owed'
  BY DEF TypeOK, WriterStates, Owed, PathDurable, Established, NoneMissing
<1>5. Layout'
  BY DEF TypeOK, WriterStates, Layout, NoneMissing, Established
<1>6. Established'
  BY DEF TypeOK, WriterStates, Layout, NoneMissing, Established
<1> QED  BY <1>3, <1>4, <1>5, <1>6

LEMMA SyncDirectoryInv ==
  ASSUME Inv, NEW w \in Writers, NEW o \in Outcomes, SyncDirectory(w, o)
  PROVE  Inv'
<1> USE DepthAssumption, WritesAssumption, WritersAssumption DEF Inv, SyncDirectory, Outcomes, fileSystem, account
<1>1. writer' \in [Writers -> WriterStates]
  BY DEF TypeOK, WriterStates
<1>2. \A v \in Writers : writer'[v].step \in {"creating", "syncing"} <=> lock' = v
  BY DEF TypeOK, WriterStates
<1>3. TypeOK'
  <2>1. entries' \subseteq Torn .. MaxWrites
    BY DEF TypeOK, Torn
  <2>2. committed' \subseteq 1 .. MaxWrites
    <3>1. writer[w].content \in 1 .. MaxWrites
      BY DEF TypeOK, Established
    <3> QED  BY <3>1 DEF TypeOK
  <2> QED  BY <1>1, <1>2, <2>1, <2>2 DEF TypeOK
<1>4. Owed'
  BY DEF TypeOK, WriterStates, Owed, PathDurable, Established, NoneMissing
<1>5. Layout'
  <2>1. visible \in entries' /\ entries' \subseteq entries
    BY DEF Layout, Torn
  <2>2. Torn \notin entries
    BY DEF Layout, Torn, TypeOK
  <2>3. NoneMissing /\ NoneMissing'
    BY DEF Established, NoneMissing
  <2>4. committed' \subseteq 1 .. published
    <3>1. writer[w].content \in 1 .. visible /\ visible <= published
      BY DEF TypeOK, Established, Layout
    <3>2. writer[w].content \in 1 .. published
      BY <3>1 DEF TypeOK
    <3> QED  BY <3>2 DEF Layout
  <2> QED  BY <2>1, <2>3, <2>4 DEF Layout
<1>6. Established'
  BY DEF TypeOK, WriterStates, Layout, NoneMissing, Established
<1> QED  BY <1>3, <1>4, <1>5, <1>6

LEMMA RecreateInv ==
  ASSUME Inv, Recreate
  PROVE  Inv'
<1> USE DepthAssumption, WritesAssumption, WritersAssumption DEF Inv, Recreate, fileSystem, account
<1>1. writer' \in [Writers -> WriterStates]
  BY DEF TypeOK, WriterStates
<1>2. \A v \in Writers : writer'[v].step \in {"creating", "syncing"} <=> lock' = v
  BY DEF TypeOK, WriterStates
<1>3. TypeOK'
  <2>1. 0 \in Torn .. MaxWrites
    BY DEF Torn
  <2> QED  BY <1>1, <1>2, <2>1 DEF TypeOK
<1>4. Owed'
  BY DEF TypeOK, WriterStates, Owed, PathDurable, Established, NoneMissing
<1>5. Layout'
  BY DEF TypeOK, WriterStates, Layout, NoneMissing, Established
<1>6. Established'
  BY DEF TypeOK, WriterStates, Layout, NoneMissing, Established
<1> QED  BY <1>3, <1>4, <1>5, <1>6

LEMMA CrashInv ==
  ASSUME Inv, Crash
  PROVE  Inv'
<1> USE DepthAssumption, WritesAssumption, WritersAssumption DEF Inv, Crash, ProcessEnds, fileSystem, account
<1>1. writer' \in [Writers -> WriterStates]
  BY DEF TypeOK, WriterStates
<1>2. \A v \in Writers : writer'[v].step \in {"creating", "syncing"} <=> lock' = v
  BY DEF TypeOK, WriterStates
<1>3. TypeOK'
  BY <1>1, <1>2 DEF TypeOK
<1>4. Owed'
  BY DEF TypeOK, WriterStates, Owed, PathDurable, Established, NoneMissing
<1>5. Layout'
  BY DEF TypeOK, WriterStates, Layout, NoneMissing, Established
<1>6. Established'
  BY DEF TypeOK, WriterStates, Layout, NoneMissing, Established
<1> QED  BY <1>3, <1>4, <1>5, <1>6

LEMMA PowerLossInv ==
  ASSUME Inv, PowerLoss
  PROVE  Inv'
<1> USE DepthAssumption, WritesAssumption, WritersAssumption DEF Inv, PowerLoss, ProcessEnds, fileSystem, account
<1>1. writer' \in [Writers -> WriterStates]
  BY DEF TypeOK, WriterStates
<1>2. \A v \in Writers : writer'[v].step \in {"creating", "syncing"} <=> lock' = v
  BY DEF TypeOK, WriterStates
<1>3. TypeOK'
  <2>1. visible' \in 0 .. MaxWrites
    <3>1. visible' \in {0} \cup entries \cup former
      OBVIOUS
    <3>2. visible' \in 0 .. published
      BY <3>1 DEF Layout, TypeOK
    <3> QED  BY <3>2 DEF TypeOK
  <2>2. entries' \subseteq Torn .. MaxWrites /\ former' \subseteq Torn .. MaxWrites
    BY <2>1 DEF Torn
  <2>3. entry' \in [Dirs -> {"absent", "pending", "durable"}]
    BY DEF TypeOK
  <2> QED  BY <1>1, <1>2, <2>1, <2>2, <2>3 DEF TypeOK
<1>4. Owed'
  BY DEF TypeOK, WriterStates, Owed, PathDurable, Established, NoneMissing
<1>5. Layout'
  <2>1. CASE /\ visible' \in entries \cup former
             /\ entry' = [d \in Dirs |-> IF entry[d] = "absent" THEN "absent" ELSE "durable"]
    BY <2>1 DEF Layout, NoneMissing, TypeOK
  <2>2. CASE \E lost \in Dirs : /\ visible' = 0
                                /\ entry' = [d \in Dirs |-> IF d < lost THEN "durable" ELSE "absent"]
    BY <2>2 DEF Layout, NoneMissing, TypeOK
  <2> QED  BY <2>1, <2>2
<1>6. Established'
  BY DEF TypeOK, WriterStates, Layout, NoneMissing, Established
<1> QED  BY <1>3, <1>4, <1>5, <1>6

------------------------------------------------------------------------------
(* The invariant *)

LEMMA InitInv ==
  ASSUME Init
  PROVE  Inv
<1> USE DepthAssumption, WritesAssumption, WritersAssumption DEF Init
<1>1. PICK k \in 0 .. Depth : entry = [d \in Dirs |-> IF d <= k THEN "durable" ELSE "absent"]
  OBVIOUS
<1>2. TypeOK
  <2>1. writer \in [Writers -> WriterStates]
    BY DEF WriterStates
  <2> QED  BY <1>1, <2>1 DEF TypeOK, Torn
<1>3. Owed
  BY <1>1 DEF Owed
<1>4. Layout
  BY <1>1 DEF Layout, NoneMissing
<1>5. Established
  BY DEF Established
<1> QED  BY <1>2, <1>3, <1>4, <1>5 DEF Inv

LEMMA NextInv ==
  ASSUME Inv, [Next]_vars
  PROVE  Inv'
<1>1. CASE \E w \in Writers : Write(w)
  <2>1. PICK w \in Writers : Write(w)
    BY <1>1
  <2> QED  BY <2>1, EnterInv, CreateDirsInv, SyncEntryInv, FinishDirsInv, WriteTempInv,
              SyncTempInv, NotPublishedInv, ReplaceInv, SyncDirectoryInv DEF Write
<1>2. CASE UNCHANGED vars
  BY <1>2 DEF vars, fileSystem, account, Inv, TypeOK, WriterStates, Owed, PathDurable, Layout,
              NoneMissing, Established
<1> QED  BY <1>1, <1>2, RecreateInv, CrashInv, PowerLossInv DEF Next

\* The invariant holds in every reachable state.
THEOREM Invariance == Spec => []Inv
<1>1. Init => Inv
  BY InitInv
<1>2. Inv /\ [Next]_vars => Inv'
  BY NextInv
<1> QED  BY <1>1, <1>2, PTL DEF Spec

\* Every variable keeps its type, and DIRECTORY_STATE's lock is held exactly by the
\* thread that creates or synchronizes directories.
THEOREM TypeCorrect == Spec => []TypeOK
<1>1. Inv => TypeOK
  BY DEF Inv
<1> QED  BY <1>1, Invariance, PTL

\* Every directory entry a power loss may still undo is on the list of owed
\* synchronizations, and a write that may claim to be durable has a durable path.
THEOREM PathIsOwed == Spec => []Owed
<1>1. Inv => Owed
  BY DEF Inv
<1> QED  BY <1>1, Invariance, PTL

\* A power loss never leaves a torn content: the temporary file is synchronized
\* before it replaces the destination.
THEOREM NeverTorn == Spec => []Whole
<1>1. Inv => Whole
  <2>1. ASSUME Inv PROVE Torn \notin entries \cup former \cup {0}
    BY <2>1 DEF Inv, Layout, TypeOK, Torn
  <2> QED  BY <2>1 DEF Whole, Survivors
<1> QED  BY <1>1, Invariance, PTL

------------------------------------------------------------------------------
(* The protocol implements AtomicFile *)

LEMMA MapsInit ==
  ASSUME Init
  PROVE  Promise!Init
BY DEF Init, Promise!Init, Survivors

LEMMA MapsCreateDirs ==
  ASSUME Inv, NEW w \in Writers, NEW made \in 0 .. Depth, CreateDirs(w, made)
  PROVE  UNCHANGED Promise!fileVars
<1>1. PathDurable' = PathDurable
  BY DEF CreateDirs, Missing, PathDurable, Inv, TypeOK
<1> QED  BY <1>1 DEF CreateDirs, Survivors, Promise!fileVars, account

LEMMA MapsSyncEntry ==
  ASSUME Inv, Inv', NEW w \in Writers, NEW o \in Outcomes, SyncEntry(w, o)
  PROVE  Promise!Settle
<1>1. /\ UNCHANGED <<visible, entries, published, committed, gone>>
      /\ former' \subseteq former
  BY DEF SyncEntry, account, Outcomes
<1>2. PathDurable => PathDurable'
  BY DEF SyncEntry, PathDurable, Inv, TypeOK, Outcomes
<1>3. Survivors' \in SUBSET Survivors /\ visible \in Survivors'
  BY <1>1, <1>2 DEF Survivors, Inv, Layout
<1>4. committed' = committed \cup {}
  BY <1>1
<1> QED  BY <1>1, <1>3, <1>4 DEF Promise!Settle

LEMMA MapsSyncDirectory ==
  ASSUME Inv, NEW w \in Writers, NEW o \in Outcomes, SyncDirectory(w, o)
  PROVE  Promise!Settle
<1>1. /\ UNCHANGED <<visible, published, gone, former, entry>>
      /\ PathDurable' = PathDurable
  BY DEF SyncDirectory, PathDurable
<1>2. Torn \notin entries /\ visible \in entries
  BY DEF Inv, Layout, TypeOK, Torn
<1>3. Survivors' \in SUBSET Survivors /\ visible \in Survivors'
  BY <1>1, <1>2 DEF Survivors, SyncDirectory
<1>4. CASE o = "Synced" /\ writer[w].sync = "Synced"
  <2>1. PathDurable
    BY <1>4 DEF Inv, Owed, SyncDirectory
  <2>2. Survivors' = {visible}
    BY <1>1, <1>2, <1>4, <2>1 DEF Survivors, SyncDirectory
  <2>3. writer[w].content \in 1 .. visible /\ visible \in 0 .. published /\ published \in Nat
    BY DEF SyncDirectory, Inv, Established, Layout, TypeOK
  <2>4. /\ writer[w].content \in 1 .. published
        /\ \A s \in Survivors' : s >= writer[w].content
    BY <2>2, <2>3
  <2>5. committed' = committed \cup {writer[w].content}
    BY <1>4 DEF SyncDirectory
  <2> QED  BY <1>1, <1>3, <2>4, <2>5 DEF Promise!Settle
<1>5. CASE ~ (o = "Synced" /\ writer[w].sync = "Synced")
  <2>1. committed' = committed \cup {}
    BY <1>5 DEF SyncDirectory
  <2> QED  BY <1>1, <1>3, <2>1 DEF Promise!Settle
<1> QED  BY <1>4, <1>5

LEMMA MapsReplace ==
  ASSUME Inv, NEW w \in Writers, NEW fresh \in BOOLEAN, Replace(w, fresh)
  PROVE  Promise!Publish
<1>1. writer[w].flushed
  BY DEF Inv, Established, Replace
<1>2. PathDurable' = PathDurable
  BY DEF Replace, PathDurable
<1> QED  BY <1>1, <1>2 DEF Replace, Survivors, Promise!Publish

LEMMA MapsRecreate ==
  ASSUME Inv, Recreate
  PROVE  Promise!Remove
<1> USE DepthAssumption
<1>1. ~ PathDurable'
  BY DEF Recreate, PathDurable, Inv, TypeOK
<1>2. PathDurable => former = {}
  BY DEF PathDurable, Inv, Layout
<1> QED  BY <1>1, <1>2 DEF Recreate, Survivors, Promise!Remove

LEMMA MapsPowerLoss ==
  ASSUME Inv, PowerLoss
  PROVE  Promise!PowerLoss
<1> USE DepthAssumption
<1>1. UNCHANGED <<published, committed, gone>> /\ entries' = {visible'} /\ former' = {}
  BY DEF PowerLoss, ProcessEnds, account
<1>2. PathDurable => former = {}
  BY DEF PathDurable, Inv, Layout
<1>3. visible' \in Survivors
  <2>1. CASE visible' \in entries \cup former
    BY <1>2, <2>1 DEF Survivors
  <2>2. CASE visible' = 0 /\ \E lost \in Dirs : entry[lost] = "pending"
    BY <2>2 DEF Survivors, PathDurable
  <2> QED  BY <2>1, <2>2 DEF PowerLoss
<1>4. ~ PathDurable' => visible' = 0
  <2>1. CASE /\ visible' \in entries \cup former
             /\ entry' = [d \in Dirs |-> IF entry[d] = "absent" THEN "absent" ELSE "durable"]
    BY <2>1 DEF PathDurable, Inv, Layout, NoneMissing
  <2>2. CASE visible' = 0
    BY <2>2
  <2> QED  BY <2>1, <2>2 DEF PowerLoss
<1>5. Survivors' = {visible'}
  BY <1>1, <1>4 DEF Survivors
<1> QED  BY <1>1, <1>3, <1>5 DEF Promise!PowerLoss

LEMMA MapsNext ==
  ASSUME Inv, Inv', [Next]_vars
  PROVE  [Promise!Next]_Promise!fileVars
<1>1. ASSUME UNCHANGED <<fileSystem, account>>
      PROVE  UNCHANGED Promise!fileVars
  BY <1>1 DEF fileSystem, account, Promise!fileVars, Survivors, PathDurable
<1>2. ASSUME NEW w \in Writers, Write(w)
      PROVE  [Promise!Next]_Promise!fileVars
  <2>1. CASE Enter(w) \/ FinishDirs(w) \/ WriteTemp(w) \/ SyncTemp(w) \/ NotPublished(w)
    BY <1>1, <2>1 DEF Enter, FinishDirs, WriteTemp, SyncTemp, NotPublished
  <2>2. CASE \E made \in 0 .. Depth : CreateDirs(w, made)
    BY <2>2, MapsCreateDirs
  <2>3. CASE \E o \in Outcomes : SyncEntry(w, o) \/ SyncDirectory(w, o)
    BY <2>3, MapsSyncEntry, MapsSyncDirectory DEF Promise!Next
  <2>4. CASE \E fresh \in BOOLEAN : Replace(w, fresh)
    BY <2>4, MapsReplace DEF Promise!Next
  <2> QED  BY <1>2, <2>1, <2>2, <2>3, <2>4 DEF Write
<1>3. CASE Recreate \/ PowerLoss
  BY <1>3, MapsRecreate, MapsPowerLoss DEF Promise!Next
<1>4. CASE Crash \/ UNCHANGED vars
  BY <1>1, <1>4 DEF Crash, ProcessEnds, vars
<1> QED  BY <1>2, <1>3, <1>4 DEF Next

\* write_atomic, from the directories on the path to the last synchronization, keeps
\* the promise AtomicFile states of one file.
THEOREM Implements == Spec => KeepsPromise
<1>1. Init => Promise!Init
  BY MapsInit
<1>2. Inv /\ Inv' /\ [Next]_vars => [Promise!Next]_Promise!fileVars
  BY MapsNext
<1> QED  BY <1>1, <1>2, Invariance, PTL DEF Spec, KeepsPromise, Promise!Spec

LEMMA PromiseKeepsCommitted ==
  ASSUME Inv, CommittedSurvives, [Promise!Next]_Promise!fileVars
  PROVE  CommittedSurvives'
<1>1. \A c \in committed : c \in 1 .. published /\ c \in Nat
  BY DEF Inv, Layout, TypeOK
<1>2. published \in Nat /\ gone \in Nat
  BY DEF Inv, TypeOK
<1>3. CASE Promise!Publish
  BY <1>1, <1>2, <1>3 DEF Promise!Publish, CommittedSurvives
<1>4. CASE Promise!Settle
  BY <1>4 DEF Promise!Settle, CommittedSurvives
<1>5. CASE Promise!PowerLoss
  BY <1>5 DEF Promise!PowerLoss, CommittedSurvives
<1>6. CASE Promise!Remove
  BY <1>1, <1>2, <1>6 DEF Promise!Remove, CommittedSurvives
<1>7. CASE UNCHANGED Promise!fileVars
  BY <1>7 DEF Promise!fileVars, CommittedSurvives
<1> QED  BY <1>3, <1>4, <1>5, <1>6, <1>7 DEF Promise!Next

\* After an Ok that says fully durable, a power loss leaves that content or a later
\* one, whatever the other threads of the process, failures and unsupported
\* directory synchronizations did before.
THEOREM AcknowledgedSurvives == Spec => []CommittedSurvives
<1>1. Init => CommittedSurvives
  BY DEF Init, CommittedSurvives
<1>2. Inv /\ Inv' /\ CommittedSurvives /\ [Next]_vars => CommittedSurvives'
  BY MapsNext, PromiseKeepsCommitted
<1> QED  BY <1>1, <1>2, Invariance, PTL DEF Spec

==============================================================================
