------------------------------ MODULE DurableFs ------------------------------
(***************************************************************************)
(* slashit_durable_fs::write_atomic step by step, for one destination file  *)
(* and any number of threads that write it: create and synchronize the      *)
(* directories on its path under DIRECTORY_STATE's lock, stage a temporary  *)
(* file, replace the destination, synchronize its directory.                *)
(*                                                                         *)
(* The file system keeps what a power loss may undo: the entry of each      *)
(* directory on the path, and the destination's entry in the last of them.  *)
(* Every step may fail, and any directory may refuse to be synchronized.    *)
(***************************************************************************)
EXTENDS Integers, FiniteSets

CONSTANTS
  Writers,    \* threads that write the file
  Depth,      \* directories on its path; the last one holds the file
  MaxWrites   \* publications in a behaviour

ASSUME WritersAssumption == "nobody" \notin Writers
ASSUME DepthAssumption == Depth \in Nat \ {0}
ASSUME WritesAssumption == MaxWrites \in Nat

VARIABLES
  entry,      \* each directory's entry in its parent
  visible,    \* the content a reader finds; 0 when there is no file
  entries,    \* what the file's entry may hold on disk
  former,     \* what it may hold in a directory that was replaced
  owed,       \* DirectoryState.owed
  lock,       \* who holds DIRECTORY_STATE
  writer,     \* where each thread is in its write_atomic
  published, committed, gone   \* see AtomicFile

fileSystem == <<entry, visible, entries, former>>
account == <<published, committed, gone>>
vars == <<fileSystem, owed, lock, writer, account>>

Dirs == 1 .. Depth
Torn == -1      \* a content whose bytes had not reached the disk
Nobody == "nobody"

\* sync: what the write may claim of the entries it relies on.  todo: the entries
\* still to be synchronized.  content: the number it published.
Idle == [step |-> "idle", todo |-> {}, sync |-> "Synced", flushed |-> FALSE, content |-> 0]
WriterStates ==
  [step : {"idle", "creating", "syncing", "staging", "flushing", "staged", "replaced"},
   todo : SUBSET Dirs, sync : {"Synced", "Unsupported"}, flushed : BOOLEAN,
   content : 0 .. MaxWrites]

TypeOK ==
  /\ entry \in [Dirs -> {"absent", "pending", "durable"}]
  /\ visible \in 0 .. MaxWrites
  /\ entries \in SUBSET (Torn .. MaxWrites)
  /\ former \in SUBSET (Torn .. MaxWrites)
  /\ owed \in SUBSET Dirs
  /\ lock \in Writers \cup {Nobody}
  /\ writer \in [Writers -> WriterStates]
  /\ published \in 0 .. MaxWrites
  /\ committed \in SUBSET (1 .. MaxWrites)
  /\ gone \in 0 .. MaxWrites
  /\ \A w \in Writers : writer[w].step \in {"creating", "syncing"} <=> lock = w

Init ==
  /\ \E k \in 0 .. Depth : entry = [d \in Dirs |-> IF d <= k THEN "durable" ELSE "absent"]
  /\ visible = 0
  /\ entries = {0}
  /\ former = {}
  /\ owed = {}
  /\ lock = Nobody
  /\ writer = [w \in Writers |-> Idle]
  /\ published = 0
  /\ committed = {}
  /\ gone = 0

Missing == {d \in Dirs : entry[d] = "absent"}
PathDurable == \A d \in Dirs : entry[d] = "durable"
Goto(w, step) == writer' = [writer EXCEPT ![w].step = step]
Leave(w) == writer' = [writer EXCEPT ![w] = Idle]
At(w, step) == writer[w].step = step

------------------------------------------------------------------------------
(* create_dir_all_durable *)

Enter_owes_nothing(w) ==
  /\ At(w, "idle")
  /\ lock = Nobody
  /\ lock' = w
  /\ Goto(w, "creating")
  /\ UNCHANGED <<fileSystem, owed, account>>

\* The missing directories are owed before they exist.
Enter(w) ==
  /\ At(w, "idle")
  /\ lock = Nobody
  /\ lock' = w
  /\ owed' = owed \cup Missing
  /\ Goto(w, "creating")
  /\ UNCHANGED <<fileSystem, account>>

\* create_dir_all makes them from the top and may stop anywhere.
CreateDirs(w, made) ==
  /\ At(w, "creating")
  /\ made \in Dirs \cup {0}
  /\ \A d \in Dirs \ Missing : d <= made
  /\ entry' = [d \in Dirs |-> IF entry[d] = "absent" /\ d <= made THEN "pending" ELSE entry[d]]
  /\ IF made = Depth
     THEN /\ owed' = owed \cup {Depth}
          /\ writer' = [writer EXCEPT ![w].step = "syncing", ![w].todo = owed']
          /\ UNCHANGED lock
     ELSE /\ lock' = Nobody
          /\ Leave(w)
          /\ UNCHANGED owed
  /\ UNCHANGED <<visible, entries, former, account>>

\* The shallowest entry of the path that is still owed.
SyncEntry(w, outcome) ==
  /\ At(w, "syncing")
  /\ \E d \in writer[w].todo :
       /\ \A e \in writer[w].todo : d <= e
       /\ IF outcome = "failed"
          THEN /\ Leave(w)
               /\ lock' = Nobody
               /\ UNCHANGED <<entry, former, owed>>
          ELSE /\ writer' = [writer EXCEPT ![w].todo = @ \ {d}]
               /\ UNCHANGED lock
               /\ IF outcome = "Synced"
                  THEN /\ entry' = [entry EXCEPT ![d] = "durable"]
                       /\ former' = IF d = Depth THEN {} ELSE former
                       /\ owed' = owed \ {d}
                  ELSE UNCHANGED <<entry, former, owed>>
  /\ UNCHANGED <<visible, entries, account>>

FinishDirs_keeps_lock(w) ==
  /\ At(w, "syncing")
  /\ writer[w].todo = {}
  /\ writer' = [writer EXCEPT ![w].step = "staging",
                              ![w].sync = IF owed = {} THEN "Synced" ELSE "Unsupported"]
  /\ UNCHANGED <<lock, fileSystem, owed, account>>

FinishDirs_trusts_unsupported(w) ==
  /\ At(w, "syncing")
  /\ writer[w].todo = {}
  /\ writer' = [writer EXCEPT ![w].step = "staging", ![w].sync = "Synced"]
  /\ lock' = Nobody
  /\ UNCHANGED <<fileSystem, owed, account>>

\* An entry that stays owed limits what the write may claim.
FinishDirs(w) ==
  /\ At(w, "syncing")
  /\ writer[w].todo = {}
  /\ writer' = [writer EXCEPT ![w].step = "staging",
                              ![w].sync = IF owed = {} THEN "Synced" ELSE "Unsupported"]
  /\ lock' = Nobody
  /\ UNCHANGED <<fileSystem, owed, account>>

------------------------------------------------------------------------------
(* stage and publish *)

\* CreateTemp, WriteTemp, SetPermissions: nobody else sees the temporary file.
WriteTemp(w) ==
  /\ At(w, "staging")
  /\ Goto(w, "flushing")
  /\ UNCHANGED <<fileSystem, owed, lock, account>>

SyncTemp_skipped(w) ==
  /\ At(w, "flushing")
  /\ Goto(w, "staged")
  /\ UNCHANGED <<fileSystem, owed, lock, account>>

SyncTemp(w) ==
  /\ At(w, "flushing")
  /\ writer' = [writer EXCEPT ![w].step = "staged", ![w].flushed = TRUE]
  /\ UNCHANGED <<fileSystem, owed, lock, account>>

\* Up to the replacement a failure, or a dropped StagedFile, publishes nothing.
NotPublished(w) ==
  /\ writer[w].step \in {"staging", "flushing", "staged"}
  /\ Leave(w)
  /\ UNCHANGED <<fileSystem, owed, lock, account>>

\* publish replaces whatever is there; publish_new only where nothing is.
Replace(w, fresh) ==
  /\ At(w, "staged")
  /\ published < MaxWrites
  /\ fresh => visible = 0
  /\ published' = published + 1
  /\ visible' = published'
  /\ entries' = entries \cup {published'} \cup (IF writer[w].flushed THEN {} ELSE {Torn})
  /\ writer' = [writer EXCEPT ![w].step = "replaced", ![w].content = published']
  /\ UNCHANGED <<entry, former, owed, lock, committed, gone>>

\* A directory's synchronization covers every replacement made in it so far, and
\* no file's bytes.
SyncDirectory(w, outcome) ==
  /\ At(w, "replaced")
  /\ entries' = IF outcome = "Synced" THEN {visible} \cup (entries \cap {Torn}) ELSE entries
  /\ committed' = IF outcome = "Synced" /\ writer[w].sync = "Synced"
                  THEN committed \cup {writer[w].content} ELSE committed
  /\ Leave(w)
  /\ UNCHANGED <<entry, visible, former, owed, lock, published, gone>>

------------------------------------------------------------------------------
(* The rest of the machine *)

\* What a power loss may leave at the destination.
Survivors == entries \cup (IF PathDurable THEN {} ELSE former \cup {0})

\* Between two writes, someone else removes the directory and makes it again.
Recreate ==
  /\ \A w \in Writers : At(w, "idle")
  /\ entry[Depth] # "absent"
  /\ entry' = [entry EXCEPT ![Depth] = "pending"]
  /\ former' = former \cup entries
  /\ visible' = 0
  /\ entries' = {0}
  /\ gone' = published
  /\ UNCHANGED <<owed, lock, writer, published, committed>>

ProcessEnds ==
  /\ owed' = {}
  /\ lock' = Nobody
  /\ writer' = [w \in Writers |-> Idle]
  /\ UNCHANGED account

\* What was owed is forgotten: older ancestors are assumed to be durable.
Crash ==
  /\ \A d \in Dirs \ {Depth} : entry[d] # "pending"
  /\ ProcessEnds
  /\ UNCHANGED fileSystem

\* The whole path is kept, with the file in its last directory or in the one that
\* was there before; or the path ends above a directory whose entry is lost.
PowerLoss ==
  /\ ProcessEnds
  /\ \/ /\ visible' \in entries \cup former
        /\ entry' = [d \in Dirs |-> IF entry[d] = "absent" THEN "absent" ELSE "durable"]
     \/ \E lost \in Dirs :
          /\ entry[lost] = "pending"
          /\ visible' = 0
          /\ entry' = [d \in Dirs |-> IF d < lost THEN "durable" ELSE "absent"]
  /\ entries' = {visible'}
  /\ former' = {}

Outcomes == {"Synced", "Unsupported", "failed"}

Write(w) ==
  \/ Enter(w) \/ FinishDirs(w) \/ WriteTemp(w) \/ SyncTemp(w) \/ NotPublished(w)
  \/ \E made \in 0 .. Depth : CreateDirs(w, made)
  \/ \E o \in Outcomes : SyncEntry(w, o) \/ SyncDirectory(w, o)
  \/ \E fresh \in BOOLEAN : Replace(w, fresh)

Next == (\E w \in Writers : Write(w)) \/ Recreate \/ Crash \/ PowerLoss

Spec == Init /\ [][Next]_vars

------------------------------------------------------------------------------
(* Properties *)

\* After an Ok that says fully durable, a power loss leaves that content or a later
\* one: not an older one, and not a file that can no longer be reached because an
\* entry above it was never synchronized.
CommittedSurvives ==
  \A c \in committed : c > gone => \A s \in Survivors : s >= c

\* A power loss never leaves a mixture of two contents.
Whole == Torn \notin Survivors

\* The protocol keeps what AtomicFile promises.
Promise == INSTANCE AtomicFile WITH survivors <- Survivors

KeepsPromise == Promise!Spec

\* Every directory entry that may still be lost is owed, by the process that made
\* it or, for the destination's own, by the write that is under way; and a write
\* that will claim to be durable has a durable path.
Owed ==
  /\ \A d \in Dirs : entry[d] = "pending" /\ d # Depth => d \in owed
  /\ \A w \in Writers :
       /\ At(w, "syncing") => \A d \in Dirs : entry[d] = "durable" \/ d \in owed
       /\ (writer[w].step \in {"staging", "flushing", "staged", "replaced"}
            /\ writer[w].sync = "Synced") => PathDurable

==============================================================================
