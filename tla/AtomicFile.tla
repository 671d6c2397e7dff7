----------------------------- MODULE AtomicFile -----------------------------
(***************************************************************************)
(* What one file written with slashit_durable_fs::write_atomic promises     *)
(* its callers (crates/slashit-durable-fs/src/lib.rs): readers see whole    *)
(* contents, a power loss leaves one of a known set of them, and a content  *)
(* reported fully durable is never older than what is left.                 *)
(*                                                                         *)
(* A content is the number of its publication; 0 is no file.                *)
(***************************************************************************)
EXTENDS Naturals

VARIABLES
  visible,    \* what a reader finds
  survivors,  \* what a power loss may leave
  published,  \* publications so far
  committed,  \* contents reported fully durable
  gone        \* the last publication somebody else has removed since

fileVars == <<visible, survivors, published, committed, gone>>

Init ==
  /\ visible = 0
  /\ survivors = {0}
  /\ published = 0
  /\ committed = {}
  /\ gone = 0

Publish ==
  /\ published' = published + 1
  /\ visible' = published'
  /\ survivors' = survivors \cup {visible'}
  /\ UNCHANGED <<committed, gone>>

\* Synchronizing narrows down what a power loss may leave; an Ok with
\* is_fully_durable is given only when nothing older can be left.
Settle ==
  /\ survivors' \in SUBSET survivors
  /\ visible \in survivors'
  /\ \E acknowledged \in {{}} \cup {{c} : c \in 1 .. published} :
       /\ \A c \in acknowledged : c > gone => \A s \in survivors' : s >= c
       /\ committed' = committed \cup acknowledged
  /\ UNCHANGED <<visible, published, gone>>

PowerLoss ==
  /\ visible' \in survivors
  /\ survivors' = {visible'}
  /\ UNCHANGED <<published, committed, gone>>

\* Someone else removes the file, with its directory.
Remove ==
  /\ visible' = 0
  /\ survivors' = survivors \cup {0}
  /\ gone' = published
  /\ UNCHANGED <<published, committed>>

Next == Publish \/ Settle \/ PowerLoss \/ Remove

Spec == Init /\ [][Next]_fileVars

\* After an Ok that says fully durable, a crash or power loss leaves that content
\* or a later one, unless someone else has removed the file since.
CommittedSurvives ==
  \A c \in committed : c > gone => \A s \in survivors : s >= c

==============================================================================
