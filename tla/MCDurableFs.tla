----------------------------- MODULE MCDurableFs -----------------------------
(***************************************************************************)
(* DurableFs for TLC: two threads, so that one can find the directories     *)
(* another has just made, and a path deep enough to break off in the middle.*)
(***************************************************************************)
EXTENDS DurableFs

==============================================================================
