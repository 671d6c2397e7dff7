----------------------------- MODULE MCDelivery -----------------------------
(***************************************************************************)
(* DeliverySystem for TLC.                                                  *)
(***************************************************************************)
EXTENDS DeliverySystem

\* The windows in which a commit from the task's own terminal is lost or goes
\* out with the restack: git's rebase and its verification, and a push by name.
RestackWindows == {"restackReplay", "restackRecord", "replay", "force"}
NoWindows == {}
=============================================================================
