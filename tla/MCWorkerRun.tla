---------------------------- MODULE MCWorkerRun ----------------------------
(***************************************************************************)
(* WorkerRun for TLC: one task, as many runs, edits and faults as the cfg.  *)
(***************************************************************************)
EXTENDS WorkerRun

============================================================================
