---------------------------- MODULE MCAdmission ----------------------------
(***************************************************************************)
(* Admission for TLC: the flows and the limits are the cfg's.  Flows are    *)
(* not declared symmetric, because Converges is a liveness property.        *)
(***************************************************************************)
EXTENDS Admission

============================================================================
