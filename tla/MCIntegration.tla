---------------------------- MODULE MCIntegration ----------------------------
(***************************************************************************)
(* IntegrationSystem for TLC.                                                *)
(***************************************************************************)
EXTENDS IntegrationSystem

CONSTANTS t1, main

\* Between asking which checkout has the target and moving it, and inside git's
\* own fast-forward, a checkout may change under the branch.
CheckoutWindows == {"updateRef", "mergeRef"}
=============================================================================
