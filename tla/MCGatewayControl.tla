-------------------------- MODULE MCGatewayControl --------------------------
(***************************************************************************)
(* GatewayControl on small instances: the configurations choose the time   *)
(* scale, the build and the environment.                                   *)
(***************************************************************************)
EXTENDS GatewayControl

\* The published action steers nothing and no property of the runs that use
\* this view reads it: states that differ only there are one state.
WithoutAction ==
    <<commandVars, fcVars, fcViewVars, rcViewVars, previousState, latest,
      recoveryVars, latched, sample, pc, scheduleVars, historyVars>>
=============================================================================
