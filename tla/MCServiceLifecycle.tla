-------------------------- MODULE MCServiceLifecycle --------------------------
(***************************************************************************)
(* Instances of ServiceLifecycle for TLC.                                  *)
(***************************************************************************)
EXTENDS ServiceLifecycle, TLC

\* RELOAD_ON_ERROR as it is by default, and both ways.
MCDefault == {TRUE}
MCBoth    == BOOLEAN
=============================================================================
