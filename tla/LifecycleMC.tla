---------------------------- MODULE LifecycleMC ----------------------------
(* Values for the constants of Lifecycle.                                  *)
EXTENDS Lifecycle

BothControllers == <<epever, voltgo>>

VoltgoRuns == {voltgo} \X (0..MaxTicks)
=============================================================================
