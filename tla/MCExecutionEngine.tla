-------------------------- MODULE MCExecutionEngine --------------------------
(* A chain of two steps.                                                    *)
EXTENDS ExecutionEngine, TLC

\* Both steps are retried once; the first is timed, the second is not.
OneRetryEach == 1 :> 1 @@ 2 :> 1
FirstTimed == {1}
=============================================================================
