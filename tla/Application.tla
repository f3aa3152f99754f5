----------------------------- MODULE Application -----------------------------
(***************************************************************************)
(* The application: requests that read and write a parameter, and a worker *)
(* that reports the end of its threads, share the strand.                  *)
(***************************************************************************)
EXTENDS ParameterAccess, Executor

vars == <<accessVars, executorVars>>

Init == AccessInit /\ ExecutorInit

Next ==
  \/ AccessNext /\ UNCHANGED executorVars
  \/ ExecutorNext /\ UNCHANGED accessVars

Spec == Init /\ [][Next]_vars /\ ExecutorFairness
=============================================================================
