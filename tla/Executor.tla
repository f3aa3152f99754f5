------------------------------ MODULE Executor ------------------------------
(***************************************************************************)
(* asio_executor and the background worker of the example application,     *)
(* whose threads hand the end of their work over to the strand.  The       *)
(* threads run beside each other and beside the strand; closed_ is a plain *)
(* flag that they read while another thread may write it.                  *)
(***************************************************************************)
EXTENDS Naturals

CONSTANT MaxWork  \* bound on the threads and continuations under way

ASSUME MaxWorkAssumption == MaxWork \in Nat \ {0}

VARIABLES working,     \* threads that work
          submitting,  \* threads in submit(), behind the test of closed_
          posted,      \* continuations posted to the strand
          closed,      \* closed_
          ready        \* value of the parameter ready_

executorVars == <<working, submitting, posted, closed, ready>>

ExecutorInit ==
  /\ working = 0 /\ submitting = 0 /\ posted = 0
  /\ closed = FALSE
  /\ ready = FALSE

\* A client signals the event: the worker is not ready and starts a thread.
Start ==
  /\ working + submitting + posted < MaxWork
  /\ ready' = FALSE
  /\ working' = working + 1
  /\ UNCHANGED <<submitting, posted, closed>>

\* Mutant: the test of closed_ is inverted.
FinishInverted ==
  /\ working > 0
  /\ working' = working - 1
  /\ submitting' = IF closed THEN submitting + 1 ELSE submitting
  /\ UNCHANGED <<posted, closed, ready>>

\* A thread is done and submits its continuation; a closed executor throws and
\* the continuation is lost.
Finish ==
  /\ working > 0
  /\ working' = working - 1
  /\ submitting' = IF closed THEN submitting ELSE submitting + 1
  /\ UNCHANGED <<posted, closed, ready>>

Post ==
  /\ submitting > 0
  /\ submitting' = submitting - 1
  /\ posted' = posted + 1
  /\ UNCHANGED <<working, closed, ready>>

\* The strand runs a continuation.
Report ==
  /\ posted > 0
  /\ posted' = posted - 1
  /\ ready' = TRUE
  /\ UNCHANGED <<working, submitting, closed>>

\* The application closes the executor; the example never does.
Close ==
  /\ ~closed
  /\ closed' = TRUE
  /\ UNCHANGED <<working, submitting, posted, ready>>

ExecutorNext == Start \/ Finish \/ Post \/ Report \/ Close

\* Threads run on, and the strand runs what was posted.
ExecutorFairness ==
  /\ WF_executorVars(Finish)
  /\ WF_executorVars(Post)
  /\ WF_executorVars(Report)

-----------------------------------------------------------------------------
(* Properties *)

\* Work that was started is reported by the parameter, whatever else is
\* started meanwhile, unless the executor was closed under it.
WorkIsReported == working > 0 ~> (ready \/ closed)
=============================================================================
