----------------------------- MODULE MCScheduler -----------------------------
\* Scheduler for two workers and a caller that may take part.
EXTENDS Scheduler

\* Tasks end and Stop() returns (Scheduler::Run, Scheduler::Stop).
SchedulerEnds == TaskCompletes /\ StopReturns
=============================================================================
