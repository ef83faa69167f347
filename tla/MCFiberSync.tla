----------------------------- MODULE MCFiberSync -----------------------------
\* FiberSync for four fibers: one can own the mutex, one be in the middle of a
\* signal(), one be handed over and one be queued, all at once.
EXTENDS FiberSync

\* lock() returns, and so does a wait() that was notified (mutex.cpp).
CallsReturn == LockReturns /\ NotifiedReturns
=============================================================================
