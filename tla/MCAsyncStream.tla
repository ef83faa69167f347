----------------------------- MODULE MCAsyncStream -----------------------------
\* AsyncStream with two connections in turn and one failed attempt.
EXTENDS AsyncStream, TLC

\* Each property has a set of races that it does not except: the properties without
\* exceptions are checked in all three.
MCRaceSets == {{"close", "torn"}, {"close", "reopen"}, {"missed", "late"}}
\* The races that make no difference to the safety of several callers.
Harmless == {{"missed", "late"}}
MCSymmetry == Permutations(Reqs)

\* Requests return, and a broken connection is replaced or the stream ends (doRead,
\* doWrite, onTimer).
StreamGoesOn == RequestReturns /\ RestartsOrEnds
=============================================================================
