------------------------------- MODULE MCHookIO -------------------------------
\* HookIO for two pollers and two sockets in a row on one descriptor number.
EXTENDS HookIO

\* Each race on its own.  Two calls at a time, and a close() under a call (with one poller
\* in use), meet either a peer that hangs up or timeouts.
MCRaceSets ==
    {{"overlap", "hangup", "timeout"} \cup r : r \in {{}, {"early"}, {"stale"}, {"cancel"}}}
        \cup {{"overlap", "duplex", r} : r \in {"hangup", "timeout"}}
        \cup {{"close", r} : r \in {"hangup", "timeout"}}
===============================================================================
