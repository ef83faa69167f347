------------------------------ MODULE MCKcpServer ------------------------------
\* Two clients, on two sockets or on one.  Two sessions, at one address or at two; one
\* session and each kind of failure; two sessions and Stop().
EXTENDS KcpServer, TLC
CONSTANTS c1, c2, ch1, ch2, s1, s2
Apart == c1 :> ch1 @@ c2 :> ch2
Together == c1 :> ch1 @@ c2 :> ch1
MCScenarios ==
    {[channelOf |-> Apart, clients |-> {c1, c2}, maxConn |-> 1, sids |-> {s1, s2},
      packets |-> 2, faults |-> 0, stop |-> FALSE],
     [channelOf |-> Together, clients |-> {c1, c2}, maxConn |-> 1, sids |-> {s1, s2},
      packets |-> 2, faults |-> 0, stop |-> FALSE],
     [channelOf |-> Apart, clients |-> {c1}, maxConn |-> 1, sids |-> {s1},
      packets |-> 2, faults |-> 1, stop |-> FALSE],
     [channelOf |-> Together, clients |-> {c1}, maxConn |-> 2, sids |-> {s1, s2},
      packets |-> 2, faults |-> 0, stop |-> TRUE]}
=============================================================================
