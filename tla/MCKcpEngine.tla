------------------------------ MODULE MCKcpEngine ------------------------------
\* Two peers, two messages of two fragments.
EXTENDS KcpEngine
MCSizes == <<2, 2>>

\* No segment is given up before the peer has it, and no more are on their way than the
\* windows allow (ikcp_parse_ack, ikcp_parse_una, ikcp_flush).
SegmentsSound == NothingForgotten /\ WindowsKept
=============================================================================
