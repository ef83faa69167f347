----------------------------- MODULE MessageStream -----------------------------
(***************************************************************************)
(* What a KCP connection promises its two users: whole messages, each      *)
(* once, in the order in which they were given to ikcp_send().             *)
(***************************************************************************)
EXTENDS Naturals, Sequences

CONSTANT Message

VARIABLES
    sent,        \* messages accepted by ikcp_send(), oldest first
    got          \* messages returned by ikcp_recv()

Init == sent = <<>> /\ got = <<>>

Send(m) == sent' = Append(sent, m) /\ UNCHANGED got

Recv ==
    /\ Len(got) < Len(sent)
    /\ got' = Append(got, sent[Len(got) + 1])
    /\ UNCHANGED sent

Next == Recv \/ \E m \in Message : Send(m)

Spec == Init /\ [][Next]_<<sent, got>>
=============================================================================
