------------------------------- MODULE KcpEngine -------------------------------
(***************************************************************************)
(* The KCP protocol engine (ikcp.c): two control blocks connected by UDP,  *)
(* which loses, repeats and reorders packets.  Peer "a" sends messages of  *)
(* one or more fragments to peer "b".  Both run the same code; a's         *)
(* acknowledgements have no data to acknowledge, so b only answers.        *)
(*                                                                         *)
(* Sequence numbers have their width: they are taken modulo SnMod, and     *)
(* compared by the sign of their difference.  Time is left out: a segment  *)
(* that has been sent may be due again at any flush at which neither it    *)
(* nor its acknowledgement is on its way, and MaxFaults times when it is;  *)
(* a window probe likewise.  The mtu is counted in segments.               *)
(***************************************************************************)
EXTENDS Integers, Sequences, SequencesExt, FiniteSets

CONSTANTS
    Sizes,        \* how many fragments each message has
    SndWnd,       \* snd_wnd
    RcvWndOpt,    \* the receive window asked for
    WndRcv,       \* IKCP_WND_RCV
    FastResend,   \* fastresend
    PacketSegs,   \* segments in a packet of mtu bytes
    SnMod,        \* 2^32
    StartSns,     \* sequence numbers at which the connection is looked at
    MaxFlight,    \* bound: packets on their way to a peer, unless one flush sends more
    MaxFaults     \* bound: packets lost, packets repeated, and flushes that repeat
                  \* what is still on its way, together

ASSUME EngineAssumption ==
    /\ SndWnd \in Nat \ {0} /\ WndRcv \in Nat \ {0} /\ RcvWndOpt \in Nat
    /\ FastResend \in Nat \ {0} /\ PacketSegs \in Nat \ {0}
    /\ SnMod \in Nat /\ SnMod > 2 * (SndWnd + WndRcv + RcvWndOpt)
    /\ StartSns \subseteq 0..(SnMod - 1)

Peers == {"a", "b"}
Other(p) == IF p = "a" THEN "b" ELSE "a"
Messages == DOMAIN Sizes

VARIABLES
    nocwnd,       \* nocwnd: no congestion window
    cb,           \* the control block of each peer
    net,          \* the packets on their way to each peer
    sent, got,    \* what the users have sent and received
    faults

vars == <<nocwnd, cb, net, sent, got, faults>>

Least(x, y) == IF x <= y THEN x ELSE y
Most(x, y) == IF x >= y THEN x ELSE y

\* _itimediff(): the difference as a signed number of the same width.
Diff(later, earlier) ==
    LET d == (later - earlier) % SnMod IN IF d < SnMod \div 2 THEN d ELSE d - SnMod
Plus(sn, n) == (sn + n) % SnMod

\* ikcp_wndsize(): not less than IKCP_WND_RCV.
RcvWnd == Most(RcvWndOpt, WndRcv)

\* ikcp_create(), seen when sn segments have gone both ways.
Create(sn) ==
    [snd_queue |-> <<>>, snd_buf |-> <<>>, snd_una |-> sn, snd_nxt |-> sn,
     rcv_queue |-> <<>>, rcv_buf |-> <<>>, rcv_nxt |-> sn,
     rmt_wnd |-> WndRcv, probe |-> {}, waiting |-> FALSE, acklist |-> <<>>,
     cwnd |-> 0, ssthresh |-> 2]

Init ==
    /\ nocwnd \in BOOLEAN
    /\ \E sn \in StartSns : cb = [p \in Peers |-> Create(sn)]
    /\ net = [p \in Peers |-> {}]
    /\ sent = <<>> /\ got = <<>>
    /\ faults = 0
-----------------------------------------------------------------------------
(* The user's side: ikcp_send(), ikcp_peeksize(), ikcp_recv() *)

\* The fragments of message m count down to 0.  Too many are refused.
Send(m) ==
    /\ Sizes[m] < WndRcv
    /\ cb' = [cb EXCEPT !["a"].snd_queue =
                @ \o [i \in 1..Sizes[m] |-> [msg |-> m, frg |-> Sizes[m] - i]]]
    /\ sent' = Append(sent, m)
    /\ UNCHANGED <<nocwnd, net, got, faults>>

UserSend == Len(sent) < Len(Sizes) /\ Send(Len(sent) + 1)

\* ikcp_peeksize(): the first message is there with all its fragments.
Peek(k) == k.rcv_queue # <<>> /\ Len(k.rcv_queue) >= Head(k.rcv_queue).frg + 1

\* Faulty variant: a gap in the sequence numbers is not noticed.
ReadyGap(k) == {n \in 0..Len(k.rcv_buf) : Len(k.rcv_queue) + n <= RcvWnd}

\* Segments go from rcv_buf to rcv_queue while they follow and there is room.
Ready(k) ==
    {n \in 0..Len(k.rcv_buf) :
        /\ Len(k.rcv_queue) + n <= RcvWnd
        /\ \A i \in 1..n : k.rcv_buf[i].sn = Plus(k.rcv_nxt, i - 1)}

\* Faulty variant: the window is not looked at.
MoveAll(k) ==
    LET n == CHOOSE n \in 0..Len(k.rcv_buf) :
                /\ \A i \in 1..n : k.rcv_buf[i].sn = Plus(k.rcv_nxt, i - 1)
                /\ n < Len(k.rcv_buf) => k.rcv_buf[n + 1].sn # Plus(k.rcv_nxt, n)
    IN [k EXCEPT !.rcv_queue = @ \o [i \in 1..n |-> k.rcv_buf[i].data],
                 !.rcv_buf = SubSeq(@, n + 1, Len(@)),
                 !.rcv_nxt = Plus(@, n)]

MoveReady(k) ==
    LET n == CHOOSE n \in Ready(k) : \A o \in Ready(k) : o <= n
    IN [k EXCEPT !.rcv_queue = @ \o [i \in 1..n |-> k.rcv_buf[i].data],
                 !.rcv_buf = SubSeq(@, n + 1, Len(@)),
                 !.rcv_nxt = Plus(@, n)]

\* ikcp_recv(): the fragments up to the one numbered 0; then what waits in rcv_buf,
\* and a word to the peer if the window was closed and is open now.
UserRecv ==
    LET k == cb["b"]
        n == CHOOSE i \in DOMAIN k.rcv_queue :
                k.rcv_queue[i].frg = 0 /\ \A j \in 1..(i - 1) : k.rcv_queue[j].frg # 0
        moved == MoveReady([k EXCEPT !.rcv_queue = SubSeq(@, n + 1, Len(@))])
        opened == Len(k.rcv_queue) >= RcvWnd /\ Len(moved.rcv_queue) < RcvWnd
    IN /\ Peek(k)
       /\ cb' = [cb EXCEPT !["b"] = [moved EXCEPT !.probe = IF opened THEN @ \cup {"tell"} ELSE @]]
       \* the caller gets the fragments; they are a message if they are one's in order
       /\ got' = Append(got, IF \A i \in 1..n : k.rcv_queue[i] = [msg |-> k.rcv_queue[1].msg, frg |-> n - i]
                              /\ n = Sizes[k.rcv_queue[1].msg]
                              THEN k.rcv_queue[1].msg ELSE 0)
       /\ UNCHANGED <<nocwnd, net, sent, faults>>
-----------------------------------------------------------------------------
(* ikcp_input() *)

\* ikcp_parse_una(): snd_buf is in order, so this is a prefix of it.
ParseUna(k, una) == [k EXCEPT !.snd_buf = SelectSeq(@, LAMBDA s : Diff(una, s.sn) <= 0)]

ShrinkBuf(k) == [k EXCEPT !.snd_una = IF k.snd_buf = <<>> THEN k.snd_nxt ELSE Head(k.snd_buf).sn]

InFlight(k, sn) == Diff(sn, k.snd_una) >= 0 /\ Diff(sn, k.snd_nxt) < 0

\* Faulty variant: an acknowledgement counts for what is older, too.
ParseAckOlder(k, sn) ==
    IF InFlight(k, sn) THEN [k EXCEPT !.snd_buf = SelectSeq(@, LAMBDA s : Diff(s.sn, sn) > 0)] ELSE k

ParseAck(k, sn) ==
    IF InFlight(k, sn) THEN [k EXCEPT !.snd_buf = SelectSeq(@, LAMBDA s : s.sn # sn)] ELSE k

\* Older segments have been overtaken once more (counted up to FastResend).
ParseFastack(k, sn) ==
    IF ~InFlight(k, sn) THEN k
    ELSE [k EXCEPT !.snd_buf = [i \in DOMAIN @ |->
            IF Diff(sn, @[i].sn) > 0
            THEN [@[i] EXCEPT !.fastack = Least(@ + 1, FastResend)] ELSE @[i]]]

\* ikcp_parse_data(): into its place in rcv_buf unless it is outside the window or
\* there already; then what follows rcv_nxt goes to rcv_queue.
ParseData(k, seg) ==
    IF \/ Diff(seg.sn, Plus(k.rcv_nxt, RcvWnd)) >= 0 \/ Diff(seg.sn, k.rcv_nxt) < 0
    THEN k
    ELSE IF \E i \in DOMAIN k.rcv_buf : k.rcv_buf[i].sn = seg.sn THEN MoveReady(k)
    ELSE LET before == Len(SelectSeq(k.rcv_buf, LAMBDA s : Diff(seg.sn, s.sn) > 0))
         IN MoveReady([k EXCEPT !.rcv_buf =
                         InsertAt(@, before + 1, [sn |-> seg.sn, data |-> seg.data])])

AckPush(k, sn) == [k EXCEPT !.acklist = Append(@, sn)]

\* Faulty variant: what is already received is not acknowledged again.
PushQuiet(k, seg) ==
    IF Diff(seg.sn, Plus(k.rcv_nxt, RcvWnd)) < 0 /\ Diff(seg.sn, k.rcv_nxt) >= 0
    THEN ParseData(AckPush(k, seg.sn), seg) ELSE k

\* A segment below the upper end of the window is acknowledged, old ones too.
Push(k, seg) ==
    IF Diff(seg.sn, Plus(k.rcv_nxt, RcvWnd)) >= 0 THEN k
    ELSE LET acked == AckPush(k, seg.sn)
         IN IF Diff(seg.sn, k.rcv_nxt) >= 0 THEN ParseData(acked, seg) ELSE acked

InputSeg(k, seg) ==
    LET told == ShrinkBuf(ParseUna([k EXCEPT !.rmt_wnd = seg.wnd], seg.una))
    IN CASE seg.cmd = "ack" -> ShrinkBuf(ParseAck(told, seg.sn))
         [] seg.cmd = "push" -> Push(told, seg)
         [] seg.cmd = "wask" -> [told EXCEPT !.probe = @ \cup {"tell"}]
         [] seg.cmd = "wins" -> told

\* The congestion window after snd_una has moved: below ssthresh it grows at once, above
\* when incr has come to another mss.
Grown(old, k) ==
    IF nocwnd \/ Diff(k.snd_una, old.snd_una) <= 0 \/ k.cwnd >= k.rmt_wnd THEN {k.cwnd}
    ELSE IF k.cwnd < k.ssthresh THEN {k.cwnd + 1} ELSE {k.cwnd, k.cwnd + 1}

\* The segments of a packet one after the other, then the newest acknowledgement's
\* effect on the older ones, then the congestion window.
Input(k, packet) ==
    LET read == FoldLeft(InputSeg, k, packet)
        acks == {packet[i].sn : i \in {j \in DOMAIN packet : packet[j].cmd = "ack"}}
        maxack == CHOOSE sn \in acks : \A o \in acks : Diff(sn, o) >= 0
        fast == IF acks = {} THEN read ELSE ParseFastack(read, maxack)
    IN {[fast EXCEPT !.cwnd = w] : w \in Grown(k, fast)}
-----------------------------------------------------------------------------
(* ikcp_update(), ikcp_flush() *)

WndUnused(k) == IF Len(k.rcv_queue) < RcvWnd THEN RcvWnd - Len(k.rcv_queue) ELSE 0

Header(k, cmd, sn, data) ==
    [cmd |-> cmd, sn |-> sn, una |-> k.rcv_nxt, wnd |-> WndUnused(k), data |-> data]
NoData == [msg |-> 0, frg |-> 0]

\* Faulty variant: nobody asks for a window.
NeverProbe(k, expired) == k

\* The window probe: with a closed window, ask when probe_wait is over.
Probe(k, expired) ==
    [k EXCEPT !.waiting = k.rmt_wnd = 0,
              !.probe = IF k.rmt_wnd = 0 /\ k.waiting /\ expired THEN @ \cup {"ask"} ELSE @]

Window(k) ==
    LET wnd == Least(SndWnd, k.rmt_wnd) IN IF nocwnd THEN wnd ELSE Least(k.cwnd, wnd)

\* snd_queue to snd_buf, as far as the window goes.
Advance(k) ==
    LET room == -Diff(k.snd_nxt, Plus(k.snd_una, Window(k)))
        n == Least(Len(k.snd_queue), Most(0, room))
    IN [k EXCEPT !.snd_queue = SubSeq(@, n + 1, Len(@)),
                 !.snd_buf = @ \o [i \in 1..n |->
                    [sn |-> Plus(k.snd_nxt, i - 1), data |-> k.snd_queue[i],
                     xmit |-> FALSE, fastack |-> 0]],
                 !.snd_nxt = Plus(@, n)]

\* Which segments are sent now: new ones, those whose time has come, those overtaken.
IsDue(s, due) == s.xmit /\ s.sn \in due
IsFast(s, due) == s.xmit /\ s.sn \notin due /\ s.fastack >= FastResend
NeedSend(s, due) == ~s.xmit \/ IsDue(s, due) \/ IsFast(s, due)

Sent(s, due) ==
    IF NeedSend(s, due)
    THEN [s EXCEPT !.xmit = TRUE, !.fastack = IF IsFast(s, due) THEN 0 ELSE @] ELSE s

\* The congestion window after fast and timed retransmissions.
Congestion(k, w, due) ==
    LET some(P(_, _)) == \E i \in DOMAIN k.snd_buf : P(k.snd_buf[i], due)
        half(n) == Most(n \div 2, 2)
        fast == IF some(IsFast)
                THEN [k EXCEPT !.ssthresh = half(Diff(k.snd_nxt, k.snd_una)),
                               !.cwnd = half(Diff(k.snd_nxt, k.snd_una)) + FastResend]
                ELSE k
        lost == IF some(IsDue) THEN [fast EXCEPT !.ssthresh = half(w), !.cwnd = 1] ELSE fast
    IN IF nocwnd THEN k ELSE [lost EXCEPT !.cwnd = Most(@, 1)]

Packets(segs) ==
    {SubSeq(segs, i, Least(i + PacketSegs - 1, Len(segs))) :
        i \in {j \in 1..Len(segs) : (j - 1) % PacketSegs = 0}}

\* What a flush sends: acknowledgements, a probe, an answer to one, data.
Output(k, due) ==
    [i \in DOMAIN k.acklist |-> Header(k, "ack", k.acklist[i], NoData)]
    \o (IF "ask" \in k.probe THEN <<Header(k, "wask", 0, NoData)>> ELSE <<>>)
    \o (IF "tell" \in k.probe THEN <<Header(k, "wins", 0, NoData)>> ELSE <<>>)
    \o LET need == SelectSeq(k.snd_buf, LAMBDA s : NeedSend(s, due))
       IN [i \in DOMAIN need |-> Header(k, "push", need[i].sn, need[i].data)]

\* The control block after a flush, k being the one after the window was looked at.
Flushed(k, wnd, due) ==
    [Congestion(k, wnd, due) EXCEPT !.acklist = <<>>, !.probe = {},
                                    !.snd_buf = [i \in DOMAIN @ |-> Sent(@[i], due)]]

Flush(p, due, expired) ==
    \E k \in {Advance(Probe(cb[p], expired))} : \E packets \in {Packets(Output(k, due))} :
        /\ net[Other(p)] = {} \/ Cardinality(net[Other(p)] \cup packets) <= MaxFlight
        /\ cb' = [cb EXCEPT ![p] = Flushed(k, Window(cb[p]), due)]
        /\ net' = [net EXCEPT ![Other(p)] = @ \cup packets]
        /\ UNCHANGED <<nocwnd, sent, got>>

InBuf(k) == {k.snd_buf[i].sn : i \in DOMAIN k.snd_buf}

\* A segment with this command and number is on its way from p to its peer.
OnItsWay(p, cmd, sn) ==
    \E packet \in net[Other(p)] : \E i \in DOMAIN packet : packet[i].cmd = cmd /\ packet[i].sn = sn

\* What is unanswered and no longer on its way, there or back.
Overdue(p) ==
    {sn \in InBuf(cb[p]) :
        ~ \/ OnItsWay(p, "push", sn) \/ OnItsWay(Other(p), "ack", sn)
          \/ Contains(cb[Other(p)].acklist, sn)}
ProbeOverdue(p) ==
    ~ \/ OnItsWay(p, "wask", 0) \/ OnItsWay(Other(p), "wins", 0) \/ "tell" \in cb[Other(p)].probe

Fault(happens) ==
    /\ happens => faults < MaxFaults
    /\ faults' = IF happens THEN faults + 1 ELSE faults

Update(p) ==
    \E due \in SUBSET InBuf(cb[p]), expired \in {FALSE, ProbeOverdue(p)} :
        /\ Fault(~(due \subseteq Overdue(p)))
        /\ Flush(p, due, expired)

\* The flush in which everything overdue is sent.
UpdateAll(p) == Flush(p, Overdue(p), ProbeOverdue(p)) /\ UNCHANGED faults
-----------------------------------------------------------------------------
(* UDP *)

\* The session's packetInput() of a packet that is, or is not, the last copy.
Deliver(p) ==
    \E packet \in net[p], again \in BOOLEAN :
        /\ Fault(again)
        /\ net' = IF again THEN net ELSE [net EXCEPT ![p] = @ \ {packet}]
        /\ \E k \in Input(cb[p], packet) : cb' = [cb EXCEPT ![p] = k]
        /\ UNCHANGED <<nocwnd, sent, got>>

Lose(p) ==
    /\ Fault(TRUE)
    /\ \E packet \in net[p] : net' = [net EXCEPT ![p] = @ \ {packet}]
    /\ UNCHANGED <<nocwnd, cb, sent, got>>

Next ==
    \/ UserSend \/ UserRecv
    \/ \E p \in Peers : Update(p) \/ Deliver(p) \/ Lose(p)

Spec == Init /\ [][Next]_vars

Arrive(p) == \E packet \in net[p] : net' = [net EXCEPT ![p] = @ \ {packet}]

\* doSendLoop() goes on flushing, and what is unanswered becomes due; packets arrive
\* unless they are lost, and the reader reads.
Fairness ==
    /\ WF_vars(UserRecv)
    /\ \A p \in Peers :
          /\ WF_vars(UpdateAll(p))
          /\ WF_net(Arrive(p))

FairSpec == Spec /\ Fairness
-----------------------------------------------------------------------------
(* Properties *)

\* What b has, in rcv_buf or handed on.
Received(sn) ==
    \/ Diff(sn, cb["b"].rcv_nxt) < 0
    \/ \E i \in DOMAIN cb["b"].rcv_buf : cb["b"].rcv_buf[i].sn = sn

\* a gives a segment up only when b has it, whatever was lost, repeated or overtaken,
\* and across the wrap of the sequence numbers; and b has nothing that a has not sent.
NothingForgotten ==
    /\ Diff(cb["a"].snd_nxt, cb["b"].rcv_nxt) >= 0
    /\ \A n \in 0..(SndWnd + RcvWnd) :
          LET sn == Plus(cb["b"].rcv_nxt, n)
          IN Diff(sn, cb["a"].snd_nxt) < 0 => sn \in InBuf(cb["a"]) \/ Received(sn)

\* Both windows are kept: b never holds more than it has offered, and a never has more
\* unacknowledged than it may.
WindowsKept ==
    /\ Len(cb["b"].rcv_queue) <= RcvWnd
    /\ Diff(cb["a"].snd_nxt, cb["a"].snd_una) <= SndWnd
    /\ \A i \in DOMAIN cb["b"].rcv_buf :
          /\ Diff(cb["b"].rcv_buf[i].sn, cb["b"].rcv_nxt) \in 0..(RcvWnd - 1)
          /\ i > 1 => Diff(cb["b"].rcv_buf[i].sn, cb["b"].rcv_buf[i - 1].sn) > 0

\* The connection is a stream of whole messages, in order, each once.
Stream == INSTANCE MessageStream WITH Message <- Messages
StreamSpec == Stream!Spec

\* Everything sent is received, however often the window closes meanwhile.
AllArrives == (Len(sent) = Len(Sizes)) ~> (got = sent)
=============================================================================
