------------------------------- MODULE RockWire -------------------------------
(***************************************************************************)
(* Messages on a stream (protocol.cpp, rock_protocol.cpp, stream.cpp,      *)
(* socket_stream.cpp and xftp_protocol.cpp, whose decoder differs in the   *)
(* fields and in having no limit): a head with a magic number and the      *)
(* body's length, then the fields of the body.  The kernel takes and gives *)
(* any part of what it is offered.  A field, and the head, stands for its  *)
(* bytes: one unit of the stream each.                                     *)
(***************************************************************************)
EXTENDS Integers, Sequences, SequencesExt, FiniteSets, FiniteSetsExt

CONSTANTS Messages,     \* [type, sn, cmd, result, str, notify, file, data]
          NodeSize,     \* units in a node of the receiver's ByteArray
          BufferSize,   \* stream_buffer.size, in units
          MinGzip,      \* {rock,xftp}.protocol.min_gzip_body_length, in units
          MaxLength,    \* rock.protocol.max_body_length, in units
          MaxMessages   \* bound: messages sent

VARIABLES xftp,         \* which of the two protocols the stream speaks, fixed
          out,          \* sender: [pc, left], left = units still to write
          net,          \* units on the way: [m, v]
          in,           \* receiver: [pc, head, ba, left]
          msgs,         \* history: the messages sent
          received,     \* the messages the receiver was given
          over          \* history: the receiver took units of the next message

wireVars == <<xftp, out, net, in, msgs, received, over>>

-----------------------------------------------------------------------------
(* The bodies: md5, name, the two sizes, last and lastSn are `file', <<>>  *)
(* in a Rock message.                                                      *)
RequestFields(m) == <<"request", m.sn, m.cmd>>
ResponseFields(m) == <<"response", m.sn, m.cmd, m.result, m.str>>
NotifyFields(m) == <<"notify", m.notify>>
RockBody(m) == <<m.data>>
XftpBody(m) == m.file \o <<m.data>>
Base(m) == CASE m.type = "request" -> RequestFields(m) [] m.type = "response" -> ResponseFields(m)
             [] OTHER -> NotifyFields(m)
ToByteArray(m) == Base(m) \o IF xftp THEN XftpBody(m) ELSE RockBody(m)

Blank(type) == [type |-> type, sn |-> "0", cmd |-> "0", result |-> "404", str |-> "unhandle", notify |-> "0",
                file |-> <<>>, data |-> "empty"]
\* A mutant of ParseRequest(): command and sequence number exchanged.
ParseRequestSwapped(f) == [Blank("request") EXCEPT !.cmd = f[2], !.sn = f[3]]
ParseRequest(f) == [Blank("request") EXCEPT !.sn = f[2], !.cmd = f[3]]
ParseResponse(f) == [Blank("response") EXCEPT !.sn = f[2], !.cmd = f[3], !.result = f[4], !.str = f[5]]
ParseNotify(f) == [Blank("notify") EXCEPT !.notify = f[2]]
ParseRockBody(m, f, at) == [m EXCEPT !.data = f[at]]
ParseXftpBody(m, f, at) == [m EXCEPT !.file = SubSeq(f, at, at + 5), !.data = f[at + 6]]
ParseFromByteArray(f) ==
    LET m == CASE f[1] = "request" -> ParseRequest(f) [] f[1] = "response" -> ParseResponse(f) [] OTHER -> ParseNotify(f)
        at == Len(Base(m)) + 1
    IN  IF xftp THEN ParseXftpBody(m, f, at) ELSE ParseRockBody(m, f, at)

-----------------------------------------------------------------------------
(* The sender. *)
\* zlib: the same fields in fewer units; a unit holds the fields it stands for.
Gzip(f) == [i \in 1 .. (Len(f) + 1) \div 2 |-> IF 2 * i <= Len(f) THEN <<f[2 * i - 1], f[2 * i]>> ELSE <<f[2 * i - 1]>>]
Gunzip(units) == [i \in 1 .. 2 * Len(units) - 2 + Len(units[Len(units)]) |-> units[(i + 1) \div 2][IF i % 2 = 1 THEN 1 ELSE 2]]

\* The head, with the length and the flag of a body that was compressed, and the body.
Serialized(n, f) ==
    LET zip == Len(f) > MinGzip
        body == IF zip THEN Gzip(f) ELSE [i \in 1 .. Len(f) |-> <<f[i]>>]
    IN  <<[m |-> n, v |-> <<"head">>, len |-> Len(body), flag |-> zip]>>
        \o [i \in 1 .. Len(body) |-> [m |-> n, v |-> body[i], len |-> 0, flag |-> FALSE]]
Units(n, m) == Serialized(n, ToByteArray(m))

SerializeToStream(m) ==
    /\ out.pc = "idle" /\ Len(msgs) < MaxMessages /\ xftp = (m.file # <<>>)
    /\ msgs' = Append(msgs, m)
    /\ out' = [pc |-> "write", left |-> Units(Len(msgs) + 1, m)]
    /\ UNCHANGED <<xftp, net, in, received, over>>

\* One Write() of WriteFixSize(), first for the head and then for the body; a failure
\* leaves the rest unwritten.
WriteFixSize ==
    /\ out.pc = "write"
    /\ \E k \in 1 .. Min({BufferSize, IF out.left[1].v = <<"head">> THEN 1 ELSE Len(out.left)}) :
          /\ net' = net \o SubSeq(out.left, 1, k)
          /\ out' = [pc |-> IF k = Len(out.left) THEN "idle" ELSE "write", left |-> SubSeq(out.left, k + 1, Len(out.left))]
    /\ UNCHANGED <<xftp, in, msgs, received, over>>
WriteFails ==
    /\ out.pc = "write" /\ out' = [pc |-> "closed", left |-> <<>>]
    /\ UNCHANGED <<xftp, net, in, msgs, received, over>>

-----------------------------------------------------------------------------
(* The receiver. *)
Idle == [pc |-> "head", head |-> <<>>, ba |-> <<>>, left |-> 0]

\* ReadFixSize() of the head, its magic number and the length.
ReadHead ==
    /\ in.pc = "head" /\ net # <<>>
    /\ net' = Tail(net)
    /\ in' = IF Head(net).v # <<"head">> \/ (~xftp /\ Head(net).len > MaxLength) THEN [in EXCEPT !.pc = "failed"]
             ELSE [pc |-> "body", head |-> <<Head(net)>>, ba |-> <<>>, left |-> Head(net).len]
    /\ UNCHANGED <<xftp, out, msgs, received, over>>

\* GetWriteBuffers(): room up to the end of the node that the n-th unit falls in.
Room(n) == ((Len(in.ba) + n - 1) \div NodeSize + 1) * NodeSize - Len(in.ba)

\* One SocketStream::Read() of ReadFixSize(), for `left' units: the kernel may fill all of the
\* room.  More than was asked for makes the unsigned rest wrap round: the loop then
\* reads until the stream ends, shown as left = -1.
ReadBody ==
    /\ in.pc = "body" /\ net # <<>>
    /\ \E ask \in {IF in.left < 0 THEN BufferSize ELSE Min({in.left, BufferSize})} :
       \E k \in 1 .. Min({Room(ask), Len(net)}) :
          /\ in' = [in EXCEPT !.ba = @ \o SubSeq(net, 1, k),
                              !.left = IF in.left < k THEN -1 ELSE @ - k,
                              !.pc = IF in.left = k THEN "parse" ELSE "body"]
          /\ over' = (over \/ in.left < k)
          /\ net' = SubSeq(net, k + 1, Len(net))
    /\ UNCHANGED <<xftp, out, msgs, received>>

\* The stream ends: no message.
ReadFails ==
    /\ in.pc \in {"head", "body"} /\ net = <<>> /\ out.pc = "closed"
    /\ in' = [in EXCEPT !.pc = "failed"]
    /\ UNCHANGED <<xftp, out, net, msgs, received, over>>

ParseFromStream ==
    /\ in.pc = "parse"
    /\ LET body == [i \in 1 .. Len(in.ba) |-> in.ba[i].v]
           f == IF Head(in.head).flag THEN Gunzip(body) ELSE [i \in 1 .. Len(body) |-> body[i][1]]
       IN  received' = Append(received, ParseFromByteArray(f))
    /\ in' = Idle
    /\ UNCHANGED <<xftp, out, net, msgs, over>>

WireInit ==
    /\ xftp \in BOOLEAN
    /\ out = [pc |-> "idle", left |-> <<>>] /\ net = <<>>
    /\ in = Idle /\ msgs = <<>> /\ received = <<>> /\ over = FALSE

WireNext == (\E m \in Messages : SerializeToStream(m)) \/ WriteFixSize \/ WriteFails \/ ReadHead \/ ReadBody \/ ReadFails \/ ParseFromStream

-----------------------------------------------------------------------------
\* However the bytes are cut, the receiver gets the messages that were sent, whole and
\* in order, and fails only when the stream ended or a body is too long; but for a
\* message that the next one follows at once: its last read may take units of the next.
MessagesKept ==
    /\ IsPrefix(received, msgs)
    /\ in.pc = "failed" /\ ~over => out.pc = "closed" \/ (~xftp /\ \E i \in 1 .. Len(msgs) : Units(i, msgs[i])[1].len > MaxLength)
    /\ over => Len(msgs) > Len(received) + 1
=============================================================================
