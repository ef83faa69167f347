----------------------------- MODULE HttpSession -----------------------------
(***************************************************************************)
(* An HTTP connection (http_session.cpp, http_server.cpp): requests cut    *)
(* out of a byte stream that arrives in any pieces, and one response each. *)
(* A token stands for a run of bytes of a line ("x") or a line end ("n");  *)
(* the head of a request is its lines and an empty line, the body is any   *)
(* tokens, whose number the head gives.                                    *)
(***************************************************************************)
EXTENDS Integers, Sequences

CONSTANTS Requests,     \* what a client may ask: [lines, body, conn, expect, ok]
          BufferSize,   \* http.request.buffer_size, in tokens
          MaxBody,      \* http.request.body_size, in tokens
          MaxRequests   \* bound: requests of the client

VARIABLES _is_keepAlive,  \* TcpServerConf::keepalive, fixed
          net,          \* tokens on the way to the server: [r, t, i]
          asked,        \* history: the requests sent, in order
          cli,          \* client: [pc, piped]
          ses,          \* session: [pc, data, fed, body]
          got,          \* history: requests handed to a servlet: [head, body]
          said,         \* the connection header of each response written
          fate          \* history: [lost, faulty]

httpVars == <<_is_keepAlive, net, asked, cli, ses, got, said, fate>>

HeadOf(r, q) == [i \in 1 .. (2 * q.lines + 1) |-> [r |-> r, t |-> IF i % 2 = 1 /\ i <= 2 * q.lines THEN "x" ELSE "n", i |-> i]]
BodyOf(r, q) == [i \in 1 .. Len(q.body) |-> [r |-> r, t |-> q.body[i], i |-> 2 * q.lines + 1 + i]]

-----------------------------------------------------------------------------
(* The client. *)

\* A request, behind an unanswered one too; with Expect the body waits for the server.
ClientAsks(q) ==
    /\ cli.pc # "body" /\ Len(asked) < MaxRequests
    /\ asked' = Append(asked, q)
    /\ net' = net \o HeadOf(Len(asked) + 1, q) \o IF q.expect THEN <<>> ELSE BodyOf(Len(asked) + 1, q)
    /\ cli' = [pc |-> IF q.expect THEN "body" ELSE "answer", piped |-> cli.piped \/ Len(said) < Len(asked)]
    /\ UNCHANGED <<_is_keepAlive, ses, got, said, fate>>

-----------------------------------------------------------------------------
(* RecvRequest(). *)
Recv == [pc |-> "recv", data |-> <<>>, fed |-> <<>>, body |-> <<>>]

Close ==
    /\ ses' = [ses EXCEPT !.pc = "closed"]
    /\ fate' = [fate EXCEPT !.faulty = TRUE]

\* A mutant of GetLastRN(): everything that was read goes to the parser.
GetLastAll(data) == Len(data)
\* The length up to the last line end, 0 when there is none.
GetLastRN(data) == CHOOSE n \in 0 .. Len(data) :
    /\ n > 0 => data[n].t = "n"
    /\ \A i \in (n + 1) .. Len(data) : data[i].t # "n"

\* Execute(): the parser stops after the empty line, or takes all it was given.
IsEnd(data, i) == data[i].t = "n" /\ (i = 1 \/ data[i - 1].t = "n")
Ends(data, n) == {i \in 1 .. n : IsEnd(data, i)}
Execute(data, n) == IF Ends(data, n) = {} THEN n ELSE CHOOSE i \in Ends(data, n) : \A j \in Ends(data, n) : i <= j

\* The callbacks of the parser: a method or a version that is not known is an error.
Number(fed) == fed[1][1].r
HasError(fed) == fed # <<>> /\ ~asked[Number(fed)].ok

\* One read into the buffer, and what the parser takes of it.
RecvHead ==
    /\ ses.pc = "recv" /\ net # <<>> /\ Len(ses.data) < BufferSize
    /\ \E k \in 1 .. Len(net) :
          /\ Len(ses.data) + k <= BufferSize
          /\ \E data \in {ses.data \o SubSeq(net, 1, k)} : \E n \in {Execute(data, GetLastRN(data))} :
             \E fed \in {IF n = 0 THEN ses.fed ELSE Append(ses.fed, SubSeq(data, 1, n))} :
                IF HasError(fed) THEN Close
                ELSE /\ ses' = [ses EXCEPT !.pc = IF n > 0 /\ IsEnd(data, n) THEN "parsed" ELSE "recv",
                                           !.data = SubSeq(data, n + 1, Len(data)), !.fed = fed]
                     /\ UNCHANGED fate
          /\ net' = SubSeq(net, k + 1, Len(net))
    /\ UNCHANGED <<_is_keepAlive, asked, cli, got, said>>
\* A full buffer without a line end, or a client that left or is too slow.
RecvFails ==
    /\ ses.pc \in {"recv", "body"}
    /\ Close
    /\ UNCHANGED <<_is_keepAlive, net, asked, cli, got, said>>

\* getHeaderAs("content-length") and getHeader("Expect") of the request in the parser.
Asked == asked[Number(ses.fed)]
\* The client holds this request's body back.
Expecting == Asked.expect /\ cli.pc = "body" /\ Number(ses.fed) = Len(asked)
\* The body begins with what the buffer still holds; the rest of the buffer is dropped.
RecvBody ==
    /\ ses.pc = "parsed"
    /\ IF Len(Asked.body) > MaxBody
       THEN Close
       ELSE LET n == IF Len(ses.data) > Len(Asked.body) THEN Len(Asked.body) ELSE Len(ses.data)
            IN  /\ ses' = [ses EXCEPT !.pc = IF n = Len(Asked.body) THEN "handle" ELSE "body",
                                      !.body = SubSeq(ses.data, 1, n), !.data = <<>>]
                /\ fate' = [fate EXCEPT !.lost = @ \/ n < Len(ses.data)]
    /\ UNCHANGED <<_is_keepAlive, net, asked, cli, got, said>>
\* "100 Continue" is written before the body is read; the client then sends it.
Continue ==
    /\ ses.pc \in {"body", "handle"} /\ Expecting
    /\ net' = net \o BodyOf(Len(asked), asked[Len(asked)])
    /\ cli' = [cli EXCEPT !.pc = "answer"]
    /\ UNCHANGED <<_is_keepAlive, asked, ses, got, said, fate>>
\* ReadFixSize() of what is missing.
ReadFixSize ==
    /\ ses.pc = "body" /\ net # <<>>
    /\ \E k \in 1 .. Len(net) :
          /\ Len(ses.body) + k <= Len(Asked.body)
          /\ ses' = [ses EXCEPT !.body = @ \o SubSeq(net, 1, k), !.pc = IF Len(ses.body) + k = Len(Asked.body) THEN "handle" ELSE "body"]
          /\ net' = SubSeq(net, k + 1, Len(net))
    /\ UNCHANGED <<_is_keepAlive, asked, cli, got, said, fate>>

-----------------------------------------------------------------------------
(* handleClient(): the servlet, the response, and whether to go on. *)

\* HttpRequest::init(): without a connection header a request asks to close.
isClose(q) == q.conn # "keep-alive"

HandleRequest ==
    /\ ses.pc = "handle" /\ ~Expecting
    /\ got' = Append(got, [head |-> ses.fed, body |-> ses.body])
    /\ ses' = [ses EXCEPT !.pc = "send"]
    /\ UNCHANGED <<_is_keepAlive, net, asked, cli, said, fate>>

\* HttpResponse::dump(): what the client is told.
Dump(close) == IF close THEN "close" ELSE "keep-alive"
SendResponse ==
    /\ ses.pc = "send"
    /\ \/ /\ said' = Append(said, Dump(isClose(Asked) \/ ~_is_keepAlive))
          /\ ses' = IF isClose(Asked) \/ ~_is_keepAlive THEN [ses EXCEPT !.pc = "closed"] ELSE Recv
          /\ UNCHANGED fate
       \/ Close /\ UNCHANGED said
    /\ UNCHANGED <<_is_keepAlive, net, asked, cli, got>>

HttpInit ==
    /\ _is_keepAlive \in BOOLEAN
    /\ net = <<>> /\ asked = <<>> /\ got = <<>> /\ said = <<>>
    /\ cli = [pc |-> "idle", piped |-> FALSE]
    /\ ses = Recv
    /\ fate = [lost |-> FALSE, faulty |-> FALSE]

HttpNext == \/ \E q \in Requests : ClientAsks(q)
            \/ RecvHead \/ RecvFails \/ RecvBody \/ Continue \/ ReadFixSize \/ HandleRequest \/ SendResponse

-----------------------------------------------------------------------------
\* Piece j of a head ends with its token number End(head, j).
End(head, j) == IF j = 0 THEN 0 ELSE head[j][Len(head[j])].i
\* The pieces of head make up the first tokens of h, and each ends with a line.
CutFrom(head, h) ==
    \A j \in 1 .. Len(head) :
       /\ head[j] # <<>> /\ head[j][Len(head[j])].t = "n"
       /\ End(head, j) <= Len(h) /\ head[j] = SubSeq(h, End(head, j - 1) + 1, End(head, j))

\* The servlets get the requests the client sent, in order, each whole and with its own
\* body, however the bytes arrive; no line is given to the parser in two pieces.
\* A client that asks again before it has its answer is the exception: what follows
\* a request in the buffer is dropped.  The connection is kept exactly when the last response
\* says so and the server is configured to.
RequestsKept ==
    /\ fate.lost => cli.piped
    /\ ~fate.lost => \A i \in 1 .. Len(got) :
          /\ CutFrom(got[i].head, HeadOf(i, asked[i]))
          /\ End(got[i].head, Len(got[i].head)) = Len(HeadOf(i, asked[i]))
          /\ got[i].body = BodyOf(i, asked[i]) /\ asked[i].ok
    /\ said # <<>> /\ ~fate.faulty /\ ses.pc \in {"recv", "closed"} /\ ~(ses.pc = "recv" /\ ses.fed # <<>>) =>
          (ses.pc = "closed" <=> said[Len(said)] = "close") /\ (~_is_keepAlive => ses.pc = "closed")
=============================================================================
