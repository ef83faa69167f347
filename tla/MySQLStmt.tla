----------------------------- MODULE MySQLStmt -----------------------------
(***************************************************************************)
(* A prepared statement (class MySQLStmt of db/mysql.cpp) and the results  *)
(* of its queries (class MySQLStmtRes).  Parameters are bound one by one,  *)
(* in any order and again and again, into blocks that are allocated once   *)
(* and reused; execute() and query() send what the blocks hold.  A value   *)
(* is a token with a size; what is copied into a block too small for it is *)
(* undefined.  The errors of the statement handle (mysql_stmt_errno) are   *)
(* those of the client library: an execution clears or sets them.          *)
(***************************************************************************)
EXTENDS Integers, Sequences, FiniteSets

CONSTANTS Slots,      \* the parameters of the statement
          Columns,    \* the columns of its result: a type and a declared length each
          Values,     \* value tokens
          Texts,      \* the sizes of strings and blobs bound
          MaxRows,    \* bound: rows of a result
          MaxRuns     \* bound: executions

VARIABLES m_binds,    \* one block per parameter
          bound,      \* history: what the caller bound last
          wide,       \* history: parameters whose block a wider number overran
          errno,      \* the statement handle's error
          sent,       \* what the last execution sent
          res,        \* the result object in use
          runs        \* executions so far

stmtVars == <<m_binds, bound, wide, errno, sent, res, runs>>

Null == "null"
Unbound == [type |-> "zero", cap |-> -1, len |-> 0, val |-> Null]

\* The fixed-size types of bind() and the size of their values.
Width == [tiny |-> 1, short |-> 2, long |-> 4, longlong |-> 8, float |-> 4, double |-> 8]
Copied(v, size, cap) == IF size <= cap THEN v ELSE "undefined"

(* BIND_COPY: a block is allocated for the first value only. *)
BindCopy(b, type, size, v) ==
    LET cap == IF b.cap = -1 THEN size ELSE b.cap
    IN  [type |-> type, cap |-> cap, len |-> size, val |-> Copied(v, size, cap)]

\* Mutant: a text is copied into whatever block there is.
BindCopyKept(b, type, size, v) == BindCopy(b, type, size, v)

(* BIND_COPY_LEN: a new block when the last value was shorter. *)
BindCopyLen(b, type, size, v) ==
    LET cap == IF b.cap = -1 \/ b.len < size THEN size ELSE b.cap
    IN  [type |-> type, cap |-> cap, len |-> size, val |-> Copied(v, size, cap)]

Bound(i, b, v) == /\ m_binds' = [m_binds EXCEPT ![i] = b]
                  /\ bound' = [bound EXCEPT ![i] = v]
                  /\ UNCHANGED <<errno, sent, res, runs>>

(* bindInt8() ... bindDouble() *)
BindNumber(i, type, v) ==
    /\ Bound(i, BindCopy(m_binds[i], type, Width[type], v), v)
    /\ wide' = IF m_binds[i].cap # -1 /\ m_binds[i].cap < Width[type] THEN wide \cup {i} ELSE wide

(* bindString(), bindBlob() *)
BindText(i, type, size, v) ==
    /\ Bound(i, BindCopyLen(m_binds[i], type, size, v), v)
    /\ wide' = IF m_binds[i].len < size THEN wide \ {i} ELSE wide

(* bindTime(): the text of the time, 19 characters. *)
BindTime(i, v) == BindText(i, "string", 19, v)

(* bind(idx), bindNull(): the block stays. *)
BindNull(i) == Bound(i, [m_binds[i] EXCEPT !.type = Null], Null) /\ UNCHANGED wide

(* The overloads of bind() choose by the type of the value. *)
Bind == \E i \in Slots, v \in Values :
           \/ \E type \in DOMAIN Width : BindNumber(i, type, v)
           \/ \E type \in {"string", "blob"}, size \in Texts : BindText(i, type, size, v)
           \/ BindTime(i, v)
           \/ BindNull(i)

-----------------------------------------------------------------------------
\* A result object: its error, whether the statement's metadata was found, and
\* the execution whose rows it holds.
NoResult == [m_errno |-> "absent", meta |-> FALSE, m_binds |-> <<>>, left |-> 0, run |-> 0]
Without(e, found) == [NoResult EXCEPT !.m_errno = e, !.meta = found]

\* mysql_stmt_bind_param() and mysql_stmt_execute()
Sent == [i \in Slots |-> IF m_binds[i].type \in {Null, "zero"} THEN Null ELSE m_binds[i].val]

(* MySQLStmt::execute() *)
Execute ==
    /\ runs < MaxRuns /\ runs' = runs + 1
    /\ sent' = Sent
    /\ errno' \in {"ok", "failed"}
    /\ UNCHANGED <<m_binds, bound, wide, res>>

\* The buffer of a column: a number's or a time's own size, or the declared length.
Alloc(c) == IF c.type \in DOMAIN Width THEN Width[c.type]
            ELSE IF c.type = "datetime" THEN 40 ELSE c.length

(* MySQLStmtRes::Create(): an error left on the handle by an earlier       *)
(* execution; no metadata, for the statement has no result set: nothing is *)
(* executed, and the error taken from the handle is 0; bind_result         *)
(* failing; and the execution itself, whose failure store_result reports.  *)
ResultCreate ==
    \/ /\ errno # "ok"
       /\ res' = Without(errno, FALSE) /\ UNCHANGED <<errno, sent, runs>>
    \/ /\ errno = "ok"
       /\ res' = Without(errno, FALSE) /\ UNCHANGED <<errno, sent, runs>>
    \/ /\ errno = "ok" /\ errno' = "failed"
       /\ res' = Without(errno', TRUE) /\ UNCHANGED <<sent, runs>>
    \/ /\ errno = "ok" /\ sent' = Sent /\ runs' = runs + 1
       /\ \/ errno' = "failed" /\ res' = Without(errno', TRUE)
          \/ /\ errno' = "ok"
             /\ \E n \in 0 .. MaxRows :
                   res' = [m_errno |-> errno', meta |-> TRUE, left |-> n, run |-> runs + 1,
                           m_binds |-> [k \in DOMAIN Columns |-> Alloc(Columns[k])]]

(* MySQLStmt::query() *)
Query == runs < MaxRuns /\ ResultCreate /\ UNCHANGED <<m_binds, bound, wide>>

(* MySQLStmtRes::next() *)
Fetch ==
    /\ res.m_errno = "ok" /\ res.left > 0
    /\ res' = [res EXCEPT !.left = @ - 1]
    /\ UNCHANGED <<m_binds, bound, wide, errno, sent, runs>>

(* ~MySQLStmtRes() *)
FreeResult == res # NoResult /\ res' = NoResult /\ UNCHANGED <<m_binds, bound, wide, errno, sent, runs>>

(* MySQLStmt::Create() *)
StmtInit == /\ m_binds = [i \in Slots |-> Unbound] /\ bound = [i \in Slots |-> Null]
            /\ wide = {} /\ errno = "ok" /\ sent = <<>> /\ res = NoResult /\ runs = 0

StmtNext == Bind \/ Execute \/ Query \/ Fetch \/ FreeResult

-----------------------------------------------------------------------------
\* However the parameters of a statement are bound and bound again, numbers,
\* texts and nulls in turn, an execution sends what the caller bound last: but
\* for a number wider than the block its parameter was first given, and until
\* that block is replaced.  A result without an error is that of an execution
\* that did not fail, and its column buffers hold what the server declared: but
\* for the result of a statement without a result set (an update given to
\* query()), which has no error although nothing was executed.
StmtHonest ==
    /\ \A i \in Slots \ wide : Sent[i] = bound[i]
    /\ res.m_errno = "ok" /\ res.meta =>
          /\ res.run \in 1 .. runs
          /\ \A k \in DOMAIN Columns : res.m_binds[k] >= Columns[k].length
=============================================================================
