----------------------------- MODULE ByteBuffer -----------------------------
(***************************************************************************)
(* A user of a ByteArray (module ByteArray): it writes items of every      *)
(* type, moves the position to where an item starts and reads it back,     *)
(* lets the kernel fill the write buffers, saves and loads a file, clears. *)
(* The history remembers which item is where.                              *)
(***************************************************************************)
EXTENDS ByteArray

CONSTANTS Items,       \* [kind, val]: what the user writes
          MaxSize,     \* bound: bytes in the array
          MaxItems     \* bound: items remembered

VARIABLES ba,          \* the array
          kept,        \* history: the items in the array, [at, big, item]
          last         \* the last call: what it returned and should have

bufVars == <<ba, kept, last>>

Called(op, r, want) == [op |-> op, end |-> r.end, out |-> r.out, want |-> want]
Quiet == [op |-> "none", end |-> "ok", out |-> <<>>, want |-> <<>>]

\* The write and the read of an item by its kind.
WriteItem(b, i) ==
    CASE i.kind = "fixed" -> WriteFixed(b, i.val)
      [] i.kind = "uvar"  -> WriteVarUint(b, i.val)
      [] i.kind = "var"   -> WriteVarint(b, i.val)
      [] i.kind = "s16"   -> WriteStringF16(b, i.val)
      [] i.kind = "s32"   -> WriteStringF32(b, i.val)
      [] i.kind = "s64"   -> WriteStringF64(b, i.val)
      [] i.kind = "svar"  -> WriteStringVar64(b, i.val)

ReadItem(b, i) ==
    CASE i.kind = "fixed" -> ReadFixed(b, Len(i.val))
      [] i.kind = "uvar"  -> ReadVarUint(b, Len(i.val))
      [] i.kind = "var"   -> ReadVarint(b, Len(i.val))
      [] i.kind = "s16"   -> ReadStringF16(b)
      [] i.kind = "s32"   -> ReadStringF32(b)
      [] i.kind = "s64"   -> ReadStringF64(b)
      [] i.kind = "svar"  -> ReadStringVar64(b)

\* The items that a write of [from, to) leaves in place.
Spared(from, to) == {k \in kept : k.to <= from \/ k.at >= to}

Put == \E i \in Items : \E r \in {WriteItem(ba, i)} :
          /\ ba.pos = ba.size \/ (ba.pos = 0 /\ Cardinality(kept) < MaxItems)
          /\ r.end = "ok" => r.b.size <= MaxSize
          /\ ba' = r.b /\ last' = Called("write", r, <<>>)
          /\ kept' = Spared(ba.pos, r.b.pos)
                     \cup IF Cardinality(kept) < MaxItems
                          THEN {[at |-> ba.pos, to |-> r.b.pos, big |-> ba.big, item |-> i]} ELSE {}

Get == \E k \in kept : \E r \in {ReadItem(ba, k.item)} :
          /\ ba.pos = k.at /\ ba.big = k.big
          /\ ba' = r.b /\ last' = Called(k.item.kind, r, k.item.val)
          /\ UNCHANGED kept

\* A read of more than there is: nothing moves.
GetTooMuch == \E r \in {Read(ba, GetReadSize(ba) + 1)} :
                 ba' = r.b /\ last' = Called("throw", r, <<>>) /\ UNCHANGED kept

Seek == \E at \in {k.at : k \in kept} \cup {0, Len(ba.mem), Len(ba.mem) + 1} :
          \E r \in {SetPosition(ba, at)} :
             /\ r.b.size <= MaxSize
             /\ ba' = r.b /\ last' = Called("seek", r, <<>>) /\ UNCHANGED kept

SwapOrder == ba' = SetLittleEndian(ba, ba.big) /\ last' = Quiet /\ UNCHANGED kept

ClearAll == ba' = Clear(ba) /\ kept' = {} /\ last' = Quiet

(* A socket's Read() into the write buffers: the kernel may fill any part *)
(* of them.                                                               *)
Fill == \E n \in {1, NodeSize + 1} : \E w \in {GetWriteBuffers(ba, n)} :
          /\ ba.pos = ba.size /\ ba.pos + w.room <= MaxSize
          /\ \/ /\ w.end = "null" /\ ba' = w.b
                /\ last' = [Quiet EXCEPT !.op = "fill", !.end = "null"] /\ UNCHANGED kept
             \/ /\ w.end = "ok"
                /\ \E got \in {1, w.room} : \E r \in {SetPosition(Received(w.b, [k \in 1 .. got |-> 7]), ba.pos + got)} :
                      /\ ba' = r.b /\ last' = Called("fill", r, <<>>)
                      /\ kept' = Spared(ba.pos, ba.pos + got)

(* A socket's Write() of the read buffers, sent in part. *)
Drain == \E n \in {1, NodeSize + 1} : \E g \in {GetReadBuffers(ba, n)} :
          /\ g.out # <<>>
          /\ \E sent \in {1, Len(g.out)} : \E r \in {SetPosition(g.b, ba.pos + sent)} :
                ba' = r.b /\ last' = Called("drain", g, SubSeq(ba.mem, ba.pos + 1, ba.pos + Len(g.out)))
          /\ UNCHANGED kept

(* ToString(), WriteToFile(), GetReadBuffers(position) and back. *)
Save == \E f \in {WriteToFile(ba)} :
          /\ last' = Called("save", f, Text(ba).out) /\ UNCHANGED <<ba, kept>>

Peek == \E k \in kept : \E g \in {GetReadBuffersAt(ba, k.to - k.at, k.at)} : \E r \in {ReadAt(ba, k.to - k.at, k.at)} :
          last' = Called("peek", g, r.out) /\ UNCHANGED <<ba, kept>>

Load == \E n \in {NodeSize} : \E r \in {ReadFromFile(ba, [k \in 1 .. n |-> 7])} :
          /\ ba.pos = ba.size /\ r.b.size <= MaxSize
          /\ ba' = r.b /\ last' = Called("load", r, <<>>) /\ kept' = Spared(ba.pos, r.b.pos)

BufInit == ba = NewArray /\ kept = {} /\ last = Quiet

BufNext == Put \/ Get \/ GetTooMuch \/ Seek \/ SwapOrder \/ ClearAll \/ Fill \/ Drain \/ Save \/ Peek \/ Load

-----------------------------------------------------------------------------
\* Wherever the items lie on the nodes and however the position was moved,
\* reading an item from where it was written gives the item: numbers of every
\* width and sign, in either byte order, and strings; but for a string written
\* with WriteStringF64(), whose length ReadStringF64() reads from twice as many
\* bytes, and what follows a zero byte in a string.  What is sent, saved or
\* looked at from the nodes is what lies there.
ReadsBack ==
    /\ last.op \in {"fixed", "uvar", "var"} /\ last.end = "ok" => last.out = last.want
    /\ last.op \in {"s16", "s32", "svar"} /\ last.end = "ok" => last.out = CString(last.want)
    /\ last.op \in {"drain", "save", "peek"} /\ last.end = "ok" => last.out = last.want

\* _cur is the node of the position, and null exactly when the position is at
\* the end of the last node.  So no call dereferences a null node, except a read
\* of nothing (an empty string at the end) and a WriteToFile() of nothing while
\* the position is there.
CursorSound ==
    /\ ba.size <= Len(ba.mem) /\ ba.pos <= ba.size
    /\ ba.cur = NodeAt(ba, ba.pos)
    /\ last.end = "null" => ba.pos = Len(ba.mem) /\ GetReadSize(ba) = 0
                            /\ last.op \in {"s16", "s32", "s64", "svar", "save"}
    /\ last.op \in {"fixed", "uvar", "var", "write", "load", "fill"} => last.end = "ok"
=============================================================================
