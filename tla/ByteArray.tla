----------------------------- MODULE ByteArray -----------------------------
(***************************************************************************)
(* ByteArray (bytearray.cpp): a growing list of nodes of NodeSize bytes    *)
(* with a position, a size and a pointer _cur to the node of the position. *)
(* An array is a record: `mem' is the memory of its nodes one after the    *)
(* other, so that Len(mem) is _capacity, and _cur is the index of a node   *)
(* or Null.  Every operator that uses the array returns the array it       *)
(* leaves, what it read, and how it ended: "ok", "throw" (out_of_range) or *)
(* "null" (a null _cur was dereferenced).                                  *)
(*                                                                         *)
(* A number is the tuple of its bytes in memory, lowest first, as on the   *)
(* machines the code is built for; a byte is in 0 .. 255.                  *)
(***************************************************************************)
EXTENDS Integers, Sequences, FiniteSets, FiniteSetsExt, SequencesExt

CONSTANT NodeSize      \* _nodeSize, at least 1

Null == -1
Garbage == -1          \* a byte nobody wrote

(* ByteArray::ByteArray() *)
NewArray == [mem |-> [k \in 1 .. NodeSize |-> Garbage], pos |-> 0, size |-> 0, cur |-> 0, big |-> TRUE]

Ok(b, out) == [b |-> b, out |-> out, end |-> "ok"]
Throw(b) == [b |-> b, out |-> <<>>, end |-> "throw"]
NullUsed(b) == [b |-> b, out |-> <<>>, end |-> "null"]

GetReadSize(b) == b.size - b.pos

\* The node after `at' bytes of memory: none after the last one.
NodeAt(b, at) == IF at < Len(b.mem) THEN at \div NodeSize ELSE Null

\* Where _cur and the position point to.
Here(b) == (b.cur * NodeSize) + (b.pos % NodeSize)

\* Mutant: the new nodes are there and _cur stays as it was.
AddFreeCapacityKept(b, n) ==
    LET free == Len(b.mem) - b.pos
        count == (n - free + NodeSize - 1) \div NodeSize
    IN  IF n <= free THEN b ELSE [b EXCEPT !.mem = @ \o [k \in 1 .. count * NodeSize |-> Garbage]]

(* addFreeCapacity(): whole nodes behind the last one; the first of them is *)
(* the new _cur of an array that had no room left.                          *)
AddFreeCapacity(b, n) ==
    LET free == Len(b.mem) - b.pos
        count == (n - free + NodeSize - 1) \div NodeSize
    IN  IF n <= free THEN b
        ELSE [b EXCEPT !.mem = @ \o [k \in 1 .. count * NodeSize |-> Garbage],
                       !.cur = IF free = 0 THEN Len(b.mem) \div NodeSize ELSE @]

\* Bytes copied to where _cur points, and the new position.
Copied(b, bytes) ==
    [b EXCEPT !.mem = [k \in DOMAIN @ |-> IF k - Here(b) \in DOMAIN bytes THEN bytes[k - Here(b)] ELSE @[k]],
              !.pos = @ + Len(bytes), !.cur = NodeAt(b, Here(b) + Len(bytes)),
              !.size = Max({@, b.pos + Len(bytes)})]

(* Write() *)
Write(b, bytes) ==
    IF bytes = <<>> THEN Ok(b, <<>>)
    ELSE LET c == AddFreeCapacity(b, Len(bytes))
         IN  IF c.cur = Null THEN NullUsed(b) ELSE Ok(Copied(c, bytes), <<>>)

(* Read(): the size is tested first, then _cur is used, for no bytes too. *)
Read(b, n) ==
    IF n > GetReadSize(b) THEN Throw(b)
    ELSE IF b.cur = Null THEN NullUsed(b)
    ELSE Ok([b EXCEPT !.pos = @ + n, !.cur = NodeAt(b, Here(b) + n)], SubSeq(b.mem, Here(b) + 1, Here(b) + n))

(* Read(position), for a position within the size: nothing moves. *)
ReadAt(b, n, at) ==
    IF n > b.size - at THEN Throw(b)
    ELSE IF at = Len(b.mem) THEN NullUsed(b) ELSE Ok(b, SubSeq(b.mem, at + 1, at + n))

(* SetPosition() *)
SetPosition(b, at) ==
    IF at > Len(b.mem) THEN Throw(b)
    ELSE Ok([b EXCEPT !.pos = at, !.size = Max({@, at}), !.cur = NodeAt(b, at)], <<>>)

(* Clear(): the first node stays, and its bytes; the byte order stays. *)
Clear(b) == [b EXCEPT !.mem = SubSeq(@, 1, NodeSize), !.pos = 0, !.size = 0, !.cur = 0]

SetLittleEndian(b, val) == [b EXCEPT !.big = ~val]

(* ByteArray::ToString() *)
Text(b) == IF GetReadSize(b) = 0 THEN Ok(b, <<>>) ELSE ReadAt(b, GetReadSize(b), b.pos)

(* WriteToFile(): what is left to read goes to the file, nothing moves. *)
WriteToFile(b) ==
    IF b.cur = Null THEN NullUsed(b) ELSE Ok(b, SubSeq(b.mem, Here(b) + 1, Here(b) + GetReadSize(b)))

(* ReadFromFile(): the file in pieces of a node. *)
ReadFromFile(b, file) ==
    LET piece(k) == SubSeq(file, k * NodeSize + 1, Min({(k + 1) * NodeSize, Len(file)}))
    IN  FoldLeft(LAMBDA r, k : IF r.end = "ok" THEN Write(r.b, piece(k)) ELSE r,
                 Ok(b, <<>>), [k \in 1 .. Len(file) \div NodeSize + 1 |-> k - 1])

(* GetReadBuffers(): up to n bytes from the position on, as they lie in the *)
(* nodes; the caller sends a part and moves the position.                   *)
GetReadBuffers(b, n) ==
    LET len == Min({n, GetReadSize(b)})
    IN  IF len = 0 THEN Ok(b, <<>>)
        ELSE IF b.cur = Null THEN NullUsed(b) ELSE Ok(b, SubSeq(b.mem, Here(b) + 1, Here(b) + len))

(* GetReadBuffers(position) *)
GetReadBuffersAt(b, n, at) ==
    LET len == Min({n, b.size - at}) IN Ok(b, SubSeq(b.mem, at + 1, at + len))

(* GetWriteBuffers(): room for n bytes.  `room' is the space the buffers   *)
(* have together: the last one is given with the whole rest of its node.   *)
GetWriteBuffers(b, n) ==
    LET c == AddFreeCapacity(b, n)
        last == Here(c) + n - 1
    IN  IF n = 0 THEN [b |-> b, end |-> "ok", room |-> 0]
        ELSE IF c.cur = Null THEN [b |-> c, end |-> "null", room |-> 0]
        ELSE [b |-> c, end |-> "ok", room |-> (last \div NodeSize + 1) * NodeSize - Here(c)]

\* The kernel's bytes land in those buffers; position and size stay.
Received(b, bytes) ==
    [b EXCEPT !.mem = [k \in DOMAIN @ |-> IF k - Here(b) \in DOMAIN bytes THEN bytes[k - Here(b)] ELSE @[k]]]

-----------------------------------------------------------------------------
(* Numbers *)

Bit(v, k) == (v[k \div 8 + 1] \div 2 ^ (k % 8)) % 2       \* bit k of a number
Number(f, bytes) ==                                       \* from a function of its bits
    [i \in 1 .. bytes |-> SumSet({f[8 * (i - 1) + j] * 2 ^ j : j \in 0 .. 7})]

(* EncodeZigzag32(), EncodeZigzag64(): 2v, or -2v - 1 for a negative v,    *)
(* which is the complement of 2v: modulo 2^32 or 2^64, also for the least  *)
(* number.                                                                 *)
EncodeZigzag(v) ==
    LET w == 8 * Len(v) sign == Bit(v, w - 1)
    IN  Number([k \in 0 .. w - 1 |-> IF k = 0 THEN sign ELSE (Bit(v, k - 1) + sign) % 2], Len(v))

(* DecodeZigzag32(), DecodeZigzag64() *)
DecodeZigzag(v) ==
    LET w == 8 * Len(v)
    IN  Number([k \in 0 .. w - 1 |-> ((IF k = w - 1 THEN 0 ELSE Bit(v, k + 1)) + Bit(v, 0)) % 2], Len(v))

(* WriteVarUint32(), WriteVarUint64(): groups of seven bits, lowest first, *)
(* with the top bit set on all but the last.                               *)
VarBytes(v) ==
    LET ones == {k \in 0 .. 8 * Len(v) - 1 : Bit(v, k) = 1}
        n == IF ones = {} THEN 1 ELSE Max(ones) \div 7 + 1
    IN  [g \in 1 .. n |-> SumSet({2 ^ j : j \in {x \in 0 .. 6 : 7 * (g - 1) + x \in ones}})
                          + IF g < n THEN 128 ELSE 0]

(* WriteFint8() ... WriteDouble(): swapped unless the order is the host's; a *)
(* float or a double goes as the integer of its bytes.                       *)
WriteFixed(b, v) == Write(b, IF b.big THEN Reverse(v) ELSE v)

WriteVarUint(b, v) == Write(b, VarBytes(v))
WriteVarint(b, v) == WriteVarUint(b, EncodeZigzag(v))

\* After a first operation that ended well, a second one.
Then(r, Op(_)) == IF r.end = "ok" THEN Op(r.b) ELSE r

\* A length as a number of `bytes' bytes (here always below 256).
Length(n, bytes) == [k \in 1 .. bytes |-> IF k = 1 THEN n ELSE 0]

(* WriteStringF16(), F32(), F64(), Var64(): a length and the bytes; F64's   *)
(* length is written with 32 bits.                                          *)
WriteStringF16(b, s) == Then(WriteFixed(b, Length(Len(s), 2)), LAMBDA c : Write(c, s))
WriteStringF32(b, s) == Then(WriteFixed(b, Length(Len(s), 4)), LAMBDA c : Write(c, s))
WriteStringF64(b, s) == Then(WriteFixed(b, Length(Len(s), 4)), LAMBDA c : Write(c, s))
WriteStringVar64(b, s) == Then(WriteVarUint(b, Length(Len(s), 8)), LAMBDA c : Write(c, s))

\* Mutant: the bytes are swapped on the way in and not on the way out.
ReadFixedHost(b, n) == Read(b, n)

(* ReadFint8() ... ReadDouble() *)
ReadFixed(b, n) ==
    LET r == Read(b, n)
    IN  IF r.end = "ok" /\ b.big THEN Ok(r.b, Reverse(r.out)) ELSE r

(* ReadVarUint32(), ReadVarUint64(): byte by byte up to one without the top *)
(* bit; when there is none the bytes are gone and Read() throws.            *)
ReadVarUint(b, bytes) ==
    LET left == SubSeq(b.mem, b.pos + 1, b.size)
        ends == {k \in DOMAIN left : left[k] < 128}
        last == IF ends = {} THEN 0 ELSE Min(ends)
        r == Read(b, IF ends = {} THEN Len(left) ELSE last)
        bit(k) == IF k \div 7 + 1 > last THEN 0 ELSE (r.out[k \div 7 + 1] \div 2 ^ (k % 7)) % 2
    IN  IF ends = {} THEN Throw(r.b)
        ELSE IF r.end # "ok" THEN r ELSE Ok(r.b, Number([k \in 0 .. 8 * bytes - 1 |-> bit(k)], bytes))

ReadVarint(b, bytes) ==
    LET r == ReadVarUint(b, bytes) IN IF r.end = "ok" THEN Ok(r.b, DecodeZigzag(r.out)) ELSE r

\* A C string ends at its first zero byte.
CString(bytes) ==
    LET zeros == {k \in DOMAIN bytes : bytes[k] = 0}
    IN  IF zeros = {} THEN bytes ELSE SubSeq(bytes, 1, Min(zeros) - 1)

\* What follows the length that r read.
StringAfter(r) ==
    IF r.end # "ok" THEN r
    ELSE LET n == IF \A k \in 2 .. Len(r.out) : r.out[k] = 0 THEN r.out[1] ELSE Len(r.b.mem) + 1
             s == Read(r.b, n)
         IN  IF s.end = "ok" THEN Ok(s.b, CString(s.out)) ELSE s

ReadStringF16(b) == StringAfter(ReadFixed(b, 2))
ReadStringF32(b) == StringAfter(ReadFixed(b, 4))
ReadStringF64(b) == StringAfter(ReadFixed(b, 8))
ReadStringVar64(b) == StringAfter(ReadVarUint(b, 8))
=============================================================================
