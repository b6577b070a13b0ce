--------------------------------- MODULE Packet --------------------------------
(***************************************************************************)
(* The packet buffer (GHNodePacket): the bytes written so far, the offset  *)
(* of the next access and the capacity of the allocation.  Integers are    *)
(* stored in network order and cut to their width.  The set operators are  *)
(* the packet afterwards; the get operators are the value read, and the    *)
(* reader moves on with Skip.                                              *)
(***************************************************************************)
EXTENDS Integers, Sequences, SequencesExt

CONSTANT BlockSize      \* the step of the allocations: 512 in the code

NewPacket == [data |-> <<>>, off |-> 0, cap |-> 0]

DataLength(p) == Len(p.data)

\* Slip: the length is rounded down to whole blocks.
BlocksBelow(n) == (n \div BlockSize) * BlockSize

RoundedUp(n) ==
    IF n % BlockSize # 0 THEN (n \div BlockSize) * BlockSize + BlockSize ELSE n

\* get_buffer_ptr: the buffer holds total bytes afterwards.
GetBuffer(p, total) == IF total <= p.cap THEN p ELSE [p EXCEPT !.cap = RoundedUp(total)]

\* update_data_length, with what was skipped over filled with zeros.
Extended(data, n) ==
    IF n <= Len(data) THEN data ELSE data \o [i \in 1..(n - Len(data)) |-> 0]

SetBytes(p, bytes) ==
    LET end == p.off + Len(bytes)
    IN  [GetBuffer(p, end) EXCEPT
            !.off  = end,
            !.data = SubSeq(Extended(@, p.off), 1, p.off) \o bytes
                     \o SubSeq(@, end + 1, Len(@))]

BigEndian(width, v) == [i \in 1..width |-> (v \div 256^(width - i)) % 256]

\* set_uint, set_short and set_char: width 4, 2 and 1.
SetInt(p, width, v) == SetBytes(p, BigEndian(width, v))

\* get_bytes and skip_bytes, and get_uint, get_short and get_char.
GetBytes(p, n) == SubSeq(Extended(p.data, p.off + n), p.off + 1, p.off + n)

GetInt(p, width) == FoldLeft(LAMBDA v, byte : v * 256 + byte, 0, GetBytes(p, width))

Skip(p, n) == [p EXCEPT !.off = @ + n, !.data = Extended(@, p.off + n)]

Reset(p) == [p EXCEPT !.off = 0]

--------------------------------------------------------------------------------
(* A layout is a sequence of <<name, width>>: the fields a function sets or  *)
(* gets one after the other.  A field of the name "-" is passed over.      *)

SetFields(p, layout, rec) ==
    SetBytes(p, FoldLeft(LAMBDA bytes, f :
                    bytes \o BigEndian(f[2], IF f[1] = "-" THEN 0 ELSE rec[f[1]]),
                <<>>, layout))

Width(layout) == FoldLeft(LAMBDA n, f : n + f[2], 0, layout)

GetFields(p, layout) ==
    [name \in {layout[i][1] : i \in DOMAIN layout} |->
        LET i == CHOOSE i \in DOMAIN layout : layout[i][1] = name
        IN  GetInt(Skip(p, Width(SubSeq(layout, 1, i - 1))), layout[i][2])]

SkipFields(p, layout) == Skip(p, Width(layout))
================================================================================
