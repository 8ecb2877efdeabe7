------------------------------ MODULE RlePlus -------------------------------
(***************************************************************************)
(* The RLE+ encoding of src/ipld/bitfield/src/rleplus: a version, the      *)
(* first bit, and the lengths of the runs of ones and zeros, packed into   *)
(* bytes by a reader and a writer that keep some bits back.  Ranges are    *)
(* pairs of a start and an end that is not included.                       *)
(***************************************************************************)
EXTENDS Integers, Sequences, SequencesExt

LOCAL INSTANCE Bitwise

CONSTANT WordBits  \* the width of a bit's index: 64 in the code, 7 n + 1 here

MaxWord == 2^WordBits - 1

Size(range) == IF range[2] <= range[1] THEN 0 ELSE range[2] - range[1]

----------------------------------------------------------------------------
(* BitWriter: up to seven bits wait for the rest of their byte. *)

NewWriter == [bytes |-> << >>, bits |-> 0, num_bits |-> 0]

Write(w, byte, n) ==
    LET bits == w.bits | (byte * 2^w.num_bits)
        num == w.num_bits + n
    IN  IF num >= 8 THEN [bytes |-> Append(w.bytes, bits % 256), bits |-> bits \div 256,
                          num_bits |-> num - 8]
        ELSE [w EXCEPT !.bits = bits, !.num_bits = num]

\* unsigned_varint::encode::u64: seven bits to a byte, the lowest first.
RECURSIVE Varint(_)
Varint(len) == IF len < 128 THEN <<len>> ELSE <<128 + (len % 128)>> \o Varint(len \div 128)

WriteLen(w, len) ==
    IF len = 1 THEN Write(w, 1, 1)
    ELSE IF len < 16 THEN Write(Write(w, 2, 2), len, 4)
    ELSE FoldLeft(LAMBDA v, byte : Write(v, byte, 8), Write(w, 0, 2), Varint(len))

RECURSIVE Trimmed(_)
Trimmed(bytes) == IF bytes # << >> /\ Last(bytes) = 0 THEN Trimmed(Front(bytes)) ELSE bytes

Finish(w) == Trimmed(IF w.bits > 0 THEN Append(w.bytes, w.bits % 256) ELSE w.bytes)

\* BitField::to_bytes, of the ranges of ones.
ToBytes(ranges) ==
    LET first == ranges[1]
        header == Write(NewWriter, 0, 2)
        start == IF first[1] = 0 THEN Write(header, 1, 1)
                 ELSE WriteLen(Write(header, 0, 1), first[1])
        Gap(w, n) == WriteLen(WriteLen(w, ranges[n][1] - ranges[n - 1][2]), Size(ranges[n]))
    IN  IF ranges = << >> THEN << >>
        ELSE Finish(FoldLeft(Gap, WriteLen(start, Size(first)), [n \in 1..(Len(ranges) - 1) |-> n + 1]))

----------------------------------------------------------------------------
(* BitReader: at least the next eight bits are at hand. *)

ByteAt(bytes, n) == IF n \in DOMAIN bytes THEN bytes[n] ELSE 0
From(bytes, n) == SubSeq(bytes, n, Len(bytes))

NewReader(bytes) == [bytes |-> From(bytes, 3), bits |-> ByteAt(bytes, 1) | (ByteAt(bytes, 2) * 256),
                     num_bits |-> 16]

Peek(r, n) == r.bits % 2^n

\* The next byte is put behind the bits that are left, again and again until
\* there are less than eight of them.
Drop(r, n) ==
    LET num == r.num_bits - n
        bits == (r.bits \div 2^n) | (ByteAt(r.bytes, 1) * 2^num)
    IN  IF num < 8 THEN [bytes |-> From(r.bytes, 2), bits |-> bits, num_bits |-> num + 8]
        ELSE [r EXCEPT !.bits = bits, !.num_bits = num]

HasMore(r) == r.bits # 0 \/ r.bytes # << >>

\* read_varint: a word takes VARINT_MAX_BYTES bytes, one bit of the last.
VARINT_MAX_BYTES == (WordBits - 1) \div 7 + 1

RECURSIVE ReadVarint(_, _, _)
ReadVarint(r, i, len) ==
    LET byte == Peek(r, 8)
        next == Drop(r, 8)
        sum == len | (((byte % 128) * 2^(7 * i)) % 2^WordBits)
    IN  IF i = VARINT_MAX_BYTES THEN [error |-> "InvalidVarint"]
        ELSE IF byte >= 128 THEN ReadVarint(next, i + 1, sum)
        ELSE IF (i = VARINT_MAX_BYTES - 1 /\ byte > 1) \/ (byte = 0 /\ i # 0)
          THEN [error |-> "InvalidVarint"]
          ELSE [error |-> "", len |-> sum, reader |-> next]

\* A mutation: a long form of a short length is accepted.
ReadLenLax(r) ==
    LET peek6 == Peek(r, 6)
        short == [error |-> "", len |-> peek6 \div 4, reader |-> Drop(r, 6)]
    IN  IF peek6 % 2 = 1 THEN [error |-> "", len |-> 1, reader |-> Drop(r, 1)]
        ELSE IF peek6 % 4 = 2
          THEN IF short.len < 2 THEN [error |-> "NotMinimal"] ELSE short
        ELSE ReadVarint(Drop(r, 2), 0, 0)

ReadLen(r) ==
    LET peek6 == Peek(r, 6)
        short == [error |-> "", len |-> peek6 \div 4, reader |-> Drop(r, 6)]
        long == ReadVarint(Drop(r, 2), 0, 0)
    IN  IF peek6 % 2 = 1 THEN [error |-> "", len |-> 1, reader |-> Drop(r, 1)]
        ELSE IF peek6 % 4 = 2
          THEN IF short.len < 2 THEN [error |-> "NotMinimal"] ELSE short
        ELSE IF long.error = "" /\ long.len < 16 THEN [error |-> "NotMinimal"] ELSE long

\* The loop of BitField::from_bytes.
RECURSIVE ReadRuns(_, _, _, _)
ReadRuns(r, next_value, index, ranges) ==
    LET run == ReadLen(r) IN
    IF ~HasMore(r)
      THEN IF next_value THEN [error |-> "NotMinimal"] ELSE [error |-> "", ranges |-> ranges]
    ELSE IF run.error # "" THEN [error |-> run.error]
    ELSE IF index + run.len > MaxWord THEN [error |-> "RLEOverflow"]
    ELSE ReadRuns(run.reader, ~next_value, index + run.len,
                  IF next_value THEN Append(ranges, <<index, index + run.len>>) ELSE ranges)

FromBytes(bytes) ==
    LET r == NewReader(bytes)
        header == Drop(r, 2)
    IN  IF bytes # << >> /\ Last(bytes) = 0 THEN [error |-> "NotMinimal"]
        ELSE IF Peek(r, 2) # 0 THEN [error |-> "UnsupportedVersion"]
        ELSE ReadRuns(Drop(header, 1), Peek(header, 1) = 1, 0, << >>)

----------------------------------------------------------------------------
(* The JSON form: the lengths of the runs, of zeros first. *)

ToJson(ranges) ==
    IF ranges = << >> THEN <<0>>
    ELSE FlattenSeq([n \in DOMAIN ranges |->
                       <<ranges[n][1] - (IF n = 1 THEN 0 ELSE ranges[n - 1][2]), Size(ranges[n])>>])

FromJson(runs) ==
    FoldLeft(LAMBDA a, len : [set |-> ~a.set, last |-> a.last + len,
                              ranges |-> IF a.set THEN Append(a.ranges, <<a.last, a.last + len>>)
                                         ELSE a.ranges],
             [set |-> FALSE, last |-> 0, ranges |-> << >>], runs).ranges
=============================================================================
