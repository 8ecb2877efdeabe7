----------------------------- MODULE Extensions -----------------------------
(***************************************************************************)
(* The extensions of the KAMT (src/ipld/kamt/src/ext.rs): the part of a    *)
(* key that a link skips, as a number of bits and the bytes that hold      *)
(* them, the last one filled up with zeros.                                *)
(***************************************************************************)
EXTENDS HashBits

NoExt == [length |-> 0, path |-> << >>]

----------------------------------------------------------------------------
(* ExtensionBuilder: written bits, the byte that is being filled, and the  *)
(* bytes that are full.                                                    *)

NewBuilder == [written |-> 0, out |-> 0, path |-> << >>]

BuilderAdd(b, i, n) ==
    LET j == b.written % 8
        carry == j + i - 8
        added == IF carry > 0
                   THEN [path |-> Append(b.path, b.out + n \div 2^carry),
                         out |-> (n % 2^carry) * 2^(8 - carry)]
                   ELSE [path |-> b.path, out |-> b.out + n * 2^(8 - j - i)]
    IN  IF (b.written + i) % 8 = 0
          THEN [written |-> b.written + i, out |-> 0, path |-> Append(added.path, added.out)]
          ELSE [written |-> b.written + i, out |-> added.out, path |-> added.path]

Build(b) == [length |-> b.written,
             path |-> IF b.written % 8 # 0 THEN Append(b.path, b.out) ELSE b.path]

\* Bits of a path added to a builder, some at a time (from_bits, merge).
RECURSIVE AddBits(_, _, _, _, _)
AddBits(b, path, consumed, length, step) ==
    LET i == Taken(length, 0, step) IN
    IF length = 0 THEN b
    ELSE AddBits(BuilderAdd(b, i, NextBits(path, consumed, i)), path, consumed + i,
                 length - i, step)

FromBits(path, consumed, length) == Build(AddBits(NewBuilder, path, consumed, length, 8))

FromIdx(idx, bit_width) == Build(BuilderAdd(NewBuilder, bit_width, idx))

----------------------------------------------------------------------------
(* Extension. *)

\* longest_match: the bits of the extension that the key goes on with.
RECURSIVE LongestMatch(_, _, _, _, _)
LongestMatch(ext, matched, key, consumed, bit_width) ==
    LET i == Taken(ext.length, matched, bit_width)
        j == Taken(8 * Len(key), consumed, bit_width)
    IN  IF \/ matched >= ext.length
           \/ consumed >= 8 * Len(key)
           \/ NextBits(ext.path, matched, i) # NextBits(key, consumed, j)
          THEN matched
          ELSE LongestMatch(ext, matched + bit_width, key, consumed + j, bit_width)

\* longest_common_prefix: what a key and other keys have in common from here.
RECURSIVE CommonPrefix(_, _, _, _, _)
CommonPrefix(b, key, consumed, keys, bit_width) ==
    LET i == Taken(8 * Len(key), consumed, bit_width)
        n == NextBits(key, consumed, i)
    IN  IF \/ consumed >= 8 * Len(key)
           \/ \E other \in keys : NextBits(other, consumed, i) # n
          THEN Build(b)
          ELSE CommonPrefix(BuilderAdd(b, bit_width, n), key, consumed + i, keys, bit_width)

CommonExtension(key, consumed, keys, bit_width) ==
    CommonPrefix(NewBuilder, key, consumed, keys, bit_width)

\* split, with the bits in the middle as an index (PartialMatch::split).
SplitExt(ext, matched, bit_width) ==
    [head |-> FromBits(ext.path, 0, matched),
     idx |-> NextBits(ext.path, matched, bit_width),
     tail |-> FromBits(ext.path, matched + bit_width, ext.length - matched - bit_width)]

\* unsplit: the three are merged again (unsplit_ext).
Unsplit(head, idx, tail, bit_width) ==
    LET middle == FromIdx(idx, bit_width)
        b1 == AddBits(NewBuilder, head.path, 0, head.length, bit_width)
        b2 == AddBits(b1, middle.path, 0, middle.length, bit_width)
    IN  Build(AddBits(b2, tail.path, 0, tail.length, bit_width))

\* The reference: bits of a key in as few bytes as possible.
RECURSIVE BytesOf(_, _)
BytesOf(n, len) == IF len = 0 THEN << >> ELSE Append(BytesOf(n \div 256, len - 1), n % 256)

ExtOf(key, consumed, length) ==
    LET bytes == (length + 7) \div 8
    IN  [length |-> length,
         path |-> BytesOf(BitsOf(key, consumed, length) * 2^(8 * bytes - length), bytes)]
=============================================================================
