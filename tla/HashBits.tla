------------------------------ MODULE HashBits ------------------------------
(***************************************************************************)
(* The bits of a hashed key, taken from the most significant one on, a few *)
(* at a time, and the packing of such groups of bits into bytes.  A hashed *)
(* key is a sequence of bytes; HashBits is a key, its length in bits and   *)
(* the number of bits consumed.  The HAMT (hash_bits.rs) and the KAMT      *)
(* (hash_bits.rs, ext.rs) find their way through the tree with them.       *)
(***************************************************************************)
EXTENDS Integers, Sequences

\* HashBits::next takes the last bits that are left when they are too few.
Taken(length, consumed, i) == IF i <= length - consumed THEN i ELSE length - consumed

\* HashBits::next_bits: the rest of the current byte, and what is missing
\* from the byte that follows it.
RECURSIVE NextBits(_, _, _)
NextBits(b, consumed, i) ==
    LET leftb == 8 - (consumed % 8)
        curb == b[consumed \div 8 + 1] % 2^leftb
    IN  IF i <= leftb
          THEN curb \div 2^(leftb - i)
          ELSE curb * 2^(i - leftb) + NextBits(b, consumed + leftb, i - leftb)

\* The reference: bits consumed + 1 .. consumed + i of the key, read as one
\* number.
RECURSIVE AsNumber(_)
AsNumber(b) == IF b = << >> THEN 0
               ELSE 256 * AsNumber(SubSeq(b, 1, Len(b) - 1)) + b[Len(b)]

BitsOf(b, consumed, i) == (AsNumber(b) \div 2^(8 * Len(b) - consumed - i)) % 2^i
=============================================================================
