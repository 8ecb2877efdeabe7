---------------------------- MODULE Unvalidated -----------------------------
(***************************************************************************)
(* The bit field of src/ipld/bitfield/src/unvalidated.rs: one that was     *)
(* received as bytes, and is decoded when it is first used.                *)
(***************************************************************************)
EXTENDS RlePlus

CONSTANTS
    Bytes,            \* the bytes that encodings are made of
    MAX_ENCODED_SIZE  \* how many of them an encoding may have

VARIABLES
    wire,     \* an UnvalidatedBitField: bytes, or the ranges they encode
    received  \* the bytes that it was made from

vars == <<wire, received>>

Unread(bytes) == [validated |-> FALSE, bytes |-> bytes]
Read(ranges) == [validated |-> TRUE, ranges |-> ranges]

Init == /\ received = << >>
        /\ wire = Unread(received)

\* Deserialize, of any bytes that are not too many: one more byte than last
\* time, or the first of others.
Receive(byte) == /\ received' = Append(IF Len(received) < MAX_ENCODED_SIZE THEN received ELSE << >>,
                                       byte)
                 /\ wire' = Unread(received')

\* validate_mut, and the conversion into a BitField: an error leaves the bytes.
ValidateMut == LET read == FromBytes(wire.bytes)
               IN  /\ ~wire.validated
                   /\ wire' = IF read.error = "" THEN Read(read.ranges) ELSE wire
                   /\ UNCHANGED received

Next == (\E byte \in Bytes : Receive(byte)) \/ ValidateMut

Spec == Init /\ [][Next]_vars

\* Serialize.
Written == IF wire.validated THEN ToBytes(wire.ranges) ELSE wire.bytes

\* "The encoding is unique": bytes that are accepted are those that would be
\* written for what they decode to, so validating a bit field never changes
\* how it is written; and what is accepted has no empty runs, is in order and
\* within the range of a word.
EncodingUnique ==
    /\ Written = received
    /\ wire.validated =>
          /\ \A n \in DOMAIN wire.ranges : /\ wire.ranges[n][1] < wire.ranges[n][2]
                                           /\ wire.ranges[n][2] <= MaxWord
          /\ \A n \in 1..(Len(wire.ranges) - 1) : wire.ranges[n][2] < wire.ranges[n + 1][1]
=============================================================================
