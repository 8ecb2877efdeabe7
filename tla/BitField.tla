------------------------------ MODULE BitField ------------------------------
(***************************************************************************)
(* The bit field of src/ipld/bitfield: ranges of ones, with the bits that  *)
(* were set and unset since kept aside until the next operation on ranges. *)
(***************************************************************************)
EXTENDS RlePlus, FiniteSets, TrieNodes

CONSTANTS
    Bits,             \* the bits that callers set and unset
    Others,           \* the bit fields that they combine with theirs, and their bits
    MaxBuffered,      \* how many bits are kept aside at a time
    MAX_ENCODED_SIZE  \* how many bytes an encoding may have

VARIABLES
    bf,      \* a BitField
    members  \* the set of bits that it stands for

vars == <<bf, members>>

----------------------------------------------------------------------------
(* The combinators of iter/combine.rs. *)

Least(a, b) == IF a < b THEN a ELSE b
Greatest(a, b) == IF a > b THEN a ELSE b

\* SymmetricDifference::advance, for left.end <= right.end.
SymAdvance(left, right) ==
    IF left[1] <= right[1]
      THEN [out |-> <<left[1], Least(left[2], right[1])>>,
            kept |-> <<Greatest(right[1], left[2]), right[2]>>]
      ELSE [out |-> <<right[1], left[1]>>, kept |-> <<left[2], right[2]>>]

\* What is left over of lhs and rhs when the one that ends first is taken
\* from both: the output, and the other one as it is kept.
AdvanceLhs(op, lhs, rhs, offset) ==
    CASE op = "union" -> [out |-> <<Least(lhs[1], rhs[1]), lhs[2]>>, kept |-> rhs]
      [] op = "intersection" -> [out |-> <<Greatest(lhs[1], rhs[1]), lhs[2]>>, kept |-> rhs]
      [] op \in {"difference", "cut"} ->
            [out |-> <<lhs[1] - offset, Least(lhs[2], rhs[1]) - offset>>, kept |-> rhs]
      [] op = "symmetric" -> SymAdvance(lhs, rhs)

AdvanceRhs(op, lhs, rhs, offset) ==
    CASE op = "union" -> [out |-> <<Least(lhs[1], rhs[1]), rhs[2]>>, kept |-> lhs]
      [] op = "intersection" -> [out |-> <<Greatest(lhs[1], rhs[1]), rhs[2]>>, kept |-> lhs]
      [] op \in {"difference", "cut"} ->
            [out |-> <<lhs[1] - offset, Least(lhs[2], rhs[1]) - offset>>,
             kept |-> <<Greatest(lhs[1], rhs[2]), lhs[2]>>]
      [] op = "symmetric" -> SymAdvance(rhs, lhs)

\* _Combine: the offset is that of the cut combinator.
RECURSIVE Combined(_, _, _, _)
Combined(op, lhs, rhs, offset) ==
    LET NonEmpty(range) == IF range[1] < range[2] THEN <<range>> ELSE << >>
        l == AdvanceLhs(op, lhs[1], rhs[1], offset)
        r == AdvanceRhs(op, lhs[1], rhs[1], offset)
    IN
    IF lhs = << >> /\ rhs = << >> THEN << >>
    ELSE IF rhs = << >>
      THEN (IF op = "intersection" THEN << >>
            ELSE NonEmpty(<<lhs[1][1] - offset, lhs[1][2] - offset>>))
           \o Combined(op, Tail(lhs), rhs, offset)
    ELSE IF lhs = << >>
      THEN (IF op \in {"union", "symmetric"} THEN NonEmpty(rhs[1]) ELSE << >>)
           \o Combined(op, lhs, Tail(rhs), offset)
    ELSE IF lhs[1][2] <= rhs[1][2]
      THEN NonEmpty(l.out) \o Combined(op, Tail(lhs), <<l.kept>> \o Tail(rhs), offset)
      ELSE NonEmpty(r.out) \o Combined(op, <<r.kept>> \o Tail(lhs), Tail(rhs),
                                       IF op = "cut" THEN offset + Size(rhs[1]) ELSE offset)

\* Merge: ranges that overlap or touch become one.
Merge(ranges) ==
    FoldLeft(LAMBDA done, next :
                IF done = << >> \/ next[1] > Last(done)[2] THEN Append(done, next)
                ELSE Append(Front(done), <<Last(done)[1], Greatest(Last(done)[2], next[2])>>),
             << >>, ranges)

Combine(op, lhs, rhs) == Merge(Combined(op, lhs, rhs, 0))

\* ranges_from_bits, of bits in ascending order.
RangesFromBits(bits) ==
    FoldLeft(LAMBDA done, bit :
                IF done = << >> \/ bit > Last(done)[2] THEN Append(done, <<bit, bit + 1>>)
                ELSE Append(Front(done), <<Last(done)[1], bit + 1>>),
             << >>, Ascending(bits))

\* Skip and Take.
RECURSIVE SkipBits(_, _)
SkipBits(ranges, n) ==
    IF ranges = << >> THEN << >>
    ELSE IF Size(Head(ranges)) > n
      THEN <<<<Head(ranges)[1] + n, Head(ranges)[2]>>>> \o Tail(ranges)
      ELSE SkipBits(Tail(ranges), n - Size(Head(ranges)))

RECURSIVE TakeBits(_, _)
TakeBits(ranges, n) ==
    IF n = 0 \/ ranges = << >> THEN << >>
    ELSE LET range == IF Size(Head(ranges)) > n
                        THEN <<Head(ranges)[1], Head(ranges)[1] + n>> ELSE Head(ranges)
         IN  <<range>> \o TakeBits(Tail(ranges), n - Size(range))

----------------------------------------------------------------------------
(* BitField, as a value. *)

FromRanges(ranges) == [ranges |-> ranges, set |-> {}, unset |-> {}]
New == FromRanges(<< >>)

Ranges(b) == Combine("difference", Combine("union", b.ranges, RangesFromBits(b.set)),
                     RangesFromBits(b.unset))

Length(ranges) == FoldLeft(LAMBDA n, range : n + Size(range), 0, ranges)
TriviallyEmpty(b) == b.set = {} /\ b.ranges = << >>
InRanges(ranges, bit) == \E n \in DOMAIN ranges : ranges[n][1] <= bit /\ bit < ranges[n][2]

Has(b, bit) == bit \in b.set \/ (bit \notin b.unset /\ InRanges(b.ranges, bit))

\* first and last: of the bits set and of the ranges, leaving out what is unset.
Kept(b) == b.set \cup {bit \in Bits \ b.unset : InRanges(b.ranges, bit)}
First(b) == {bit \in Kept(b) : \A other \in Kept(b) : bit <= other}
LastBit(b) == {bit \in Kept(b) : \A other \in Kept(b) : bit >= other}
IsEmpty(b) == b.set = {} /\ \A bit \in Bits : InRanges(b.ranges, bit) => bit \in b.unset

\* The operators of ops.rs.
Or(a, b) == IF TriviallyEmpty(a) THEN b ELSE IF TriviallyEmpty(b) THEN a
            ELSE FromRanges(Combine("union", Ranges(a), Ranges(b)))
And(a, b) == IF TriviallyEmpty(a) \/ TriviallyEmpty(b) THEN New
             ELSE FromRanges(Combine("intersection", Ranges(a), Ranges(b)))
Minus(a, b) == IF TriviallyEmpty(a) \/ TriviallyEmpty(b) THEN a
               ELSE FromRanges(Combine("difference", Ranges(a), Ranges(b)))
Xor(a, b) == IF TriviallyEmpty(a) THEN b ELSE IF TriviallyEmpty(b) THEN a
             ELSE FromRanges(Combine("symmetric", Ranges(a), Ranges(b)))

CutOut(a, b) == Combine("cut", Ranges(a), Ranges(b))
ContainsAny(a, b) == ~TriviallyEmpty(a) /\ ~TriviallyEmpty(b)
                     /\ Combine("intersection", Ranges(a), Ranges(b)) # << >>
ContainsAll(a, b) == TriviallyEmpty(b) \/ Combine("difference", Ranges(b), Ranges(a)) = << >>

\* slice: at most one bit field.
Slice(b, start, len) == {s \in {TakeBits(SkipBits(Ranges(b), start), len)} : Length(s) = len}

\* try_from_bits: at most one bit field.
TryFromBits(bits) == IF MaxWord \in bits THEN {} ELSE {FromRanges(RangesFromBits(bits))}

----------------------------------------------------------------------------
(* The operations on a bit field. *)

Init == bf = New /\ members = {}

Assign(b, m) == /\ bf' = b
                /\ members' = m
                /\ Cardinality(b.set \cup b.unset) <= MaxBuffered

\* A mutation: an unset bit stays among those set.
UnsetOnly(bit) == bit # MaxWord /\ Assign([bf EXCEPT !.unset = @ \cup {bit}], members \ {bit})

\* try_set refuses the largest word, unset ignores it.
TrySet(bit) == bit # MaxWord /\ Assign([bf EXCEPT !.set = @ \cup {bit}, !.unset = @ \ {bit}],
                                       members \cup {bit})
Unset(bit) == bit # MaxWord /\ Assign([bf EXCEPT !.set = @ \ {bit}, !.unset = @ \cup {bit}],
                                      members \ {bit})

\* |=, &=, -= and ^=.
OrAssign(o) == Assign(Or(bf, o.field), members \cup o.members)
AndAssign(o) == Assign(And(bf, o.field), members \cap o.members)
SubAssign(o) == Assign(Minus(bf, o.field), members \ o.members)
XorAssign(o) == Assign(Xor(bf, o.field), (members \ o.members) \cup (o.members \ members))

\* Serialize, and Deserialize of what was written.
Reload == LET bytes == ToBytes(Ranges(bf))
              read == FromBytes(bytes)
          IN  /\ Len(bytes) <= MAX_ENCODED_SIZE
              /\ read.error = ""
              /\ Assign(FromRanges(read.ranges), members)

Next == \/ \E bit \in Bits \cup {MaxWord} : TrySet(bit) \/ Unset(bit)
        \/ \E o \in Others : OrAssign(o) \/ AndAssign(o) \/ SubAssign(o) \/ XorAssign(o)
        \/ Reload

Spec == Init /\ [][Next]_vars

----------------------------------------------------------------------------
(* What a bit field promises. *)

\* The runs of a set, as ranges in ascending order.
IsRuns(ranges, s) ==
    /\ {ranges[n] : n \in DOMAIN ranges}
          = {<<a, b + 1>> : <<a, b>> \in {ab \in s \X s : /\ ab[1] <= ab[2]
                                                          /\ ab[1]..ab[2] \subseteq s
                                                          /\ ab[1] - 1 \notin s
                                                          /\ ab[2] + 1 \notin s}}
    /\ \A n \in 1..(Len(ranges) - 1) : ranges[n][2] < ranges[n + 1][1]

\* Whatever was set, unset, combined and reloaded, and in whatever order, a
\* bit field is the set of its bits: its ranges are the runs of that set, not
\* empty, ascending and apart ("no two ranges overlap or touch"), and get,
\* first, last, is_empty and len agree with them although they do not look at
\* the ranges alone.
BitFieldIsSet ==
    /\ IsRuns(Ranges(bf), members)
    /\ \A bit \in Bits : Has(bf, bit) = (bit \in members)
    /\ First(bf) = {b \in members : \A c \in members : b <= c}
    /\ LastBit(bf) = {b \in members : \A c \in members : b >= c}
    /\ IsEmpty(bf) = (members = {})
    /\ Length(Ranges(bf)) = Cardinality(members)
    /\ TryFromBits(members) = {FromRanges(Ranges(bf))}

Rank(s, bit) == Cardinality({b \in s : b < bit})

\* cut shifts the bits that remain by the bits that were cut out below them;
\* contains_any and contains_all are overlap and inclusion, short cuts for
\* trivially empty fields included; a slice has exactly the bits of the ranks
\* asked for, or there is none.
BitFieldCombines ==
    /\ \A o \in Others :
          /\ IsRuns(CutOut(bf, o.field), {b - Rank(o.members, b) : b \in members \ o.members})
          /\ ContainsAny(bf, o.field) = (members \cap o.members # {})
          /\ ContainsAll(bf, o.field) = (o.members \subseteq members)
    /\ \A start, len \in 0..Cardinality(members) :
          LET wanted == {b \in members : Rank(members, b) \in start..(start + len - 1)}
          IN  IF Cardinality(wanted) = len
                THEN \E s \in Slice(bf, start, len) : IsRuns(s, wanted)
                ELSE Slice(bf, start, len) = {}

\* What is written is read back, as RLE+ bytes and as JSON, and reading it
\* never fails.
BitFieldRoundTrips ==
    LET ranges == Ranges(bf)
    IN  /\ FromBytes(ToBytes(ranges)) = [error |-> "", ranges |-> ranges]
        /\ FromJson(ToJson(ranges)) = ranges
=============================================================================
