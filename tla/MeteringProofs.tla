--------------------------- MODULE MeteringProofs ---------------------------
(***************************************************************************)
(* The gas of a message is metered exactly, for any depth of calls, any    *)
(* limits and any charges: the books of the nested limits balance, no      *)
(* level overspends, and no instruction escapes its charge.                *)
(***************************************************************************)
EXTENDS GasMetering, SequenceTheorems, TLAPS

-----------------------------------------------------------------------------
(* The tracker's operations. *)

\* Products respect the order of their factors.
LEMMA ProductOrder ==
    ASSUME NEW a \in Nat, NEW b \in Nat, NEW c \in Nat, a <= b
    PROVE  /\ c * a \in Nat /\ c * b \in Nat
           /\ c * a <= c * b
           /\ a * c \in Nat /\ b * c \in Nat
           /\ a * c <= b * c
PROOF
<1>1. PICK d \in Nat : b = a + d
    <2>1. b - a \in Nat
        OBVIOUS
    <2> QED BY <2>1
<1>2. c * d \in Nat /\ c * a \in Nat
    OBVIOUS
<1>3. c * b = c * a + c * d
    BY <1>1
<1> QED BY <1>2, <1>3

\* Rounding up to whole gas respects limits given in whole gas: comparing milligas
\* with a limit, and whole gas with it, comes to the same.
LEMMA RoundUpWithin ==
    ASSUME NEW milligas \in Nat, NEW gas \in Nat
    PROVE  /\ RoundUp(milligas) \in Nat
           /\ RoundUp(milligas) <= gas <=> milligas <= gas * Precision
PROOF
<1> DEFINE q == milligas \div Precision
           r == milligas % Precision
<1>1. q \in Nat /\ r \in Nat /\ r < Precision /\ milligas = Precision * q + r
    BY GasAssumption, SMT
<1>2. RoundUp(milligas) = IF r # 0 THEN q + 1 ELSE q
    BY <1>1 DEF RoundUp
<1> HIDE DEF q, r
<1>3. ASSUME q <= gas PROVE Precision * q <= gas * Precision
    BY <1>1, <1>3, GasAssumption, ProductOrder
<1>4. ASSUME q + 1 <= gas PROVE Precision * q + Precision <= gas * Precision
    <2>1. Precision * (q + 1) <= gas * Precision
        BY <1>1, <1>4, GasAssumption, ProductOrder
    <2>2. Precision * (q + 1) = Precision * q + Precision
        BY <1>1, GasAssumption
    <2> QED BY <2>1, <2>2
<1>5. ASSUME gas < q PROVE gas * Precision + Precision <= Precision * q
    <2>1. Precision * (gas + 1) <= Precision * q
        BY <1>1, <1>5, GasAssumption, ProductOrder
    <2>2. Precision * (gas + 1) = gas * Precision + Precision
        BY GasAssumption
    <2> QED BY <2>1, <2>2
<1>6. Precision * q \in Nat /\ gas * Precision \in Nat
    BY <1>1, GasAssumption
<1>7. CASE q + 1 <= gas
    BY <1>1, <1>2, <1>4, <1>6, <1>7, GasAssumption
<1>8. CASE q = gas
    <2>1. Precision * q = gas * Precision
        BY <1>8, GasAssumption
    <2> QED BY <1>1, <1>2, <1>6, <1>8, <2>1
<1>9. CASE gas < q
    BY <1>1, <1>2, <1>5, <1>6, <1>9, GasAssumption
<1> QED BY <1>1, <1>7, <1>8, <1>9

\* The trackers that code can get hold of: within their limit.
WithinLimit(t) == t \in Trackers /\ t.used <= t.limit

\* A new tracker has the whole limit of the message, as far as an i64 goes.
LEMMA NewTrackerWithin ==
    ASSUME NEW gas \in Nat
    PROVE  /\ WithinLimit(NewTracker(FromGas(gas), 0))
           /\ NewTracker(FromGas(gas), 0).limit = Smaller(gas * Precision, MaxGas)
           /\ NewTracker(FromGas(gas), 0).used = 0
           /\ NewTracker(FromGas(gas), 0).snapshots = <<>>
PROOF
<1>1. gas * Precision \in Nat /\ MaxGas \in Nat
    BY GasAssumption
<1>2. <<>> \in Seq(Snapshots)
    OBVIOUS
<1> QED BY <1>1, <1>2 DEF WithinLimit, Trackers, NewTracker, FromGas, Smaller, U64Max, Amounts

\* A charge keeps the tracker within its limit and leaves the limits alone.
LEMMA ChargeWithin ==
    ASSUME NEW t, WithinLimit(t), NEW amount \in Nat
    PROVE  /\ WithinLimit(Charge(t, amount))
           /\ Charge(t, amount).limit = t.limit
           /\ Charge(t, amount).snapshots = t.snapshots
           /\ Charge(t, amount).used >= t.used
           /\ OutOfGas(t, amount) => Charge(t, amount).used = t.limit
           /\ ~ OutOfGas(t, amount) => Charge(t, amount).used = t.used + amount
           /\ OutOfGas(t, amount) <=> t.used + amount > t.limit
PROOF
<1>1. /\ t.limit \in 0 .. MaxGas /\ t.used \in Nat /\ t.used <= t.limit
      /\ t = [limit |-> t.limit, used |-> t.used, snapshots |-> t.snapshots]
      /\ t.snapshots \in Seq(Snapshots)
    BY DEF WithinLimit, Trackers, Amounts
<1>2. MaxGas \in Nat
    BY GasAssumption
<1>3. OutOfGas(t, amount) <=> t.used + amount > t.limit
    BY <1>1, <1>2 DEF OutOfGas, SatAdd, Smaller, U64Max
<1>4. ~ OutOfGas(t, amount) => SatAdd(t.used, amount) = t.used + amount
    BY <1>1, <1>2, <1>3 DEF SatAdd, Smaller, U64Max
<1> DEFINE used == IF OutOfGas(t, amount) THEN t.limit ELSE SatAdd(t.used, amount)
<1>5. used \in Nat /\ used <= t.limit /\ t.used <= used /\ used \in Amounts
    BY <1>1, <1>2, <1>3, <1>4 DEF Amounts, U64Max
<1>6. Charge(t, amount) = [limit |-> t.limit, used |-> used, snapshots |-> t.snapshots]
    BY <1>1 DEF Charge
<1>7. Charge(t, amount) \in Trackers
    <2> HIDE DEF used
    <2> QED BY <1>1, <1>5, <1>6 DEF Trackers
<1> QED BY <1>1, <1>3, <1>4, <1>5, <1>6, <1>7 DEF WithinLimit

-----------------------------------------------------------------------------
(* The tracker's levels, of any tracker. *)

Depth(t) == Len(t.snapshots)
LimitOf(t, n) == IF n = Depth(t) THEN t.limit ELSE t.snapshots[n + 1].limit
UsedOf(t, n) == IF n = Depth(t) THEN t.used ELSE t.snapshots[n + 1].used
Before(e, n) == IF n = 0 THEN 0 ELSE e[n]

Nested(t) ==
    \A n \in 0 .. Depth(t) :
        /\ UsedOf(t, n) <= LimitOf(t, n)
        /\ n < Depth(t) => UsedOf(t, n) + LimitOf(t, n + 1) <= LimitOf(t, n)

Balanced(t, e, s) ==
    /\ Len(e) = Depth(t)
    /\ \A n \in 0 .. Depth(t) :
          Before(e, n) + UsedOf(t, n) = IF n = Depth(t) THEN s ELSE Before(e, n + 1)

\* All of a sequence but its last element.
LEMMA FrontOf ==
    ASSUME NEW S, NEW seq \in Seq(S), seq # <<>>
    PROVE  LET front == SubSeq(seq, 1, Len(seq) - 1) IN
           /\ Len(seq) - 1 \in Nat
           /\ front \in Seq(S) /\ Len(front) = Len(seq) - 1
           /\ \A n \in 1 .. Len(seq) - 1 : front[n] = seq[n]
PROOF
<1> DEFINE m == Len(seq) - 1
           front == SubSeq(seq, 1, m)
<1>1. m \in Nat /\ \A n \in 1 .. m : seq[n] \in S
    OBVIOUS
<1> HIDE DEF m
<1>2. /\ front \in Seq(S)
      /\ Len(front) = IF 1 <= m THEN m - 1 + 1 ELSE 0
      /\ \A n \in 1 .. m - 1 + 1 : front[n] = seq[1 + n - 1]
    BY <1>1, SubSeqProperties
<1> HIDE DEF front
<1>3. Len(front) = m
    BY <1>1, <1>2
<1>4. ASSUME NEW n \in 1 .. m PROVE front[n] = seq[n]
    <2>1. n \in 1 .. m - 1 + 1 /\ 1 + n - 1 = n
        BY <1>1
    <2> QED BY <1>2, <2>1
<1> QED BY <1>1, <1>2, <1>3, <1>4 DEF front, m

\* The fields of a tracker.
LEMMA TrackerFields ==
    ASSUME NEW t \in Trackers
    PROVE  /\ t.limit \in 0 .. MaxGas /\ t.limit \in Nat
           /\ t.used \in Amounts /\ t.used \in Nat
           /\ t.snapshots \in Seq(Snapshots)
           /\ Depth(t) \in Nat
           /\ t = [limit |-> t.limit, used |-> t.used, snapshots |-> t.snapshots]
           /\ \A n \in 1 .. Depth(t) : /\ t.snapshots[n] \in Snapshots
                                       /\ t.snapshots[n].limit \in 0 .. MaxGas
                                       /\ t.snapshots[n].limit \in Nat
                                       /\ t.snapshots[n].used \in Amounts
                                       /\ t.snapshots[n].used \in Nat
PROOF
<1>1. MaxGas \in Nat /\ U64Max \in Nat
    BY GasAssumption DEF U64Max
<1>2. /\ t.limit \in 0 .. MaxGas /\ t.used \in Amounts /\ t.snapshots \in Seq(Snapshots)
      /\ t = [limit |-> t.limit, used |-> t.used, snapshots |-> t.snapshots]
    BY DEF Trackers
<1>3. Depth(t) \in Nat /\ \A n \in 1 .. Depth(t) : t.snapshots[n] \in Snapshots
    BY <1>2 DEF Depth
<1>4. \A snap \in Snapshots : snap.limit \in 0 .. MaxGas /\ snap.used \in Amounts
    BY DEF Snapshots
<1>5. \A a \in Amounts : a \in Nat
    BY <1>1 DEF Amounts
<1>6. \A a \in 0 .. MaxGas : a \in Nat
    BY <1>1
<1> QED BY <1>2, <1>3, <1>4, <1>5, <1>6

\* The innermost level of nested limits does not overspend.
LEMMA InnermostWithin ==
    ASSUME NEW t \in Trackers, Nested(t)
    PROVE  WithinLimit(t)
PROOF
<1>1. Depth(t) \in 0 .. Depth(t)
    BY TrackerFields
<1> QED BY <1>1 DEF Nested, UsedOf, LimitOf, WithinLimit

\* A charge leaves the outer levels alone.
LEMMA ChargeKeeps ==
    ASSUME NEW t \in Trackers, Nested(t), NEW amount \in Nat,
           NEW e \in Seq(Nat), NEW s \in Nat, Balanced(t, e, s)
    PROVE  LET c == Charge(t, amount) IN
           /\ c \in Trackers
           /\ Nested(c)
           /\ c.snapshots = t.snapshots /\ c.limit = t.limit
           /\ s + (c.used - t.used) \in Nat
           /\ Balanced(c, e, s + (c.used - t.used))
PROOF
<1> DEFINE c == Charge(t, amount)
           s2 == s + (c.used - t.used)
<1>1. WithinLimit(t)
    BY InnermostWithin
<1>2. /\ WithinLimit(c) /\ c \in Trackers
      /\ c.limit = t.limit /\ c.snapshots = t.snapshots /\ c.used >= t.used
      /\ c.used <= c.limit
    BY <1>1, ChargeWithin DEF WithinLimit
<1> HIDE DEF c
<1>3. Depth(c) = Depth(t) /\ Depth(t) \in Nat
    BY <1>2, TrackerFields DEF Depth
<1>4. c.used \in Nat /\ t.used \in Nat /\ c.limit \in Nat
    BY <1>2, TrackerFields
<1>5. s2 \in Nat
    BY <1>2, <1>4
<1>6. \A n \in 0 .. Depth(t) :
         /\ LimitOf(c, n) = LimitOf(t, n)
         /\ n < Depth(t) => UsedOf(c, n) = UsedOf(t, n)
    BY <1>2, <1>3 DEF LimitOf, UsedOf
<1>7. UsedOf(c, Depth(t)) = c.used /\ UsedOf(t, Depth(t)) = t.used
      /\ LimitOf(c, Depth(t)) = c.limit
    BY <1>3 DEF UsedOf, LimitOf
<1>8. Nested(c)
    <2> SUFFICES ASSUME NEW n \in 0 .. Depth(t)
                 PROVE  /\ UsedOf(c, n) <= LimitOf(c, n)
                        /\ n < Depth(t) => UsedOf(c, n) + LimitOf(c, n + 1) <= LimitOf(c, n)
        BY <1>3 DEF Nested
    <2>1. CASE n = Depth(t)
        BY <1>2, <1>3, <1>7, <2>1
    <2>2. CASE n < Depth(t)
        <3>1. n + 1 \in 0 .. Depth(t)
            BY <1>3, <2>2
        <3> QED BY <1>6, <2>2, <3>1 DEF Nested
    <2> QED BY <1>3, <2>1, <2>2
<1>9. Balanced(c, e, s2)
    <2>1. Len(e) = Depth(c)
        BY <1>3 DEF Balanced
    <2> SUFFICES ASSUME NEW n \in 0 .. Depth(t)
                 PROVE  Before(e, n) + UsedOf(c, n) = IF n = Depth(t) THEN s2 ELSE Before(e, n + 1)
        BY <1>3, <2>1 DEF Balanced
    <2>2. CASE n = Depth(t)
        <3>1. Before(e, n) + t.used = s
            BY <1>7, <2>2 DEF Balanced
        <3>2. Before(e, n) \in Nat
            BY <1>3, <2>1, <2>2 DEF Before
        <3> QED BY <1>4, <1>7, <2>2, <3>1, <3>2
    <2>3. CASE n < Depth(t)
        BY <1>3, <1>6, <2>3 DEF Balanced
    <2> QED BY <1>3, <2>2, <2>3
<1> QED BY <1>2, <1>5, <1>8, <1>9 DEF c

\* A pushed limit is within what is left, and starts a level of its own.
LEMMA PushKeeps ==
    ASSUME NEW t \in Trackers, Nested(t), NEW newLimit \in Nat,
           NEW e \in Seq(Nat), NEW s \in Nat, Balanced(t, e, s)
    PROVE  LET p == PushLimit(t, newLimit) IN
           /\ p \in Trackers
           /\ Depth(p) = Depth(t) + 1
           /\ LimitOf(p, 0) = LimitOf(t, 0)
           /\ Nested(p)
           /\ Balanced(p, Append(e, s), s)
PROOF
<1> DEFINE p == PushLimit(t, newLimit)
           limit == Smaller(Available(t), newLimit)
           snap == [limit |-> t.limit, used |-> t.used]
           d == Depth(t)
<1>1. /\ t.limit \in 0 .. MaxGas /\ t.used \in Nat /\ t.used \in Amounts
      /\ t.snapshots \in Seq(Snapshots) /\ d \in Nat /\ t.used <= t.limit
    BY TrackerFields, InnermostWithin DEF WithinLimit
<1>2. MaxGas \in Nat
    BY GasAssumption
<1>3. limit \in 0 .. MaxGas /\ limit \in Nat /\ t.used + limit <= t.limit
    BY <1>1, <1>2 DEF Smaller, Available, SatSub
<1>4. /\ p.limit = limit /\ p.used = 0 /\ p.snapshots = Append(t.snapshots, snap)
      /\ p = [limit |-> limit, used |-> 0, snapshots |-> p.snapshots]
    BY DEF PushLimit
<1>5. snap \in Snapshots /\ 0 \in Amounts
    BY <1>1, <1>2 DEF Snapshots, Amounts, U64Max
<1> HIDE DEF p, limit
<1>6. /\ p.snapshots \in Seq(Snapshots) /\ Len(p.snapshots) = d + 1
      /\ p.snapshots[d + 1] = snap
      /\ \A n \in 1 .. d : p.snapshots[n] = t.snapshots[n]
    <2> HIDE DEF snap
    <2> QED BY <1>1, <1>4, <1>5 DEF Depth
<1>7. p \in Trackers /\ Depth(p) = d + 1
    BY <1>3, <1>4, <1>5, <1>6 DEF Trackers, Depth
<1>8. /\ \A n \in 0 .. d : LimitOf(p, n) = LimitOf(t, n) /\ UsedOf(p, n) = UsedOf(t, n)
      /\ LimitOf(p, d + 1) = limit /\ UsedOf(p, d + 1) = 0
      /\ LimitOf(t, d) = t.limit /\ UsedOf(t, d) = t.used
    <2>1. ASSUME NEW n \in 0 .. d
          PROVE  LimitOf(p, n) = LimitOf(t, n) /\ UsedOf(p, n) = UsedOf(t, n)
        <3>1. n # Depth(p)
            BY <1>1, <1>7
        <3>2. CASE n = d
            BY <1>1, <1>6, <3>1, <3>2 DEF LimitOf, UsedOf
        <3>3. CASE n # d
            <4>1. n + 1 \in 1 .. d
                BY <1>1, <3>3
            <4> QED BY <1>6, <3>1, <3>3, <4>1 DEF LimitOf, UsedOf
        <3> QED BY <3>2, <3>3
    <2>2. LimitOf(p, d + 1) = limit /\ UsedOf(p, d + 1) = 0
        BY <1>4, <1>7 DEF LimitOf, UsedOf
    <2> QED BY <2>1, <2>2 DEF LimitOf, UsedOf
<1>9. Nested(p)
    <2> SUFFICES ASSUME NEW n \in 0 .. d + 1
                 PROVE  /\ UsedOf(p, n) <= LimitOf(p, n)
                        /\ n < d + 1 => UsedOf(p, n) + LimitOf(p, n + 1) <= LimitOf(p, n)
        BY <1>7 DEF Nested
    <2>1. CASE n = d + 1
        BY <1>1, <1>3, <1>8, <2>1
    <2>2. CASE n = d
        <3>1. d \in 0 .. d
            BY <1>1
        <3> QED BY <1>1, <1>3, <1>8, <2>2, <3>1
    <2>3. CASE n < d
        <3>1. n \in 0 .. d /\ n + 1 \in 0 .. d
            BY <1>1, <2>3
        <3> QED BY <1>8, <2>3, <3>1 DEF Nested
    <2> QED BY <1>1, <2>1, <2>2, <2>3
<1>10. Balanced(p, Append(e, s), s)
    <2> DEFINE f == Append(e, s)
    <2>1. /\ Len(e) = d /\ f \in Seq(Nat) /\ Len(f) = d + 1 /\ f[d + 1] = s
          /\ \A n \in 1 .. d : f[n] = e[n]
        BY DEF Balanced
    <2> HIDE DEF f
    <2>2. \A n \in 0 .. d : Before(f, n) = Before(e, n)
        BY <1>1, <2>1 DEF Before
    <2>3. Before(f, d + 1) = s
        BY <1>1, <2>1 DEF Before
    <2> SUFFICES ASSUME NEW n \in 0 .. d + 1
                 PROVE  Before(f, n) + UsedOf(p, n) = IF n = d + 1 THEN s ELSE Before(f, n + 1)
        BY <1>7, <2>1 DEF Balanced, f
    <2>4. CASE n = d + 1
        BY <1>8, <2>3, <2>4
    <2>5. CASE n = d
        <3>1. d \in 0 .. d
            BY <1>1
        <3>2. Before(e, d) + UsedOf(t, d) = s
            BY <3>1 DEF Balanced
        <3> QED BY <1>1, <1>8, <2>2, <2>3, <2>5, <3>1, <3>2
    <2>6. CASE n < d
        <3>1. n \in 0 .. d /\ n + 1 \in 0 .. d /\ n # d + 1
            BY <1>1, <2>6
        <3>2. Before(e, n) + UsedOf(t, n) = Before(e, n + 1)
            BY <2>6, <3>1 DEF Balanced
        <3> QED BY <1>8, <2>2, <3>1, <3>2
    <2> QED BY <1>1, <2>4, <2>5, <2>6
<1>11. LimitOf(p, 0) = LimitOf(t, 0)
    <2>1. 0 \in 0 .. d
        BY <1>1
    <2> QED BY <1>8, <2>1
<1> QED BY <1>7, <1>9, <1>10, <1>11 DEF p

\* Popping a limit adds what was used under it to the level below.
LEMMA PopKeeps ==
    ASSUME NEW t \in Trackers, Nested(t), Depth(t) > 0,
           NEW e \in Seq(Nat), NEW s \in Nat, Balanced(t, e, s)
    PROVE  LET p == PopLimit(t)
               f == SubSeq(e, 1, Len(e) - 1)
           IN  /\ p \in Trackers
               /\ Depth(p) = Depth(t) - 1
               /\ LimitOf(p, 0) = LimitOf(t, 0)
               /\ Nested(p)
               /\ f \in Seq(Nat)
               /\ Balanced(p, f, s)
PROOF
<1> DEFINE p == PopLimit(t)
           f == SubSeq(e, 1, Len(e) - 1)
           snap == t.snapshots[Len(t.snapshots)]
           d == Depth(t) - 1
           used == SatAdd(t.used, snap.used)
<1>1. /\ t.limit \in 0 .. MaxGas /\ t.used \in Nat /\ t.used <= t.limit
      /\ t.snapshots \in Seq(Snapshots) /\ d \in Nat /\ Depth(t) = d + 1
    BY TrackerFields, InnermostWithin DEF WithinLimit
<1>2. /\ snap.limit \in 0 .. MaxGas /\ snap.used \in Nat /\ snap \in Snapshots
      /\ snap = t.snapshots[d + 1]
    <2>1. d + 1 \in 1 .. Depth(t) /\ Len(t.snapshots) = d + 1
        BY <1>1 DEF Depth
    <2> QED BY <2>1, TrackerFields
<1>3. MaxGas \in Nat
    BY GasAssumption
<1>4. d \in 0 .. Depth(t) /\ d + 1 \in 0 .. Depth(t) /\ d < Depth(t) /\ d # Depth(t)
    BY <1>1
<1>5. /\ LimitOf(t, d) = snap.limit /\ UsedOf(t, d) = snap.used
      /\ LimitOf(t, d + 1) = t.limit /\ UsedOf(t, d + 1) = t.used
    BY <1>1, <1>2, <1>4 DEF LimitOf, UsedOf
<1>6. snap.used + t.limit <= snap.limit
    BY <1>4, <1>5 DEF Nested
<1>7. used = t.used + snap.used /\ used <= snap.limit /\ used \in Amounts /\ used \in Nat
    <2> HIDE DEF snap
    <2>0. /\ t.limit \in Nat /\ t.used \in Nat /\ t.used <= t.limit
          /\ snap.limit \in Nat /\ snap.used \in Nat
        BY <1>1, <1>2, <1>3
    <2>1. t.used + snap.used \in Nat /\ t.used + snap.used <= snap.limit
        BY <1>6, <2>0
    <2>2. snap.limit <= U64Max /\ U64Max \in Nat /\ snap.limit \in Nat
        BY <1>2, <1>3 DEF U64Max
    <2>3. used = t.used + snap.used
        BY <2>1, <2>2 DEF SatAdd, Smaller
    <2> HIDE DEF used
    <2> QED BY <2>1, <2>2, <2>3 DEF Amounts
<1>8. /\ p.limit = snap.limit /\ p.used = used
      /\ p.snapshots = SubSeq(t.snapshots, 1, Len(t.snapshots) - 1)
      /\ p = [limit |-> snap.limit, used |-> used, snapshots |-> p.snapshots]
    BY DEF PopLimit
<1>9. /\ p.snapshots \in Seq(Snapshots) /\ Len(p.snapshots) = d
      /\ \A n \in 1 .. d : p.snapshots[n] = t.snapshots[n]
    <2>1. t.snapshots # <<>> /\ Len(t.snapshots) - 1 = d
        BY <1>1 DEF Depth
    <2> QED BY <1>1, <1>8, <2>1, FrontOf
<1> HIDE DEF p, used, snap
<1>10. p \in Trackers /\ Depth(p) = d
    BY <1>2, <1>7, <1>8, <1>9 DEF Trackers, Depth
<1> HIDE DEF d
<1>11. /\ LimitOf(p, d) = snap.limit /\ UsedOf(p, d) = used
       /\ \A n \in 0 .. d : /\ LimitOf(p, n) = LimitOf(t, n)
                            /\ n < d => UsedOf(p, n) = UsedOf(t, n)
    <2>1. LimitOf(p, d) = snap.limit /\ UsedOf(p, d) = used
        BY <1>8, <1>10 DEF LimitOf, UsedOf
    <2>2. ASSUME NEW n \in 0 .. d, n < d
          PROVE  LimitOf(p, n) = LimitOf(t, n) /\ UsedOf(p, n) = UsedOf(t, n)
        <3>1. n # d /\ n # Depth(t) /\ n + 1 \in 1 .. d
            BY <1>1, <2>2
        <3> QED BY <1>9, <1>10, <3>1 DEF LimitOf, UsedOf
    <2> QED BY <1>1, <1>5, <2>1, <2>2
<1>12. Nested(p)
    <2> SUFFICES ASSUME NEW n \in 0 .. d
                 PROVE  /\ UsedOf(p, n) <= LimitOf(p, n)
                        /\ n < d => UsedOf(p, n) + LimitOf(p, n + 1) <= LimitOf(p, n)
        BY <1>10 DEF Nested
    <2>1. CASE n = d
        BY <1>1, <1>7, <1>11, <2>1
    <2>2. CASE n < d
        <3>1. n \in 0 .. Depth(t) /\ n < Depth(t) /\ n + 1 \in 0 .. d
            BY <1>1, <2>2
        <3> QED BY <1>11, <2>2, <3>1 DEF Nested
    <2> QED BY <1>1, <2>1, <2>2
<1>13. /\ Len(e) = d + 1 /\ f \in Seq(Nat) /\ Len(f) = d
       /\ \A n \in 1 .. d : f[n] = e[n]
    <2>1. Len(e) = d + 1
        BY <1>1 DEF Balanced
    <2>2. e # <<>> /\ Len(e) - 1 = d
        BY <1>1, <2>1
    <2> QED BY <2>1, <2>2, FrontOf
<1> HIDE DEF f
<1>14. Balanced(p, f, s)
    <2>1. \A n \in 0 .. d : Before(f, n) = Before(e, n) /\ Before(e, n) \in Nat
        BY <1>1, <1>13 DEF Before
    <2> SUFFICES ASSUME NEW n \in 0 .. d
                 PROVE  Before(f, n) + UsedOf(p, n) = IF n = d THEN s ELSE Before(f, n + 1)
        BY <1>10, <1>13 DEF Balanced
    <2>2. CASE n = d
        <3>1. Before(e, d) + snap.used = Before(e, d + 1)
            BY <1>4, <1>5 DEF Balanced
        <3>2. Before(e, d + 1) + t.used = s
            BY <1>1, <1>4, <1>5 DEF Balanced
        <3>3. d \in 0 .. d
            BY <1>1
        <3>4. Before(f, d) = Before(e, d) /\ Before(e, d) \in Nat /\ UsedOf(p, d) = used
            BY <1>11, <2>1, <3>3
        <3>5. Before(e, d) + (t.used + snap.used) = s
            BY <1>1, <1>2, <3>1, <3>2, <3>4, SMTT(30)
        <3> QED BY <1>7, <2>2, <3>4, <3>5
    <2>3. CASE n < d
        <3>1. n \in 0 .. Depth(t) /\ n # Depth(t) /\ n + 1 \in 0 .. d /\ n # d
            BY <1>1, <2>3
        <3>2. Before(e, n) + UsedOf(t, n) = Before(e, n + 1)
            BY <3>1 DEF Balanced
        <3> QED BY <1>11, <2>1, <2>3, <3>1, <3>2
    <2> QED BY <1>1, <2>2, <2>3
<1>15. LimitOf(p, 0) = LimitOf(t, 0)
    <2>1. 0 \in 0 .. d
        BY <1>1
    <2> QED BY <1>11, <2>1
<1> QED BY <1>10, <1>12, <1>13, <1>14, <1>15 DEF p, f, d

-----------------------------------------------------------------------------
(* The call stack: it has as many limited frames as the tracker has levels.  *)
(* The number of those up to each frame is a witness, not a recursive sum.   *)

Step(frame) == IF frame.limited THEN 1 ELSE 0
Counts(fs, k, lv) ==
    /\ lv[0] = 0
    /\ \A n \in 1 .. Len(fs) : lv[n] = lv[n - 1] + Step(fs[n])
    /\ lv[Len(fs)] = k
LimitedFrames(fs, k) == \E lv \in [0 .. Len(fs) -> Nat] : Counts(fs, k, lv)

\* Frames that are limited alike are counted alike.
LEMMA CountSame ==
    ASSUME NEW fs \in Seq(Frames), NEW gs \in Seq(Frames), NEW k, LimitedFrames(fs, k),
           Len(gs) = Len(fs), \A n \in 1 .. Len(fs) : gs[n].limited = fs[n].limited
    PROVE  LimitedFrames(gs, k)
PROOF
<1>1. PICK lv \in [0 .. Len(fs) -> Nat] : Counts(fs, k, lv)
    BY DEF LimitedFrames
<1>2. Counts(gs, k, lv)
    BY <1>1 DEF Counts, Step
<1> QED BY <1>2 DEF LimitedFrames

\* A frame is added.
LEMMA CountPush ==
    ASSUME NEW fs \in Seq(Frames), NEW k \in Nat, LimitedFrames(fs, k), NEW frame \in Frames
    PROVE  LimitedFrames(Append(fs, frame), k + Step(frame))
PROOF
<1>1. PICK lv \in [0 .. Len(fs) -> Nat] : Counts(fs, k, lv)
    BY DEF LimitedFrames
<1> DEFINE gs == Append(fs, frame)
           j == k + Step(frame)
           mv == [n \in 0 .. Len(fs) + 1 |-> IF n = Len(fs) + 1 THEN j ELSE lv[n]]
<1>2. /\ Len(fs) \in Nat /\ gs \in Seq(Frames) /\ Len(gs) = Len(fs) + 1
      /\ gs[Len(fs) + 1] = frame /\ \A n \in 1 .. Len(fs) : gs[n] = fs[n]
    OBVIOUS
<1>3. j \in Nat
    BY DEF Step
<1> HIDE DEF gs, j
<1>4. /\ mv \in [0 .. Len(fs) + 1 -> Nat]
      /\ mv[Len(fs) + 1] = j /\ \A n \in 0 .. Len(fs) : mv[n] = lv[n]
    BY <1>2, <1>3
<1> HIDE DEF mv
<1>5. Counts(gs, j, mv)
    <2>1. mv[0] = 0 /\ mv[Len(gs)] = j
        BY <1>1, <1>2, <1>4 DEF Counts
    <2>2. ASSUME NEW n \in 1 .. Len(gs) PROVE mv[n] = mv[n - 1] + Step(gs[n])
        <3>1. CASE n = Len(fs) + 1
            <4>1. n - 1 = Len(fs) /\ mv[Len(fs)] = k
                BY <1>1, <1>2, <1>4, <3>1 DEF Counts
            <4> QED BY <1>2, <1>4, <3>1, <4>1 DEF j
        <3>2. CASE n # Len(fs) + 1
            <4>1. n \in 1 .. Len(fs) /\ n \in 0 .. Len(fs) /\ n - 1 \in 0 .. Len(fs)
                BY <1>2, <3>2
            <4> QED BY <1>1, <1>2, <1>4, <4>1 DEF Counts
        <3> QED BY <3>1, <3>2
    <2> QED BY <2>1, <2>2 DEF Counts
<1> QED BY <1>2, <1>4, <1>5 DEF LimitedFrames, gs, j

\* The last frame is removed.
LEMMA CountPop ==
    ASSUME NEW fs \in Seq(Frames), fs # <<>>, NEW k \in Nat, LimitedFrames(fs, k)
    PROVE  /\ k - Step(fs[Len(fs)]) \in Nat
           /\ LimitedFrames(SubSeq(fs, 1, Len(fs) - 1), k - Step(fs[Len(fs)]))
PROOF
<1>1. PICK lv \in [0 .. Len(fs) -> Nat] : Counts(fs, k, lv)
    BY DEF LimitedFrames
<1> DEFINE gs == SubSeq(fs, 1, Len(fs) - 1)
           m == Len(fs) - 1
           mv == [n \in 0 .. m |-> lv[n]]
<1>2. /\ m \in Nat /\ gs \in Seq(Frames) /\ Len(gs) = m /\ Len(fs) = m + 1
      /\ \A n \in 1 .. m : gs[n] = fs[n]
    <2>1. Len(fs) \in Nat
        OBVIOUS
    <2> QED BY <2>1, FrontOf
<1> HIDE DEF gs, m
<1>3. mv \in [0 .. m -> Nat] /\ \A n \in 0 .. m : mv[n] = lv[n]
    BY <1>2
<1> HIDE DEF mv
<1>4. lv[m + 1] = lv[m] + Step(fs[m + 1]) /\ lv[m + 1] = k
    <2>1. m + 1 \in 1 .. Len(fs) /\ (m + 1) - 1 = m
        BY <1>2
    <2> QED BY <1>1, <1>2, <2>1 DEF Counts
<1>5. mv[m] \in Nat /\ mv[m] = lv[m] /\ mv[m] = k - Step(fs[m + 1])
    BY <1>2, <1>3, <1>4 DEF Step
<1>6. Counts(gs, mv[m], mv)
    <2>1. mv[0] = 0
        BY <1>1, <1>2, <1>3 DEF Counts
    <2>2. ASSUME NEW n \in 1 .. m PROVE mv[n] = mv[n - 1] + Step(gs[n])
        <3>1. n \in 1 .. Len(fs) /\ n \in 0 .. m /\ n - 1 \in 0 .. m
            BY <1>2
        <3> QED BY <1>1, <1>2, <1>3, <3>1 DEF Counts
    <2> QED BY <1>2, <2>1, <2>2 DEF Counts
<1> QED BY <1>2, <1>3, <1>5, <1>6 DEF LimitedFrames, gs

\* Without frames there are no levels.
LEMMA CountNone ==
    ASSUME NEW k, LimitedFrames(<<>>, k)
    PROVE  k = 0
PROOF
    BY DEF LimitedFrames, Counts

-----------------------------------------------------------------------------
(* The inductive invariant.  The books and the stack as above; that an       *)
(* instance that runs was last told what is available now, unless its last   *)
(* syscall returned early, and has used the rest since; and that its counter *)
(* is an i64.                                                                *)

Books(t, e, s, gas) ==
    /\ t \in Trackers /\ e \in Seq(Nat) /\ s \in Nat
    /\ Nested(t)
    /\ Balanced(t, e, s)
    /\ LimitOf(t, 0) = Smaller(gas * Precision, MaxGas)

Stack(fs, st, t) ==
    /\ fs \in Seq(Frames)
    /\ st \in Statuses
    /\ st = "done" <=> fs = <<>>
    /\ fs # <<>> => fs[1].limited = FALSE
    /\ LimitedFrames(fs, Depth(t))

Counter(frame, t, p, ea) ==
    /\ frame.global >= 0 - (MaxGas + 1)
    /\ frame.last - frame.global >= p
    /\ ~ ea => frame.last = Available(t) /\ frame.last - frame.global = p

MeterInv ==
    /\ gasLimit \in GasLimits
    /\ pending \in Nat /\ early \in BOOLEAN
    /\ Books(tracker, entered, spent, gasLimit)
    /\ Stack(frames, status, tracker)
    /\ status = "run" => Counter(Top, tracker, pending, early)
    /\ OutOfGasIsEmpty

\* What an instance that runs is charged for is what it used: the difference
\* does not saturate.
LEMMA ExecChargeExact ==
    ASSUME NEW frame \in Frames, NEW p \in Nat, frame.global >= 0 - (MaxGas + 1),
           frame.last - frame.global >= p
    PROVE  ExecCharge(frame) = frame.last - frame.global
PROOF
<1>1. MaxGas \in Nat /\ frame.last \in 0 .. MaxGas /\ frame.global \in Int
    BY GasAssumption DEF Frames
<1> QED BY <1>1 DEF ExecCharge, SatAdd, SatSub, Smaller, U64Max

\* Any charge for execution is an amount.
LEMMA ExecChargeNat ==
    ASSUME NEW frame \in Frames
    PROVE  ExecCharge(frame) \in Nat
PROOF
<1>1. MaxGas \in Nat /\ frame.last \in Nat /\ frame.global \in Int
    BY GasAssumption DEF Frames
<1> QED BY <1>1 DEF ExecCharge, SatAdd, SatSub, Smaller, U64Max

\* What is available under nested limits fits the counter.
LEMMA AvailableFits ==
    ASSUME NEW t \in Trackers
    PROVE  Available(t) \in 0 .. MaxGas
PROOF
<1>1. t.limit \in 0 .. MaxGas /\ t.used \in Nat /\ MaxGas \in Nat
    BY TrackerFields, GasAssumption
<1> QED BY <1>1 DEF Available, SatSub

\* A charge keeps the books, and one that is refused leaves nothing available.
LEMMA ChargeBooks ==
    ASSUME NEW t, NEW e, NEW s, NEW gas, Books(t, e, s, gas), NEW amount \in Nat
    PROVE  LET c == Charge(t, amount) IN
           /\ Books(c, e, s + (c.used - t.used), gas)
           /\ Depth(c) = Depth(t)
           /\ OutOfGas(t, amount) => Available(c) = 0
PROOF
<1> DEFINE c == Charge(t, amount)
<1>0. t \in Trackers /\ e \in Seq(Nat) /\ s \in Nat /\ Nested(t) /\ Balanced(t, e, s)
    BY DEF Books
<1>1. /\ c \in Trackers /\ Nested(c) /\ c.snapshots = t.snapshots /\ c.limit = t.limit
      /\ s + (c.used - t.used) \in Nat
      /\ Balanced(c, e, s + (c.used - t.used))
    BY <1>0, ChargeKeeps, SMTT(30)
<1>2. OutOfGas(t, amount) => c.used = t.limit
    BY <1>0, InnermostWithin, ChargeWithin
<1> HIDE DEF c
<1>3. Depth(c) = Depth(t) /\ LimitOf(c, 0) = LimitOf(t, 0)
    BY <1>1 DEF Depth, LimitOf
<1>4. OutOfGas(t, amount) => Available(c) = 0
    BY <1>1, <1>2, TrackerFields DEF Available, SatSub
<1> QED BY <1>1, <1>3, <1>4 DEF Books, c

-----------------------------------------------------------------------------
(* The steps. *)

\* The last frame of a stack is replaced.
LEMMA SetTop ==
    ASSUME NEW fs \in Seq(Frames), fs # <<>>, NEW frame \in Frames,
           frame.limited = fs[Len(fs)].limited, fs[1].limited = FALSE,
           NEW k, LimitedFrames(fs, k)
    PROVE  LET gs == [fs EXCEPT ![Len(fs)] = frame] IN
           /\ gs \in Seq(Frames) /\ gs # <<>> /\ Len(gs) = Len(fs)
           /\ gs[Len(gs)] = frame /\ gs[1].limited = FALSE
           /\ LimitedFrames(gs, k)
PROOF
<1> DEFINE gs == [fs EXCEPT ![Len(fs)] = frame]
<1>1. Len(fs) \in Nat /\ Len(fs) > 0 /\ 1 \in 1 .. Len(fs) /\ Len(fs) \in 1 .. Len(fs)
    OBVIOUS
<1>2. /\ gs \in Seq(Frames) /\ Len(gs) = Len(fs)
      /\ \A n \in 1 .. Len(fs) : gs[n] = IF n = Len(fs) THEN frame ELSE fs[n]
    BY <1>1
<1> HIDE DEF gs
<1>3. gs # <<>> /\ gs[Len(gs)] = frame
    BY <1>1, <1>2
<1>4. \A n \in 1 .. Len(fs) : gs[n].limited = fs[n].limited
    BY <1>2
<1>5. LimitedFrames(gs, k)
    BY <1>2, <1>4, CountSame
<1> QED BY <1>1, <1>2, <1>3, <1>4, <1>5 DEF gs

\* update_gas_available makes the counter what the tracker has available.
LEMMA UpdatedFrame ==
    ASSUME NEW frame \in Frames, NEW t \in Trackers
    PROVE  /\ Updated(frame, t) \in Frames
           /\ Updated(frame, t).limited = frame.limited
           /\ Counter(Updated(frame, t), t, 0, FALSE)
PROOF
<1>1. Available(t) \in 0 .. MaxGas /\ MaxGas \in Nat
    BY AvailableFits, GasAssumption
<1>2. /\ Updated(frame, t) \in Frames
      /\ Updated(frame, t).limited = frame.limited
      /\ Updated(frame, t).last = Available(t) /\ Updated(frame, t).global = Available(t)
    <2>1. frame.limited \in BOOLEAN /\ Available(t) \in Int
        BY <1>1 DEF Frames
    <2> QED BY <1>1, <2>1 DEF Updated, Frames
<1> QED BY <1>1, <1>2 DEF Counter

\* What the invariant says of the frame on top of a stack.
LEMMA TopFrame ==
    ASSUME MeterInv, status # "done"
    PROVE  /\ frames # <<>> /\ frames \in Seq(Frames)
           /\ Len(frames) \in Nat /\ Len(frames) \in 1 .. Len(frames)
           /\ Top \in Frames /\ frames[1].limited = FALSE
           /\ LimitedFrames(frames, Depth(tracker))
           /\ tracker \in Trackers
PROOF
<1>1. /\ frames # <<>> /\ frames \in Seq(Frames) /\ frames[1].limited = FALSE
      /\ LimitedFrames(frames, Depth(tracker)) /\ tracker \in Trackers
    BY DEF MeterInv, Stack, Books
<1>2. Len(frames) \in Nat /\ Len(frames) \in 1 .. Len(frames)
    BY <1>1
<1> QED BY <1>1, <1>2 DEF Top

LEMMA InitMeter == Init => MeterInv
PROOF
<1> SUFFICES ASSUME Init PROVE MeterInv
    OBVIOUS
<1> DEFINE frame == NewFrame(FALSE)
           t == NewTracker(FromGas(gasLimit), 0)
<1>1. /\ gasLimit \in GasLimits /\ gasLimit \in Nat /\ MaxGas \in Nat
      /\ tracker = t /\ frames = <<frame>> /\ status = "enter"
      /\ spent = 0 /\ entered = <<>> /\ pending = 0 /\ early = FALSE
    BY MeteringAssumption, GasAssumption DEF Init
<1>2. /\ WithinLimit(t) /\ t.limit = Smaller(gasLimit * Precision, MaxGas)
      /\ t.used = 0 /\ t.snapshots = <<>>
    BY <1>1, NewTrackerWithin
<1> HIDE DEF t
<1>3. t \in Trackers /\ Depth(t) = 0 /\ t.limit \in Nat
    BY <1>2, TrackerFields DEF WithinLimit, Depth
<1>4. LimitOf(t, 0) = t.limit /\ UsedOf(t, 0) = 0
    BY <1>2, <1>3 DEF LimitOf, UsedOf
<1>5. Nested(t) /\ Balanced(t, <<>>, 0)
    <2>1. \A n \in 0 .. 0 : n = 0
        OBVIOUS
    <2>2. Nested(t)
        BY <1>3, <1>4, <2>1 DEF Nested
    <2>3. Balanced(t, <<>>, 0)
        BY <1>3, <1>4, <2>1 DEF Balanced, Before
    <2> QED BY <2>2, <2>3
<1>6. Books(tracker, entered, spent, gasLimit)
    BY <1>1, <1>2, <1>3, <1>4, <1>5 DEF Books
<1>7. frame \in Frames /\ frame.limited = FALSE
    BY <1>1 DEF NewFrame, Frames
<1> HIDE DEF frame
<1>8. LimitedFrames(<<>>, 0)
    <2>1. [n \in 0 .. 0 |-> 0] \in [0 .. Len(<<>>) -> Nat]
        OBVIOUS
    <2>2. Counts(<<>>, 0, [n \in 0 .. 0 |-> 0])
        BY DEF Counts
    <2> QED BY <2>1, <2>2 DEF LimitedFrames
<1>9. LimitedFrames(<<frame>>, 0)
    <2>1. LimitedFrames(Append(<<>>, frame), 0 + Step(frame))
        <3>1. <<>> \in Seq(Frames) /\ 0 \in Nat
            OBVIOUS
        <3> QED BY <1>7, <1>8, <3>1, CountPush
    <2>2. Append(<<>>, frame) = <<frame>> /\ Step(frame) = 0
        BY <1>7 DEF Step
    <2> QED BY <2>1, <2>2
<1>10. Stack(frames, status, tracker)
    BY <1>1, <1>3, <1>7, <1>9 DEF Stack, Statuses
<1> QED BY <1>1, <1>6, <1>10 DEF MeterInv, OutOfGasIsEmpty

\* Charges, and perhaps update_gas_available: what Enter, Syscall and
\* SyscallNoSpace have in common.
LEMMA ChargedStep ==
    ASSUME MeterInv, status # "done", NEW amount \in Nat, Charged(amount),
           UNCHANGED <<gasLimit, entered>>,
           pending' = 0, early' \in BOOLEAN,
           status' = IF OutOfGas(tracker, amount) THEN "oog" ELSE "run",
           \/ frames' = frames /\ (OutOfGas(tracker, amount) \/ Counter(Top, tracker', 0, early'))
           \/ frames' = WithTop(Updated(Top, tracker')) /\ early' = FALSE
    PROVE  MeterInv'
PROOF
<1>1. Books(tracker, entered, spent, gasLimit) /\ gasLimit \in GasLimits
    BY DEF MeterInv
<1>2. /\ Books(tracker', entered', spent', gasLimit')
      /\ Depth(tracker') = Depth(tracker)
      /\ OutOfGas(tracker, amount) => Available(tracker') = 0
      /\ gasLimit' \in GasLimits
    BY <1>1, ChargeBooks DEF Charged
<1>3. /\ frames # <<>> /\ frames \in Seq(Frames) /\ Top \in Frames
      /\ frames[1].limited = FALSE /\ LimitedFrames(frames, Depth(tracker))
    BY TopFrame
<1>4. tracker' \in Trackers
    BY <1>2 DEF Books
<1>5. status' \in {"oog", "run"} /\ (status' = "oog" <=> OutOfGas(tracker, amount))
    OBVIOUS
<1>6. /\ frames' # <<>> /\ frames' \in Seq(Frames) /\ frames'[1].limited = FALSE
      /\ LimitedFrames(frames', Depth(tracker))
      /\ status' = "run" => Counter(Top', tracker', 0, early')
    <2>1. CASE frames' = frames
        <3>1. Top' = Top
            BY <2>1 DEF Top
        <3>2. CASE OutOfGas(tracker, amount) \/ Counter(Top, tracker', 0, early')
            BY <1>3, <1>5, <2>1, <3>1, <3>2
        <3>3. CASE frames' = WithTop(Updated(Top, tracker')) /\ early' = FALSE
            <4>1. /\ Updated(Top, tracker') \in Frames
                  /\ Counter(Updated(Top, tracker'), tracker', 0, FALSE)
                BY <1>3, <1>4, UpdatedFrame
            <4>2. Top = Updated(Top, tracker')
                <5>1. frames'[Len(frames)] = Updated(Top, tracker')
                    BY <1>3, <3>3 DEF WithTop
                <5> QED BY <2>1, <5>1 DEF Top
            <4> QED BY <1>3, <2>1, <3>1, <3>3, <4>1, <4>2
        <3> QED BY <3>2, <3>3
    <2>2. CASE frames' = WithTop(Updated(Top, tracker')) /\ early' = FALSE
        <3> DEFINE frame == Updated(Top, tracker')
        <3>1. frame \in Frames /\ frame.limited = Top.limited /\ Counter(frame, tracker', 0, FALSE)
            BY <1>3, <1>4, UpdatedFrame
        <3> HIDE DEF frame
        <3>2. frames' = [frames EXCEPT ![Len(frames)] = frame]
            BY <2>2 DEF WithTop, frame
        <3>3. Top.limited = frames[Len(frames)].limited
            BY DEF Top
        <3>4. /\ frames' \in Seq(Frames) /\ frames' # <<>>
              /\ frames'[Len(frames')] = frame /\ frames'[1].limited = FALSE
              /\ LimitedFrames(frames', Depth(tracker))
            BY <1>3, <3>1, <3>2, <3>3, SetTop
        <3>5. Top' = frame
            BY <3>4 DEF Top
        <3> QED BY <2>2, <3>1, <3>4, <3>5
    <2> QED BY <2>1, <2>2
<1>7. Stack(frames', status', tracker')
    BY <1>2, <1>5, <1>6 DEF Stack, Statuses
<1>8. OutOfGasIsEmpty'
    BY <1>2, <1>5 DEF OutOfGasIsEmpty
<1> QED BY <1>2, <1>6, <1>7, <1>8 DEF MeterInv

\* call_actor_resolved, up to the entrypoint.
LEMMA EnterStep ==
    ASSUME MeterInv, NEW host \in HostCharges, Enter(host)
    PROVE  MeterInv'
PROOF
<1>1. host \in Nat
    BY MeteringAssumption
<1>2. /\ status # "done" /\ Charged(host) /\ UNCHANGED <<gasLimit, entered>>
      /\ pending' = 0 /\ early' = FALSE
      /\ status' = IF OutOfGas(tracker, host) THEN "oog" ELSE "run"
      /\ \/ frames' = frames /\ OutOfGas(tracker, host)
         \/ frames' = WithTop(Updated(Top, tracker')) /\ early' = FALSE
    BY DEF Enter
<1> QED BY <1>1, <1>2, ChargedStep

\* The instance runs.
LEMMA ExecStep ==
    ASSUME MeterInv, NEW cost \in ExecCosts, Exec(cost)
    PROVE  MeterInv'
PROOF
<1> DEFINE frame == [Top EXCEPT !.global = @ - cost]
<1>1. cost \in Nat /\ cost <= MaxGas + 1 /\ MaxGas \in Nat
    BY MeteringAssumption, GasAssumption
<1>2. /\ status = "run" /\ Top.global >= 0 /\ frames' = [frames EXCEPT ![Len(frames)] = frame]
      /\ pending' = pending + cost
      /\ UNCHANGED <<gasLimit, tracker, status, spent, entered, early>>
    BY DEF Exec, WithTop
<1>3. /\ frames # <<>> /\ frames \in Seq(Frames) /\ Top \in Frames
      /\ frames[1].limited = FALSE /\ LimitedFrames(frames, Depth(tracker))
    BY <1>2, TopFrame
<1>4. /\ Top.last \in Int /\ Top.global \in Int /\ pending \in Nat
      /\ frame \in Frames /\ frame.limited = Top.limited
      /\ frame.last = Top.last /\ frame.global = Top.global - cost
    <2>1. /\ Top.last \in 0 .. MaxGas /\ Top.global \in Int /\ Top.limited \in BOOLEAN
          /\ Top = [last |-> Top.last, global |-> Top.global, limited |-> Top.limited]
        BY <1>3 DEF Frames
    <2>2. frame = [last |-> Top.last, global |-> Top.global - cost, limited |-> Top.limited]
        BY <2>1
    <2>3. Top.global - cost \in Int /\ Top.last \in Int
        BY <1>1, <2>1
    <2>4. pending \in Nat
        BY DEF MeterInv
    <2> HIDE DEF frame
    <2> QED BY <2>1, <2>2, <2>3, <2>4 DEF Frames
<1> HIDE DEF frame
<1>5. Top.limited = frames[Len(frames)].limited
    BY DEF Top
<1>6. /\ frames' \in Seq(Frames) /\ frames' # <<>>
      /\ frames'[Len(frames')] = frame /\ frames'[1].limited = FALSE
      /\ LimitedFrames(frames', Depth(tracker))
    BY <1>2, <1>3, <1>4, <1>5, SetTop
<1>7. Top' = frame
    BY <1>6 DEF Top
<1>8. Counter(Top, tracker, pending, early)
    BY <1>2 DEF MeterInv
<1>9. Counter(frame, tracker, pending + cost, early)
    <2>1. /\ Top.global >= 0 - (MaxGas + 1) /\ Top.last - Top.global >= pending
          /\ ~ early => Top.last = Available(tracker) /\ Top.last - Top.global = pending
        BY <1>8 DEF Counter
    <2>2. /\ Top.global - cost >= 0 - (MaxGas + 1)
          /\ Top.last - (Top.global - cost) >= pending + cost
          /\ Top.last - Top.global = pending => Top.last - (Top.global - cost) = pending + cost
        BY <1>1, <1>2, <1>4, <2>1
    <2> QED BY <1>4, <2>1, <2>2 DEF Counter
<1>10. Stack(frames', status', tracker')
    BY <1>2, <1>6 DEF Stack, Statuses
<1>11. pending' \in Nat
    BY <1>1, <1>2, <1>4
<1> QED BY <1>2, <1>7, <1>9, <1>10, <1>11 DEF MeterInv, OutOfGasIsEmpty

\* What a running instance, or one that ended, is charged is an amount.
LEMMA ChargeAmounts ==
    ASSUME MeterInv, status # "done"
    PROVE  /\ ExecCharge(Top) \in Nat
           /\ ExecCharge(Top) + HostCallCost \in Nat
           /\ \A host \in HostCharges : /\ ExecCharge(Top) + HostCallCost + host \in Nat
                                        /\ ExecCharge(Top) + host \in Nat
           /\ ExecCharge(Top) + 0 \in Nat
PROOF
<1>1. ExecCharge(Top) \in Nat
    BY TopFrame, ExecChargeNat
<1>2. HostCallCost \in Nat /\ \A host \in HostCharges : host \in Nat
    BY MeteringAssumption
<1> QED BY <1>1, <1>2

\* A syscall.
LEMMA SyscallStep ==
    ASSUME MeterInv, NEW host \in HostCharges, Syscall(host)
    PROVE  MeterInv'
PROOF
<1> DEFINE amount == ExecCharge(Top) + HostCallCost + host
<1>1. /\ status # "done" /\ Charged(amount) /\ UNCHANGED <<gasLimit, entered>>
      /\ pending' = 0 /\ early' = FALSE
      /\ status' = IF OutOfGas(tracker, amount) THEN "oog" ELSE "run"
      /\ \/ frames' = frames /\ OutOfGas(tracker, amount)
         \/ frames' = WithTop(Updated(Top, tracker')) /\ early' = FALSE
    BY DEF Syscall
<1>2. amount \in Nat
    BY <1>1, ChargeAmounts
<1> HIDE DEF amount
<1> QED BY <1>1, <1>2, ChargedStep

\* A syscall that returns early.
LEMMA SyscallNoSpaceStep ==
    ASSUME MeterInv, SyscallNoSpace
    PROVE  MeterInv'
PROOF
<1> DEFINE amount == ExecCharge(Top) + HostCallCost
<1>1. /\ status = "run" /\ Charged(amount) /\ UNCHANGED <<gasLimit, entered>>
      /\ pending' = 0 /\ early' = TRUE /\ frames' = frames
      /\ status' = IF OutOfGas(tracker, amount) THEN "oog" ELSE "run"
    BY DEF SyscallNoSpace
<1>2. amount \in Nat
    BY <1>1, ChargeAmounts
<1> HIDE DEF amount
<1>3. Counter(Top, tracker, pending, early) /\ pending \in Nat /\ Top \in Frames
    BY <1>1, TopFrame DEF MeterInv
<1>4. Top.last \in Int /\ Top.global \in Int
    BY <1>3, GasAssumption DEF Frames
<1>5. Counter(Top, tracker', 0, TRUE)
    BY <1>3, <1>4 DEF Counter
<1> QED BY <1>1, <1>2, <1>5, ChargedStep

\* A call: the callee's frame, and perhaps a limit.
LEMMA SendStep ==
    ASSUME MeterInv, NEW limited \in BOOLEAN, NEW callLimit \in Nat, Send(limited, callLimit)
    PROVE  MeterInv'
PROOF
<1> DEFINE amount == ExecCharge(Top) + HostCallCost
           charged == Charge(tracker, amount)
           frame == NewFrame(limited)
<1>1. /\ status = "run"
      /\ tracker' = IF limited THEN PushLimit(charged, callLimit) ELSE charged
      /\ spent' = spent + (charged.used - tracker.used)
      /\ entered' = IF limited THEN Append(entered, spent') ELSE entered
      /\ frames' = Append(frames, frame) /\ status' = "enter"
      /\ pending' = 0 /\ early' = FALSE /\ gasLimit' = gasLimit
    BY DEF Send
<1>2. amount \in Nat
    BY <1>1, ChargeAmounts
<1>3. Books(tracker, entered, spent, gasLimit) /\ gasLimit \in GasLimits
    BY DEF MeterInv
<1> HIDE DEF amount
<1>4. Books(charged, entered, spent', gasLimit) /\ Depth(charged) = Depth(tracker)
    BY <1>1, <1>2, <1>3, ChargeBooks
<1> HIDE DEF charged
<1>5. /\ charged \in Trackers /\ entered \in Seq(Nat) /\ spent' \in Nat
      /\ Nested(charged) /\ Balanced(charged, entered, spent')
      /\ LimitOf(charged, 0) = Smaller(gasLimit * Precision, MaxGas)
    BY <1>4 DEF Books
<1>6. frame \in Frames /\ frame.limited = limited
    BY GasAssumption DEF NewFrame, Frames
<1> HIDE DEF frame
<1>7. /\ Books(tracker', entered', spent', gasLimit')
      /\ Depth(tracker') = Depth(tracker) + Step(frame)
    <2>1. CASE limited
        <3> DEFINE p == PushLimit(charged, callLimit)
        <3>1. /\ p \in Trackers /\ Depth(p) = Depth(charged) + 1
              /\ LimitOf(p, 0) = LimitOf(charged, 0) /\ Nested(p)
              /\ Balanced(p, Append(entered, spent'), spent')
            BY <1>5, PushKeeps
        <3> HIDE DEF p
        <3>2. tracker' = p /\ entered' = Append(entered, spent')
            BY <1>1, <2>1 DEF p
        <3>3. Append(entered, spent') \in Seq(Nat)
            BY <1>5
        <3>4. Books(tracker', entered', spent', gasLimit')
            BY <1>1, <1>5, <3>1, <3>2, <3>3 DEF Books
        <3>5. Step(frame) = 1
            BY <1>6, <2>1 DEF Step
        <3> QED BY <1>4, <3>1, <3>2, <3>4, <3>5
    <2>2. CASE ~ limited
        <3>1. tracker' = charged /\ entered' = entered
            BY <1>1, <2>2
        <3>2. Step(frame) = 0
            BY <1>6, <2>2 DEF Step
        <3>3. Depth(tracker) \in Nat
            BY <1>3, TrackerFields DEF Books
        <3> QED BY <1>1, <1>4, <3>1, <3>2, <3>3
    <2> QED BY <2>1, <2>2
<1>8. /\ frames # <<>> /\ frames \in Seq(Frames) /\ Len(frames) \in Nat
      /\ Len(frames) \in 1 .. Len(frames) /\ frames[1].limited = FALSE
      /\ LimitedFrames(frames, Depth(tracker)) /\ Depth(tracker) \in Nat
    BY <1>1, TopFrame, TrackerFields
<1>9. LimitedFrames(frames', Depth(tracker'))
    BY <1>1, <1>6, <1>7, <1>8, CountPush
<1>10. frames' \in Seq(Frames) /\ frames' # <<>> /\ frames'[1] = frames[1]
    BY <1>1, <1>6, <1>8
<1>11. Stack(frames', status', tracker')
    BY <1>1, <1>8, <1>9, <1>10 DEF Stack, Statuses
<1> QED BY <1>1, <1>3, <1>7, <1>11 DEF MeterInv, OutOfGasIsEmpty

\* A call ends.
LEMMA FinishStep ==
    ASSUME MeterInv, NEW host \in HostCharges, Finish(host)
    PROVE  MeterInv'
PROOF
<1> DEFINE trapped == status = "oog" \/ Top.global < 0
           amount == ExecCharge(Top) + (IF trapped THEN 0 ELSE host)
           charged == Charge(tracker, amount)
           outOfGas == status = "oog" \/ OutOfGas(tracker, amount)
           callers == SubSeq(frames, 1, Len(frames) - 1)
           aborts == outOfGas /\ Available(tracker') = 0
<1>1. /\ status \in {"run", "oog"}
      /\ tracker' = IF Top.limited THEN PopLimit(charged) ELSE charged
      /\ spent' = spent + (charged.used - tracker.used)
      /\ entered' = IF Top.limited THEN SubSeq(entered, 1, Len(entered) - 1) ELSE entered
      /\ pending' = 0 /\ early' = FALSE /\ gasLimit' = gasLimit
    BY DEF Finish
<1>2. IF callers = <<>>
      THEN status' = "done" /\ frames' = <<>>
      ELSE /\ status' = IF aborts THEN "oog" ELSE "run"
           /\ frames' = [callers EXCEPT ![Len(callers)] = Updated(@, tracker')]
    BY DEF Finish
<1>3. status # "done"
    BY <1>1
<1>4. amount \in Nat
    BY <1>3, ChargeAmounts
<1>5. Books(tracker, entered, spent, gasLimit) /\ gasLimit \in GasLimits
    BY DEF MeterInv
<1> HIDE DEF amount
<1>6. Books(charged, entered, spent', gasLimit) /\ Depth(charged) = Depth(tracker)
    BY <1>1, <1>4, <1>5, ChargeBooks
<1> HIDE DEF charged
<1>7. /\ charged \in Trackers /\ entered \in Seq(Nat) /\ spent' \in Nat
      /\ Nested(charged) /\ Balanced(charged, entered, spent')
      /\ LimitOf(charged, 0) = Smaller(gasLimit * Precision, MaxGas)
    BY <1>6 DEF Books
<1>8. /\ frames # <<>> /\ frames \in Seq(Frames) /\ Len(frames) \in Nat
      /\ Len(frames) \in 1 .. Len(frames) /\ frames[1].limited = FALSE
      /\ Top \in Frames
      /\ LimitedFrames(frames, Depth(tracker)) /\ Depth(tracker) \in Nat
    BY <1>3, TopFrame, TrackerFields
<1>9. /\ Depth(tracker) - Step(Top) \in Nat
      /\ LimitedFrames(callers, Depth(tracker) - Step(Top))
    BY <1>8, CountPop DEF Top
<1>10. /\ Books(tracker', entered', spent', gasLimit')
       /\ Depth(tracker') = Depth(tracker) - Step(Top)
    <2>1. CASE Top.limited
        <3> DEFINE p == PopLimit(charged)
                   f == SubSeq(entered, 1, Len(entered) - 1)
        <3>1. Step(Top) = 1
            BY <2>1 DEF Step
        <3>2. Depth(charged) > 0
            BY <1>6, <1>8, <1>9, <3>1
        <3>3. /\ p \in Trackers /\ Depth(p) = Depth(charged) - 1
              /\ LimitOf(p, 0) = LimitOf(charged, 0) /\ Nested(p)
              /\ f \in Seq(Nat) /\ Balanced(p, f, spent')
            BY <1>7, <3>2, PopKeeps
        <3> HIDE DEF p, f
        <3>4. tracker' = p /\ entered' = f
            BY <1>1, <2>1 DEF p, f
        <3>5. Books(p, f, spent', gasLimit)
            BY <1>7, <3>3 DEF Books
        <3> QED BY <1>1, <1>6, <3>1, <3>3, <3>4, <3>5
    <2>2. CASE ~ Top.limited
        <3>1. tracker' = charged /\ entered' = entered
            BY <1>1, <2>2
        <3>2. Step(Top) = 0
            BY <2>2 DEF Step
        <3>3. Books(tracker', entered', spent', gasLimit')
            BY <1>1, <1>6, <3>1
        <3>4. Depth(tracker) = Depth(tracker) - 0
            BY <1>8
        <3> QED BY <1>6, <3>1, <3>2, <3>3, <3>4
    <2> QED BY <2>1, <2>2
<1>11. tracker' \in Trackers /\ LimitedFrames(callers, Depth(tracker'))
    <2>1. tracker' \in Trackers
        BY <1>10 DEF Books
    <2>2. LimitedFrames(callers, Depth(tracker'))
        <3> HIDE DEF callers
        <3> QED BY <1>9, <1>10
    <2> QED BY <2>1, <2>2
<1>12. /\ callers \in Seq(Frames) /\ Len(callers) = Len(frames) - 1
       /\ \A n \in 1 .. Len(frames) - 1 : callers[n] = frames[n]
    BY <1>8, FrontOf
<1> HIDE DEF callers
<1>13. CASE callers = <<>>
    <2>1. status' = "done" /\ frames' = <<>>
        BY <1>2, <1>13
    <2>2. Stack(frames', status', tracker')
        BY <1>11, <1>13, <2>1 DEF Stack, Statuses
    <2> QED BY <1>1, <1>5, <1>10, <2>1, <2>2 DEF MeterInv, OutOfGasIsEmpty
<1>14. CASE callers # <<>>
    <2> DEFINE frame == Updated(callers[Len(callers)], tracker')
    <2>1. /\ status' = IF aborts THEN "oog" ELSE "run"
          /\ frames' = [callers EXCEPT ![Len(callers)] = frame]
        BY <1>2, <1>12, <1>14
    <2>2. Len(callers) \in 1 .. Len(callers) /\ 1 \in 1 .. Len(frames) - 1
        BY <1>8, <1>12, <1>14
    <2>3. callers[Len(callers)] \in Frames /\ callers[1].limited = FALSE
        BY <1>8, <1>12, <2>2
    <2>4. /\ frame \in Frames /\ frame.limited = callers[Len(callers)].limited
          /\ Counter(frame, tracker', 0, FALSE)
        BY <1>11, <2>3, UpdatedFrame
    <2> HIDE DEF frame
    <2>5. /\ frames' \in Seq(Frames) /\ frames' # <<>>
          /\ frames'[Len(frames')] = frame /\ frames'[1].limited = FALSE
          /\ LimitedFrames(frames', Depth(tracker'))
        BY <1>11, <1>12, <1>14, <2>1, <2>3, <2>4, SetTop
    <2>6. Top' = frame
        BY <2>5 DEF Top
    <2>7. status' \in {"oog", "run"} /\ (status' = "oog" => Available(tracker') = 0)
        BY <2>1
    <2>8. Stack(frames', status', tracker')
        BY <2>5, <2>7 DEF Stack, Statuses
    <2>9. OutOfGasIsEmpty'
        BY <2>7 DEF OutOfGasIsEmpty
    <2> QED BY <1>1, <1>5, <1>10, <2>4, <2>6, <2>8, <2>9 DEF MeterInv
<1> QED BY <1>13, <1>14

\* Steps that leave everything as it is.
LEMMA StutterStep ==
    ASSUME MeterInv, UNCHANGED vars
    PROVE  MeterInv'
PROOF
<1>1. /\ gasLimit' = gasLimit /\ tracker' = tracker /\ frames' = frames /\ status' = status
      /\ spent' = spent /\ entered' = entered /\ pending' = pending /\ early' = early
    BY DEF vars
<1> QED BY <1>1 DEF MeterInv, OutOfGasIsEmpty, Top

LEMMA MeterInvHolds == Spec => []MeterInv
PROOF
<1>1. MeterInv /\ [Next]_vars => MeterInv'
    <2> SUFFICES ASSUME MeterInv, [Next]_vars PROVE MeterInv'
        OBVIOUS
    <2>1. CASE \E host \in HostCharges : Enter(host) \/ Syscall(host) \/ Finish(host)
        BY <2>1, EnterStep, SyscallStep, FinishStep
    <2>2. CASE SyscallNoSpace
        BY <2>2, SyscallNoSpaceStep
    <2>3. CASE \E cost \in ExecCosts : Exec(cost)
        BY <2>3, ExecStep
    <2>4. CASE Send(FALSE, 0)
        BY <2>4, SendStep
    <2>5. CASE \E callLimit \in CallLimits : Send(TRUE, callLimit)
        <3>1. PICK callLimit \in CallLimits : Send(TRUE, callLimit)
            BY <2>5
        <3>2. callLimit \in Nat
            BY MeteringAssumption, GasAssumption DEF Amounts, U64Max
        <3> QED BY <3>1, <3>2, SendStep
    <2>6. CASE UNCHANGED vars
        BY <2>6, StutterStep
    <2> QED BY <2>1, <2>2, <2>3, <2>4, <2>5, <2>6 DEF Next
<1> QED BY <1>1, InitMeter, PTL DEF Spec

-----------------------------------------------------------------------------
(* The theorems. *)

\* A message's metering keeps its state well formed: what is used, the limits and
\* the counters stay within their integers.
THEOREM MeteringTypes == Spec => []TypeOK
PROOF
<1>1. MeterInv => TypeOK
    BY DEF MeterInv, Books, Stack, TypeOK
<1> QED BY <1>1, MeterInvHolds, PTL

\* For any limits and any nesting of calls, push_limit and pop_limit neither lose
\* gas nor count it twice.
THEOREM GasConserved == Spec => []BooksBalance
PROOF
<1>1. MeterInv => BooksBalance
    BY DEF MeterInv, Books, Balanced, Depth, UsedOf, Before,
           BooksBalance, Levels, UsedAt, SpentBefore
<1> QED BY <1>1, MeterInvHolds, PTL

\* For any limits and any nesting of calls, no call has more gas than its caller
\* has left, and no level overspends.
THEOREM LimitsAlwaysNest == Spec => []LimitsNest
PROOF
<1>1. MeterInv => LimitsNest
    BY DEF MeterInv, Books, Nested, Depth, UsedOf, LimitOf,
           LimitsNest, Levels, UsedAt, LimitAt
<1> QED BY <1>1, MeterInvHolds, PTL

\* The receipt of every message accounts for all the gas charged and is within the
\* message's limit, rounding and the cap of the tracker's limit included.
THEOREM ReceiptsWithinLimits == Spec => []ReceiptWithinLimit
PROOF
<1>1. MeterInv => ReceiptWithinLimit
    <2> SUFFICES ASSUME MeterInv, status = "done"
                 PROVE  /\ tracker.snapshots = <<>>
                        /\ tracker.used = spent
                        /\ RoundUp(tracker.used) <= gasLimit
        BY DEF ReceiptWithinLimit
    <2>1. /\ frames = <<>> /\ LimitedFrames(frames, Depth(tracker))
          /\ tracker \in Trackers /\ Nested(tracker) /\ Balanced(tracker, entered, spent)
          /\ LimitOf(tracker, 0) = Smaller(gasLimit * Precision, MaxGas)
          /\ gasLimit \in GasLimits /\ spent \in Nat
        BY DEF MeterInv, Books, Stack
    <2>2. Depth(tracker) = 0
        BY <2>1, CountNone
    <2>3. /\ tracker.snapshots \in Seq(Snapshots) /\ tracker.used \in Nat
          /\ tracker.limit \in Nat
        BY <2>1, TrackerFields
    <2>4. tracker.snapshots = <<>>
        BY <2>2, <2>3 DEF Depth
    <2>5. 0 \in 0 .. Depth(tracker)
        BY <2>2
    <2>6. UsedOf(tracker, 0) = tracker.used /\ LimitOf(tracker, 0) = tracker.limit
        BY <2>2 DEF UsedOf, LimitOf
    <2>7. tracker.used = spent
        <3>1. 0 + tracker.used = spent
            BY <2>1, <2>2, <2>5, <2>6 DEF Balanced, Before
        <3> QED BY <2>3, <3>1
    <2>8. gasLimit \in Nat /\ Precision \in Nat /\ MaxGas \in Nat /\ gasLimit * Precision \in Nat
        BY <2>1, MeteringAssumption, GasAssumption
    <2>9. tracker.used <= tracker.limit
        BY <2>1, <2>5, <2>6 DEF Nested
    <2>10. tracker.limit <= gasLimit * Precision
        BY <2>1, <2>6, <2>8 DEF Smaller
    <2>11. tracker.used <= gasLimit * Precision
        BY <2>3, <2>8, <2>9, <2>10
    <2>12. RoundUp(tracker.used) <= gasLimit
        BY <2>3, <2>8, <2>11, RoundUpWithin
    <2> QED BY <2>4, <2>7, <2>12
<1> QED BY <1>1, MeterInvHolds, PTL

\* No instruction escapes its charge, and but for syscalls that return early the
\* counter of the running instance is exact, whatever the code costs.
THEOREM CountersAlwaysExact == Spec => []CountersExact
PROOF
<1>1. MeterInv => CountersExact
    <2> SUFFICES ASSUME MeterInv, status = "run"
                 PROVE  /\ ExecCharge(Top) >= pending
                        /\ ~ early => /\ Top.global = Available(tracker) - pending
                                      /\ ExecCharge(Top) = pending
        BY DEF CountersExact
    <2>1. /\ Counter(Top, tracker, pending, early) /\ pending \in Nat
          /\ Top \in Frames /\ tracker \in Trackers
        BY TopFrame DEF MeterInv
    <2>2. Top.last \in Int /\ Top.global \in Int /\ Available(tracker) \in Int
        BY <2>1, AvailableFits, GasAssumption DEF Frames
    <2>3. /\ Top.global >= 0 - (MaxGas + 1) /\ Top.last - Top.global >= pending
          /\ ~ early => Top.last = Available(tracker) /\ Top.last - Top.global = pending
        BY <2>1 DEF Counter
    <2>4. ExecCharge(Top) = Top.last - Top.global
        BY <2>1, <2>3, ExecChargeExact
    <2> QED BY <2>1, <2>2, <2>3, <2>4
<1> QED BY <1>1, MeterInvHolds, PTL

\* Only an actor whose gas is gone is aborted for being out of gas.
THEOREM OutOfGasMeansEmpty == Spec => []OutOfGasIsEmpty
PROOF
<1>1. MeterInv => OutOfGasIsEmpty
    BY DEF MeterInv
<1> QED BY <1>1, MeterInvHolds, PTL
=============================================================================
