----------------------------- MODULE GasTracker -----------------------------
(***************************************************************************)
(* GasTracker (gas/mod.rs): the gas used under a stack of nested limits.   *)
(* A tracker is a record: the current limit, the gas used under it, and a  *)
(* snapshot of both for every limit that was pushed.  All amounts are in   *)
(* milligas, held in a u64 with saturating arithmetic; a limit is at most  *)
(* MaxGas, because the Wasm gas counter is an i64.                         *)
(***************************************************************************)
EXTENDS Integers, Sequences

CONSTANTS
    MaxGas,      \* i64::MAX
    Precision    \* MILLIGAS_PRECISION

ASSUME GasAssumption == MaxGas \in Nat /\ Precision \in Nat \ {0}

U64Max == 2 * MaxGas + 1
Amounts == 0 .. U64Max
Smaller(a, b) == IF a <= b THEN a ELSE b

\* Gas's Add and Sub.
SatAdd(a, b) == Smaller(a + b, U64Max)
SatSub(a, b) == IF a <= b THEN 0 ELSE a - b

\* Gas::new, of whole gas.
FromGas(gas) == Smaller(gas * Precision, U64Max)

\* round_up that adds a unit also when nothing is left over.
RoundUpAlways(milligas) == (milligas \div Precision) + 1

\* round_up, of milligas.
RoundUp(milligas) == (milligas \div Precision) + (IF milligas % Precision # 0 THEN 1 ELSE 0)

Snapshots == [limit : 0 .. MaxGas, used : Amounts]
Trackers == [limit : 0 .. MaxGas, used : Amounts, snapshots : Seq(Snapshots)]

\* GasTracker::new.
NewTracker(gasLimit, gasUsed) ==
    LET limit == Smaller(gasLimit, MaxGas)
    IN  [limit |-> limit, used |-> Smaller(gasUsed, limit), snapshots |-> <<>>]

\* gas_available.
Available(t) == SatSub(t.limit, t.used)

\* charge_gas_inner, when the charge is refused.
OutOfGas(t, amount) == SatAdd(t.used, amount) > t.limit

\* charge_gas_inner that uses more than the limit, or nothing, when it refuses.
ChargeUncapped(t, amount) == [t EXCEPT !.used = SatAdd(t.used, amount)]
ChargeUnlessRefused(t, amount) ==
    [t EXCEPT !.used = IF OutOfGas(t, amount) THEN t.used ELSE SatAdd(t.used, amount)]

\* charge_gas_inner: a refused charge uses up the limit.
Charge(t, amount) ==
    [t EXCEPT !.used = IF OutOfGas(t, amount) THEN t.limit ELSE SatAdd(t.used, amount)]

\* push_limit that forgets what is left under the current limit.
PushAnyLimit(t, newLimit) ==
    [limit     |-> newLimit,
     used      |-> 0,
     snapshots |-> Append(t.snapshots, [limit |-> t.limit, used |-> t.used])]

\* push_limit.
PushLimit(t, newLimit) ==
    [limit     |-> Smaller(Available(t), newLimit),
     used      |-> 0,
     snapshots |-> Append(t.snapshots, [limit |-> t.limit, used |-> t.used])]

\* pop_limit that restores the gas used as well as the limit.
PopLimitForgets(t) ==
    LET snap == t.snapshots[Len(t.snapshots)]
    IN  [limit     |-> snap.limit,
         used      |-> snap.used,
         snapshots |-> SubSeq(t.snapshots, 1, Len(t.snapshots) - 1)]

\* pop_limit, of a tracker with a limit to pop.
PopLimit(t) ==
    LET snap == t.snapshots[Len(t.snapshots)]
    IN  [limit     |-> snap.limit,
         used      |-> SatAdd(t.used, snap.used),
         snapshots |-> SubSeq(t.snapshots, 1, Len(t.snapshots) - 1)]
=============================================================================
