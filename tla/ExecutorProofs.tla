--------------------------- MODULE ExecutorProofs ---------------------------
(***************************************************************************)
(* Executor, for any number of actors and messages and all fees and gas    *)
(* amounts.  The sender of an executed message is an account for good,     *)
(* which is why it is still there to be refunded and its sequence never    *)
(* goes back; the gas in a receipt is within the message's limit, which is *)
(* why the fee can be split.                                               *)
(***************************************************************************)
EXTENDS Executor, CommonProofs, FiniteSetTheorems

-----------------------------------------------------------------------------
(* Gas: the tracker's operations, and the split of the fee. *)

\* Products respect the order of their factors.
LEMMA ProductOrder ==
    ASSUME NEW a \in Nat, NEW b \in Nat, NEW c \in Nat, a <= b
    PROVE  /\ c * a \in Nat /\ c * b \in Nat
           /\ c * a <= c * b
           /\ a * c \in Nat /\ b * c \in Nat
           /\ a * c <= b * c
PROOF
<1>1. PICK d \in Nat : b = a + d
    <2>1. b - a \in Nat
        OBVIOUS
    <2> QED BY <2>1
<1>2. c * d \in Nat /\ c * a \in Nat
    OBVIOUS
<1>3. c * b = c * a + c * d
    BY <1>1
<1> QED BY <1>2, <1>3

\* What integer division says of its result.
LEMMA Division ==
    ASSUME NEW a \in Nat, NEW b \in Nat \ {0}
    PROVE  /\ a \div b \in Nat
           /\ b * (a \div b) <= a
           /\ a < b * (a \div b) + b
PROOF
    BY SMT

\* Rounding up to whole gas respects limits given in whole gas: comparing milligas
\* with a limit, and whole gas with it, comes to the same.
LEMMA RoundUpWithin ==
    ASSUME NEW milligas \in Nat, NEW gas \in Nat
    PROVE  /\ RoundUp(milligas) \in Nat
           /\ RoundUp(milligas) <= gas <=> milligas <= gas * Precision
PROOF
<1> DEFINE q == milligas \div Precision
           r == milligas % Precision
<1>1. q \in Nat /\ r \in Nat /\ r < Precision /\ milligas = Precision * q + r
    BY GasAssumption, SMT
<1>2. RoundUp(milligas) = IF r # 0 THEN q + 1 ELSE q
    BY <1>1 DEF RoundUp
<1> HIDE DEF q, r
<1>3. ASSUME q <= gas PROVE Precision * q <= gas * Precision
    BY <1>1, <1>3, GasAssumption, ProductOrder
<1>4. ASSUME q + 1 <= gas PROVE Precision * q + Precision <= gas * Precision
    <2>1. Precision * (q + 1) <= gas * Precision
        BY <1>1, <1>4, GasAssumption, ProductOrder
    <2>2. Precision * (q + 1) = Precision * q + Precision
        BY <1>1, GasAssumption
    <2> QED BY <2>1, <2>2
<1>5. ASSUME gas < q PROVE gas * Precision + Precision <= Precision * q
    <2>1. Precision * (gas + 1) <= Precision * q
        BY <1>1, <1>5, GasAssumption, ProductOrder
    <2>2. Precision * (gas + 1) = gas * Precision + Precision
        BY GasAssumption
    <2> QED BY <2>1, <2>2
<1>6. Precision * q \in Nat /\ gas * Precision \in Nat
    BY <1>1, GasAssumption
<1>7. CASE q + 1 <= gas
    BY <1>1, <1>2, <1>4, <1>6, <1>7, GasAssumption
<1>8. CASE q = gas
    <2>1. Precision * q = gas * Precision
        BY <1>8, GasAssumption
    <2> QED BY <1>1, <1>2, <1>6, <1>8, <2>1
<1>9. CASE gas < q
    BY <1>1, <1>2, <1>5, <1>6, <1>9, GasAssumption
<1> QED BY <1>1, <1>7, <1>8, <1>9

\* The trackers that code can get hold of: within their limit.
WithinLimit(t) == t \in Trackers /\ t.used <= t.limit

\* A new tracker has the whole limit of the message, as far as an i64 goes.
LEMMA NewTrackerWithin ==
    ASSUME NEW gas \in Nat
    PROVE  /\ WithinLimit(NewTracker(FromGas(gas), 0))
           /\ NewTracker(FromGas(gas), 0).limit = Smaller(gas * Precision, MaxGas)
           /\ NewTracker(FromGas(gas), 0).used = 0
           /\ NewTracker(FromGas(gas), 0).snapshots = <<>>
PROOF
<1>1. gas * Precision \in Nat /\ MaxGas \in Nat
    BY GasAssumption
<1>2. <<>> \in Seq(Snapshots)
    OBVIOUS
<1> QED BY <1>1, <1>2 DEF WithinLimit, Trackers, NewTracker, FromGas, Smaller, U64Max, Amounts

\* A charge keeps the tracker within its limit and leaves the limits alone.
LEMMA ChargeWithin ==
    ASSUME NEW t, WithinLimit(t), NEW amount \in Nat
    PROVE  /\ WithinLimit(Charge(t, amount))
           /\ Charge(t, amount).limit = t.limit
           /\ Charge(t, amount).snapshots = t.snapshots
           /\ Charge(t, amount).used >= t.used
           /\ OutOfGas(t, amount) => Charge(t, amount).used = t.limit
           /\ ~ OutOfGas(t, amount) => Charge(t, amount).used = t.used + amount
           /\ OutOfGas(t, amount) <=> t.used + amount > t.limit
PROOF
<1>1. /\ t.limit \in 0 .. MaxGas /\ t.used \in Nat /\ t.used <= t.limit
      /\ t = [limit |-> t.limit, used |-> t.used, snapshots |-> t.snapshots]
      /\ t.snapshots \in Seq(Snapshots)
    BY DEF WithinLimit, Trackers, Amounts
<1>2. MaxGas \in Nat
    BY GasAssumption
<1>3. OutOfGas(t, amount) <=> t.used + amount > t.limit
    BY <1>1, <1>2 DEF OutOfGas, SatAdd, Smaller, U64Max
<1>4. ~ OutOfGas(t, amount) => SatAdd(t.used, amount) = t.used + amount
    BY <1>1, <1>2, <1>3 DEF SatAdd, Smaller, U64Max
<1> DEFINE used == IF OutOfGas(t, amount) THEN t.limit ELSE SatAdd(t.used, amount)
<1>5. used \in Nat /\ used <= t.limit /\ t.used <= used /\ used \in Amounts
    BY <1>1, <1>2, <1>3, <1>4 DEF Amounts, U64Max
<1>6. Charge(t, amount) = [limit |-> t.limit, used |-> used, snapshots |-> t.snapshots]
    BY <1>1 DEF Charge
<1>7. Charge(t, amount) \in Trackers
    <2> HIDE DEF used
    <2> QED BY <1>1, <1>5, <1>6 DEF Trackers
<1> QED BY <1>1, <1>3, <1>4, <1>5, <1>6, <1>7 DEF WithinLimit

\* compute_gas_overestimation_burn "will never be greater than 100% of the
\* remaining gas": a fraction of r units, by over/used with over <= used, is at
\* most r units.
LEMMA FractionBounded ==
    ASSUME NEW r \in Nat, NEW over \in Nat, NEW used \in Nat \ {0}, over <= used
    PROVE  (r * over) \div used \in 0 .. r
PROOF
<1> DEFINE q == (r * over) \div used
<1>1. r * over \in Nat /\ r * used \in Nat /\ r * over <= r * used
    BY ProductOrder
<1>2. q \in Nat /\ used * q <= r * over
    BY <1>1, Division
<1> HIDE DEF q
<1>3. SUFFICES ASSUME r + 1 <= q PROVE FALSE
    BY <1>2 DEF q
<1>4. used * (r + 1) <= used * q
    BY <1>2, <1>3, ProductOrder
<1>5. used * (r + 1) = r * used + used
    OBVIOUS
<1> QED BY <1>1, <1>2, <1>4, <1>5

\* Every unit of gas of the limit is used, burned or refunded, and an estimate
\* within 10% of the gas used burns nothing, whatever the amounts.
THEOREM GasSplit ==
    ASSUME NEW gasUsed \in Nat, NEW gasLimit \in Nat, gasUsed <= gasLimit
    PROVE  GasIsPartitioned(gasUsed, gasLimit)
PROOF
<1> DEFINE gas == OverestimationBurn(gasUsed, gasLimit)
           bound == (11 * gasUsed) \div 10
           over == Least(Monus(gasLimit, bound), gasUsed)
           remaining == gasLimit - gasUsed
           burned == (remaining * over) \div gasUsed
<1>1. CASE gasUsed = 0
    BY <1>1 DEF GasIsPartitioned, OverestimationBurn
<1>2. CASE gasUsed # 0
    <2>1. bound \in Nat /\ (10 * gasLimit <= 11 * gasUsed => gasLimit <= bound)
        BY SMT
    <2>2. over \in Nat /\ over <= gasUsed /\ (gasLimit <= bound => over = 0)
        BY <2>1 DEF Least, Monus
    <2>3. remaining \in Nat /\ remaining = Monus(gasLimit, gasUsed)
        BY DEF Monus
    <2>4. burned \in 0 .. remaining
        <3> HIDE DEF over, remaining
        <3> QED BY <1>2, <2>2, <2>3, FractionBounded
    <2>5. over = 0 => burned = 0
        <3> HIDE DEF over, remaining
        <3>1. remaining * 0 = 0
            BY <2>3
        <3>2. 0 \div gasUsed = 0
            BY <1>2, Division
        <3> QED BY <3>1, <3>2
    <2>6. gas = [refund |-> Monus(remaining, burned), burned |-> burned]
        BY <1>2, <2>3 DEF OverestimationBurn
    <2>7. Monus(remaining, burned) = remaining - burned
        <3> HIDE DEF burned, remaining
        <3> QED BY <2>3, <2>4 DEF Monus
    <2>8. gas.burned = burned /\ gas.refund = remaining - burned
        BY <2>6, <2>7
    <2> HIDE DEF burned, gas, over, bound
    <2> QED BY <2>1, <2>2, <2>4, <2>5, <2>8 DEF GasIsPartitioned, gas
<1> QED BY <1>1, <1>2

\* What the fees of compute come to, for fees that are not negative.
LEMMA FeesPerGas ==
    ASSUME NEW baseFee \in Nat, NEW feeCap \in Nat, NEW premium \in Nat
    PROVE  /\ BaseFeeToPay(baseFee, feeCap) \in Nat
           /\ TipPerGas(baseFee, feeCap, premium) \in Nat
           /\ BaseFeeToPay(baseFee, feeCap) <= baseFee
           /\ BaseFeeToPay(baseFee, feeCap) + TipPerGas(baseFee, feeCap, premium) <= feeCap
           /\ TipPerGas(baseFee, feeCap, premium) <= premium
PROOF
    BY DEF BaseFeeToPay, TipPerGas, Least

\* Nothing that is paid out of the fee is negative, and together it is the fee:
\* finish_message returns neither of its two errors, whatever the amounts.
THEOREM FeeSplit ==
    ASSUME NEW gasUsed \in Nat, NEW gasLimit \in Nat, gasUsed <= gasLimit,
           NEW baseFee \in Nat, NEW feeCap \in Nat, NEW premium \in Nat
    PROVE  FeeIsPartitioned(gasUsed, gasLimit, baseFee, feeCap, premium)
PROOF
<1> DEFINE pay == BaseFeeToPay(baseFee, feeCap)
           tip == TipPerGas(baseFee, feeCap, premium)
           burned == OverestimationBurn(gasUsed, gasLimit).burned
           out == Compute(gasUsed, gasLimit, baseFee, feeCap, premium)
<1>1. /\ pay \in Nat /\ tip \in Nat /\ pay <= baseFee /\ pay + tip <= feeCap
    BY FeesPerGas
<1>2. burned \in Nat /\ gasUsed + burned <= gasLimit
    BY GasSplit DEF GasIsPartitioned
<1>3. /\ out.baseFeeBurn = pay * gasUsed
      /\ out.overEstimationBurn = pay * burned
      /\ out.minerTip = tip * gasLimit
      /\ out.minerPenalty = (baseFee - pay) * gasUsed + (baseFee - pay) * burned
      /\ out.refund = feeCap * gasLimit - pay * gasUsed - tip * gasLimit - pay * burned
    BY DEF Compute
<1> HIDE DEF pay, tip, burned, out
<1>4. pay * gasUsed \in Nat /\ pay * burned \in Nat /\ tip * gasLimit \in Nat
    BY <1>1, <1>2
<1>5. (baseFee - pay) * gasUsed \in Nat /\ (baseFee - pay) * burned \in Nat
    <2>1. baseFee - pay \in Nat
        BY <1>1
    <2> QED BY <2>1, <1>2
<1>6. pay * gasUsed + pay * burned <= pay * gasLimit
    <2>1. pay * (gasUsed + burned) <= pay * gasLimit
        BY <1>1, <1>2, ProductOrder
    <2>2. pay * (gasUsed + burned) = pay * gasUsed + pay * burned
        BY <1>1, <1>2
    <2> QED BY <2>1, <2>2
<1>7. pay * gasLimit + tip * gasLimit <= feeCap * gasLimit
    <2>1. (pay + tip) * gasLimit <= feeCap * gasLimit
        BY <1>1, ProductOrder
    <2>2. (pay + tip) * gasLimit = pay * gasLimit + tip * gasLimit
        BY <1>1
    <2> QED BY <2>1, <2>2
<1>8. feeCap * gasLimit \in Nat /\ pay * gasLimit \in Nat
    BY <1>1
<1>9. out.refund \in Nat
    BY <1>3, <1>4, <1>6, <1>7, <1>8
<1>10. out.baseFeeBurn + out.overEstimationBurn + out.refund + out.minerTip
         = feeCap * gasLimit
    BY <1>3, <1>4, <1>8
<1>11. /\ out.baseFeeBurn \in Nat /\ out.overEstimationBurn \in Nat
       /\ out.minerTip \in Nat /\ out.minerPenalty \in Nat
    BY <1>3, <1>4, <1>5
<1> QED BY <1>9, <1>10, <1>11 DEF FeeIsPartitioned, out

\* A negative premium: the base fee is part of the fee, and the tip is negative.
LEMMA NegativePremium ==
    ASSUME NEW gasUsed \in Nat, NEW gasLimit \in Nat \ {0}, gasUsed <= gasLimit,
           NEW baseFee \in Nat, NEW feeCap \in Nat, NEW premium \in Int, premium < 0
    PROVE  LET out == Compute(gasUsed, gasLimit, baseFee, feeCap, premium)
           IN  /\ out.baseFeeBurn \in Nat /\ out.baseFeeBurn <= feeCap * gasLimit
               /\ out.minerTip \in Int /\ out.minerTip < 0
PROOF
<1> DEFINE pay == BaseFeeToPay(baseFee, feeCap)
           out == Compute(gasUsed, gasLimit, baseFee, feeCap, premium)
<1>1. pay \in Nat /\ pay <= feeCap /\ TipPerGas(baseFee, feeCap, premium) = premium
    BY DEF BaseFeeToPay, TipPerGas, Least
<1>2. out.baseFeeBurn = pay * gasUsed /\ out.minerTip = premium * gasLimit
    BY <1>1 DEF Compute
<1> HIDE DEF pay, out
<1>3. pay * gasUsed \in Nat /\ pay * gasUsed <= feeCap * gasLimit
    <2>1. pay * gasUsed \in Nat /\ pay * gasUsed <= pay * gasLimit
        BY <1>1, ProductOrder
    <2>2. pay * gasLimit \in Nat /\ feeCap * gasLimit \in Nat /\ pay * gasLimit <= feeCap * gasLimit
        BY <1>1, ProductOrder
    <2> QED BY <2>1, <2>2
<1>4. premium * gasLimit \in Int /\ premium * gasLimit < 0
    <2>1. -premium \in Nat \ {0} /\ (-premium) * gasLimit = -(premium * gasLimit)
        OBVIOUS
    <2>2. 1 * gasLimit <= (-premium) * gasLimit
        BY <2>1, ProductOrder
    <2> QED BY <2>1, <2>2
<1> QED BY <1>2, <1>3, <1>4 DEF out

\* The burns and the miner's penalty are together the base fee of the gas used and
\* burned, whatever the amounts.
THEOREM BaseFeeSplit ==
    ASSUME NEW gasUsed \in Nat, NEW gasLimit \in Nat, gasUsed <= gasLimit,
           NEW baseFee \in Nat, NEW feeCap \in Nat, NEW premium \in Nat
    PROVE  BaseFeeIsCovered(gasUsed, gasLimit, baseFee, feeCap, premium)
PROOF
<1> DEFINE pay == BaseFeeToPay(baseFee, feeCap)
           burned == OverestimationBurn(gasUsed, gasLimit).burned
           out == Compute(gasUsed, gasLimit, baseFee, feeCap, premium)
<1>1. pay \in Nat /\ burned \in Nat
    <2>1. pay \in Nat
        BY FeesPerGas
    <2>2. burned \in 0 .. gasLimit - gasUsed
        BY GasSplit DEF GasIsPartitioned
    <2> QED BY <2>1, <2>2
<1>2. /\ out.baseFeeBurn = pay * gasUsed
      /\ out.overEstimationBurn = pay * burned
      /\ out.minerPenalty = (baseFee - pay) * gasUsed + (baseFee - pay) * burned
    BY DEF Compute
<1> HIDE DEF pay, burned, out
<1>3. (baseFee - pay) * gasUsed = baseFee * gasUsed - pay * gasUsed
    BY <1>1
<1>4. (baseFee - pay) * burned = baseFee * burned - pay * burned
    BY <1>1
<1>5. baseFee * (gasUsed + burned) = baseFee * gasUsed + baseFee * burned
    BY <1>1
<1>6. /\ pay * gasUsed \in Nat /\ pay * burned \in Nat
      /\ baseFee * gasUsed \in Nat /\ baseFee * burned \in Nat
    BY <1>1
<1>7. out.baseFeeBurn + out.overEstimationBurn + out.minerPenalty
        = baseFee * (gasUsed + burned)
    BY <1>2, <1>3, <1>4, <1>5, <1>6
<1> QED BY <1>7 DEF BaseFeeIsCovered, out, burned

-----------------------------------------------------------------------------
(* The inductive invariant, and the messages it is about. *)

\* An account: an actor that sends messages and does not destroy itself.
IsAccount(i) == Exists(i) /\ actors[i].code \in {"account", "ethaccount"}

ExecInv ==
    /\ TypeOK
    /\ Exists(Burnt) /\ Exists(Reward)
    /\ \A e \in executed : IsAccount(e[1]) /\ e[2] < actors[e[1]].sequence
    /\ phase # "idle" =>
          /\ msg \in Messages /\ msg.from \in Ids
          /\ msg.kind = "explicit" =>
                /\ IsAccount(msg.from)
                /\ gasCost = msg.feeCap * msg.limit
                /\ msg.feeCap >= 0 /\ msg.limit > 0
                /\ IncludedWithinLimit(msg)
    /\ phase = "settle" => msg.kind = "explicit" /\ receipt.gasUsed <= msg.limit
    /\ phase = "idle" \/ msg.kind = "implicit" => gasCost = 0

\* The fields of a message.
LEMMA MessageFields ==
    ASSUME NEW m \in Messages
    PROVE  /\ m.from \in Ids \cup {Unresolved} /\ m.to \in Users /\ m.to \in Ids
           /\ m.sequence \in Nat /\ m.value \in Int /\ m.limit \in Nat
           /\ m.feeCap \in Int /\ m.premium \in Int
           /\ m.inclusion \in Nat /\ m.inclusion <= MaxGas
           /\ m.kind \in {"explicit", "implicit"}
           /\ m.feeCap * m.limit \in Int
PROOF
<1>1. m \in AnyMessage
    BY ExecutorAssumption
<1>2. /\ m.from \in Ids \cup {Unresolved} /\ m.to \in Users
      /\ m.sequence \in Nat /\ m.value \in Int /\ m.limit \in Nat
      /\ m.feeCap \in Int /\ m.premium \in Int /\ m.inclusion \in 0 .. MaxGas
      /\ m.kind \in {"explicit", "implicit"}
    BY <1>1 DEF AnyMessage
<1>3. m.feeCap * m.limit \in Int
    BY <1>2
<1>4. m.inclusion \in Nat /\ m.inclusion <= MaxGas
    BY <1>2, GasAssumption
<1>5. m.to \in Ids
    BY <1>2 DEF Ids
<1> QED BY <1>2, <1>3, <1>4, <1>5

\* A cost that can be deducted is that of a fee cap that is not negative.
LEMMA CostSign ==
    ASSUME NEW cap \in Int, NEW limit \in Nat, limit > 0, cap * limit >= 0
    PROVE  cap >= 0
PROOF
<1> SUFFICES ASSUME cap < 0 PROVE FALSE
    OBVIOUS
<1>1. -cap \in Nat \ {0} /\ (-cap) * limit = -(cap * limit)
    OBVIOUS
<1>2. (-cap) * limit >= limit
    <2>1. 1 * limit <= (-cap) * limit
        BY <1>1, ProductOrder
    <2> QED BY <2>1
<1> QED BY <1>1, <1>2

LEMMA ExecInvInit == Init => ExecInv
PROOF
<1> SUFFICES ASSUME Init PROVE ExecInv
    OBVIOUS
<1>1. PICK users \in [Users -> UserActors] :
        actors = [i \in Ids |->
                      IF i \in Users THEN users[i]
                      ELSE [code |-> IF i = Burnt THEN "account" ELSE "other",
                            eam |-> FALSE, sequence |-> 0, balance |-> 0]]
    BY DEF Init
<1>2. \A i \in Ids : actors[i] \in ActorStates \cup {NoActor, Deleted}
    <2> TAKE i \in Ids
    <2>1. CASE i \in Users
        BY <1>1, <2>1, ExecutorAssumption
    <2>2. CASE i \notin Users
        BY <1>1, <2>2 DEF ActorStates, Codes
    <2> QED BY <2>1, <2>2
<1>3. actors \in [Ids -> ActorStates \cup {NoActor, Deleted}]
    BY <1>1, <1>2
<1>4. Exists(Burnt) /\ Exists(Reward)
    BY <1>1, ExecutorAssumption DEF Exists, Ids, ActorStates, Codes
<1>5. receipt \in [result : Results, gasUsed : Nat, penalty : Nat]
    BY DEF Init, NoReceipt, Ended, Results
<1> QED BY <1>3, <1>4, <1>5, ExecutorAssumption DEF Init, ExecInv, TypeOK

\* preflight_message, refusing.
LEMMA RefusesStep ==
    ASSUME ExecInv, NEW m \in Messages, PreflightRefuses(m)
    PROVE  ExecInv'
PROOF
<1>1. RoundUp(m.inclusion) \in Nat /\ m.limit \in Nat /\ BaseFee \in Nat
    BY MessageFields, RoundUpWithin, ExecutorAssumption
<1>2. PreflightPenalty(m) \in Nat
    BY <1>1 DEF PreflightPenalty
<1>3. receipt' \in [result : Results, gasUsed : Nat, penalty : Nat]
    BY <1>2 DEF PreflightRefuses, Ended, Results
<1> QED BY <1>3 DEF PreflightRefuses, ExecInv, TypeOK, Exists, IsAccount, IncludedWithinLimit

\* preflight_message, accepting.
LEMMA AcceptsStep ==
    ASSUME ExecInv, NEW m \in Messages, PreflightAccepts(m)
    PROVE  ExecInv'
PROOF
<1> DEFINE cost == IF m.kind = "implicit" THEN 0 ELSE m.feeCap * m.limit
<1>1. /\ m.from \in Ids /\ m.feeCap * m.limit \in Int /\ m.sequence \in Nat
      /\ m.kind \in {"explicit", "implicit"} /\ m.limit \in Nat /\ m.feeCap \in Int
    BY MessageFields, ExecutorAssumption DEF PreflightAccepts, Accepted, Payable
<1>2. /\ phase' = "call" /\ msg' = m /\ gasCost' = cost /\ left' \in 0 .. MaxMessages
      /\ receipt' \in [result : Results, gasUsed : Nat, penalty : Nat]
    BY ExecutorAssumption DEF PreflightAccepts, ExecInv, TypeOK, NoReceipt, Ended, Results
<1>3. CASE m.kind = "implicit"
    BY <1>1, <1>2, <1>3 DEF PreflightAccepts, ExecInv, TypeOK, Exists, IsAccount
<1>4. CASE m.kind = "explicit"
    <2> DEFINE sender == actors[m.from]
               charged == Charged(sender, cost)
    <2>1. /\ sender \in ActorStates /\ ValidSender(sender) /\ IncludedWithinLimit(m)
          /\ m.sequence = sender.sequence /\ sender.balance >= cost /\ cost \in Nat
          /\ m.limit > 0 /\ m.feeCap * m.limit >= 0
        BY <1>1, <1>4 DEF PreflightAccepts, Accepted, Payable, Exists, Deductible, WellFormed
    <2>0. m.feeCap >= 0
        BY <1>1, <2>1, CostSign
    <2>2. /\ charged \in ActorStates
          /\ charged.code \in {"account", "ethaccount"}
          /\ charged.sequence = sender.sequence + 1
        <3> HIDE DEF sender, cost
        <3>1. sender.sequence + 1 \in Nat /\ sender.balance - cost \in Nat
            BY <2>1 DEF ActorStates
        <3>2. CASE MayBecomeEthAccount(sender)
            BY <2>1, <3>1, <3>2 DEF Charged, ActorStates, Codes
        <3>3. CASE ~ MayBecomeEthAccount(sender)
            BY <2>1, <3>1, <3>3 DEF Charged, ActorStates, Codes, ValidSender
        <3> QED BY <3>2, <3>3
    <2>3. /\ actors' = [actors EXCEPT ![m.from] = charged]
          /\ executed' = executed \cup {<<m.from, m.sequence>>}
        BY <1>4 DEF PreflightAccepts
    <2> HIDE DEF charged
    <2>4. actors' \in [Ids -> ActorStates \cup {NoActor, Deleted}] /\ actors'[m.from] = charged
        BY <1>1, <2>2, <2>3 DEF ExecInv, TypeOK
    <2>5. \A i \in Ids \ {m.from} : actors'[i] = actors[i]
        BY <2>3 DEF ExecInv, TypeOK
    <2>6. Exists(Burnt)' /\ Exists(Reward)' /\ IsAccount(m.from)'
        BY <1>1, <2>2, <2>4, <2>5 DEF ExecInv, Exists, IsAccount, Ids
    <2>7. \A e \in executed' : IsAccount(e[1])' /\ e[2] < actors'[e[1]].sequence
        <3> TAKE e \in executed'
        <3>1. CASE e = <<m.from, m.sequence>>
            BY <2>1, <2>2, <2>4, <2>6, <3>1, <1>1 DEF ActorStates
        <3>2. CASE e \in executed /\ e[1] = m.from
            <4>1. e[2] \in Nat /\ e[2] < sender.sequence
                BY <3>2 DEF ExecInv, TypeOK
            <4> QED BY <2>1, <2>2, <2>4, <2>6, <3>2, <4>1 DEF ActorStates
        <3>3. CASE e \in executed /\ e[1] # m.from
            <4>1. e[1] \in Ids
                BY <3>3 DEF ExecInv, TypeOK
            <4> QED BY <2>5, <3>3, <4>1 DEF ExecInv, IsAccount, Exists
        <3> QED BY <2>3, <3>1, <3>2, <3>3
    <2>8. executed' \subseteq Ids \X Nat
        BY <1>1, <2>3 DEF ExecInv, TypeOK
    <2> QED BY <1>1, <1>2, <1>4, <2>0, <2>1, <2>4, <2>6, <2>7, <2>8 DEF ExecInv, TypeOK,
               IncludedWithinLimit
<1> QED BY <1>1, <1>3, <1>4

-----------------------------------------------------------------------------
(* What moving funds, creating and destroying actors leaves as it was. *)

StateMaps == [Ids -> ActorStates \cup {NoActor, Deleted}]
Stays(acts, i) ==
    acts[i] \in ActorStates /\ (i \notin Users \/ acts[i].code \in {"account", "ethaccount"})

\* The actors that stay are there after the change, with their code and sequence.
Survive(before, after) ==
    /\ after \in StateMaps
    /\ \A i \in Ids : Stays(before, i) =>
          /\ after[i] \in ActorStates
          /\ after[i].code = before[i].code
          /\ after[i].sequence = before[i].sequence

LEMMA SurviveTransitive ==
    ASSUME NEW a, NEW b, NEW c, Survive(a, b), Survive(b, c)
    PROVE  Survive(a, c)
PROOF
    BY DEF Survive, Stays

\* A change of one balance.
LEMMA BalanceChange ==
    ASSUME NEW acts \in StateMaps, NEW i \in Ids, acts[i] \in ActorStates,
           NEW amount \in Nat, NEW after,
           \/ after = Deposited(acts, i, amount)
           \/ after = Withdrawn(acts, i, amount) /\ acts[i].balance >= amount
    PROVE  /\ Survive(acts, after)
           /\ \A j \in Ids : acts[j] \in ActorStates => after[j] \in ActorStates
           /\ after[i].code = acts[i].code
PROOF
<1> DEFINE balance == IF after = Deposited(acts, i, amount) THEN acts[i].balance + amount
                      ELSE acts[i].balance - amount
<1>0. acts[i].balance \in Nat
    BY DEF ActorStates
<1>1. balance \in Nat /\ after = [acts EXCEPT ![i].balance = balance]
    BY <1>0 DEF Deposited, Withdrawn
<1> HIDE DEF balance
<1> DEFINE new == [acts[i] EXCEPT !.balance = balance]
<1>2. /\ new \in ActorStates /\ new.code = acts[i].code
      /\ new.sequence = acts[i].sequence
    BY <1>1 DEF ActorStates
<1>3. after = [acts EXCEPT ![i] = new]
    BY <1>1
<1> HIDE DEF new
<1>4. after \in StateMaps /\ after[i] = new /\ \A j \in Ids \ {i} : after[j] = acts[j]
    BY <1>2, <1>3 DEF StateMaps
<1> QED BY <1>2, <1>4 DEF Survive, Stays

\* The receiver of a message is there, or is created.
LEMMA ReceiverExists ==
    ASSUME actors \in StateMaps, NEW m \in Messages, NEW acts \in WithReceiver(m)
    PROVE  /\ acts \in StateMaps /\ acts[m.to] \in ActorStates
           /\ Survive(actors, acts)
           /\ \A j \in Ids : actors[j] \in ActorStates => acts[j] \in ActorStates
PROOF
<1>1. m.to \in Ids
    BY MessageFields
<1>2. CASE actors[m.to] = NoActor
    <2>1. PICK new \in Created : acts = [actors EXCEPT ![m.to] = new]
        BY <1>2 DEF WithReceiver
    <2>2. new \in ActorStates
        <3>1. [code |-> "placeholder", eam |-> TRUE, sequence |-> 0, balance |-> 0] \in ActorStates
            BY DEF ActorStates, Codes
        <3>2. [code |-> "account", eam |-> FALSE, sequence |-> 0, balance |-> 0] \in ActorStates
            BY DEF ActorStates, Codes
        <3> QED BY <3>1, <3>2 DEF Created
    <2>3. /\ acts \in StateMaps /\ acts[m.to] = new
          /\ \A j \in Ids \ {m.to} : acts[j] = actors[j]
        BY <1>1, <2>1, <2>2 DEF StateMaps
    <2>4. ~ Stays(actors, m.to)
        BY <1>2, ExecutorAssumption DEF Stays
    <2> QED BY <2>2, <2>3, <2>4 DEF Survive, Stays
<1>3. CASE actors[m.to] # NoActor
    <2>1. acts = actors /\ actors[m.to] \in ActorStates
        BY <1>3 DEF WithReceiver, Exists
    <2> QED BY <2>1 DEF Survive, Stays
<1> QED BY <1>2, <1>3

\* A call that succeeds keeps the accounts.
LEMMA EffectsSurvive ==
    ASSUME actors \in StateMaps, NEW m \in Messages, m.from \in Ids, NEW after \in Effects(m)
    PROVE  /\ after \in StateMaps /\ after[m.to] \in ActorStates
           /\ Survive(actors, after)
           /\ \A j \in Ids : actors[j] \in ActorStates => after[j] \in ActorStates
PROOF
<1>1. PICK acts \in WithReceiver(m) :
        /\ m.value # 0 => m.value > 0 /\ Exists(m.from) /\ acts[m.from].balance >= m.value
        /\ after = IF m.value = 0 THEN acts
                   ELSE Deposited(Withdrawn(acts, m.from, m.value), m.to, m.value)
    BY DEF Effects
<1>2. m.value \in Int /\ m.to \in Ids
    BY MessageFields
<1>3. /\ acts \in StateMaps /\ acts[m.to] \in ActorStates
      /\ Survive(actors, acts)
      /\ \A j \in Ids : actors[j] \in ActorStates => acts[j] \in ActorStates
    BY ReceiverExists
<1>4. CASE m.value = 0
    BY <1>1, <1>3, <1>4
<1>5. CASE m.value # 0
    <2> DEFINE paid == Withdrawn(acts, m.from, m.value)
    <2>1. acts[m.from] \in ActorStates /\ acts[m.from].balance >= m.value /\ m.value \in Nat
        BY <1>1, <1>2, <1>3, <1>5 DEF Exists
    <2>2. /\ Survive(acts, paid)
          /\ \A j \in Ids : acts[j] \in ActorStates => paid[j] \in ActorStates
        BY <1>2, <1>3, <2>1, BalanceChange
    <2>3. paid \in StateMaps /\ paid[m.to] \in ActorStates
        BY <1>2, <1>3, <2>2 DEF Survive
    <2>4. after = Deposited(paid, m.to, m.value)
        BY <1>1, <1>5
    <2> HIDE DEF paid
    <2>5. /\ Survive(paid, after)
          /\ \A j \in Ids : paid[j] \in ActorStates => after[j] \in ActorStates
        BY <1>2, <2>1, <2>3, <2>4, BalanceChange
    <2>6. Survive(actors, after)
        <3>1. Survive(actors, paid)
            BY <1>3, <2>2, SurviveTransitive
        <3> QED BY <3>1, <2>5, SurviveTransitive
    <2> QED BY <1>2, <1>3, <2>2, <2>3, <2>5, <2>6 DEF Survive
<1> QED BY <1>4, <1>5

\* Only an actor that is not an account is destroyed.
LEMMA DestroyedSurvive ==
    ASSUME NEW acts \in StateMaps, acts[Burnt] \in ActorStates, NEW i \in Users,
           acts[i] \in ActorStates, acts[i].code = "other"
    PROVE  Survive(acts, Destroyed(acts, i))
PROOF
<1> DEFINE paid == Deposited(acts, Burnt, acts[i].balance)
<1>1. Burnt \in Ids /\ i \in Ids /\ acts[i].balance \in Nat
    BY DEF Ids, ActorStates
<1>2. Survive(acts, paid) /\ paid \in StateMaps
    BY <1>1, BalanceChange DEF Survive
<1>3. Destroyed(acts, i) = [paid EXCEPT ![i] = Deleted]
    BY DEF Destroyed
<1> HIDE DEF paid
<1>4. /\ Destroyed(acts, i) \in StateMaps
      /\ \A j \in Ids \ {i} : Destroyed(acts, i)[j] = paid[j]
    BY <1>1, <1>2, <1>3 DEF StateMaps
<1>5. ~ Stays(acts, i)
    BY DEF Stays
<1> QED BY <1>2, <1>4, <1>5 DEF Survive

\* What the surviving actors carry over of the invariant.
LEMMA SurvivorsKeep ==
    ASSUME ExecInv, Survive(actors, actors'), executed' = executed
    PROVE  /\ (Exists(Burnt) /\ Exists(Reward))'
           /\ (\A e \in executed : IsAccount(e[1]) /\ e[2] < actors[e[1]].sequence)'
           /\ \A i \in Ids : IsAccount(i) => IsAccount(i)'
           /\ actors' \in StateMaps
PROOF
<1>1. /\ Burnt \in Ids /\ Reward \in Ids
      /\ Burnt \notin Users /\ Reward \notin Users
    BY ExecutorAssumption DEF Ids
<1>2. \A i \in Ids : IsAccount(i) => Stays(actors, i)
    BY DEF IsAccount, Stays, Exists
<1>3. \A i \in Ids : IsAccount(i) => IsAccount(i)' /\ actors'[i].sequence = actors[i].sequence
    BY <1>2 DEF Survive, IsAccount, Exists
<1>4. Stays(actors, Burnt) /\ Stays(actors, Reward)
    BY <1>1 DEF ExecInv, Stays, Exists
<1>5. (Exists(Burnt) /\ Exists(Reward))'
    BY <1>1, <1>4 DEF Survive, Exists
<1>6. \A e \in executed : e[1] \in Ids
    BY DEF ExecInv, TypeOK
<1> QED BY <1>3, <1>5, <1>6 DEF ExecInv, Survive

\* The gas in a receipt is within the limit, and the inclusion charge is paid for.
LEMMA CallGas ==
    ASSUME NEW m \in Messages, NEW inclusion \in Nat, NEW amount \in Nat
    PROVE  LET tracker == NewTracker(FromGas(m.limit), 0)
               gasUsed == RoundUp(Charge(Charge(tracker, inclusion), amount).used)
           IN  /\ gasUsed \in Nat /\ gasUsed <= m.limit
               /\ RoundUp(inclusion) <= m.limit /\ inclusion <= MaxGas =>
                    ~ OutOfGas(tracker, inclusion)
PROOF
<1> DEFINE tracker == NewTracker(FromGas(m.limit), 0)
           included == Charge(tracker, inclusion)
           called == Charge(included, amount)
<1>1. m.limit \in Nat /\ m.limit * Precision \in Nat
    BY MessageFields, GasAssumption
<1>2. /\ WithinLimit(tracker) /\ tracker.limit = Smaller(m.limit * Precision, MaxGas)
      /\ tracker.used = 0
    BY <1>1, NewTrackerWithin
<1> HIDE DEF tracker
<1>3. /\ WithinLimit(included) /\ included.limit = tracker.limit
      /\ OutOfGas(tracker, inclusion) <=> tracker.used + inclusion > tracker.limit
    BY <1>2, ChargeWithin
<1> HIDE DEF included
<1>4. WithinLimit(called) /\ called.limit = included.limit
    BY <1>3, ChargeWithin
<1> HIDE DEF called
<1>5. called.used \in Nat /\ called.used <= m.limit * Precision
    BY <1>1, <1>2, <1>3, <1>4, GasAssumption DEF WithinLimit, Trackers, Amounts, Smaller, U64Max
<1>6. RoundUp(called.used) \in Nat /\ RoundUp(called.used) <= m.limit
    BY <1>1, <1>5, RoundUpWithin
<1>7. ASSUME RoundUp(inclusion) <= m.limit, inclusion <= MaxGas
      PROVE  ~ OutOfGas(tracker, inclusion)
    <2>1. inclusion <= m.limit * Precision
        BY <1>1, <1>7, RoundUpWithin
    <2> QED BY <1>1, <1>2, <1>3, <1>7, <2>1, GasAssumption DEF Smaller
<1> QED BY <1>6, <1>7 DEF tracker, included, called

LEMMA CallStep ==
    ASSUME ExecInv, NEW amount \in Charges,
           NEW result \in {"ok", "exit", "syscall", "oog", "fatal"}, CallActor(amount, result)
    PROVE  ExecInv'
PROOF
<1> DEFINE tracker == NewTracker(FromGas(msg.limit), 0)
           inclusion == IF msg.kind = "implicit" THEN 0 ELSE msg.inclusion
           used == RoundUp(Charge(Charge(tracker, inclusion), amount).used)
<1>1. /\ phase = "call" /\ msg \in Messages /\ msg.from \in Ids
      /\ executed' = executed /\ left' = left
      /\ actors \in StateMaps /\ actors[Burnt] \in ActorStates
    BY DEF CallActor, ExecInv, TypeOK, StateMaps, Exists
<1>2. inclusion \in Nat /\ amount \in Nat /\ msg.limit \in Nat
    BY <1>1, MessageFields, ExecutorAssumption
<1>3. used \in Nat /\ used <= msg.limit
    BY <1>1, <1>2, CallGas
<1>4. /\ OutOfGas(tracker, inclusion) =>
            receipt' = Ended("error", 0, 0) /\ phase' = "idle" /\ actors' = actors
      /\ ~ OutOfGas(tracker, inclusion) =>
            /\ CallEnds(msg, Charge(tracker, inclusion), amount, result)
            /\ phase' = IF msg.kind = "explicit" THEN "settle" ELSE "idle"
      /\ phase' = "idle" => msg' = NoMessage /\ gasCost' = 0
      /\ phase' # "idle" => msg' = msg /\ gasCost' = gasCost
    BY DEF CallActor, Done
<1> HIDE DEF tracker, inclusion
<1>5. Survive(actors, actors')
    <2>1. CASE actors' = actors
        BY <1>1, <2>1 DEF Survive, Stays
    <2>2. CASE \E acts \in Effects(msg) :
                  \/ actors' = acts
                  \/ acts[msg.to].code = "other" /\ actors' = Destroyed(acts, msg.to)
        <3>1. PICK acts \in Effects(msg) :
                  \/ actors' = acts
                  \/ acts[msg.to].code = "other" /\ actors' = Destroyed(acts, msg.to)
            BY <2>2
        <3>2. /\ acts \in StateMaps /\ acts[msg.to] \in ActorStates
              /\ Survive(actors, acts)
              /\ \A j \in Ids : actors[j] \in ActorStates => acts[j] \in ActorStates
            BY <1>1, EffectsSurvive
        <3>3. acts[Burnt] \in ActorStates /\ msg.to \in Users
            BY <1>1, <3>2, MessageFields DEF Ids
        <3>4. CASE actors' = acts
            BY <3>2, <3>4
        <3>5. CASE acts[msg.to].code = "other" /\ actors' = Destroyed(acts, msg.to)
            <4>1. Survive(acts, actors')
                BY <3>2, <3>3, <3>5, DestroyedSurvive
            <4> QED BY <3>2, <4>1, SurviveTransitive
        <3> QED BY <3>1, <3>4, <3>5
    <2> QED BY <1>4, <2>1, <2>2 DEF CallEnds
<1>6. /\ (Exists(Burnt) /\ Exists(Reward))'
      /\ (\A e \in executed : IsAccount(e[1]) /\ e[2] < actors[e[1]].sequence)'
      /\ \A i \in Ids : IsAccount(i) => IsAccount(i)'
      /\ actors' \in StateMaps
    BY <1>1, <1>5, SurvivorsKeep
<1>7. /\ receipt' \in [result : Results, gasUsed : Nat, penalty : Nat]
      /\ phase' = "settle" => receipt'.gasUsed <= msg.limit /\ msg.kind = "explicit"
    <2>1. CASE OutOfGas(tracker, inclusion)
        BY <1>4, <2>1 DEF Ended, Results
    <2>2. CASE ~ OutOfGas(tracker, inclusion)
        <3>1. receipt' = Ended(result, IF result = "fatal" THEN msg.limit ELSE used, 0)
            BY <1>4, <2>2 DEF CallEnds
        <3> HIDE DEF used
        <3>2. phase' = "settle" => msg.kind = "explicit"
            BY <1>4, <2>2
        <3> QED BY <1>2, <1>3, <3>1, <3>2 DEF Ended, Results
    <2> QED BY <2>1, <2>2
<1>8. TypeOK'
    <2>1. phase' \in {"idle", "call", "settle"}
        BY <1>4
    <2>2. msg' \in Messages \cup {NoMessage} /\ gasCost' \in Nat
        BY <1>1, <1>4 DEF ExecInv, TypeOK
    <2> QED BY <1>1, <1>6, <1>7, <2>1, <2>2 DEF ExecInv, TypeOK, StateMaps
<1>9. phase' # "idle" => phase' = "settle" /\ msg' = msg /\ gasCost' = gasCost
    BY <1>4
<1>10. phase' = "idle" => gasCost' = 0
    BY <1>4
<1> QED BY <1>1, <1>6, <1>7, <1>8, <1>9, <1>10 DEF ExecInv, IncludedWithinLimit

\* What finish_message does: all four transfers, which add up to what the sender
\* paid, or, if the premium is negative, only the first.
LEMMA Settlement ==
    ASSUME ExecInv, phase = "settle"
    PROVE  LET out == Outputs(msg, receipt.gasUsed)
               one == Deposited(actors, Burnt, out.baseFeeBurn)
               two == Deposited(one, Reward, out.minerTip)
               three == Deposited(two, Burnt, out.overEstimationBurn)
           IN  /\ msg \in Messages /\ msg.from \in Ids /\ IsAccount(msg.from)
               /\ actors \in StateMaps /\ actors[Burnt] \in ActorStates
               /\ actors[Reward] \in ActorStates /\ actors[msg.from] \in ActorStates
               /\ Burnt \in Ids /\ Reward \in Ids
               /\ out.baseFeeBurn \in Nat /\ gasCost \in Nat
               /\ msg.premium >= 0 =>
                    /\ out.minerTip \in Nat /\ out.overEstimationBurn \in Nat
                    /\ out.refund \in Nat /\ out.minerPenalty \in Nat
                    /\ out.baseFeeBurn + out.overEstimationBurn + out.refund + out.minerTip
                         = gasCost
                    /\ Settles(msg, receipt.gasUsed)
                    /\ PaidOut(msg, receipt.gasUsed) = Deposited(three, msg.from, out.refund)
               /\ msg.premium < 0 =>
                    /\ out.baseFeeBurn <= gasCost
                    /\ ~ Settles(msg, receipt.gasUsed)
                    /\ PaidOut(msg, receipt.gasUsed) = one
PROOF
<1> DEFINE out == Outputs(msg, receipt.gasUsed)
           one == Deposited(actors, Burnt, out.baseFeeBurn)
           two == Deposited(one, Reward, out.minerTip)
           three == Deposited(two, Burnt, out.overEstimationBurn)
<1>1. /\ msg \in Messages /\ msg.from \in Ids /\ IsAccount(msg.from)
      /\ receipt.gasUsed \in Nat /\ receipt.gasUsed <= msg.limit
      /\ gasCost = msg.feeCap * msg.limit /\ gasCost \in Nat
      /\ msg.feeCap >= 0 /\ msg.limit > 0
      /\ actors \in StateMaps /\ Exists(Burnt) /\ Exists(Reward) /\ Exists(msg.from)
      /\ Burnt \in Ids /\ Reward \in Ids
    BY DEF ExecInv, TypeOK, StateMaps, IsAccount, Ids
<1>2. /\ msg.limit \in Nat \ {0} /\ msg.feeCap \in Nat /\ msg.premium \in Int /\ BaseFee \in Nat
    BY <1>1, MessageFields, ExecutorAssumption
<1>3. CASE msg.premium >= 0
    <2>1. FeeIsPartitioned(receipt.gasUsed, msg.limit, BaseFee, msg.feeCap, msg.premium)
        BY <1>1, <1>2, <1>3, FeeSplit
    <2>2. /\ out.baseFeeBurn \in Nat /\ out.minerTip \in Nat /\ out.overEstimationBurn \in Nat
          /\ out.refund \in Nat /\ out.minerPenalty \in Nat
          /\ out.baseFeeBurn + out.overEstimationBurn + out.refund + out.minerTip = gasCost
        BY <1>1, <2>1 DEF FeeIsPartitioned, Outputs
    <2> HIDE DEF out
    <2>3. /\ CanTransfer(Burnt, out.baseFeeBurn) /\ CanTransfer(Reward, out.minerTip)
          /\ CanTransfer(Burnt, out.overEstimationBurn) /\ CanTransfer(msg.from, out.refund)
        BY <1>1, <2>2 DEF CanTransfer
    <2>4. Settles(msg, receipt.gasUsed)
        BY <2>2, <2>3 DEF Settles, out
    <2>5. PaidOut(msg, receipt.gasUsed) = Deposited(three, msg.from, out.refund)
        BY <2>3 DEF PaidOut, out
    <2>6. ~ (msg.premium < 0)
        BY <1>2, <1>3
    <2> QED BY <1>1, <2>2, <2>4, <2>5, <2>6 DEF out, Exists
<1>4. CASE msg.premium < 0
    <2>1. /\ out.baseFeeBurn \in Nat /\ out.baseFeeBurn <= gasCost
          /\ out.minerTip \in Int /\ out.minerTip < 0
        BY <1>1, <1>2, <1>4, NegativePremium DEF Outputs
    <2> HIDE DEF out
    <2>2. CanTransfer(Burnt, out.baseFeeBurn) /\ ~ CanTransfer(Reward, out.minerTip)
        BY <1>1, <2>1 DEF CanTransfer
    <2>3. ~ Settles(msg, receipt.gasUsed)
        BY <2>2 DEF Settles, out
    <2>4. PaidOut(msg, receipt.gasUsed) = one
        BY <2>2 DEF PaidOut, out
    <2>5. ~ (msg.premium >= 0)
        BY <1>2, <1>4
    <2> QED BY <1>1, <2>1, <2>3, <2>4, <2>5 DEF out, Exists
<1>5. msg.premium >= 0 \/ msg.premium < 0
    BY <1>2
<1> QED BY <1>3, <1>4, <1>5, Zenon

\* finish_message.
LEMMA FinishStep == ExecInv /\ FinishMessage => ExecInv'
PROOF
<1> SUFFICES ASSUME ExecInv, FinishMessage PROVE ExecInv'
    OBVIOUS
<1> DEFINE out == Outputs(msg, receipt.gasUsed)
           one == Deposited(actors, Burnt, out.baseFeeBurn)
           two == Deposited(one, Reward, out.minerTip)
           three == Deposited(two, Burnt, out.overEstimationBurn)
<1>1. /\ phase = "settle" /\ actors' = PaidOut(msg, receipt.gasUsed)
      /\ executed' = executed /\ left' = left
      /\ phase' = "idle" /\ msg' = NoMessage /\ gasCost' = 0
      /\ receipt' = IF Settles(msg, receipt.gasUsed)
                    THEN [receipt EXCEPT !.penalty = out.minerPenalty]
                    ELSE Ended("error", 0, 0)
    BY DEF FinishMessage, Done
<1>2. /\ msg \in Messages /\ msg.from \in Ids
      /\ actors \in StateMaps /\ actors[Burnt] \in ActorStates
      /\ actors[Reward] \in ActorStates /\ actors[msg.from] \in ActorStates
      /\ Burnt \in Ids /\ Reward \in Ids
      /\ out.baseFeeBurn \in Nat
    BY <1>1, Settlement
<1>3. msg.premium >= 0 =>
        /\ out.minerTip \in Nat /\ out.overEstimationBurn \in Nat
        /\ out.refund \in Nat /\ out.minerPenalty \in Nat
        /\ Settles(msg, receipt.gasUsed)
        /\ actors' = Deposited(three, msg.from, out.refund)
    BY <1>1, Settlement
<1>4. msg.premium < 0 => actors' = one /\ ~ Settles(msg, receipt.gasUsed)
    BY <1>1, Settlement
<1>5. msg.premium \in Int
    BY <1>2, MessageFields
<1> HIDE DEF out
<1>6. /\ Survive(actors, one)
      /\ \A j \in Ids : actors[j] \in ActorStates => one[j] \in ActorStates
    BY <1>2, BalanceChange
<1>7. one \in StateMaps
    BY <1>6 DEF Survive
<1> HIDE DEF one
<1>8. ASSUME msg.premium >= 0
      PROVE  Survive(actors, actors')
    <2>1. /\ Survive(one, two)
          /\ \A j \in Ids : one[j] \in ActorStates => two[j] \in ActorStates
        BY <1>2, <1>3, <1>6, <1>7, <1>8, BalanceChange
    <2>2. two \in StateMaps
        BY <2>1 DEF Survive
    <2> HIDE DEF two
    <2>3. two[Burnt] \in ActorStates /\ out.overEstimationBurn \in Nat
        BY <1>2, <1>3, <1>6, <1>8, <2>1
    <2>4. /\ Survive(two, three)
          /\ \A j \in Ids : two[j] \in ActorStates => three[j] \in ActorStates
        BY <1>2, <2>2, <2>3, BalanceChange
    <2>5. three \in StateMaps
        BY <2>4 DEF Survive
    <2> HIDE DEF three
    <2>6. three[msg.from] \in ActorStates /\ out.refund \in Nat
        BY <1>2, <1>3, <1>6, <1>8, <2>1, <2>4
    <2>7. Survive(three, actors')
        BY <1>2, <1>3, <1>8, <2>5, <2>6, BalanceChange
    <2>8. Survive(actors, two)
        BY <1>6, <2>1, SurviveTransitive
    <2>9. Survive(actors, three)
        BY <2>8, <2>4, SurviveTransitive
    <2> QED BY <2>9, <2>7, SurviveTransitive
<1>9. Survive(actors, actors')
    BY <1>4, <1>5, <1>6, <1>8
<1>10. /\ (Exists(Burnt) /\ Exists(Reward))'
       /\ (\A e \in executed : IsAccount(e[1]) /\ e[2] < actors[e[1]].sequence)'
       /\ actors' \in StateMaps
    BY <1>1, <1>9, SurvivorsKeep
<1>11. receipt' \in [result : Results, gasUsed : Nat, penalty : Nat]
    <2>1. CASE msg.premium >= 0
        BY <1>1, <1>3, <2>1 DEF ExecInv, TypeOK
    <2>2. CASE msg.premium < 0
        BY <1>1, <1>4, <2>2 DEF Ended, Results
    <2> QED BY <1>5, <2>1, <2>2
<1> QED BY <1>1, <1>10, <1>11 DEF ExecInv, TypeOK, StateMaps

LEMMA ExecInvNext == ExecInv /\ [Next]_vars => ExecInv'
PROOF
<1> SUFFICES ASSUME ExecInv, [Next]_vars PROVE ExecInv'
    OBVIOUS
<1>1. CASE \E m \in Messages : PreflightRefuses(m)
    BY <1>1, RefusesStep
<1>2. CASE \E m \in Messages : PreflightAccepts(m)
    BY <1>2, AcceptsStep
<1>3. CASE \E amount \in Charges, result \in {"ok", "exit", "syscall", "oog", "fatal"} :
              CallActor(amount, result)
    BY <1>3, CallStep
<1>4. CASE FinishMessage
    BY <1>4, FinishStep
<1>5. CASE UNCHANGED vars
    BY <1>5 DEF vars, ExecInv, TypeOK, Exists, IsAccount, IncludedWithinLimit
<1> QED BY <1>1, <1>2, <1>3, <1>4, <1>5 DEF Next

LEMMA Inductive == Spec => []ExecInv
PROOF
    BY ExecInvInit, ExecInvNext, PTL DEF Spec

-----------------------------------------------------------------------------
(* The funds that the actors hold. *)

\* A change of one actor changes what the actors hold by the change of its balance.
LEMMA HeldChange ==
    ASSUME NEW acts \in StateMaps, NEW i \in Ids,
           NEW new \in ActorStates \cup {NoActor, Deleted}
    PROVE  /\ Held(acts) \in Int /\ BalanceOf(acts[i]) \in Nat /\ BalanceOf(new) \in Nat
           /\ Held([acts EXCEPT ![i] = new]) = Held(acts) - BalanceOf(acts[i]) + BalanceOf(new)
PROOF
<1> DEFINE bal == [j \in Ids |-> BalanceOf(acts[j])]
           after == [acts EXCEPT ![i] = new]
<1>1. IsFiniteSet(Ids)
    <2>1. IsFiniteSet(Users \cup {Burnt})
        BY ExecutorAssumption, FS_AddElement
    <2>2. Ids = (Users \cup {Burnt}) \cup {Reward}
        BY DEF Ids
    <2> QED BY <2>1, <2>2, FS_AddElement
<1>2. \A a \in ActorStates \cup {NoActor, Deleted} : BalanceOf(a) \in Nat
    BY DEF BalanceOf, ActorStates
<1>3. DOMAIN acts = Ids /\ \A j \in Ids : acts[j] \in ActorStates \cup {NoActor, Deleted}
    BY DEF StateMaps
<1>4. bal \in [Ids -> Int]
    BY <1>2, <1>3
<1>5. Held(acts) = SumFunction(bal)
    BY <1>3 DEF Held
<1>6. [j \in DOMAIN after |-> BalanceOf(after[j])] = [bal EXCEPT ![i] = BalanceOf(new)]
    <2>1. DOMAIN after = Ids /\ after[i] = new /\ \A j \in Ids \ {i} : after[j] = acts[j]
        BY <1>3
    <2> HIDE DEF after
    <2> QED BY <2>1
<1>7. Held(after) = SumFunction([bal EXCEPT ![i] = BalanceOf(new)])
    BY <1>6 DEF Held
<1>8. bal[i] = BalanceOf(acts[i]) /\ BalanceOf(acts[i]) \in Nat /\ BalanceOf(new) \in Nat
    BY <1>2, <1>3
<1> HIDE DEF bal
<1>9. /\ SumFunction(bal) \in Int
      /\ SumFunction([bal EXCEPT ![i] = BalanceOf(new)])
            = SumFunction(bal) - bal[i] + BalanceOf(new)
    <2>1. BalanceOf(new) \in Int
        BY <1>8
    <2> QED BY <1>1, <1>4, <2>1, SumUpdate
<1> QED BY <1>5, <1>7, <1>8, <1>9

\* A deposit adds to what the actors hold, a withdrawal takes from it.
LEMMA HeldMoves ==
    ASSUME NEW acts \in StateMaps, NEW i \in Ids, acts[i] \in ActorStates, NEW amount \in Nat
    PROVE  /\ Held(acts) \in Int
           /\ Held(Deposited(acts, i, amount)) = Held(acts) + amount
           /\ acts[i].balance >= amount =>
                 Held(Withdrawn(acts, i, amount)) = Held(acts) - amount
PROOF
<1> DEFINE new(b) == [acts[i] EXCEPT !.balance = b]
<1>1. acts[i].balance \in Nat
    BY DEF ActorStates
<1>2. ASSUME NEW b \in Nat
      PROVE  new(b) \in ActorStates /\ new(b).balance = b
    BY DEF ActorStates
<1>3. \A a \in ActorStates : BalanceOf(a) = a.balance
    BY ExecutorAssumption DEF BalanceOf
<1>4. Deposited(acts, i, amount) = [acts EXCEPT ![i] = new(acts[i].balance + amount)]
    BY DEF Deposited
<1>5. Withdrawn(acts, i, amount) = [acts EXCEPT ![i] = new(acts[i].balance - amount)]
    BY DEF Withdrawn
<1> HIDE DEF new
<1>6. ASSUME NEW b \in Nat
      PROVE  /\ Held(acts) \in Int
             /\ Held([acts EXCEPT ![i] = new(b)]) = Held(acts) - acts[i].balance + b
    <2>1. new(b) \in ActorStates \cup {NoActor, Deleted}
        BY <1>2
    <2>2. /\ Held(acts) \in Int
          /\ Held([acts EXCEPT ![i] = new(b)])
               = Held(acts) - BalanceOf(acts[i]) + BalanceOf(new(b))
        BY <2>1, HeldChange
    <2>3. BalanceOf(new(b)) = b /\ BalanceOf(acts[i]) = acts[i].balance
        BY <1>2, <1>3
    <2> QED BY <2>2, <2>3
<1>7. Held(acts) \in Int /\ Held(Deposited(acts, i, amount)) = Held(acts) + amount
    <2>1. acts[i].balance + amount \in Nat
        BY <1>1
    <2>2. Held(acts) \in Int
        BY <2>1, <1>6
    <2>3. Held([acts EXCEPT ![i] = new(acts[i].balance + amount)])
            = Held(acts) - acts[i].balance + (acts[i].balance + amount)
        BY <2>1, <1>6
    <2> QED BY <1>1, <1>4, <2>2, <2>3
<1>8. ASSUME acts[i].balance >= amount
      PROVE  Held(Withdrawn(acts, i, amount)) = Held(acts) - amount
    <2>1. acts[i].balance - amount \in Nat
        BY <1>1, <1>8
    <2>2. Held([acts EXCEPT ![i] = new(acts[i].balance - amount)])
            = Held(acts) - acts[i].balance + (acts[i].balance - amount)
        BY <2>1, <1>6
    <2> QED BY <1>1, <1>5, <1>7, <2>2
<1> QED BY <1>7, <1>8

\* The effects of a call move funds, and make none: an actor that a transfer
\* creates has none before it.
LEMMA EffectsConserve ==
    ASSUME actors \in StateMaps, NEW m \in Messages, m.from \in Ids, NEW after \in Effects(m)
    PROVE  Held(after) = Held(actors)
PROOF
<1>1. PICK acts \in WithReceiver(m) :
        /\ m.value # 0 => m.value > 0 /\ Exists(m.from) /\ acts[m.from].balance >= m.value
        /\ after = IF m.value = 0 THEN acts
                   ELSE Deposited(Withdrawn(acts, m.from, m.value), m.to, m.value)
    BY DEF Effects
<1>2. m.value \in Int /\ m.to \in Ids
    BY MessageFields
<1>3. /\ acts \in StateMaps /\ acts[m.to] \in ActorStates
      /\ \A j \in Ids : actors[j] \in ActorStates => acts[j] \in ActorStates
    BY ReceiverExists
<1>4. Held(acts) = Held(actors)
    <2>1. CASE actors[m.to] = NoActor
        <3>1. PICK new \in Created : acts = [actors EXCEPT ![m.to] = new]
            BY <2>1 DEF WithReceiver
        <3>2. acts[m.to] = new
            BY <1>2, <3>1 DEF StateMaps
        <3>3. new \in ActorStates /\ new.balance = 0
            BY <1>3, <3>2 DEF Created
        <3>4. BalanceOf(new) = 0 /\ BalanceOf(actors[m.to]) = 0
            BY <2>1, <3>3, ExecutorAssumption DEF BalanceOf
        <3>5. /\ Held(actors) \in Int
              /\ Held(acts) = Held(actors) - BalanceOf(actors[m.to]) + BalanceOf(new)
            BY <1>2, <3>1, <3>3, HeldChange
        <3> QED BY <3>4, <3>5
    <2>2. CASE actors[m.to] # NoActor
        BY <2>2 DEF WithReceiver
    <2> QED BY <2>1, <2>2
<1>5. CASE m.value = 0
    BY <1>1, <1>4, <1>5
<1>6. CASE m.value # 0
    <2> DEFINE paid == Withdrawn(acts, m.from, m.value)
    <2>1. acts[m.from] \in ActorStates /\ acts[m.from].balance >= m.value /\ m.value \in Nat
        BY <1>1, <1>2, <1>3, <1>6 DEF Exists
    <2>2. /\ Survive(acts, paid)
          /\ \A j \in Ids : acts[j] \in ActorStates => paid[j] \in ActorStates
        BY <1>2, <1>3, <2>1, BalanceChange
    <2>3. paid \in StateMaps /\ paid[m.to] \in ActorStates
        BY <1>2, <1>3, <2>2 DEF Survive
    <2>4. Held(acts) \in Int /\ Held(paid) = Held(acts) - m.value
        BY <1>2, <1>3, <2>1, HeldMoves
    <2>5. after = Deposited(paid, m.to, m.value)
        BY <1>1, <1>6
    <2> HIDE DEF paid
    <2>6. Held(after) = Held(paid) + m.value
        BY <1>2, <2>1, <2>3, <2>5, HeldMoves
    <2> QED BY <1>2, <1>4, <2>4, <2>6
<1> QED BY <1>5, <1>6

\* An actor that destroys itself leaves its funds to the burnt-funds actor.
LEMMA DestroyedConserves ==
    ASSUME NEW acts \in StateMaps, acts[Burnt] \in ActorStates, NEW i \in Users,
           acts[i] \in ActorStates
    PROVE  Held(Destroyed(acts, i)) = Held(acts)
PROOF
<1> DEFINE paid == Deposited(acts, Burnt, acts[i].balance)
<1>1. Burnt \in Ids /\ i \in Ids /\ i # Burnt /\ acts[i].balance \in Nat
    BY ExecutorAssumption DEF Ids, ActorStates
<1>2. paid \in StateMaps
    BY <1>1, BalanceChange DEF Survive
<1>3. Held(acts) \in Int /\ Held(paid) = Held(acts) + acts[i].balance
    BY <1>1, HeldMoves
<1>4. paid[i] = acts[i]
    BY <1>1 DEF Deposited, StateMaps
<1>5. Destroyed(acts, i) = [paid EXCEPT ![i] = Deleted]
    BY DEF Destroyed
<1> HIDE DEF paid
<1>6. Held([paid EXCEPT ![i] = Deleted])
        = Held(paid) - BalanceOf(paid[i]) + BalanceOf(Deleted)
    <2>1. Deleted \in ActorStates \cup {NoActor, Deleted}
        OBVIOUS
    <2> QED BY <1>1, <1>2, <2>1, HeldChange
<1>7. BalanceOf(paid[i]) = acts[i].balance /\ BalanceOf(Deleted) = 0
    BY <1>4, ExecutorAssumption DEF BalanceOf
<1> QED BY <1>1, <1>3, <1>5, <1>6, <1>7

Funds == Held(actors) + gasCost

\* preflight_message: what the sender is charged is the cost of the gas.
LEMMA AcceptsConserves ==
    ASSUME ExecInv, NEW m \in Messages, PreflightAccepts(m)
    PROVE  Funds' = Funds
PROOF
<1> DEFINE sender == actors[m.from]
           cost == m.feeCap * m.limit
           charged == Charged(sender, cost)
<1>1. /\ actors \in StateMaps /\ gasCost = 0 /\ m.kind \in {"explicit", "implicit"}
      /\ cost \in Int
    BY MessageFields DEF PreflightAccepts, ExecInv, TypeOK, StateMaps
<1>2. CASE m.kind = "implicit"
    BY <1>1, <1>2 DEF PreflightAccepts, Funds
<1>3. CASE m.kind = "explicit"
    <2>1. /\ sender \in ActorStates /\ sender.balance >= cost /\ m.from \in Ids
          /\ actors' = [actors EXCEPT ![m.from] = charged] /\ gasCost' = cost
          /\ cost \in Nat
        BY <1>1, <1>3, MessageFields DEF PreflightAccepts, Accepted, Payable, Exists, Deductible
    <2> HIDE DEF sender, cost
    <2>2. sender.sequence + 1 \in Nat /\ sender.balance - cost \in Nat /\ sender.balance \in Nat
        BY <1>1, <2>1 DEF ActorStates
    <2>3. charged \in ActorStates /\ charged.balance = sender.balance - cost
        BY <2>1, <2>2 DEF Charged, ActorStates, Codes
    <2> HIDE DEF charged
    <2>4. /\ Held(actors) \in Int
          /\ Held(actors') = Held(actors) - BalanceOf(sender) + BalanceOf(charged)
        BY <1>1, <2>1, <2>3, HeldChange DEF sender
    <2>5. BalanceOf(sender) = sender.balance /\ BalanceOf(charged) = charged.balance
        BY <2>1, <2>3, ExecutorAssumption DEF BalanceOf
    <2> QED BY <1>1, <2>1, <2>2, <2>3, <2>4, <2>5 DEF Funds
<1> QED BY <1>1, <1>2, <1>3

\* The call: it moves funds, and what the sender paid in advance is kept to be
\* settled, since the inclusion of the message is always paid for.
LEMMA CallConserves ==
    ASSUME ExecInv, NEW amount \in Charges,
           NEW result \in {"ok", "exit", "syscall", "oog", "fatal"}, CallActor(amount, result)
    PROVE  Funds' = Funds
PROOF
<1> DEFINE tracker == NewTracker(FromGas(msg.limit), 0)
           inclusion == IF msg.kind = "implicit" THEN 0 ELSE msg.inclusion
<1>1. /\ phase = "call" /\ msg \in Messages /\ msg.from \in Ids
      /\ actors \in StateMaps /\ actors[Burnt] \in ActorStates
    BY DEF CallActor, ExecInv, TypeOK, StateMaps, Exists
<1>2. /\ msg.inclusion \in Nat /\ msg.inclusion <= MaxGas /\ amount \in Nat
      /\ msg.kind \in {"explicit", "implicit"}
    BY <1>1, MessageFields, ExecutorAssumption
<1>3. msg.kind = "explicit" => ~ OutOfGas(tracker, inclusion)
    <2> SUFFICES ASSUME msg.kind = "explicit" PROVE ~ OutOfGas(tracker, msg.inclusion)
        OBVIOUS
    <2>1. RoundUp(msg.inclusion) <= msg.limit
        BY <1>1 DEF ExecInv, IncludedWithinLimit
    <2> QED BY <1>1, <1>2, <2>1, CallGas
<1>4. /\ OutOfGas(tracker, inclusion) => phase' = "idle" /\ actors' = actors
      /\ ~ OutOfGas(tracker, inclusion) =>
            /\ CallEnds(msg, Charge(tracker, inclusion), amount, result)
            /\ phase' = IF msg.kind = "explicit" THEN "settle" ELSE "idle"
      /\ phase' = "idle" => gasCost' = 0
      /\ phase' # "idle" => gasCost' = gasCost
    BY DEF CallActor, Done
<1> HIDE DEF tracker, inclusion
<1>5. gasCost' = gasCost
    BY <1>1, <1>2, <1>3, <1>4 DEF ExecInv
<1>6. Held(actors') = Held(actors)
    <2>1. CASE actors' = actors
        BY <2>1
    <2>2. CASE \E acts \in Effects(msg) :
                  \/ actors' = acts
                  \/ acts[msg.to].code = "other" /\ actors' = Destroyed(acts, msg.to)
        <3>1. PICK acts \in Effects(msg) :
                  \/ actors' = acts
                  \/ acts[msg.to].code = "other" /\ actors' = Destroyed(acts, msg.to)
            BY <2>2
        <3>2. /\ acts \in StateMaps /\ acts[msg.to] \in ActorStates
              /\ \A j \in Ids : actors[j] \in ActorStates => acts[j] \in ActorStates
            BY <1>1, EffectsSurvive
        <3>3. Held(acts) = Held(actors)
            BY <1>1, EffectsConserve
        <3>4. acts[Burnt] \in ActorStates /\ msg.to \in Users
            BY <1>1, <3>2, MessageFields DEF Ids
        <3>5. Held(Destroyed(acts, msg.to)) = Held(acts)
            BY <3>2, <3>4, DestroyedConserves
        <3> QED BY <3>1, <3>3, <3>5
    <2> QED BY <1>4, <2>1, <2>2 DEF CallEnds
<1> QED BY <1>5, <1>6 DEF Funds

\* finish_message pays out what the sender paid in advance, all of it unless the
\* premium is negative, and a part of it then.
LEMMA FinishConserves ==
    ASSUME ExecInv, FinishMessage
    PROVE  /\ msg.premium >= 0 => Funds' = Funds
           /\ msg.premium < 0 => Funds' \in Held(actors) .. Funds
           /\ phase = "settle" /\ msg.premium \in Int
PROOF
<1> DEFINE out == Outputs(msg, receipt.gasUsed)
           one == Deposited(actors, Burnt, out.baseFeeBurn)
           two == Deposited(one, Reward, out.minerTip)
           three == Deposited(two, Burnt, out.overEstimationBurn)
<1>1. phase = "settle" /\ actors' = PaidOut(msg, receipt.gasUsed) /\ gasCost' = 0
    BY DEF FinishMessage, Done
<1>2. /\ msg \in Messages /\ msg.from \in Ids
      /\ actors \in StateMaps /\ actors[Burnt] \in ActorStates
      /\ actors[Reward] \in ActorStates /\ actors[msg.from] \in ActorStates
      /\ Burnt \in Ids /\ Reward \in Ids
      /\ out.baseFeeBurn \in Nat /\ gasCost \in Nat
    BY <1>1, Settlement
<1>3. msg.premium >= 0 =>
        /\ out.minerTip \in Nat /\ out.overEstimationBurn \in Nat /\ out.refund \in Nat
        /\ out.baseFeeBurn + out.overEstimationBurn + out.refund + out.minerTip = gasCost
        /\ actors' = Deposited(three, msg.from, out.refund)
    BY <1>1, Settlement
<1>4. msg.premium < 0 => actors' = one /\ out.baseFeeBurn <= gasCost
    BY <1>1, Settlement
<1>5. msg.premium \in Int
    BY <1>2, MessageFields
<1> HIDE DEF out
<1>6. /\ one \in StateMaps
      /\ \A j \in Ids : actors[j] \in ActorStates => one[j] \in ActorStates
    BY <1>2, BalanceChange DEF Survive
<1>7. Held(actors) \in Int /\ Held(one) = Held(actors) + out.baseFeeBurn
    BY <1>2, HeldMoves
<1> HIDE DEF one
<1>8. ASSUME msg.premium >= 0
      PROVE  Held(actors') = Held(actors) + gasCost
    <2>1. /\ two \in StateMaps
          /\ \A j \in Ids : one[j] \in ActorStates => two[j] \in ActorStates
        BY <1>2, <1>3, <1>6, <1>8, BalanceChange DEF Survive
    <2>2. Held(two) = Held(one) + out.minerTip
        BY <1>2, <1>3, <1>6, <1>8, HeldMoves
    <2> HIDE DEF two
    <2>3. /\ three \in StateMaps
          /\ \A j \in Ids : two[j] \in ActorStates => three[j] \in ActorStates
        BY <1>2, <1>3, <1>6, <1>8, <2>1, BalanceChange DEF Survive
    <2>4. Held(three) = Held(two) + out.overEstimationBurn
        BY <1>2, <1>3, <1>6, <1>8, <2>1, HeldMoves
    <2> HIDE DEF three
    <2>5. Held(actors') = Held(three) + out.refund
        BY <1>2, <1>3, <1>6, <1>8, <2>1, <2>3, HeldMoves
    <2> QED BY <1>2, <1>3, <1>7, <1>8, <2>2, <2>4, <2>5
<1>9. ASSUME msg.premium < 0
      PROVE  Held(actors') \in Held(actors) .. Held(actors) + gasCost
    BY <1>2, <1>4, <1>7, <1>9
<1>10. Funds' = Held(actors')
    <2>1. Held(actors') \in Int
        BY <1>2, <1>5, <1>7, <1>8, <1>9
    <2> QED BY <1>1, <2>1 DEF Funds
<1> QED BY <1>1, <1>5, <1>8, <1>9, <1>10 DEF Funds

-----------------------------------------------------------------------------
\* Balances, sequences, gas and fees never go below zero, and no actor of the
\* state tree is lost to a malformed state.
THEOREM TypeCorrect == Spec => []TypeOK
PROOF
<1>1. ExecInv => TypeOK
    BY DEF ExecInv
<1> QED BY <1>1, Inductive, PTL

\* preflight_message moves the sender's sequence for good: no message is executed
\* twice.
THEOREM NeverReplayed == Spec => []NoReplay
PROOF
<1>1. ExecInv => NoReplay
    BY DEF ExecInv, NoReplay, IsAccount
<1> QED BY <1>1, Inductive, PTL

\* finish_message neither fails on a missing actor or a negative transfer nor finds
\* the fee wrongly split, whatever the fees, for every message whose gas premium is
\* not negative, and for no other.
THEOREM SettlementNeverFails == Spec => []SettlementSound
PROOF
<1>1. ExecInv => SettlementSound
    <2> SUFFICES ASSUME ExecInv, phase = "settle"
                 PROVE  Settles(msg, receipt.gasUsed) <=> msg.premium >= 0
        BY DEF SettlementSound
    <2>1. /\ msg.premium >= 0 => Settles(msg, receipt.gasUsed)
          /\ msg.premium < 0 => ~ Settles(msg, receipt.gasUsed)
          /\ msg \in Messages
        BY Settlement
    <2>2. msg.premium \in Int
        BY <2>1, MessageFields
    <2> QED BY <2>1, <2>2
<1> QED BY <1>1, Inductive, PTL

\* The call manager can always pay for the inclusion of a message that passed
\* preflight_message.
THEOREM InclusionAlwaysCovered == Spec => []InclusionCovered
PROOF
<1>1. ExecInv => InclusionCovered
    <2> SUFFICES ASSUME ExecInv, phase = "call", msg.kind = "explicit"
                 PROVE  ~ OutOfGas(NewTracker(FromGas(msg.limit), 0), msg.inclusion)
        BY DEF InclusionCovered
    <2>1. msg \in Messages /\ RoundUp(msg.inclusion) <= msg.limit
        BY DEF ExecInv, IncludedWithinLimit
    <2>2. msg.inclusion \in Nat /\ msg.inclusion <= MaxGas
        BY <2>1, MessageFields
    <2> QED BY <2>1, <2>2, CallGas
<1> QED BY <1>1, Inductive, PTL

\* The effective premium the actors are shown is the one the miner is paid.
THEOREM PremiumAsShown == Spec => []PremiumShownIsPaid
PROOF
<1>1. ExecInv => PremiumShownIsPaid
    <2> SUFFICES ASSUME ExecInv, phase = "settle", msg.premium >= 0 PROVE PremiumShownIsPaid
        BY DEF PremiumShownIsPaid
    <2>1. msg \in Messages /\ msg.feeCap >= 0
        BY DEF ExecInv
    <2>2. msg.limit \in Nat /\ msg.feeCap \in Nat /\ msg.premium \in Nat /\ BaseFee \in Nat
        BY <2>1, MessageFields, ExecutorAssumption
    <2>3. TipPerGas(BaseFee, msg.feeCap, msg.premium) = EffectivePremium(msg)
        BY <2>2 DEF TipPerGas, EffectivePremium, BaseFeeToPay, Least
    <2>4. Outputs(msg, receipt.gasUsed).minerTip
            = TipPerGas(BaseFee, msg.feeCap, msg.premium) * msg.limit
        BY DEF Outputs, Compute
    <2> QED BY <2>3, <2>4 DEF PremiumShownIsPaid
<1> QED BY <1>1, Inductive, PTL

\* No funds are made or lost, whatever the messages, their gas, their fees and how
\* their calls end, except by the settlement of a negative premium, which makes
\* none.
THEOREM FundsKept == Spec => FundsConserved
PROOF
<1> DEFINE Kept == IF phase = "settle" /\ msg.premium < 0
                   THEN Held(actors') + gasCost' \in Held(actors) .. Held(actors) + gasCost
                   ELSE Held(actors') + gasCost' = Held(actors) + gasCost
<1>1. ASSUME ExecInv, [Next]_vars
      PROVE  [Kept]_<<actors, gasCost>>
    <2>1. CASE \E m \in Messages : PreflightRefuses(m)
        BY <2>1 DEF PreflightRefuses
    <2>2. CASE \E m \in Messages : PreflightAccepts(m)
        <3>1. phase # "settle" /\ Funds' = Funds
            BY <1>1, <2>2, AcceptsConserves DEF PreflightAccepts
        <3> QED BY <3>1 DEF Funds
    <2>3. CASE \E amount \in Charges, result \in {"ok", "exit", "syscall", "oog", "fatal"} :
                  CallActor(amount, result)
        <3>1. phase # "settle" /\ Funds' = Funds
            BY <1>1, <2>3, CallConserves DEF CallActor
        <3> QED BY <3>1 DEF Funds
    <2>4. CASE FinishMessage
        <3>1. /\ msg.premium >= 0 => Funds' = Funds
              /\ msg.premium < 0 => Funds' \in Held(actors) .. Funds
              /\ phase = "settle" /\ msg.premium \in Int
            BY <1>1, <2>4, FinishConserves
        <3> QED BY <3>1 DEF Funds
    <2>5. CASE UNCHANGED vars
        BY <2>5 DEF vars
    <2> QED BY <1>1, <2>1, <2>2, <2>3, <2>4, <2>5 DEF Next
<1>2. ExecInv /\ [Next]_vars => [Kept]_<<actors, gasCost>>
    BY <1>1
<1> QED BY <1>2, Inductive, PTL DEF Spec, FundsConserved
=============================================================================
