----------------------------- MODULE GasOutputs -----------------------------
(***************************************************************************)
(* GasOutputs (gas/outputs.rs): how the gas fee of an explicit message,    *)
(* gas_fee_cap * gas_limit, which its sender paid in advance, is split     *)
(* into burns, the miner's tip and the refund.  Token amounts are big      *)
(* integers, and the products of gas amounts are computed in a u128, so    *)
(* nothing overflows.                                                      *)
(***************************************************************************)
EXTENDS Integers

Least(a, b) == IF a <= b THEN a ELSE b
Monus(a, b) == IF a <= b THEN 0 ELSE a - b

\* compute_gas_overestimation_burn.
OverestimationBurn(gasUsed, gasLimit) ==
    LET over == Least(Monus(gasLimit, (11 * gasUsed) \div 10), gasUsed)
        remaining == Monus(gasLimit, gasUsed)
        burned == (remaining * over) \div gasUsed
    IN  IF gasUsed = 0 THEN [refund |-> 0, burned |-> gasLimit]
        ELSE [refund |-> Monus(remaining, burned), burned |-> burned]

\* base_fee_to_pay, and the tip per unit of gas.
BaseFeeToPay(baseFee, feeCap) == Least(baseFee, feeCap)

TipPerGas(baseFee, feeCap, premium) ==
    LET toPay == BaseFeeToPay(baseFee, feeCap)
    IN  IF toPay + premium > feeCap THEN feeCap - toPay ELSE premium

\* GasOutputs::compute.
Compute(gasUsed, gasLimit, baseFee, feeCap, premium) ==
    LET toPay == BaseFeeToPay(baseFee, feeCap)
        tip == TipPerGas(baseFee, feeCap, premium) * gasLimit
        gas == OverestimationBurn(gasUsed, gasLimit)
    IN  [baseFeeBurn        |-> toPay * gasUsed,
         overEstimationBurn |-> toPay * gas.burned,
         minerPenalty       |-> (baseFee - toPay) * gasUsed + (baseFee - toPay) * gas.burned,
         minerTip           |-> tip,
         refund             |-> feeCap * gasLimit - toPay * gasUsed - tip
                                  - toPay * gas.burned]

-----------------------------------------------------------------------------
(* What makes the split correct, for one message. *)

\* The gas used, burned and refunded make up the limit, and an estimate that is
\* within 10% of the gas used is not punished.
GasIsPartitioned(gasUsed, gasLimit) ==
    LET gas == OverestimationBurn(gasUsed, gasLimit)
    IN  /\ gas.burned \in 0 .. gasLimit - gasUsed
        /\ gasUsed + gas.burned + gas.refund = gasLimit
        /\ 10 * gasLimit <= 11 * gasUsed => gas.burned = 0

\* Nothing paid out is negative, and it all adds up to what the sender paid in
\* advance: neither error of finish_message is possible.
FeeIsPartitioned(gasUsed, gasLimit, baseFee, feeCap, premium) ==
    LET out == Compute(gasUsed, gasLimit, baseFee, feeCap, premium)
    IN  /\ out.baseFeeBurn \in Nat /\ out.overEstimationBurn \in Nat
        /\ out.minerTip \in Nat /\ out.refund \in Nat /\ out.minerPenalty \in Nat
        /\ out.baseFeeBurn + out.overEstimationBurn + out.refund + out.minerTip
              = feeCap * gasLimit

\* The network gets the whole base fee of the gas used and burned, what the fee
\* cap does not cover being the miner's penalty.
BaseFeeIsCovered(gasUsed, gasLimit, baseFee, feeCap, premium) ==
    LET out == Compute(gasUsed, gasLimit, baseFee, feeCap, premium)
        gas == OverestimationBurn(gasUsed, gasLimit)
    IN  out.baseFeeBurn + out.overEstimationBurn + out.minerPenalty
          = baseFee * (gasUsed + gas.burned)
=============================================================================
