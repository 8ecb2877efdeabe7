------------------------------ MODULE Executor ------------------------------
(***************************************************************************)
(* DefaultExecutor::execute_message (executor/default.rs): a message is    *)
(* validated and its sender pays the most its gas can cost in advance      *)
(* (preflight_message), it is executed in a transaction, and then the gas  *)
(* fee is split (finish_message).  Implicit messages skip the payment and  *)
(* the split.  An executor applies one message at a time, so the three     *)
(* steps of a message are not interleaved with those of another.           *)
(*                                                                         *)
(* What the called actors do is reduced to what the executor sees of it:   *)
(* funds that move between actors, an actor that is created by a transfer  *)
(* or destroys itself, the gas that was used, and how the call ended.      *)
(***************************************************************************)
EXTENDS GasTracker, GasOutputs, Functions, FiniteSets

CONSTANTS
    Users,          \* actors other than the two below
    Burnt,          \* BURNT_FUNDS_ACTOR_ID
    Reward,         \* REWARD_ACTOR_ID
    NoActor,        \* there is no actor yet, and its address does not resolve
    Deleted,        \* the actor destroyed itself; its address still resolves
    Unresolved,     \* a sender address that does not resolve
    NoMessage,      \* no message is being applied
    BaseFee,        \* context.base_fee
    Messages,       \* the messages execute_message is given
    Charges,        \* milligas the call of a message may charge
    UserActors,     \* bound: initial states of the users
    MaxMessages     \* bound: messages that are executed

Ids == Users \cup {Burnt, Reward}
Codes == {"account", "ethaccount", "placeholder", "other"}

\* eam: whether the delegated address is in the namespace of the EAM actor.
ActorStates == [code : Codes, eam : BOOLEAN, sequence : Nat, balance : Nat]

\* The ApplyKind and the fields of a message, and the milligas on_chain_message
\* charges for its length.  Token amounts are signed, and Message::check admits
\* negative ones.
AnyMessage == [kind : {"explicit", "implicit"}, from : Ids \cup {Unresolved}, to : Users,
               sequence : Nat, value : Int, limit : Nat, feeCap : Int, premium : Int,
               inclusion : 0 .. MaxGas]

ASSUME ExecutorAssumption ==
    /\ IsFiniteSet(Users)
    /\ Burnt \notin Users /\ Reward \notin Users /\ Burnt # Reward
    /\ Unresolved \notin Ids
    /\ NoMessage \notin Messages
    /\ NoActor \notin ActorStates /\ Deleted \notin ActorStates
    /\ UserActors \subseteq ActorStates \cup {NoActor}
    /\ BaseFee \in Nat
    /\ Messages \subseteq AnyMessage
    /\ Charges \subseteq Nat
    /\ MaxMessages \in Nat

VARIABLES
    actors,      \* the state tree: an actor state, NoActor or Deleted for each id
    phase,       \* "idle", "call" (preflight is done) or "settle" (the call is)
    msg,         \* the message being applied
    gasCost,     \* what its sender paid in advance
    receipt,     \* how the last message ended, and the gas it used
    executed,    \* history: <<sender, sequence>> of the explicit messages executed
    left         \* what is left of the bound on messages

vars == <<actors, phase, msg, gasCost, receipt, executed, left>>

Exists(i) == actors[i] \in ActorStates
Deposited(acts, i, amount) == [acts EXCEPT ![i].balance = @ + amount]
Withdrawn(acts, i, amount) == [acts EXCEPT ![i].balance = @ - amount]

\* prevalidation_fail, the errors of execute_message, and the receipts: how a
\* message ended, the gas in its receipt and the penalty of the miner.
Ended(result, gasUsed, penalty) ==
    [result |-> result, gasUsed |-> gasUsed, penalty |-> penalty]
NoReceipt == Ended("none", 0, 0)
Results == {"none", "refused", "error", "ok", "exit", "syscall", "oog", "fatal"}

-----------------------------------------------------------------------------
(* preflight_message. *)

\* Message::check.
WellFormed(m) == m.limit > 0 /\ m.limit <= MaxGas

\* A placeholder with an address in the EAM's namespace that has not sent anything.
MayBecomeEthAccount(actor) ==
    actor.code = "placeholder" /\ actor.sequence = 0 /\ actor.eam

ValidSender(actor) ==
    actor.code \in {"account", "ethaccount"} \/ MayBecomeEthAccount(actor)

\* The inclusion cost compared in gas that is rounded down.
IncludedRoundedDown(m) == m.inclusion \div Precision <= m.limit

\* The checks of an explicit message, that of its inclusion cost first.
IncludedWithinLimit(m) == RoundUp(m.inclusion) <= m.limit
Payable(m) ==
    /\ m.from # Unresolved
    /\ Exists(m.from)
    /\ ValidSender(actors[m.from])
    /\ m.sequence = actors[m.from].sequence
    /\ actors[m.from].balance >= m.feeCap * m.limit

Accepted(m) ==
    IF m.kind = "implicit" THEN m.from # Unresolved ELSE IncludedWithinLimit(m) /\ Payable(m)

PreflightPenalty(m) ==
    IF m.kind = "implicit" THEN 0
    ELSE BaseFee * (IF IncludedWithinLimit(m) THEN m.limit ELSE RoundUp(m.inclusion))

\* deduct_funds, which does not deduct a negative amount.
Deductible(m) == m.kind = "explicit" => m.feeCap * m.limit >= 0

\* The message is refused: a receipt that charges nobody but the miner, or an
\* error.
PreflightRefuses(m) ==
    /\ phase = "idle"
    /\ ~ (WellFormed(m) /\ Accepted(m) /\ Deductible(m))
    /\ receipt' = IF WellFormed(m) /\ ~ Accepted(m)
                  THEN Ended("refused", 0, PreflightPenalty(m))
                  ELSE Ended("error", 0, 0)
    /\ UNCHANGED <<actors, phase, msg, gasCost, executed, left>>

\* The sequence of the sender does not move on.
ChargedNotSequenced(actor, cost) ==
    [actor EXCEPT !.code = IF MayBecomeEthAccount(actor) THEN "ethaccount" ELSE @,
                  !.balance = @ - cost]

\* The sender as the message leaves it: a placeholder turns into an account, the
\* sequence moves on, and the gas is paid for.
Charged(actor, cost) ==
    [actor EXCEPT !.code = IF MayBecomeEthAccount(actor) THEN "ethaccount" ELSE @,
                  !.sequence = @ + 1,
                  !.balance = @ - cost]

PreflightAccepts(m) ==
    LET cost == IF m.kind = "implicit" THEN 0 ELSE m.feeCap * m.limit
    IN  /\ phase = "idle"
        /\ left > 0
        /\ WellFormed(m) /\ Accepted(m) /\ Deductible(m)
        /\ IF m.kind = "implicit"
           THEN UNCHANGED <<actors, executed>>
           ELSE /\ actors' = [actors EXCEPT ![m.from] = Charged(@, cost)]
                /\ executed' = executed \cup {<<m.from, m.sequence>>}
        /\ phase' = "call"
        /\ msg' = m
        /\ gasCost' = cost
        /\ receipt' = NoReceipt
        /\ left' = left - 1

-----------------------------------------------------------------------------
(* The call of the receiver, in a transaction (call_actor and what it runs). *)

\* An actor that a send creates: create_placeholder_actor_from_send or
\* create_account_actor_from_send.
Created == {[code |-> "placeholder", eam |-> TRUE, sequence |-> 0, balance |-> 0],
            [code |-> "account", eam |-> FALSE, sequence |-> 0, balance |-> 0]}

\* The state tree in which the receiver exists, if it does or can.
WithReceiver(m) ==
    IF actors[m.to] = NoActor THEN {[actors EXCEPT ![m.to] = new] : new \in Created}
    ELSE IF Exists(m.to) THEN {actors} ELSE {}

\* The effects a call that succeeds may have: it transfers the value, which is not
\* negative, and a receiver that is not an account may destroy itself and burn its
\* balance.
Effects(m) ==
    {IF m.value = 0 THEN acts
     ELSE Deposited(Withdrawn(acts, m.from, m.value), m.to, m.value) :
        acts \in {a \in WithReceiver(m) : m.value # 0 => /\ m.value > 0
                                                         /\ Exists(m.from)
                                                         /\ a[m.from].balance >= m.value}}
Destroyed(acts, i) ==
    [Deposited(acts, Burnt, acts[i].balance) EXCEPT ![i] = Deleted]

\* effective_premium that is not kept from going below zero.
EffectivePremiumSigned(m) == Least(m.premium, m.feeCap - BaseFee)

\* effective_premium, which actors can read.
EffectivePremium(m) ==
    LET capped == Least(m.premium, m.feeCap - BaseFee)
    IN  IF capped >= 0 THEN capped ELSE 0

\* What the executor is left with after the call: the state tree, the end of the
\* call, and the gas used, all of the limit after a fatal error.
CallEnds(m, tracker, amount, result) ==
    /\ result = "oog" <=> OutOfGas(tracker, amount) /\ result # "fatal"
    /\ IF result = "ok"
       THEN \E acts \in Effects(m) :
               \/ actors' = acts
               \/ acts[m.to].code = "other" /\ actors' = Destroyed(acts, m.to)
       ELSE UNCHANGED actors
    /\ receipt' = Ended(result,
                        IF result = "fatal" THEN m.limit
                        ELSE RoundUp(Charge(tracker, amount).used), 0)

\* execute_message returns.
Done == msg' = NoMessage /\ gasCost' = 0

\* The call manager is created and charged for the inclusion of the message; were
\* that refused, execute_message would return an error, and what the sender paid
\* would be lost.  Then the call.
CallActor(amount, result) ==
    LET tracker == NewTracker(FromGas(msg.limit), 0)
        inclusion == IF msg.kind = "implicit" THEN 0 ELSE msg.inclusion
    IN  /\ phase = "call"
        /\ IF OutOfGas(tracker, inclusion)
           THEN receipt' = Ended("error", 0, 0) /\ phase' = "idle" /\ UNCHANGED actors
           ELSE /\ CallEnds(msg, Charge(tracker, inclusion), amount, result)
                /\ phase' = IF msg.kind = "explicit" THEN "settle" ELSE "idle"
        /\ IF phase' = "idle" THEN Done ELSE UNCHANGED <<msg, gasCost>>
        /\ UNCHANGED <<executed, left>>

-----------------------------------------------------------------------------
(* finish_message. *)

Outputs(m, gasUsed) == Compute(gasUsed, m.limit, BaseFee, m.feeCap, m.premium)

\* transfer_to_actor succeeds.
CanTransfer(i, amount) == amount >= 0 /\ (amount > 0 => Exists(i))

\* The overestimation burn is forgotten.
PaidOutNoBurn(m, gasUsed) ==
    LET out == Outputs(m, gasUsed)
        one == Deposited(actors, Burnt, out.baseFeeBurn)
        two == Deposited(one, Reward, out.minerTip)
    IN  IF CanTransfer(Reward, out.minerTip) THEN Deposited(two, m.from, out.refund) ELSE one

\* The four transfers, up to the first that fails: those before it stand.
PaidOut(m, gasUsed) ==
    LET out == Outputs(m, gasUsed)
        one == Deposited(actors, Burnt, out.baseFeeBurn)
        two == Deposited(one, Reward, out.minerTip)
        three == Deposited(two, Burnt, out.overEstimationBurn)
    IN  IF ~ CanTransfer(Burnt, out.baseFeeBurn) THEN actors
        ELSE IF ~ CanTransfer(Reward, out.minerTip) THEN one
        ELSE IF ~ CanTransfer(Burnt, out.overEstimationBurn) THEN two
        ELSE IF ~ CanTransfer(m.from, out.refund) THEN three
        ELSE Deposited(three, m.from, out.refund)

\* No transfer fails, and the parts add up to what the sender paid.
Settles(m, gasUsed) ==
    LET out == Outputs(m, gasUsed)
    IN  /\ CanTransfer(Burnt, out.baseFeeBurn)
        /\ CanTransfer(Reward, out.minerTip)
        /\ CanTransfer(Burnt, out.overEstimationBurn)
        /\ CanTransfer(m.from, out.refund)
        /\ out.baseFeeBurn + out.overEstimationBurn + out.refund + out.minerTip = gasCost

\* A message that does not settle ends in an error.
FinishMessage ==
    /\ phase = "settle"
    /\ actors' = PaidOut(msg, receipt.gasUsed)
    /\ receipt' = IF Settles(msg, receipt.gasUsed)
                  THEN [receipt EXCEPT !.penalty = Outputs(msg, receipt.gasUsed).minerPenalty]
                  ELSE Ended("error", 0, 0)
    /\ phase' = "idle"
    /\ Done
    /\ UNCHANGED <<executed, left>>

-----------------------------------------------------------------------------
\* The burnt-funds actor is an account, the reward actor is not.
Init ==
    /\ \E users \in [Users -> UserActors] :
          actors = [i \in Ids |->
                      IF i \in Users THEN users[i]
                      ELSE [code |-> IF i = Burnt THEN "account" ELSE "other",
                            eam |-> FALSE, sequence |-> 0, balance |-> 0]]
    /\ phase = "idle"
    /\ msg = NoMessage
    /\ gasCost = 0
    /\ receipt = NoReceipt
    /\ executed = {}
    /\ left = MaxMessages

Next ==
    \/ /\ phase = "idle"
       /\ \E m \in Messages : PreflightRefuses(m) \/ PreflightAccepts(m)
    \/ \E amount \in Charges, result \in {"ok", "exit", "syscall", "oog", "fatal"} :
          CallActor(amount, result)
    \/ FinishMessage

Spec == Init /\ [][Next]_vars

-----------------------------------------------------------------------------
(* Properties. *)

TypeOK ==
    /\ actors \in [Ids -> ActorStates \cup {NoActor, Deleted}]
    /\ phase \in {"idle", "call", "settle"}
    /\ msg \in Messages \cup {NoMessage}
    /\ gasCost \in Nat
    /\ receipt \in [result : Results, gasUsed : Nat, penalty : Nat]
    /\ executed \subseteq Ids \X Nat
    /\ left \in 0 .. MaxMessages

BalanceOf(actor) == IF actor \in {NoActor, Deleted} THEN 0 ELSE actor.balance
Held(acts) == SumFunction([i \in DOMAIN acts |-> BalanceOf(acts[i])])

\* No funds are made or lost: no step changes what the actors hold together with
\* what the sender of the message in progress paid in advance, through failed
\* calls, fatal errors, overestimated gas and actors that are destroyed.  The one
\* exception is the settlement of a message with a negative gas premium, which
\* fails: it loses a part of what the sender paid, and still makes no funds.
FundsConserved ==
    [][IF phase = "settle" /\ msg.premium < 0
       THEN Held(actors') + gasCost' \in Held(actors) .. Held(actors) + gasCost
       ELSE Held(actors') + gasCost' = Held(actors) + gasCost]_<<actors, gasCost>>

\* An explicit message is executed at most once: the sequence of an accepted
\* message's sender has moved on for good, whether the call then succeeded, was
\* reverted, or the actor was a placeholder that became an account.
NoReplay ==
    \A e \in executed : Exists(e[1]) /\ e[2] < actors[e[1]].sequence

\* finish_message does not fail with the fee half paid out ("attempted to transfer
\* negative value into actor", "failed to lookup actor for transfer", "Gas handling
\* math is wrong"), however the call ended and whatever it did to the state tree,
\* unless the gas premium is negative, which neither Message::check nor
\* preflight_message refuses: then it always does.
SettlementSound ==
    phase = "settle" => (Settles(msg, receipt.gasUsed) <=> msg.premium >= 0)

\* The charge for including a message in the chain "should have already been
\* accounted for inside preflight_message": the call manager can pay it, although
\* preflight_message compares whole gas and the tracker counts milligas.
InclusionCovered ==
    phase = "call" /\ msg.kind = "explicit" =>
        ~ OutOfGas(NewTracker(FromGas(msg.limit), 0), msg.inclusion)

\* The effective premium that execute_message shows to the actors is what
\* finish_message then pays the miner for each unit of gas, for all messages that
\* settle.
PremiumShownIsPaid ==
    phase = "settle" /\ msg.premium >= 0 =>
        Outputs(msg, receipt.gasUsed).minerTip = EffectivePremium(msg) * msg.limit
=============================================================================
