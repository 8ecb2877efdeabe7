----------------------------- MODULE GasMetering -----------------------------
(***************************************************************************)
(* How a message's gas is metered: the gas tracker, and the gas counter of *)
(* every Wasm instance on the call stack, which the instrumented code      *)
(* counts down by itself and the host brings up to date around every       *)
(* syscall (charge_for_exec and update_gas_available, syscalls/mod.rs).    *)
(* Calls nest (DefaultCallManager::call_actor), with or without a gas      *)
(* limit of their own, and end by returning, by aborting, or out of gas.   *)
(***************************************************************************)
EXTENDS GasTracker

CONSTANTS
    GasLimits,      \* the message's gas limits, in whole gas
    CallLimits,     \* the gas limits actors put on their calls
    HostCharges,    \* what the host may charge in a syscall or call
    HostCallCost,   \* wasm_prices.host_call_cost
    ExecCosts,      \* what a stretch of Wasm code may cost
    MaxCallDepth    \* max_call_depth

ASSUME MeteringAssumption ==
    /\ GasLimits \subseteq 1 .. MaxGas
    /\ CallLimits \subseteq Amounts
    /\ HostCharges \subseteq Nat
    /\ HostCallCost \in Nat
    /\ ExecCosts \subseteq 0 .. MaxGas + 1    \* the counter stays an i64
    /\ MaxCallDepth \in Nat

VARIABLES
    gasLimit,    \* msg.gas_limit
    tracker,     \* gas_tracker
    frames,      \* the call stack: InvocationData of each frame
    status,      \* what the top frame is doing
    spent,       \* history: all the gas charged so far
    entered,     \* history: spent, when each pushed limit was pushed
    pending,     \* history: gas the running instance used and was not charged for
    early        \* history: its last syscall returned before update_gas_available

vars == <<gasLimit, tracker, frames, status, spent, entered, pending, early>>

\* last: last_gas_available; global: avail_gas_global, negative when the instance
\* runs out; limited: whether the call pushed a limit.
Frames == [last : 0 .. MaxGas, global : Int, limited : BOOLEAN]
Statuses == {"enter", "run", "oog", "done"}

Top == frames[Len(frames)]
WithTop(frame) == [frames EXCEPT ![Len(frames)] = frame]

\* new_store: the counter of a frame before its code runs.
NewFrame(limited) == [last |-> 0, global |-> 0, limited |-> limited]

\* What charge_for_exec charges: with a negative counter, all that was available
\* and the deficit.
ExecCharge(frame) ==
    IF frame.global < 0 THEN SatAdd(frame.last, 0 - frame.global)
    ELSE SatSub(frame.last, frame.global)

\* update_gas_available that leaves last_gas_available as it was.
UpdatedGlobalOnly(frame, t) == [frame EXCEPT !.global = Available(t)]

\* update_gas_available.
Updated(frame, t) ==
    [last |-> Available(t), global |-> Available(t), limited |-> frame.limited]

\* The charges of one handler, which stops at the first one that is refused.
\* Every refusal uses up the limit, so they amount to a single charge.
Charged(amount) ==
    /\ tracker' = Charge(tracker, amount)
    /\ spent' = spent + (tracker'.used - tracker.used)

-----------------------------------------------------------------------------
\* The executor makes the top-level call, which has no limit of its own.
Init ==
    /\ gasLimit \in GasLimits
    /\ tracker = NewTracker(FromGas(gasLimit), 0)
    /\ frames = <<NewFrame(FALSE)>>
    /\ status = "enter"
    /\ spent = 0
    /\ entered = <<>>
    /\ pending = 0
    /\ early = FALSE

\* call_actor_resolved up to the call of the entrypoint: charges for the message,
\* the lookups, the transfer, the invocation and the instance, and then
\* update_gas_available.
Enter(host) ==
    /\ status = "enter"
    /\ Charged(host)
    /\ IF OutOfGas(tracker, host)
       THEN status' = "oog" /\ UNCHANGED frames
       ELSE status' = "run" /\ frames' = WithTop(Updated(Top, tracker'))
    /\ pending' = 0
    /\ early' = FALSE
    /\ UNCHANGED <<gasLimit, entered>>

\* The instance runs.  The injected code traps when the counter is negative.
Exec(cost) ==
    /\ status = "run"
    /\ Top.global >= 0
    /\ frames' = WithTop([Top EXCEPT !.global = @ - cost])
    /\ pending' = pending + cost
    /\ UNCHANGED <<gasLimit, tracker, status, spent, entered, early>>

\* A syscall that charges for nothing.
SyscallFree(host) ==
    /\ status = "run"
    /\ Top.global >= 0
    /\ frames' = WithTop(Updated(Top, tracker))
    /\ pending' = 0
    /\ early' = FALSE
    /\ UNCHANGED <<gasLimit, tracker, status, spent, entered>>

\* A syscall that returns to the actor, or runs out of gas: charge_for_exec,
\* charge_syscall_gas, the charges of the syscall itself, update_gas_available.
Syscall(host) ==
    LET amount == ExecCharge(Top) + HostCallCost + host
    IN  /\ status = "run"
        /\ Top.global >= 0
        /\ Charged(amount)
        /\ IF OutOfGas(tracker, amount)
           THEN status' = "oog" /\ UNCHANGED frames
           ELSE status' = "run" /\ frames' = WithTop(Updated(Top, tracker'))
        /\ pending' = 0
        /\ early' = FALSE
        /\ UNCHANGED <<gasLimit, entered>>

\* A syscall whose out pointer leaves no space for the return value: it returns
\* IllegalArgument after charge_for_exec and charge_syscall_gas, and does not get
\* to update_gas_available.
SyscallNoSpace ==
    LET amount == ExecCharge(Top) + HostCallCost
    IN  /\ status = "run"
        /\ Top.global >= 0
        /\ Charged(amount)
        /\ status' = IF OutOfGas(tracker, amount) THEN "oog" ELSE "run"
        /\ pending' = 0
        /\ early' = TRUE
        /\ UNCHANGED <<gasLimit, frames, entered>>

\* The send syscall, up to the callee's frame: charge_for_exec and
\* charge_syscall_gas in the caller, then call_actor's push_limit.  At the maximal
\* depth call_actor only returns an error, as in Syscall.
Send(limited, callLimit) ==
    LET amount == ExecCharge(Top) + HostCallCost
        charged == Charge(tracker, amount)
    IN  /\ status = "run"
        /\ Top.global >= 0
        /\ Len(frames) < MaxCallDepth
        /\ ~ OutOfGas(tracker, amount)
        /\ tracker' = IF limited THEN PushLimit(charged, callLimit) ELSE charged
        /\ spent' = spent + (charged.used - tracker.used)
        /\ entered' = IF limited THEN Append(entered, spent') ELSE entered
        /\ frames' = Append(frames, NewFrame(limited))
        /\ status' = "enter"
        /\ pending' = 0
        /\ early' = FALSE
        /\ UNCHANGED gasLimit

\* The top frame ends: charge_for_exec once more, the charge for the return value,
\* and back in the caller pop_limit.  Running out of gas under a limit is an exit
\* code to a caller that has gas left; otherwise the caller aborts as well.  Then
\* the send syscall's update_gas_available.
Finish(host) ==
    LET trapped == status = "oog" \/ Top.global < 0
        amount == ExecCharge(Top) + (IF trapped THEN 0 ELSE host)
        charged == Charge(tracker, amount)
        outOfGas == status = "oog" \/ OutOfGas(tracker, amount)
        callers == SubSeq(frames, 1, Len(frames) - 1)
        aborts == outOfGas /\ Available(tracker') = 0
    IN  /\ status \in {"run", "oog"}
        /\ tracker' = IF Top.limited THEN PopLimit(charged) ELSE charged
        /\ spent' = spent + (charged.used - tracker.used)
        /\ entered' = IF Top.limited THEN SubSeq(entered, 1, Len(entered) - 1) ELSE entered
        /\ IF callers = <<>>
           THEN status' = "done" /\ frames' = <<>>
           ELSE /\ status' = IF aborts THEN "oog" ELSE "run"
                /\ frames' = [callers EXCEPT ![Len(callers)] = Updated(@, tracker')]
        /\ pending' = 0
        /\ early' = FALSE
        /\ UNCHANGED gasLimit

-----------------------------------------------------------------------------
Next ==
    \/ \E host \in HostCharges : Enter(host) \/ Syscall(host) \/ Finish(host)
    \/ SyscallNoSpace
    \/ \E cost \in ExecCosts : Exec(cost)
    \/ Send(FALSE, 0)
    \/ \E callLimit \in CallLimits : Send(TRUE, callLimit)

Spec == Init /\ [][Next]_vars

\* The executing thread never stops between two steps.
FairSpec == Spec /\ WF_vars(Next)

-----------------------------------------------------------------------------
(* Properties. *)

TypeOK ==
    /\ gasLimit \in GasLimits
    /\ tracker \in Trackers
    /\ frames \in Seq(Frames)
    /\ status \in Statuses
    /\ spent \in Nat
    /\ entered \in Seq(Nat)
    /\ pending \in Nat
    /\ early \in BOOLEAN

\* The limit, the gas used under it and the gas spent before it, at each level of
\* the tracker: 0 is the message, Levels the innermost limit.
Levels == Len(tracker.snapshots)
LimitAt(n) == IF n = Levels THEN tracker.limit ELSE tracker.snapshots[n + 1].limit
UsedAt(n) == IF n = Levels THEN tracker.used ELSE tracker.snapshots[n + 1].used
SpentBefore(n) == IF n = 0 THEN 0 ELSE entered[n]

\* Gas is neither lost nor counted twice when limits are pushed and popped
\* (push_limit, pop_limit): at every level, what was spent before the limit and
\* what was used under it add up to what was spent before the next one.
BooksBalance ==
    /\ Len(entered) = Levels
    /\ \A n \in 0 .. Levels :
          SpentBefore(n) + UsedAt(n) = IF n = Levels THEN spent ELSE SpentBefore(n + 1)

\* A call never gets more gas than its caller has left (push_limit), whatever limit
\* the actor asked for, and no level overspends its limit (charge_gas_inner).
LimitsNest ==
    \A n \in 0 .. Levels :
        /\ UsedAt(n) <= LimitAt(n)
        /\ n < Levels => UsedAt(n) + LimitAt(n + 1) <= LimitAt(n)

\* When the message is done every limit was popped, the receipt's gas_used is all
\* the gas charged, and, although it is rounded up to whole gas and the tracker's
\* limit may have been capped, it is within the message's gas limit.
ReceiptWithinLimit ==
    status = "done" =>
        /\ tracker.snapshots = <<>>
        /\ tracker.used = spent
        /\ RoundUp(tracker.used) <= gasLimit

\* While an instance runs, its counter is what the tracker has available less what
\* it used since, so that it traps exactly when the gas runs out, and
\* charge_for_exec will charge exactly what it used since it was last charged.
\* After a syscall that returned early both lag behind the tracker, and still no
\* instruction escapes being charged for (update_gas_available, charge_for_exec).
CountersExact ==
    status = "run" =>
        /\ ExecCharge(Top) >= pending
        /\ ~ early => Top.global = Available(tracker) - pending /\ ExecCharge(Top) = pending

\* charge_for_exec "updates the FVM-side gas tracker with newly accrued execution
\* gas charges": it charges for no instruction twice.
ExecChargedOnce ==
    status = "run" => ExecCharge(Top) = pending

\* An actor is aborted for being out of gas only when the gas it was given is gone:
\* a callee that runs out under a smaller limit leaves its caller running
\* (call_actor).
OutOfGasIsEmpty ==
    status = "oog" => Available(tracker) = 0

\* Gas bounds execution: when all code costs something, every message ends.
MessageEnds == <>(status = "done")
=============================================================================
