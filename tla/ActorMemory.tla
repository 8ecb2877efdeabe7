----------------------------- MODULE ActorMemory -----------------------------
(***************************************************************************)
(* A syscall as the sequence of the steps its handler and the kernel take, *)
(* in the order of the code, up to the first that fails: a check of an     *)
(* argument, a charge, work for the actor, a write to the actor's memory,  *)
(* a change of the kernel's state.  The arguments that point into memory   *)
(* are pairs of an offset and a length, both u32 (syscalls/context.rs).    *)
(***************************************************************************)
EXTENDS PriceList, FiniteSets

CONSTANTS
    MemLen,   \* the length of the actor's memory
    Word,     \* the number of u32 values
    CidLen    \* the length of a CID

ASSUME MemoryAssumption == MemLen < Word /\ CidLen \in 1 .. MemLen

Cells(off, len) == off .. (off + len - 1)

\* The steps.  A Note is what the host learned, or did for the actor without
\* any change of its own state.
Check(ok, err) == [do |-> "check", ok |-> ok, err |-> err]
Within(ok) == [do |-> "within", ok |-> ok]
Pay(gas) == [do |-> "pay", gas |-> gas]
Work(gas) == [do |-> "work", gas |-> gas]
Retain(size) == [do |-> "retain", gas |-> retention_min(size)]
Write(off, len) == [do |-> "write", cells |-> Cells(off, len)]
Keep(what, item) == [do |-> "keep", item |-> <<what, item>>]
Note(what, item) == [do |-> "note", item |-> <<what, item>>]

\* A call: its error, whether an argument was outside of the memory, the gas
\* tracker, what its work and the blocks it keeps are worth, and after every
\* step what was paid and what it was worth.
NewCall(gas) ==
    [err |-> "none", outside |-> FALSE, t |-> NewTracker(gas, 0), worth |-> 0, held |-> 0,
     trail |-> {}, written |-> {}, kept |-> << >>, notes |-> << >>]

Taken(s, step) ==
    CASE step.do = "check" -> IF step.ok THEN s ELSE [s EXCEPT !.err = step.err]
      [] step.do = "within" -> IF step.ok THEN s
                               ELSE [s EXCEPT !.err = "IllegalArgument", !.outside = TRUE]
      [] step.do = "pay" -> [s EXCEPT !.t = Charge(s.t, step.gas),
                                      !.err = IF OutOfGas(s.t, step.gas) THEN "OutOfGas" ELSE @]
      [] step.do = "work" -> [s EXCEPT !.worth = @ + step.gas]
      [] step.do = "retain" -> [s EXCEPT !.held = @ + step.gas]
      [] step.do = "write" -> [s EXCEPT !.written = @ \cup step.cells]
      [] step.do = "keep" -> [s EXCEPT !.kept = Append(@, step.item)]
      [] OTHER -> [s EXCEPT !.notes = Append(@, step.item)]

Step(s, step) ==
    LET n == Taken(s, step)
    IN  [n EXCEPT !.trail = @ \cup {[paid |-> n.t.used, worth |-> n.worth, held |-> n.held]}]

RECURSIVE Continue(_, _)
Continue(s, steps) == IF steps = << >> \/ s.err # "none" THEN s ELSE Continue(Step(s, Head(steps)), Tail(steps))

Run(steps, gas) == Continue(NewCall(gas), steps)

-----------------------------------------------------------------------------
(* Memory. *)

\* check_bounds, try_slice and try_slice_mut: the sum is one of u64.
try_slice(off, len) == <<Within(off + len <= MemLen)>>

\* try_chunks.
try_chunks(size, off, len) == <<Check(len % size = 0, "IllegalArgument")>> \o try_slice(off, len)

\* read_cid reads from the offset to the end of the memory.
read_cid(off, parses) ==
    <<Within(off <= MemLen), Check(parses /\ off + CidLen <= MemLen, "IllegalArgument")>>

\* A mutation: what fits of the CID is written.
write_cid_part(off, len) ==
    try_slice(off, len) \o <<Write(off, Smaller(len, CidLen)), Check(CidLen <= len, "BufferTooSmall")>>

write_cid(off, len) ==
    try_slice(off, len) \o <<Check(CidLen <= len, "BufferTooSmall"), Write(off, CidLen)>>

read_address(off, len, parses) == try_slice(off, len) \o <<Check(parses, "IllegalArgument")>>

\* read_cbor: decoding may fail, or panic, which is caught.
read_cbor(off, len, parses) == try_slice(off, len) \o <<Check(parses, "IllegalArgument")>>
=============================================================================
