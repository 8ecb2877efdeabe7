---------------------------- MODULE MCEnginePool ----------------------------
(* More threads than engines, under two workloads.  In the first, three of  *)
(* four threads run at a time and two of them need a full call stack.  In   *)
(* the second, five threads make no calls and one of them comes back for a  *)
(* second engine: two sleep in acquire while the others come for the engine *)
(* they were notified of.                                                   *)
EXTENDS EnginePool

CONSTANTS t1, t2, t3, t4, t5

MCWorkloads ==
    {[messages |-> [t \in Threads |-> IF t = t5 THEN 0 ELSE 1],
      calls |-> [t \in Threads |-> CASE t \in {t1, t2} -> 2 [] t = t3 -> 1 [] OTHER -> 0]],
     [messages |-> [t \in Threads |-> IF t = t1 THEN 2 ELSE 1],
      calls |-> [t \in Threads |-> 0]]}
=============================================================================
