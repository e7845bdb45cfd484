----------------------------- MODULE MCDispatch -----------------------------
(***************************************************************************)
(* Instances of Dispatch for TLC: t1 is to be executed twice and queues an *)
(* overlapping run, t2 goes on until its schedule ends and skips.  One     *)
(* instant of t1 lies after MaxTime, so t1 still has a future when the     *)
(* clock stops; the schedule of t2 ends inside the bound.  Where no task   *)
(* queues, only a trigger sets pending.                                    *)
(***************************************************************************)
EXTENDS Dispatch

CONSTANTS t1, t2

OverlapOf == [t \in Task |-> IF t = t1 THEN "Queue" ELSE "Skip"]
RepeatsOf == [t \in Task |-> IF t = t1 THEN 2 ELSE Forever]
NoneQueues == [t \in Task |-> "Skip"]
SlotsOf == [t \in Task |-> IF t = t1 THEN {1, 2, 4} ELSE {1}]
=============================================================================
