------------------------------ MODULE RunQueue ------------------------------
(***************************************************************************)
(* What the scheduler, the handle and the driver promise together about    *)
(* the runs of one task, whoever asks for them and wherever the request    *)
(* waits: runs never overlap, at most two requests wait, a request that    *)
(* was accepted is served by exactly one run, and it is dropped only when  *)
(* the task is over.                                                       *)
(***************************************************************************)
EXTENDS Naturals

VARIABLES
  phase,    \* "idle", "busy" or "over"
  waiting,  \* accepted requests that have not started
  started   \* runs started so far

vars == <<phase, waiting, started>>

Capacity == 2   \* one Run in the channel, one pending flag

TypeOK ==
  /\ phase \in {"idle", "busy", "over"}
  /\ waiting \in 0..Capacity
  /\ started \in Nat

Init == phase = "idle" /\ waiting = 0 /\ started = 0

(* A request is accepted, during a run or between runs. *)
Request ==
  /\ phase # "over"
  /\ waiting < Capacity
  /\ waiting' = waiting + 1
  /\ UNCHANGED <<phase, started>>

(* A request is served. *)
Start ==
  /\ phase = "idle"
  /\ waiting > 0
  /\ phase' = "busy"
  /\ waiting' = waiting - 1
  /\ started' = started + 1

End == phase = "busy" /\ phase' = "idle" /\ UNCHANGED <<waiting, started>>

(* The task finished, was removed, or its driver is gone: no run follows. *)
Over == phase # "over" /\ phase' = "over" /\ waiting' = 0 /\ UNCHANGED started

Next == Request \/ Start \/ End \/ Over

Spec == Init /\ [][Next]_vars

(* An accepted request does not wait forever while nothing runs. *)
Served == (phase = "idle" /\ waiting > 0) ~> phase # "idle"
=============================================================================
