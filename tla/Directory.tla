----------------------------- MODULE Directory -----------------------------
(***************************************************************************)
(* What a SchedulerHandle may rely on when it looks tasks up: the tasks it *)
(* sees are a directory.  Tasks enter one at a time, each under an id      *)
(* greater than all before and, if it has a name, under one that no task   *)
(* in the directory carries; they leave for good, any number at a time,    *)
(* and nothing about a task changes while it is there.                     *)
(***************************************************************************)
EXTENDS Naturals

CONSTANTS
  Name,     \* names of tasks
  NoName    \* what a task without a name carries instead

VARIABLES
  dir,      \* the tasks that can be seen: [id, name]
  fresh     \* above every id that was given

Entry == [id : Nat, name : Name \union {NoName}]

Init == dir = {} /\ fresh = 0

Enter(name) ==
  /\ \A e \in dir : e.name = name => name = NoName
  /\ dir' = dir \union {[id |-> fresh, name |-> name]}
  /\ fresh' = fresh + 1

Leave ==
  /\ dir' \in SUBSET dir
  /\ UNCHANGED fresh

Next == Leave \/ \E name \in Name \union {NoName} : Enter(name)

Spec == Init /\ [][Next]_<<dir, fresh>>
=============================================================================
