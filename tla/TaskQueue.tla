------------------------------ MODULE TaskQueue -----------------------------
(***************************************************************************)
(* What the deployer promises to those who schedule tasks: a queue, served *)
(* one task at a time and in order, each task once.  It does not promise   *)
(* that a task is ever served.                                             *)
(***************************************************************************)
EXTENDS Sequences

CONSTANT Tasks

VARIABLES
  waiting,     \* scheduled and not begun
  serving,     \* at most one task
  served       \* finished, in order

queueVars == << waiting, serving, served >>

Init == waiting = << >> /\ serving = << >> /\ served = << >>

Schedule(t) ==
  /\ waiting' = Append(waiting, t)
  /\ UNCHANGED << serving, served >>

Start ==
  /\ serving = << >> /\ waiting # << >>
  /\ serving' = << Head(waiting) >>
  /\ waiting' = Tail(waiting)
  /\ UNCHANGED served

Finish ==
  /\ serving # << >>
  /\ served' = served \o serving
  /\ serving' = << >>
  /\ UNCHANGED waiting

Next == (\E t \in Tasks : Schedule(t)) \/ Start \/ Finish

Spec == Init /\ [][Next]_queueVars
=============================================================================
