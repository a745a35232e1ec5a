---------------------------- MODULE MCLeftBehind ----------------------------
(* Two kinds of tasks, three tasks in all, two threads to tell apart.       *)
EXTENDS LeftBehind
=============================================================================
