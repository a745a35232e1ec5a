------------------------------ MODULE MCService -----------------------------
(* Two sessions, two threads to tell apart, and room for the tasks of the   *)
(* first start, of one more sync or deployment, and of one recovery.        *)
EXTENDS Service
=============================================================================
