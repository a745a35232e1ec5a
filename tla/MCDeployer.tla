----------------------------- MODULE MCDeployer -----------------------------
(* Two kinds of tasks, four tasks in all, two threads to tell apart.        *)
EXTENDS Deployer
=============================================================================
