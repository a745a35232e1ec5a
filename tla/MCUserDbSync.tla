---------------------------- MODULE MCUserDbSync ----------------------------
(* Two machines and two words, so that a crash can split what is written.   *)
(* Two edits are enough for two uses, on one machine or on both, and for a  *)
(* use and its deletion.                                                    *)
EXTENDS UserDbSync, TLC

Symmetry == Permutations(Machines) \cup Permutations(Words)

\* A snapshot in the trash is not looked at again once it has been restored.
InTrash == [m \in Machines |-> IF op[m].task \in {"remove", "restore"} THEN trash[m] ELSE NoSnapshot]
View == << db, snap, op, edits, faults, best, gutted, round, InTrash >>
=============================================================================
