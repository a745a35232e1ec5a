------------------------------- MODULE HeldKey ------------------------------
(***************************************************************************)
(* The engine under a user who, at some moment, leans on a key: any keys,  *)
(* then only the auto-repeat of Space or of BackSpace.  The auto-repeat is *)
(* the fairness: nothing else makes a user press anything.                 *)
(***************************************************************************)
EXTENDS Engine

VARIABLES
  held,      \* the key held down, "none" before
  beat       \* the beat of its auto-repeat

heldVars == << vars, held, beat >>

HeldInit == Init /\ held = "none" /\ beat = FALSE

AnyKey == held = "none" /\ Next /\ UNCHANGED << held, beat >>

Hold == held = "none" /\ held' \in {"space", "backspace"} /\ UNCHANGED << vars, beat >>

Beat == held # "none" /\ beat' = ~beat

Repeat ==
  /\ Beat
  /\ \/ held = "space" /\ Space
     \/ held = "backspace" /\ BackSpace
  /\ UNCHANGED held

HeldNext == AnyKey \/ Hold \/ Repeat

\* A step that is a Beat is a Repeat: the key goes on repeating.
HeldSpec == HeldInit /\ [][HeldNext]_heldVars /\ WF_beat(Beat)

\* Holding Space converts segment after segment and ends in a commit: there
\* is no composition, whatever keys led to it, that takes the key forever.
SpaceCommits == (held = "space") ~> (ctx.input = << >>)

\* Holding BackSpace erases all before the caret, although it first takes
\* selections back, which gives it more to erase.
BackSpaceErases == (held = "backspace") ~> (ctx.caret = 0)
=============================================================================
