----------------------------- MODULE MCUserDict -----------------------------
(* Two sessions, one of either kind of translator; one syllable is enough   *)
(* for phrases of one, two and three and for what they are made of.         *)
EXTENDS UserDict
=============================================================================
