------------------------------ MODULE MCHeldKey ------------------------------
(* Two letters and the number keys 1 and 2; codes with a longest match,     *)
(* with partial matches only, with homophones and with none.                *)
EXTENDS HeldKey

CONSTANTS a, b

MCLetters == {a, b}
MCMarks   == {"1", "2"}

MCLexicon ==
  (<< a >> :> << 1 >>) @@ (<< b >> :> << 1 >>) @@
  (<< a, b >> :> << 2, 1, 1 >>) @@ (<< a, a >> :> << 1 >>) @@
  (<< a, b, a >> :> << 2 >>) @@ (<< b, a >> :> << 2 >>)

MCPuncts == [full \in BOOLEAN |-> << >>]
MCPatterns == << >>
MCAffix  == [tag |-> "none", prefix |-> "none", suffix |-> "none"]
=============================================================================
