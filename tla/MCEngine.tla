------------------------------ MODULE MCEngine ------------------------------
(* Two letters and the number keys 1 and 2; codes with a longest match,     *)
(* with partial matches only, with homophones and with none.                *)
EXTENDS View

CONSTANTS a, b

MCLetters == {a, b}
MCMarks   == {"1", "2"}

MCLexicon ==
  (<< a >> :> << 1, 1 >>) @@ (<< b >> :> << 1 >>) @@
  (<< a, b >> :> << 2, 1, 1 >>) @@ (<< a, a >> :> << 1 >>) @@
  (<< a, b, a >> :> << 2, 1 >>) @@ (<< b, a >> :> << 2 >>)

\* The second candidate of a code comes from elsewhere than the table.
MCGuesses == {<< << a, b >>, 1 >>}

MCPuncts == [full \in BOOLEAN |-> << >>]
MCPatterns == << >>
MCAffix  == [tag |-> "none", prefix |-> "none", suffix |-> "none"]
=============================================================================
