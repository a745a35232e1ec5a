--------------------------- MODULE MCSegmentation ---------------------------
(* One letter, codes with a longest match and with partial matches only; a  *)
(* punctuation mark, and a reverse lookup between two quotes.               *)
EXTENDS Segmentation

CONSTANTS a, slash, quote

MCLetters == {a}
MCMarks   == {slash, quote}

MCLexicon ==
  (<< a >> :> << 1 >>) @@ (<< a, a >> :> << 1 >>) @@ (<< a, a, a >> :> << 2 >>)

MCPuncts == [full \in BOOLEAN |->
               << slash >> :> [kind |-> "list", count |-> 2]]

MCPatterns == << [tag |-> "lookup", anchored |-> FALSE, lead |-> {quote},
                  body |-> {a}, closing |-> {quote}] >>

MCAffix == [tag |-> "lookup", prefix |-> quote, suffix |-> quote]
=============================================================================
