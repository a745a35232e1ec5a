----------------------------- MODULE MCKeyboard -----------------------------
(* One letter, with a candidate for one but none for two or three; a number *)
(* key; period and comma; the chord of two keys that types the letter.      *)
EXTENDS Keyboard

CONSTANTS a, b, c

MCLetters == {a}
MCMarks   == {upper, zws, dot, comma, "space", "1", b, c}

MCLexicon == << a >> :> << 1, 1 >>

MCPuncts ==
  [full \in BOOLEAN |->
     IF full THEN (<< dot >> :> [kind |-> "pair", count |-> 2]) @@
                  (<< "space" >> :> [kind |-> "commit", count |-> 1])
             ELSE << dot >> :> [kind |-> "commit", count |-> 1]]

MCPatterns == << [tag |-> "uppercase", anchored |-> FALSE, lead |-> {upper},
                  body |-> {dot}, closing |-> {}] >>
MCAffix    == [tag |-> "none", prefix |-> "none", suffix |-> "none"]

MCTaps == {"1", dot, "space", "BackSpace"}

MCSwitchStyle == ("Shift_L" :> "inline_ascii") @@ ("Control_L" :> "commit_text") @@
                 ("Caps_Lock" :> "commit_code")

Binding(when, code, mods, send, toggle) ==
  [when |-> when, accept |-> [code |-> code, mods |-> mods],
   send |-> KeyPress(send, {}), toggle |-> toggle]

MCBindingList ==
  << Binding("has_menu", dot, {}, "Page_Down", "none"),
     Binding("paging", comma, {}, "Page_Up", "none"),
     Binding("always", "space", {"Shift"}, "none", "full_shape") >>

MCChordOutput == [chord \in SUBSET ChordKeys \ {{}} |->
                    IF chord = ChordKeys THEN << a >> ELSE << >>]
=============================================================================
