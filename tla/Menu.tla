-------------------------------- MODULE Menu --------------------------------
(***************************************************************************)
(* The menu of a segment (librime/src/menu.cc) takes candidates one by one *)
(* from the translations that were added to it, as far as it is asked to   *)
(* (Prepare), each from the translation that wins a comparison with the    *)
(* next.  A candidate is a record with at least its type, its start, its   *)
(* end, its quality and its text.                                          *)
(***************************************************************************)
EXTENDS Integers, Sequences, SequencesExt

\* A FifoTranslation; `kind' selects what it overrides.
Translation(kind, candies) == [kind |-> kind, candies |-> candies, cursor |-> 0]

IsExhausted(t) == t.cursor >= Len(t.candies)
Peek(t)        == t.candies[t.cursor + 1]
Advance(t)     == [t EXCEPT !.cursor = @ + 1]

\* Translation::Compare: the earlier, the longer, then the better comes first.
CompareCandidates(ours, theirs) ==
  IF ours.start # theirs.start THEN ours.start - theirs.start
  ELSE IF ours.end # theirs.end THEN theirs.end - ours.end
  ELSE theirs.quality - ours.quality

\* SchemaListTranslation::Compare: the switches follow the current schema.
IsSchemaListVsSwitch(t, other) == t.kind = "schema_list" /\ Peek(other).type = "switch"

Compare(t, other) ==
  IF IsExhausted(other) THEN -1
  ELSE IF IsExhausted(t) THEN 1
  ELSE IF IsSchemaListVsSwitch(t, other) THEN (IF t.cursor = 0 THEN -1 ELSE 1)
  ELSE CompareCandidates(Peek(t), Peek(other))

\* AddTranslation, of those that are not futile.
EmptyMenu(translations) ==
  [translations |-> SelectSeq(translations, LAMBDA t : ~IsExhausted(t)),
   candidates   |-> << >>]

-----------------------------------------------------------------------------
(* Menu::Prepare: each translation is compared with the one after it only, *)
(* and the last one wins when it is reached.                               *)

Winner(ts) ==
  SelectInSeq([k \in 1..Len(ts) |-> k = Len(ts) \/ Compare(ts[k], ts[k + 1]) <= 0],
              LAMBDA wins : wins)

\* The winner's next candidate; a translation goes with its last one.
Recruit(menu) ==
  LET k    == Winner(menu.translations)
      t    == menu.translations[k]
      next == Advance(t)
  IN  [translations |-> IF IsExhausted(next) THEN RemoveAt(menu.translations, k)
                        ELSE [menu.translations EXCEPT ![k] = next],
       candidates   |-> Append(menu.candidates, Peek(t))]

Prepare(menu, count) ==
  LET left == FoldLeft(LAMBDA sum, t : sum + Len(t.candies) - t.cursor, 0, menu.translations)
      prepared[n \in 0..left] ==
        IF n = 0 THEN menu
        ELSE LET m == prepared[n - 1]
             IN  IF Len(m.candidates) >= count \/ m.translations = << >> THEN m
                 ELSE Recruit(m)
  IN  prepared[left].candidates

\* All of them, for a menu that is looked at from end to end.
AllCandidates(menu) ==
  Prepare(menu, FoldLeft(LAMBDA sum, t : sum + Len(t.candies), 0, menu.translations))
=============================================================================
