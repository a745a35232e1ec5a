------------------------------- MODULE Engine -------------------------------
(***************************************************************************)
(* A session's engine handling keys (ConcreteEngine::ProcessKeyEvent): the *)
(* processors of the schemas in brise - speller, selector, navigator and   *)
(* one of fluency_editor and express_editor, in this order - over the      *)
(* segmentors abc_segmentor and fallback_segmentor and a translator that   *)
(* knows the codes of Lexicon.  One action per handler; a handler runs to  *)
(* its end in one step, with the notifications it causes (Context.tla).    *)
(*                                                                         *)
(* A key goes down the list of processors until one accepts it; `handled'  *)
(* is what ProcessKeyEvent returns, FALSE letting the application have the *)
(* key.  Of the characters that are not letters only number keys are typed *)
(* here; Keyboard.tla puts the other processors before these.  No          *)
(* delimiter, finals or use_space in the schema.                           *)
(***************************************************************************)
EXTENDS Context

CONSTANTS
  MaxInput,           \* bound: no more characters than this are typed
  PageSize,           \* menu/page_size
  MaxCodeLength,      \* speller/max_code_length, 0 for none
  AutoSelect,         \* speller/auto_select
  AutoSelectUnique,   \* speller/auto_select_unique_candidate
  Guesses,            \* the candidates that are no table entries: <<code, index>>
  Options             \* the options that get switched

ASSUME EngineAssumption ==
  /\ MaxInput \in Nat /\ PageSize \in Nat \ {0} /\ MaxCodeLength \in Nat
  /\ {AutoSelect, AutoSelectUnique} \subseteq BOOLEAN
  /\ Options \subseteq {"ascii_mode", "full_shape"}

\* In the order of the candidates they select.
NumberKeys == << "1", "2", "3", "4", "5", "6", "7", "8", "9", "0" >>
Digits == Marks \cap ToSet(NumberKeys)
IndexOfKey(digit) == SelectInSeq(NumberKeys, LAMBDA key : key = digit) - 1

VARIABLES
  ctx,        \* the context
  handled,    \* what ProcessKeyEvent returned for the last key
  lastKey     \* history: the kind of the last key

vars == << ctx, handled, lastKey >>

Init ==
  /\ ctx = EmptyContext
  /\ handled = TRUE
  /\ lastKey = "none"

\* The context as a key event finds it: nothing committed by this key yet.
Fresh == [ctx EXCEPT !.sink = << >>]

Key(kind, c, accepted) ==
  /\ ctx' = c
  /\ handled' = accepted
  /\ lastKey' = kind

\* Reads OnSelect may make through the stale reference (Context.tla).
Reads == IF StableVector THEN {FALSE} ELSE BOOLEAN

-----------------------------------------------------------------------------
(* Speller.                                                                *)

\* A table entry that reaches the end of n characters of input.
IsAutoSelectable(c, seg, n) ==
  /\ GetSelectedCandidate(seg) = n
  /\ << SubSeq(c.input, seg.start + 1, seg.end), seg.sel >> \notin Guesses

\* A letter at a fixed code length first confirms the full code before it.
AtMaxCodeLength(c) ==
  /\ MaxCodeLength > 0 /\ HasMenu(c)
  /\ GetSelectedCandidate(Last(c.segs)) # Nil
  /\ GetSelectedCandidate(Last(c.segs)) - Last(c.segs).start = MaxCodeLength
  /\ IsAutoSelectable(c, Last(c.segs), Len(c.input))

\* The typed letter leaves a single candidate for the whole input ...
IsUnique(c) ==
  /\ AutoSelectUnique /\ HasMenu(c)
  /\ Len(Last(c.segs).menu) = 1
  /\ IsAutoSelectable(c, Last(c.segs), Len(c.input))

\* ... or none, where there was one for the code without it, in d.
IsOverrun(c, d) ==
  /\ AutoSelect /\ ~HasMenu(c) /\ HasMenu(d)
  /\ IsAutoSelectable(d, Last(d.segs), Last(d.segs).end)

\* Fault: an earlier selection is left open to being reverted.
Spell_NoConfirm(c, ch, read) ==
  LET d == IF AtMaxCodeLength(c) THEN ConfirmCurrentSelection(c, read) ELSE c
      e == PushInput(d, ch)
  IN  IF IsUnique(e) THEN ConfirmCurrentSelection(e, read)
      ELSE IF IsOverrun(e, d)
        THEN ConfirmCurrentSelection(
               [e EXCEPT !.segs = SetLast(@, Last(d.segs))], read)
        ELSE e

\* Fault: the segment that failed is not taken off before the word is put back.
Spell_NoPop(c, ch, read) ==
  LET d == IF AtMaxCodeLength(c) THEN ConfirmCurrentSelection(c, read) ELSE c
      e == ConfirmPreviousSelection(PushInput(d, ch))
  IN  IF IsUnique(e) THEN ConfirmCurrentSelection(e, read)
      ELSE IF IsOverrun(e, d)
        THEN ConfirmCurrentSelection(
               [e EXCEPT !.segs = Append(@, Last(d.segs))], read)
        ELSE e

Spell(c, ch, read) ==
  LET d == IF AtMaxCodeLength(c) THEN ConfirmCurrentSelection(c, read) ELSE c
      e == ConfirmPreviousSelection(PushInput(d, ch))
  IN  IF IsUnique(e) THEN ConfirmCurrentSelection(e, read)
      ELSE IF IsOverrun(e, d)
        THEN ConfirmCurrentSelection(
               [e EXCEPT !.segs = SetLast(@, Last(d.segs))], read)
        ELSE e

Letter ==
  /\ Len(ctx.input) < MaxInput
  /\ \E ch \in Letters, read \in Reads : Key("letter", Spell(Fresh, ch, read), TRUE)

-----------------------------------------------------------------------------
(* Selector: it acts on the menu of the last segment, unless that is raw.  *)

SelectorActs(c) ==
  c.segs # << >> /\ Last(c.segs).hasMenu /\ "raw" \notin Last(c.segs).tags

MoveTo(c, index) == [c EXCEPT !.segs = SetLast(@, [Last(@) EXCEPT !.sel = index])]

\* Paging leaves its tag, which key bindings ask for (KeyBinder, "paging").
PageTo(c, index) ==
  [c EXCEPT !.segs = SetLast(c.segs, [Last(c.segs) EXCEPT !.sel = index,
                                        !.tags = @ \cup {"paging"}])]

PagedUp(c) ==
  PageTo(c, IF Last(c.segs).sel < PageSize THEN 0 ELSE Last(c.segs).sel - PageSize)

PageUp == SelectorActs(ctx) /\ Key("page", PagedUp(Fresh), TRUE)

\* On to the next page if it has a candidate, then to its last one at most.
PagedDown(c) ==
  LET index == Last(c.segs).sel + PageSize
      start == (index \div PageSize) * PageSize
      count == Len(Last(c.segs).menu)
  IN  IF count <= start THEN c
      ELSE PageTo(c, IF index >= count THEN count - 1 ELSE index)

PageDown == SelectorActs(ctx) /\ Key("page", PagedDown(Fresh), TRUE)

CursorUp ==
  /\ SelectorActs(ctx)
  /\ LET sel == Last(ctx.segs).sel
     IN  Key("cursor", IF sel > 0 THEN PageTo(Fresh, sel - 1) ELSE Fresh, TRUE)

CursorDown ==
  /\ SelectorActs(ctx)
  /\ LET sel == Last(ctx.segs).sel
     IN  Key("cursor",
             IF sel + 1 < Len(Last(ctx.segs).menu) THEN PageTo(Fresh, sel + 1)
             ELSE Fresh, TRUE)

\* Select the candidate of that number on the page shown.
SelectCandidateAt(c, index, read) ==
  IF index >= PageSize THEN c
  ELSE Select(c, (Last(c.segs).sel \div PageSize) * PageSize + index, read)

-----------------------------------------------------------------------------
(* Navigator, after the selector has had Home and End.  Candidates here    *)
(* have no syllabification to jump by.                                     *)

Rewinds(c) == SelectorActs(c) /\ Last(c.segs).sel > 0

GoneLeft(c) == SetCaretPos(c, IF c.caret = 0 THEN Len(c.input) ELSE c.caret - 1)

Left == IsComposing(ctx) /\ Key("navigate", GoneLeft(Fresh), TRUE)

\* Where the guesses at the end of the composition begin.
ConfirmedPos(c) ==
  IF LastChosen(c) = Len(c.segs) THEN c.caret ELSE c.segs[LastChosen(c) + 1].start

GoHome(c) == SetCaretPos(c, IF ConfirmedPos(c) < c.caret THEN ConfirmedPos(c) ELSE 0)

Right ==
  /\ IsComposing(ctx)
  /\ Key("navigate",
         IF ctx.caret >= Len(ctx.input) THEN GoHome(Fresh)
         ELSE SetCaretPos(Fresh, ctx.caret + 1), TRUE)

Home ==
  /\ IsComposing(ctx)
  /\ Key("navigate", IF Rewinds(ctx) THEN MoveTo(Fresh, 0) ELSE GoHome(Fresh), TRUE)

End ==
  /\ IsComposing(ctx)
  /\ Key("navigate",
         IF ctx.caret < Len(ctx.input) THEN SetCaretPos(Fresh, Len(ctx.input))
         ELSE IF Rewinds(ctx) THEN MoveTo(Fresh, 0) ELSE Fresh, TRUE)

-----------------------------------------------------------------------------
(* Editor; AutoCommit tells the express editor from the fluency editor.    *)

\* Fault: nothing is committed when there is nothing left to confirm.
Confirm_NoCommit(c, read) == ConfirmCurrentSelection(c, read)

Confirm(c, read) ==
  LET d == ConfirmCurrentSelection(c, read)
  IN  IF CanConfirm(c) THEN d ELSE Commit(d)

Space ==
  \E read \in Reads : Key("space", Confirm(Fresh, read), IsComposing(ctx))

CommitComposition(c, read) ==
  LET d == ConfirmCurrentSelection(c, read)
  IN  IF ~CanConfirm(c) \/ ~HasMenu(d) THEN Commit(d) ELSE d

CommitRawInput(c) == Commit(ClearNonConfirmedComposition(c))

Return ==
  /\ IsComposing(ctx)
  /\ \E read \in Reads :
       Key("return", IF AutoCommit THEN CommitRawInput(Fresh)
                     ELSE CommitComposition(Fresh, read), TRUE)

CommitScriptText ==
  /\ IsComposing(ctx)
  /\ Key("script", Clear(Sink(Fresh, GetScriptText(Fresh))), TRUE)

\* Fault: once everything is reopened there is no erasing.
RevertToPreviousInput_NoPop(c) ==
  IF CanReopenSegment(c) THEN ReopenPreviousSegment(c) ELSE ReopenPreviousSelection(c)

\* Fluency: first reopen what was selected, and only then erase.
RevertToPreviousInput(c) ==
  IF CanReopenSegment(c) THEN ReopenPreviousSegment(c)
  ELSE IF CanReopenSelection(c) THEN ReopenPreviousSelection(c)
  ELSE PopInput(c, 1)

\* Express: undo a selection just made, else erase and reopen what is left.
RevertLastAction(c) ==
  IF CanReopenSelection(c) THEN ReopenPreviousSelection(c)
  ELSE IF c.caret < 1 THEN c
  ELSE ReopenPreviousSegment(PopInput(c, 1))

BackSpace ==
  Key("backspace",
      IF ~IsComposing(ctx) THEN Fresh
      ELSE IF AutoCommit THEN RevertLastAction(Fresh)
      ELSE RevertToPreviousInput(Fresh), IsComposing(ctx))

\* DropPreviousSyllable, of a phrase without syllabification.
ShiftBackSpace ==
  /\ IsComposing(ctx)
  /\ Key("drop", PopInput(Fresh, 1), TRUE)

Delete ==
  /\ IsComposing(ctx)
  /\ Key("delete", DeleteInput(Fresh, 1), TRUE)

\* DeleteCurrentSelection: Memory refreshes the menu once it has unlearned
\* the candidate, when that is one of its phrases.
ShiftDelete ==
  /\ IsComposing(ctx)
  /\ \E recognized \in BOOLEAN :
       /\ recognized => ctx.segs # << >> /\ GetSelectedCandidate(Last(ctx.segs)) # Nil
       /\ Key("unlearn",
              IF recognized THEN RefreshNonConfirmedComposition(Fresh) ELSE Fresh, TRUE)

Escape ==
  /\ IsComposing(ctx)
  /\ Key("escape", IF CanClearSegment(ctx) THEN ClearPreviousSegment(Fresh)
                   ELSE Clear(Fresh), TRUE)

\* A number key the selector has no use for is text: part of the input for
\* the fluency editor; the express editor commits and lets it through.
Number ==
  /\ \/ Len(ctx.input) < MaxInput \/ AutoCommit \/ SelectorActs(ctx)
  /\ \E digit \in Digits, read \in Reads :
       IF SelectorActs(ctx)
         THEN Key("number", SelectCandidateAt(Fresh, IndexOfKey(digit), read), TRUE)
         ELSE IF AutoCommit THEN Key("text", Commit(Fresh), FALSE)
         ELSE Key("text", ConfirmPreviousSelection(PushInput(Fresh, digit)), TRUE)

-----------------------------------------------------------------------------
(* Calls of the front end on the session, and options switched by it.      *)

SessionCommit == Key("api", Commit(Fresh), TRUE)

SessionClear == Key("api", Clear(Fresh), TRUE)

\* "other" stands for the options that only filters and translators read.
OptionUpdate ==
  \E name \in Options \cup {"other"}, on \in BOOLEAN : Key("api", SetOption(Fresh, name, on), TRUE)

Next ==
  \/ Letter \/ Number
  \/ PageUp \/ PageDown \/ CursorUp \/ CursorDown
  \/ Left \/ Right \/ Home \/ End
  \/ Space \/ Return \/ CommitScriptText
  \/ BackSpace \/ ShiftBackSpace \/ Delete \/ ShiftDelete \/ Escape
  \/ SessionCommit \/ SessionClear \/ OptionUpdate

Spec == Init /\ [][Next]_vars

-----------------------------------------------------------------------------
(* Properties of a composition at rest, between two keys.                  *)

\* What is composed is the text before the caret, whichever handler ran last
\* and by whatever path of callbacks: no handler returns with a composition
\* of some earlier input or caret, and the segments cover the active input
\* without gap or overlap, to its end.
Covered ==
  /\ ctx.caret <= Len(ctx.input)
  /\ ctx.active = SubSeq(ctx.input, 1, ctx.caret)
  /\ Tiled(ctx.segs, Len(ctx.active))
  /\ HasFinishedSegmentation(ctx.segs, ctx.active)

\* The number keys and the page drawn for the user work on the menu of the
\* last segment: it shows the candidates of exactly the code in it, with one
\* of them highlighted; and text that comes last is still to be decided.
MenuIsCurrent ==
  /\ Covered
  /\ \A i \in 1..Len(ctx.segs) :
       ctx.segs[i].status = kGuess =>
         /\ ctx.segs[i].menu = MenuFor(ctx.segs[i], ctx.active, ctx.opts)
         /\ ctx.segs[i].menu # << >> => ctx.segs[i].sel < Len(ctx.segs[i].menu)
  /\ ctx.segs # << >> /\ ~IsEmptySegment(Last(ctx.segs)) => Last(ctx.segs).status = kGuess

\* A selected segment ends where the candidate taken for it ends, across all
\* the ways to select, reopen, erase and move about: what follows it is not
\* converted twice, and nothing of it is left unconverted.
SelectionExact ==
  \A i \in 1..Len(ctx.segs) :
    ctx.segs[i].status >= kSelected => TextEnd(ctx.segs[i]) = ctx.segs[i].end

-----------------------------------------------------------------------------
(* Properties of what is committed.                                        *)

\* The segment of a commit that holds the character at position p.
Holder(commit, p) ==
  {i \in 1..Len(commit.segs) : commit.segs[i].start < p /\ p <= commit.segs[i].end}

InText(commit, p) ==
  \E i \in 1..Len(commit.text) : commit.text[i].from < p /\ p <= commit.text[i].to

\* What is committed stands for the typed text in its order, no character of
\* it twice; and of the text before the caret it leaves out at most the tail
\* of a guess, not the last segment, whose highlighted candidate is partial:
\* never a character of a segment that was selected, or left raw.
CommitAccountsForInput ==
  \A n \in 1..Len(ctx.sink) :
    LET commit == ctx.sink[n]
    IN  /\ \A i, j \in 1..Len(commit.text) : i < j => commit.text[i].to <= commit.text[j].from
        /\ \A p \in 1..commit.caret :
             InText(commit, p)
             \/ \E i \in Holder(commit, p) :
                  \/ IsUnspoken(commit.segs[i])
                  \/ /\ i < Len(commit.segs) /\ commit.segs[i].status = kGuess
                     /\ TextEnd(commit.segs[i]) < p

\* A selection the user made reaches the application as it was made.
SelectionIsCommitted ==
  \A n \in 1..Len(ctx.sink) :
    \A i \in 1..Len(ctx.sink[n].segs) :
      LET seg == ctx.sink[n].segs[i]
      IN  seg.status >= kSelected /\ GetSelectedCandidate(seg) # Nil =>
            \E j \in 1..Len(ctx.sink[n].text) :
              ctx.sink[n].text[j] = Piece(TRUE, seg.start, seg.end)

\* A key that stands for text or for erasing text reaches the application
\* only when nothing is being composed: it cannot overtake the composition.
TextKeyNotOvertaking ==
  ~handled /\ lastKey \in {"letter", "text", "number", "space", "backspace"} => ctx.input = << >>

-----------------------------------------------------------------------------
(* Properties of a step.                                                   *)

\* speller.cc says of ConfirmPreviousSelection, after a letter, "so that next
\* BackSpace won't revert previous selection".
BackSpaceKeepsSelections ==
  [][lastKey = "letter" /\ BackSpace =>
       \A i \in 1..LastChosen(ctx) :
         ctx.segs[i].status >= kSelected =>
           i <= Len(ctx'.segs) /\ ctx'.segs[i].status >= kSelected]_vars
=============================================================================
