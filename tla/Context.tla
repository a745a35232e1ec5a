------------------------------ MODULE Context -------------------------------
(***************************************************************************)
(* The class Context (librime/src/context.cc) and the callbacks through    *)
(* which ConcreteEngine answers its notifications (librime/src/engine.cc). *)
(* Everything runs in the thread of the key event, a notification being a  *)
(* plain call, so each method is an operator from a context to the context *)
(* it leaves, with everything its callbacks did.                           *)
(*                                                                         *)
(* A context is a record: `input' and `caret' are the text being typed and *)
(* the caret in it; `segs' the composition and `active' the copy of the    *)
(* input it was last composed from; `sink' what has been committed during  *)
(* the current key event.  A commit is recorded with the context it was    *)
(* made in, as CommitHistory does.  Its text is a sequence of pieces, each *)
(* the slice [from, to) of the active input it stands for, converted to a  *)
(* candidate or raw.  `opts' are the options that are on; `temp' tells     *)
(* that ascii_composer listens for the end of the composition, to take     *)
(* ascii_mode back.                                                        *)
(***************************************************************************)
EXTENDS Segments

CONSTANTS
  AutoCommit,     \* option _auto_commit: set by express_editor only
  StableVector    \* the segment vector has spare room: push_back moves nothing

ASSUME ContextAssumption == {AutoCommit, StableVector} \subseteq BOOLEAN

EmptyContext ==
  [input |-> << >>, caret |-> 0, segs |-> << >>, active |-> << >>, sink |-> << >>,
   opts |-> {}, temp |-> FALSE]

IsComposing(c) == c.input # << >>

HasMenu(c) ==
  c.segs # << >> /\ Last(c.segs).hasMenu /\ Last(c.segs).menu # << >>

-----------------------------------------------------------------------------
(* ConcreteEngine::Compose, called on every update.                        *)

ResetComposition(s, old, new) ==
  LET d == CHOOSE d \in 0..Len(new) : IsDiffPos(d, old, new)
  IN  Dispose(s, CHOOSE n \in 0..Len(s) : IsKeptCount(n, s, d))

\* What n rounds of segmentors make of it, for each n.
AfterRounds(s, input, opts) ==
  LET after[n \in Nat] == IF n = 0 THEN s ELSE Round(after[n - 1], input, opts)
  IN  after

\* The loop ends after n rounds: the input is used up, or the last of them has
\* recognized nothing more.
IsOver(after, n, input) ==
  \/ HasFinishedSegmentation(after[n], input)
  \/ n > 0 /\ GetCurrentEndPosition(after[n]) = GetCurrentStartPosition(after[n - 1])

IsRoundCount(n, after, input) ==
  IsOver(after, n, input) /\ \A m \in 0..(n - 1) : ~IsOver(after, m, input)

\* The rounds until the loop ends; no more than one for each character are run
\* (Segmentation.tla, ComposeReturns).
WhenOver(after, input) ==
  after[CHOOSE n \in 0..Len(input) : IsRoundCount(n, after, input)]

Rounds(s, input, opts) == WhenOver(AfterRounds(s, input, opts), input)

CalculateSegmentation(s, input, opts) == FinishSegmentation(Rounds(s, input, opts))

\* Fault: the mode ends with a commit only.
EndTemporary_OnCommit(c) ==
  IF c.temp /\ ~IsComposing(c) /\ c.sink # << >>
    THEN [c EXCEPT !.temp = FALSE, !.opts = @ \ {"ascii_mode"}] ELSE c

\* AsciiComposer::OnContextUpdate: inline ascii mode ends with the composition.
EndTemporary(c) ==
  IF c.temp /\ ~IsComposing(c)
    THEN [c EXCEPT !.temp = FALSE, !.opts = @ \ {"ascii_mode"}] ELSE c

Compose(c) ==
  LET active == SubSeq(c.input, 1, c.caret)
      kept   == ResetComposition(c.segs, c.active, active)
  IN  EndTemporary(
        [c EXCEPT !.active = active,
                  !.segs = TranslateSegments(
                    CalculateSegmentation(kept, active, c.opts), active, c.opts)])

-----------------------------------------------------------------------------
(* Editing the input; each method ends in an update.                       *)

PushInputString(c, str) ==
  Compose([c EXCEPT !.caret = @ + Len(str),
                    !.input = SubSeq(@, 1, c.caret) \o str
                                \o SubSeq(@, c.caret + 1, Len(@))])

PushInput(c, ch) == PushInputString(c, << ch >>)

Erased(input, from, len) ==
  SubSeq(input, 1, from) \o SubSeq(input, from + len + 1, Len(input))

PopInput(c, len) ==
  IF c.caret < len THEN c
  ELSE Compose([c EXCEPT !.caret = @ - len,
                         !.input = Erased(@, c.caret - len, len)])

DeleteInput(c, len) ==
  IF c.caret + len > Len(c.input) THEN c
  ELSE Compose([c EXCEPT !.input = Erased(@, c.caret, len)])

SetInput(c, value) ==
  Compose([c EXCEPT !.input = value, !.caret = Len(value)])

SetCaretPos(c, pos) ==
  Compose([c EXCEPT !.caret = IF pos > Len(c.input) THEN Len(c.input) ELSE pos])

Clear(c) == Compose([c EXCEPT !.input = << >>, !.caret = 0, !.segs = << >>])

-----------------------------------------------------------------------------
(* Committing.                                                             *)

Piece(conv, from, to) == [conv |-> conv, from |-> from, to |-> to]

\* Where the text of a segment ends: at its candidate's end or its own.
TextEnd(seg) ==
  IF GetSelectedCandidate(seg) # Nil THEN GetSelectedCandidate(seg) ELSE seg.end

\* A phony segment, of a prefix or suffix, has no text of its own.
IsUnspoken(seg) == "phony" \in seg.tags /\ GetSelectedCandidate(seg) = Nil

\* Fault: input that the last candidate does not reach is forgotten.
Remainder_Lost(c) == << >>

\* Input beyond the text of the last segment is appended raw.
Remainder(c) ==
  LET end == IF c.segs = << >> THEN 0 ELSE TextEnd(Last(c.segs))
  IN  IF Len(c.active) > end THEN << Piece(FALSE, end, Len(c.active)) >> ELSE << >>

\* Fault: only what has been confirmed is committed as converted.
GetCommitText_ConfirmedOnly(c) ==
  [i \in 1..Len(c.segs) |->
     Piece(GetSelectedCandidate(c.segs[i]) # Nil /\ c.segs[i].status = kConfirmed,
           c.segs[i].start, TextEnd(c.segs[i]))] \o Remainder(c)

\* Composition::GetCommitText: each segment by its own start.
GetCommitText(c) ==
  [i \in 1..Len(c.segs) |->
     Piece(GetSelectedCandidate(c.segs[i]) # Nil,
           IF IsUnspoken(c.segs[i]) THEN c.segs[i].end ELSE c.segs[i].start,
           TextEnd(c.segs[i]))] \o Remainder(c)

\* Composition::GetScriptText: each segment from where the one before ended.
GetScriptText(c) ==
  [i \in 1..Len(c.segs) |->
     Piece(GetSelectedCandidate(c.segs[i]) # Nil,
           IF i = 1 THEN 0 ELSE TextEnd(c.segs[i - 1]),
           TextEnd(c.segs[i]))] \o Remainder(c)

Sink(c, text) ==
  [c EXCEPT !.sink = Append(@, [input |-> c.input, caret |-> c.caret,
                                segs |-> c.segs, text |-> text])]

\* Context::Commit with ConcreteEngine::OnCommit; nothing when not composing.
Commit(c) == IF IsComposing(c) THEN Clear(Sink(c, GetCommitText(c))) ELSE c

-----------------------------------------------------------------------------
(* Selecting.                                                              *)

\* Fault: the segment is not split at the candidate.
OnSelect_NoSplit(c, read) ==
  LET seg  == Last(c.segs)
      done == [c EXCEPT !.segs = SetLast(@, [seg EXCEPT !.status = kConfirmed])]
      next == [c EXCEPT !.segs = Forward(@)]
  IN  IF seg.end = Len(c.input)
        THEN IF AutoCommit THEN Commit(done)
                           ELSE [done EXCEPT !.segs = Forward(@)]
        ELSE IF seg.end >= c.caret THEN SetCaretPos(next, Len(c.input))
                                   ELSE Compose(next)

\* ConcreteEngine::OnSelect.  After Forward's push_back the code reads the
\* end of the segment through a reference into the vector from before: when
\* the vector has had to move, what it reads is anything (`read').
OnSelect(c, read) ==
  LET old  == Last(c.segs)
      cand == GetSelectedCandidate(old)
      seg  == IF cand # Nil /\ cand < old.end THEN [old EXCEPT !.end = cand] ELSE old
      done == [c EXCEPT !.segs = SetLast(@, [seg EXCEPT !.status = kConfirmed])]
      next == [c EXCEPT !.segs = Forward(SetLast(@, seg))]
      reachesCaret == IF StableVector THEN seg.end >= c.caret ELSE read
  IN  IF seg.end = Len(c.input)
        THEN IF AutoCommit THEN Commit(done)
                           ELSE [done EXCEPT !.segs = Forward(@)]
        ELSE IF reachesCaret THEN SetCaretPos(next, Len(c.input))
                             ELSE Compose(next)

Select(c, index, read) ==
  IF c.segs = << >> \/ GetCandidateAt(Last(c.segs), index) = Nil THEN c
  ELSE OnSelect([c EXCEPT !.segs = SetLast(@, [Last(@) EXCEPT !.sel = index,
                                                 !.status = kSelected])], read)

\* What ConfirmCurrentSelection returns: there is something to confirm, a
\* candidate or raw input.
CanConfirm(c) ==
  /\ c.segs # << >>
  /\ GetSelectedCandidate(Last(c.segs)) # Nil \/ ~IsEmptySegment(Last(c.segs))

ConfirmCurrentSelection(c, read) ==
  IF c.segs = << >> THEN c
  ELSE LET d == [c EXCEPT !.segs = SetLast(@, [Last(@) EXCEPT !.status = kSelected])]
       IN  IF CanConfirm(c) THEN OnSelect(d, read) ELSE d

\* The last segment that is not a mere guess, 0 for none.
LastChosen(c) == SelectLastInSeq(c.segs, LAMBDA seg : seg.status >= kSelected)

ConfirmPreviousSelection(c) ==
  LET n == LastChosen(c)
  IN  IF n > 0 /\ c.segs[n].status = kSelected
        THEN [c EXCEPT !.segs[n].status = kConfirmed] ELSE c

-----------------------------------------------------------------------------
(* Taking back a selection.                                                *)

CanReopenSegment(c) == c.segs # << >> /\ IsEmptySegment(Last(c.segs))

ReopenPreviousSegment(c) ==
  LET t == Trim(c.segs)
  IN  IF ~CanReopenSegment(c) THEN c
      ELSE Compose([c EXCEPT !.segs =
             IF t # << >> /\ Last(t).status >= kSelected
               THEN SetLast(t, [Last(t) EXCEPT !.status = kVoid]) ELSE t])

CanReopenSelection(c) ==
  LastChosen(c) > 0 /\ c.segs[LastChosen(c)].status = kSelected

ReopenPreviousSelection(c) ==
  IF ~CanReopenSelection(c) THEN c
  ELSE LET t == SubSeq(c.segs, 1, LastChosen(c))
       IN  Compose([c EXCEPT !.segs = SetLast(t, [Last(t) EXCEPT !.status = kVoid])])

CanClearSegment(c) == c.segs # << >> /\ Last(c.segs).start < Len(c.input)

\* Erase from the start of the last segment on.
ClearPreviousSegment(c) ==
  IF CanClearSegment(c) THEN SetInput(c, SubSeq(c.input, 1, Last(c.segs).start))
                        ELSE c

\* Pop the guesses at the end and open an empty segment if there were any.
ClearNonConfirmedComposition(c) ==
  IF LastChosen(c) = Len(c.segs) THEN c
  ELSE [c EXCEPT !.segs = Forward(SubSeq(@, 1, LastChosen(c)))]

\* Fault: what has been dropped is not composed anew.
RefreshNonConfirmedComposition_NoUpdate(c) == ClearNonConfirmedComposition(c)

RefreshNonConfirmedComposition(c) ==
  IF LastChosen(c) = Len(c.segs) THEN c ELSE Compose(ClearNonConfirmedComposition(c))

-----------------------------------------------------------------------------
(* Options.                                                                *)

Read == {"ascii_mode", "full_shape"}

\* set_option and ConcreteEngine::OnOptionUpdate; the value counts for the
\* options some segmentor or translator looks at.
SetOption(c, name, on) ==
  LET d == [c EXCEPT !.opts = IF on THEN @ \cup ({name} \cap Read) ELSE @ \ {name}]
  IN  IF IsComposing(c) THEN RefreshNonConfirmedComposition(d) ELSE d
=============================================================================
