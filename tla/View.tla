-------------------------------- MODULE View --------------------------------
(***************************************************************************)
(* What the user sees of the engine: ibus-rime asks for the status, the    *)
(* committed text and the context after each key (ibus_rime_engine_update) *)
(* and draws a preedit text, an auxiliary text and a table of candidates.  *)
(* All of it is a function of the context; a text is a sequence of pieces  *)
(* of the input, converted or raw (Context.tla).                           *)
(***************************************************************************)
EXTENDS Engine

CONSTANT EmbedPreedit      \* embed_preedit_text of ibus

ASSUME ViewAssumption == EmbedPreedit \in BOOLEAN

\* Composition::GetPreedit, of the segments before the last: raw input is
\* taken from where the text before it ended.
Converted(c) ==
  [i \in 1..Len(c.segs) - 1 |->
     LET seg  == c.segs[i]
         cand == GetSelectedCandidate(seg)
     IN  IF cand # Nil THEN Piece(TRUE, seg.start, cand)
         ELSE Piece(FALSE, IF IsUnspoken(seg) THEN seg.end
                           ELSE IF i = 1 THEN 0 ELSE TextEnd(c.segs[i - 1]), seg.end)]

\* ... of the last one, its preedit if the candidate has one (or else raw);
\* there is nothing to highlight in an empty one (prompts are left out) ...
Highlighted(c) ==
  LET n == Len(c.segs)
  IN  << Piece(FALSE, IF n = 1 THEN 0 ELSE TextEnd(c.segs[n - 1]), TextEnd(c.segs[n])) >>

\* ... and Context::GetPreedit: what comes after the caret is appended.
AfterCaret(c) ==
  IF c.caret < Len(c.input) THEN << Piece(FALSE, c.caret, Len(c.input)) >> ELSE << >>

NoPreedit == [text |-> << >>, sel |-> 0, highlighting |-> FALSE]

GetPreedit(c) ==
  IF c.segs = << >> THEN [NoPreedit EXCEPT !.text = AfterCaret(c)]
  ELSE [text |-> Converted(c) \o Highlighted(c) \o Remainder(c) \o AfterCaret(c),
        sel  |-> Len(c.segs),
        highlighting |-> Highlighted(c)[1].from < Highlighted(c)[1].to]

-----------------------------------------------------------------------------
\* Fault: the page after the one that the highlighted candidate is on when
\* that is the first of a page.
PageNo_RoundsUp(c) == (Last(c.segs).sel + PageSize - 1) \div PageSize

PageNo(c) == Last(c.segs).sel \div PageSize

\* Menu::CreatePage; a translation is dropped with its last candidate.
CreatePage(menu, pageNo) ==
  LET start == PageSize * pageNo
      end   == IF start + PageSize < Len(menu) THEN start + PageSize ELSE Len(menu)
  IN  IF start >= end THEN [candidates |-> << >>, isLastPage |-> FALSE]
      ELSE [candidates |-> SubSeq(menu, start + 1, end), isLastPage |-> (end = Len(menu))]

\* RimeGetContext.
GetContext(c) ==
  [preedit |-> IF IsComposing(c) THEN GetPreedit(c) ELSE NoPreedit,
   preview |-> IF IsComposing(c) THEN GetCommitText(c) ELSE << >>,
   menu    |-> IF HasMenu(c)
                 THEN LET page == CreatePage(Last(c.segs).menu, PageNo(c))
                      IN  [candidates  |-> page.candidates, isLastPage |-> page.isLastPage,
                           highlighted |-> Last(c.segs).sel % PageSize]
                 ELSE [candidates |-> << >>, isLastPage |-> FALSE, highlighted |-> 0]]

-----------------------------------------------------------------------------
\* How many pieces of the preedit come before the selection.
BeforeSelection(context) == IF context.preedit.sel = 0 THEN 0 ELSE context.preedit.sel - 1

\* ibus_rime_engine_update: the inline text is the preview of the commit,
\* highlighted from where the selection begins, and the auxiliary text is the
\* part of the preedit that is not converted yet: all of it when there is no
\* inline text, none when the inline text has no highlight.
Shown(context) ==
  LET inline == EmbedPreedit /\ context.preview # << >>
      lit    == context.preedit.highlighting
      offset == IF ~inline THEN 0
                ELSE IF lit THEN BeforeSelection(context) ELSE Len(context.preedit.text)
  IN  IF context.preedit.text = << >>
        THEN [inline |-> << >>, lit |-> FALSE, auxiliary |-> << >>, table |-> << >>, cursor |-> 0]
      ELSE [inline    |-> IF inline THEN context.preview ELSE << >>,
            lit       |-> lit,
            auxiliary |-> SubSeq(context.preedit.text, offset + 1, Len(context.preedit.text)),
            table     |-> context.menu.candidates,
            cursor    |-> context.menu.highlighted]

-----------------------------------------------------------------------------
\* The page of candidates on display is the one the keys mean: the candidate
\* under the cursor is the one that Space would select, a number key selects
\* the candidate drawn beside it, and the page says it is the last exactly
\* when Page_Down leaves it where it is.
PageIsTrue ==
  LET page == GetContext(ctx).menu
      seg  == Last(ctx.segs)
  IN  HasMenu(ctx) =>
        /\ page.highlighted < Len(page.candidates)
        /\ page.candidates[page.highlighted + 1] = GetSelectedCandidate(seg)
        /\ \A i \in 1..Len(page.candidates) :
             page.candidates[i] = GetCandidateAt(seg, (seg.sel \div PageSize) * PageSize + i - 1)
        /\ page.isLastPage <=> PageNo(PagedDown(ctx)) = PageNo(ctx)

\* The inline text and the preedit agree up to the selection, where the
\* highlight and the auxiliary text begin if there is something to highlight,
\* although one is made by GetCommitText, from the segments' starts, and the
\* other by GetPreedit, from where the text before ended: the front end takes a
\* place in the preedit (sel_start) for one in the preview of the commit.
HighlightAligned ==
  LET context == GetContext(ctx)
      shown   == Shown(context)
      before  == BeforeSelection(context)
  IN  shown.inline # << >> =>
        /\ before <= Len(shown.inline)
        /\ SubSeq(shown.inline, 1, before) = SubSeq(context.preedit.text, 1, before)
=============================================================================
