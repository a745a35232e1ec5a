---------------------------- MODULE Segmentation ----------------------------
(***************************************************************************)
(* The life of one composition, at the grain of the engine's loops: what   *)
(* ConcreteEngine::Compose does to it whenever the input changes - reset,  *)
(* round after round of segmentors, translation - and, between two calls   *)
(* of Compose, what the methods of Context do to it in place.              *)
(*                                                                         *)
(* Compose is called with any new input whatever: it is the active input,  *)
(* the text before the caret, and a key may insert, erase or move the      *)
(* caret anywhere.  The key handlers themselves, and which method follows  *)
(* which, are in Engine.tla, where each handler is a single step; here     *)
(* the question is what the loops make of a composition and that they end. *)
(***************************************************************************)
EXTENDS Segments

CONSTANTS
  MaxInput,     \* bound on the length of the active input
  Options       \* the options that get switched

ASSUME MaxInputAssumption == MaxInput \in Nat
ASSUME OptionsAssumption == Options \subseteq {"ascii_mode", "full_shape"}

VARIABLES
  input,    \* Segmentation::input_, as of the last Reset
  segs,     \* the vector of segments
  opts,     \* the options that are on
  rounds,   \* history: rounds of the segmentors since the last Reset
  phase     \* where Compose is, "segment", "finish" or "translate"; "rest"
            \* outside of it, "edited" when a method of Context has changed
            \* the vector and is about to call it

vars == << input, segs, opts, rounds, phase >>

Inputs == UNION {[1..n -> Chars] : n \in 0..MaxInput}

Init ==
  /\ input = << >>
  /\ segs = << >>
  /\ opts = {}
  /\ rounds = 0
  /\ phase = "rest"

-----------------------------------------------------------------------------
(* ConcreteEngine::Compose.                                                *)

\* comp->Reset(active_input): drop what ends beyond the first difference.
Reset(new) ==
  /\ phase \in {"rest", "edited"}
  /\ \E d \in 0..Len(new) :
       /\ IsDiffPos(d, input, new)
       /\ \E n \in 0..Len(segs) : IsKeptCount(n, segs, d) /\ segs' = Dispose(segs, n)
  /\ input' = new
  /\ phase' = "segment"
  /\ rounds' = 0
  /\ UNCHANGED opts

\* One turn of the loop of CalculateSegmentation.
RunRound ==
  /\ phase = "segment"
  /\ ~HasFinishedSegmentation(segs, input)
  /\ segs' = Round(segs, input, opts)
  /\ phase' = IF GetCurrentEndPosition(segs') = GetCurrentStartPosition(segs)
                THEN "finish" ELSE "segment"
  /\ rounds' = rounds + 1
  /\ UNCHANGED << input, opts >>

\* The loop has ended: by its condition, or for want of advancement.
Finish ==
  /\ \/ phase = "finish"
     \/ phase = "segment" /\ HasFinishedSegmentation(segs, input)
  /\ segs' = FinishSegmentation(segs)
  /\ phase' = "translate"
  /\ UNCHANGED << input, opts, rounds >>

TranslateAll ==
  /\ phase = "translate"
  /\ segs' = TranslateSegments(segs, input, opts)
  /\ phase' = "rest"
  /\ rounds' = 0
  /\ UNCHANGED << input, opts >>

Compose == RunRound \/ Finish \/ TranslateAll

-----------------------------------------------------------------------------
(* Methods of Context that change the vector in place.                     *)

\* Selector: highlight another candidate.
Highlight ==
  /\ phase = "rest" /\ segs # << >>
  /\ \E index \in 0..(Len(Last(segs).menu) - 1) :
       segs' = SetLast(segs, [Last(segs) EXCEPT !.sel = index])
  /\ UNCHANGED << input, opts, rounds, phase >>

\* Select / ConfirmCurrentSelection and the engine's OnSelect: the segment
\* shrinks to the candidate taken and an empty one is opened after it.  It
\* is confirmed at the end of the whole input, which may lie beyond this one.
SelectLast ==
  /\ phase = "rest" /\ segs # << >> /\ ~IsEmptySegment(Last(segs))
  /\ \E index \in {Last(segs).sel} \cup 0..(Len(Last(segs).menu) - 1),
        status \in {kSelected, kConfirmed} :
       LET cand == GetCandidateAt(Last(segs), index)
           seg  == [Last(segs) EXCEPT !.sel = index, !.status = status]
       IN  segs' = Forward(SetLast(segs,
                     IF cand = Nil THEN seg ELSE [seg EXCEPT !.end = cand]))
  /\ phase' \in {"rest", "edited"}    \* Compose follows unless all is converted
  /\ phase' = "rest" => Last(segs').end = Len(input)
  /\ UNCHANGED << input, opts, rounds >>

\* ConfirmPreviousSelection, for the segment i the search stops at.
ConfirmPrevious ==
  /\ phase = "rest"
  /\ \E i \in 1..Len(segs) :
       /\ segs[i].status = kSelected
       /\ \A j \in (i + 1)..Len(segs) : segs[j].status < kSelected
       /\ segs' = [segs EXCEPT ![i].status = kConfirmed]
  /\ UNCHANGED << input, opts, rounds, phase >>

\* ReopenPreviousSegment: drop the empty trailing segment, reopen the last.
ReopenSegment ==
  /\ phase = "rest" /\ segs # << >> /\ IsEmptySegment(Last(segs))
  /\ LET t == Front(segs)
     IN  segs' = IF t # << >> /\ Last(t).status >= kSelected
                   THEN SetLast(t, [Last(t) EXCEPT !.status = kVoid])
                   ELSE t
  /\ phase' = "edited"
  /\ UNCHANGED << input, opts, rounds >>

\* ReopenPreviousSelection: back to the segment i selected last.
ReopenSelection ==
  /\ phase = "rest"
  /\ \E i \in 1..Len(segs) :
       /\ segs[i].status = kSelected
       /\ \A j \in (i + 1)..Len(segs) : segs[j].status < kSelected
       /\ segs' = [SubSeq(segs, 1, i) EXCEPT ![i].status = kVoid]
  /\ phase' = "edited"
  /\ UNCHANGED << input, opts, rounds >>

\* RefreshNonConfirmedComposition, as OnOptionUpdate calls it: keep n segments,
\* up to the selected ones.
Refresh ==
  /\ phase = "rest"
  /\ opts' \in SUBSET Options
  /\ IF segs # << >> /\ Last(segs).status < kSelected
       THEN /\ \E n \in 0..(Len(segs) - 1) :
                 /\ n > 0 => segs[n].status >= kSelected
                 /\ \A i \in (n + 1)..Len(segs) : segs[i].status < kSelected
                 /\ segs' = Forward(SubSeq(segs, 1, n))
            /\ phase' = "edited"
       ELSE UNCHANGED << segs, phase >>
  /\ UNCHANGED << input, rounds >>

\* Clear empties the vector; the input follows with the Reset it notifies.
Clear ==
  /\ phase = "rest"
  /\ segs' = << >>
  /\ phase' = "edited"
  /\ UNCHANGED << input, opts, rounds >>

Edit == \/ Highlight \/ SelectLast \/ ConfirmPrevious \/ ReopenSegment
        \/ ReopenSelection \/ Refresh \/ Clear

Next == (\E new \in Inputs : Reset(new)) \/ Compose \/ Edit

Spec == Init /\ [][Next]_vars

-----------------------------------------------------------------------------
\* At every moment - inside Compose and between two calls of it - the
\* segments cover the input from its start without gap or overlap and never
\* reach past its end: what GetCommitText, GetPreedit and every substr of
\* the code take for granted.
Tiling == Tiled(segs, Len(input))

\* The candidates on offer for an undecided segment stay within it, and when
\* Compose returns a segment that holds text and comes last is undecided: so
\* whatever is selected next can only shrink the segment, never stretch it.
OfferWithin ==
  /\ \A i \in 1..Len(segs) : segs[i].status = kGuess => MenuWithin(segs[i])
  /\ phase = "rest" /\ segs # << >> /\ ~IsEmptySegment(Last(segs)) =>
       Last(segs).status = kGuess

\* When the rounds are over the whole active input has been segmented (they
\* never stop for want of advancement), and the last segment is empty only
\* after one the user has selected.
FullySegmented ==
  phase \in {"translate", "rest"} =>
    /\ HasFinishedSegmentation(segs, input)
    /\ segs # << >> /\ IsEmptySegment(Last(segs)) =>
         Len(segs) > 1 /\ segs[Len(segs) - 1].status >= kSelected

\* Composing anew never takes back a choice the user made on text that is
\* still there: a selected word survives every reset whose new input agrees
\* with the old one up to its end, and every round of segmentors, whatever
\* patterns match.  (Not so raw text: fallback_segmentor joins more to it,
\* and a word reopened in ascii mode counts as raw from then on.)
SelectionKept ==
  [][phase' \in {"segment", "finish", "translate"} =>
       \A i \in 1..Len(segs) :
         /\ segs[i].status >= kSelected /\ "raw" \notin segs[i].tags
         /\ segs[i].end <= Len(input')
         /\ \A k \in 1..segs[i].end : input[k] = input'[k]
         => i <= Len(segs') /\ segs'[i] = segs[i]]_vars

\* The loop of CalculateSegmentation ends, so that every key gets its answer:
\* the matcher may take segments back and the affix segmentor may add three,
\* but no more rounds are run than the input has characters.
ComposeReturns == rounds <= Len(input)
=============================================================================
