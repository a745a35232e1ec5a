------------------------- MODULE SegmentationProofs -------------------------
(***************************************************************************)
(* For any alphabet, dictionary, punctuation and patterns, and inputs of   *)
(* any length: the segments of a composition tile the input at every turn  *)
(* of the loops, the whole of it gets segmented, and no round or reset     *)
(* takes back a choice of the user's.                                      *)
(***************************************************************************)
EXTENDS Segmentation, SegmentsProofs

\* The length of the active input.
N == Len(input)

TypeInv ==
  /\ input \in Seq(Chars)
  /\ segs \in Comps
  /\ opts \in SUBSET Options
  /\ rounds \in Nat
  /\ phase \in {"rest", "edited", "segment", "translate"}

\* When Compose is done the last segment that holds text is undecided.
Undecided ==
  phase = "rest" /\ segs # << >> /\ segs[Len(segs)].start < segs[Len(segs)].end =>
    segs[Len(segs)].status = kGuess

\* The whole input is segmented; an empty segment follows a chosen one.
Whole ==
  phase \in {"translate", "rest"} =>
    /\ GetCurrentEndPosition(segs) >= N
    /\ segs # << >> /\ ~LastFull(segs) =>
         Len(segs) > 1 /\ segs[Len(segs) - 1].status >= kSelected

\* A round that does not end the loop begins further on than the one before.
Bounded ==
  /\ rounds <= N
  /\ phase \in {"rest", "edited"} => rounds = 0
  /\ phase = "segment" /\ GetCurrentEndPosition(segs) < N =>
       rounds <= GetCurrentStartPosition(segs)

IInv ==
  TypeInv /\ Formed(segs, N) /\ LastOpen(segs) /\ Undecided /\ Whole /\ Bounded

-----------------------------------------------------------------------------
(* The invariant, and what becomes of the choices, action by action.       *)

\* The step that SelectionKept allows.
KeepsChoices ==
  phase' \in {"segment", "finish", "translate"} =>
    \A i \in 1..Len(segs) :
      /\ segs[i].status >= kSelected /\ "raw" \notin segs[i].tags
      /\ segs[i].end <= Len(input')
      /\ \A k \in 1..segs[i].end : input[k] = input'[k]
      => i <= Len(segs') /\ segs'[i] = segs[i]

\* What can be typed is a sequence of characters.
LEMMA Texts == Inputs \subseteq Seq(Chars)
<1> SUFFICES ASSUME NEW n \in 0..MaxInput, NEW new \in [1..n -> Chars] PROVE new \in Seq(Chars)
  BY DEF Inputs
<1> QED
  BY MaxInputAssumption

\* What the invariant says of the vector of segments.
LEMMA Facts ==
  ASSUME IInv
  PROVE  /\ N \in Nat /\ Comp(segs, N) /\ LastOpen(segs)
         /\ segs \in Comps /\ Len(segs) \in Nat /\ (segs # << >> <=> Len(segs) > 0)
         /\ \A i \in 1..Len(segs) : segs[i] \in SegType /\ SegOK(segs[i]) /\ segs[i].end <= N
<1>1. N \in Nat /\ Comp(segs, N) /\ LastOpen(segs)
  BY LenProperties DEF IInv, TypeInv, Comp, N
<1> QED
  BY <1>1, LenOf DEF Comp, Formed

\* The invariant holds of the empty composition.
LEMMA Initially == Init => IInv
<1> SUFFICES ASSUME Init PROVE IInv
  OBVIOUS
<1>1. << >> \in Seq(Chars) /\ << >> \in Comps /\ Len(<< >>) = 0
  BY EmptySeq DEF Comps
<1>2. Formed(<< >>, 0) /\ LastOpen(<< >>)
  BY <1>1 DEF Formed, LastOpen
<1>3. GetCurrentEndPosition(<< >>) = 0
  BY DEF GetCurrentEndPosition
<1> QED
  BY <1>1, <1>2, <1>3, OptionsAssumption DEF Init, IInv, TypeInv, Undecided, Whole, Bounded, N

\* Reset: what is kept lies within both inputs, up to their first difference.
LEMMA AfterReset ==
  ASSUME IInv, NEW new \in Inputs, Reset(new)
  PROVE  IInv' /\ KeepsChoices
<1>1. /\ Comp(segs, N) /\ LastOpen(segs) /\ input \in Seq(Chars) /\ new \in Seq(Chars)
  BY Facts, Texts DEF IInv, TypeInv
<1>2. PICK d \in 0..Len(new), k \in 0..Len(segs) :
        IsDiffPos(d, input, new) /\ IsKeptCount(k, segs, d) /\ segs' = Dispose(segs, k)
  BY DEF Reset
<1> DEFINE t == Dispose(segs, k)
<1>9. /\ Comp(t, Len(new)) /\ LastOpen(t)
      /\ \A i \in 1..Len(segs) :
           (segs[i].end <= Len(new) /\ \A x \in 1..segs[i].end : input[x] = new[x])
             => i <= Len(t) /\ t[i] = segs[i]
  BY <1>1, <1>2, ResetFormed DEF N
<1> HIDE DEF t
<1>3. /\ Comp(segs', Len(new)) /\ LastOpen(segs')
      /\ \A i \in 1..Len(segs) :
           (segs[i].end <= Len(new) /\ \A x \in 1..segs[i].end : input[x] = new[x])
             => i <= Len(segs') /\ segs'[i] = segs[i]
  BY <1>2, <1>9 DEF t
<1>4. input' = new /\ phase' = "segment" /\ rounds' = 0 /\ opts' = opts
  BY DEF Reset
<1>5. TypeInv'
  BY <1>1, <1>3, <1>4 DEF IInv, TypeInv, Comp
<1>8. Bounded'
  BY <1>1, <1>3, <1>4, Positions, LenProperties DEF Bounded, N
<1>6. IInv'
  BY <1>3, <1>4, <1>5, <1>8 DEF IInv, Comp, N, LastOpen, Undecided, Whole
<1>7. KeepsChoices
  BY <1>3, <1>4 DEF KeepsChoices
<1> QED
  BY <1>6, <1>7

\* A round of the segmentors: it never ends the loop for want of advancement.
LEMMA AfterRunRound ==
  ASSUME IInv, RunRound
  PROVE  IInv' /\ KeepsChoices
<1>1. /\ N \in Nat /\ Comp(segs, N) /\ LastOpen(segs) /\ input \in Seq(Chars)
      /\ Len(segs) \in Nat
  BY Facts DEF IInv, TypeInv
<1>2. GetCurrentEndPosition(segs) < N
  <2>1. GetCurrentEndPosition(segs) \in Nat
    BY <1>1, Positions
  <2> QED
    BY <1>1, <2>1 DEF RunRound, HasFinishedSegmentation, N
<1>3. /\ segs' = Round(segs, input, opts) /\ input' = input /\ opts' = opts
      /\ rounds' = rounds + 1
  BY DEF RunRound
<1>4. /\ Comp(segs', N) /\ LastOpen(segs') /\ Keeps(segs, segs')
      /\ GetCurrentEndPosition(segs') > GetCurrentStartPosition(segs)
      /\ GetCurrentEndPosition(segs') < N =>
           GetCurrentStartPosition(segs') > GetCurrentStartPosition(segs)
  BY <1>1, <1>2, <1>3, RoundFormed DEF N
<1>5. phase' = "segment"
  <2>1. GetCurrentStartPosition(segs) \in Nat /\ GetCurrentEndPosition(segs') \in Nat
    BY <1>1, <1>4, Positions
  <2> QED
    BY <1>4, <2>1 DEF RunRound
<1>6. TypeInv'
  BY <1>3, <1>4, <1>5 DEF IInv, TypeInv, Comp
<1>9. Bounded'
  <2>1. /\ GetCurrentStartPosition(segs) \in Nat /\ GetCurrentStartPosition(segs') \in Nat
        /\ GetCurrentEndPosition(segs) \in Nat /\ N' = N
        /\ GetCurrentStartPosition(segs) <= GetCurrentEndPosition(segs)
    BY <1>1, <1>3, <1>4, Positions DEF N
  <2>2. rounds \in Nat /\ rounds <= GetCurrentStartPosition(segs)
    BY <1>2 DEF RunRound, IInv, TypeInv, Bounded
  <2> QED
    BY <1>1, <1>2, <1>3, <1>4, <1>5, <2>1, <2>2 DEF Bounded
<1>7. IInv'
  BY <1>3, <1>4, <1>5, <1>6, <1>9 DEF IInv, Comp, N, LastOpen, Undecided, Whole
<1>8. KeepsChoices
  BY <1>4 DEF KeepsChoices, Keeps, IsChoice
<1> QED
  BY <1>7, <1>8

\* The end of the loop: the trailing empty segment goes, or follows a choice.
LEMMA AfterFinish ==
  ASSUME IInv, Finish
  PROVE  IInv' /\ KeepsChoices
<1>1. /\ N \in Nat /\ Comp(segs, N) /\ LastOpen(segs) /\ Len(segs) \in Nat
  BY Facts
<1>2. phase = "segment" /\ GetCurrentEndPosition(segs) >= N
  BY DEF Finish, IInv, TypeInv, HasFinishedSegmentation, N
<1>3. /\ segs' = FinishSegmentation(segs) /\ input' = input /\ opts' = opts
      /\ rounds' = rounds /\ phase' = "translate"
  BY DEF Finish
<1>4. /\ Comp(segs', N) /\ LastOpen(segs') /\ Keeps(segs, segs')
      /\ GetCurrentEndPosition(segs') = GetCurrentEndPosition(segs)
      /\ segs' # << >> /\ ~LastFull(segs') =>
           Len(segs') > 1 /\ segs'[Len(segs') - 1].status >= kSelected
  BY <1>1, <1>3, FinishFormed
<1>5. TypeInv'
  BY <1>3, <1>4 DEF IInv, TypeInv, Comp
<1>6. Whole'
  BY <1>2, <1>3, <1>4 DEF Whole, N, LastFull
<1>7. IInv'
  BY <1>3, <1>4, <1>5, <1>6 DEF IInv, Comp, N, LastOpen, Undecided, Bounded
<1>8. KeepsChoices
  BY <1>4 DEF KeepsChoices, Keeps, IsChoice
<1> QED
  BY <1>7, <1>8

\* Translation gives every open segment that holds text its offer.
LEMMA AfterTranslateAll ==
  ASSUME IInv, TranslateAll
  PROVE  IInv' /\ KeepsChoices
<1>1. /\ N \in Nat /\ Comp(segs, N) /\ LastOpen(segs) /\ input \in Seq(Chars)
      /\ Len(segs) \in Nat /\ (segs # << >> <=> Len(segs) > 0)
      /\ \A i \in 1..Len(segs) : segs[i] \in SegType
  BY Facts DEF IInv, TypeInv
<1>2. /\ segs' = TranslateSegments(segs, input, opts) /\ input' = input /\ opts' = opts
      /\ rounds' = 0 /\ phase = "translate" /\ phase' = "rest"
  BY DEF TranslateAll
<1>3. /\ Comp(segs', N) /\ LastOpen(segs') /\ Len(segs') = Len(segs)
      /\ \A i \in 1..Len(segs) :
           /\ segs'[i].start = segs[i].start /\ segs'[i].end = segs[i].end
           /\ segs'[i].status >= kSelected <=> segs[i].status >= kSelected
           /\ segs'[i].start < segs'[i].end => segs'[i].status >= kGuess
  BY <1>1, <1>2, TranslatedFormed DEF N
<1>4. segs' # << >> <=> Len(segs') > 0
  BY <1>3, LenOf DEF Comp
<1>5. Undecided'
  <2> SUFFICES ASSUME segs' # << >>,
                      segs'[Len(segs')].start < segs'[Len(segs')].end
               PROVE  segs'[Len(segs')].status = kGuess
    BY DEF Undecided
  <2>1. Len(segs) \in 1..Len(segs)
    BY <1>1, <1>3, <1>4
  <2>2. segs'[Len(segs)].status >= kGuess /\ segs'[Len(segs)].status < kSelected
    BY <1>3, <2>1 DEF LastOpen
  <2>3. segs'[Len(segs)].status \in 0..3
    BY <1>3, <2>1, LenOf DEF Comp, SegType
  <2> QED
    BY <1>3, <2>2, <2>3 DEF kGuess, kSelected
<1>6. Whole'
  <2>1. GetCurrentEndPosition(segs') = GetCurrentEndPosition(segs)
    BY <1>1, <1>3, <1>4 DEF GetCurrentEndPosition, Last
  <2>2. GetCurrentEndPosition(segs) >= N
    BY <1>2 DEF IInv, Whole
  <2>3. ASSUME segs' # << >>, ~LastFull(segs')
        PROVE  Len(segs') > 1 /\ segs'[Len(segs') - 1].status >= kSelected
    <3>1. segs # << >> /\ Len(segs) \in 1..Len(segs)
      BY <1>1, <1>3, <1>4, <2>3
    <3>2. ~LastFull(segs)
      BY <1>3, <2>3, <3>1 DEF LastFull
    <3>3. Len(segs) > 1 /\ segs[Len(segs) - 1].status >= kSelected
      BY <1>2, <3>1, <3>2 DEF IInv, Whole
    <3>4. Len(segs) - 1 \in 1..Len(segs)
      BY <1>1, <3>3
    <3>5. segs'[Len(segs) - 1].status >= kSelected
      BY <1>3, <3>3, <3>4, Zenon
    <3> QED
      BY <1>3, <3>3, <3>5
  <2> QED
    BY <1>2, <2>1, <2>2, <2>3 DEF Whole, LastFull, N
<1>7. TypeInv'
  BY <1>2, <1>3 DEF IInv, TypeInv, Comp
<1>8. IInv'
  BY <1>1, <1>2, <1>3, <1>5, <1>6, <1>7 DEF IInv, Comp, N, LastOpen, Bounded
<1>9. KeepsChoices
  BY <1>2 DEF KeepsChoices
<1> QED
  BY <1>8, <1>9

\* A method that leaves the rest to Compose.
LEMMA AfterEdit ==
  ASSUME IInv, Comp(segs', N), LastOpen(segs'), input' = input, opts' \in SUBSET Options,
         rounds' = rounds, phase = "rest", phase' = "edited"
  PROVE  IInv' /\ KeepsChoices
<1>1. TypeInv'
  BY DEF IInv, TypeInv, Comp
<1>2. IInv'
  BY <1>1 DEF IInv, Comp, N, LastOpen, Undecided, Whole, Bounded
<1> QED
  BY <1>2 DEF KeepsChoices

\* One that changes segments where they are.
LEMMA AfterChange ==
  ASSUME IInv, Comp(segs', N), LastOpen(segs'), input' = input, opts' = opts,
         rounds' = rounds, phase = "rest", phase' = "rest", Len(segs') = Len(segs),
         segs # << >> => segs'[Len(segs)].status = segs[Len(segs)].status,
         \A i \in 1..Len(segs) :
           /\ segs'[i].start = segs[i].start /\ segs'[i].end = segs[i].end
           /\ segs[i].status >= kSelected => segs'[i].status >= kSelected
  PROVE  IInv' /\ KeepsChoices
<1>1. /\ Len(segs) \in Nat /\ (segs # << >> <=> Len(segs) > 0) /\ (segs' # << >> <=> Len(segs') > 0)
  BY Facts, LenOf DEF Comp
<1>2. segs # << >> => Len(segs) \in 1..Len(segs)
  BY <1>1
<1>3. Undecided'
  BY <1>1, <1>2 DEF IInv, Undecided
<1>4. Whole'
  <2>1. GetCurrentEndPosition(segs') = GetCurrentEndPosition(segs)
    BY <1>1, <1>2 DEF GetCurrentEndPosition, Last
  <2>2. GetCurrentEndPosition(segs) >= N
    BY DEF IInv, Whole
  <2>3. ASSUME segs' # << >>, ~LastFull(segs')
        PROVE  Len(segs') > 1 /\ segs'[Len(segs') - 1].status >= kSelected
    <3>1. segs # << >> /\ ~LastFull(segs)
      BY <1>1, <1>2, <2>3 DEF LastFull
    <3>2. Len(segs) > 1 /\ segs[Len(segs) - 1].status >= kSelected
      BY <3>1 DEF IInv, Whole
    <3>3. Len(segs) - 1 \in 1..Len(segs)
      BY <1>1, <3>2
    <3>4. segs'[Len(segs) - 1].status >= kSelected
      BY <3>2, <3>3, Zenon
    <3> QED
      BY <3>2, <3>4
  <2> QED
    BY <2>1, <2>2, <2>3 DEF Whole, LastFull, N
<1>5. TypeInv'
  BY DEF IInv, TypeInv, Comp
<1>6. IInv'
  BY <1>3, <1>4, <1>5 DEF IInv, Comp, N, LastOpen, Bounded
<1> QED
  BY <1>6 DEF KeepsChoices

\* Highlighting changes nothing but the candidate pointed at.
LEMMA AfterHighlight ==
  ASSUME IInv, Highlight
  PROVE  IInv' /\ KeepsChoices
<1>1. /\ N \in Nat /\ Comp(segs, N) /\ LastOpen(segs) /\ segs # << >>
      /\ Len(segs) \in Nat /\ Len(segs) > 0
      /\ segs[Len(segs)] \in SegType /\ SegOK(segs[Len(segs)]) /\ segs[Len(segs)].end <= N
  BY Facts DEF Highlight
<1>2. PICK index \in 0..(Len(Last(segs).menu) - 1) :
        segs' = SetLast(segs, [Last(segs) EXCEPT !.sel = index])
  BY DEF Highlight
<1> DEFINE g == [Last(segs) EXCEPT !.sel = index]
<1>3. /\ Last(segs) = segs[Len(segs)] /\ index \in Nat
      /\ index < Len(segs[Len(segs)].menu)
  <2>1. Len(Last(segs).menu) \in Nat
    BY <1>1, LenProperties DEF Last, SegType
  <2> QED
    BY <2>1 DEF Last
<1>4. /\ g \in SegType /\ g.status = segs[Len(segs)].status /\ g.start = segs[Len(segs)].start
      /\ g.end = segs[Len(segs)].end /\ g.menu = segs[Len(segs)].menu
      /\ g.sel = index
  BY <1>1, <1>3 DEF SegType
<1>5. segs' = SetLast(segs, g)
  BY <1>2
<1> HIDE DEF g
<1>6. SegOK(g)
  <2>1. ~(g.status >= kSelected)
    BY <1>1, <1>4 DEF LastOpen, SegType, kSelected
  <2>2. g.start <= g.end
    BY <1>1, <1>4 DEF SegOK
  <2>3. g.status = kGuess => MenuWithin(g)
    BY <1>1, <1>4 DEF SegOK, MenuWithin
  <2>4. IsEmptySegment(g) => g.menu = << >>
    BY <1>1, <1>4 DEF SegOK, IsEmptySegment
  <2> QED
    BY <1>3, <1>4, <2>1, <2>2, <2>3, <2>4 DEF SegOK
<1>7. /\ Comp(segs', N) /\ Len(segs') = Len(segs)
      /\ \A i \in 1..(Len(segs) - 1) : segs'[i] = segs[i]
      /\ segs'[Len(segs)] = g
  BY <1>1, <1>4, <1>5, <1>6, SetLastFormed
<1>8. LastOpen(segs')
  BY <1>1, <1>4, <1>7 DEF LastOpen
<1>9. ASSUME NEW i \in 1..Len(segs)
      PROVE  /\ segs'[i].start = segs[i].start /\ segs'[i].end = segs[i].end
             /\ segs[i].status >= kSelected => segs'[i].status >= kSelected
  <2>1. CASE i = Len(segs)
    BY <1>4, <1>7, <2>1
  <2>2. CASE i # Len(segs)
    BY <1>1, <1>7, <2>2
  <2> QED
    BY <2>1, <2>2
<1>10. /\ segs'[Len(segs)].status = segs[Len(segs)].status
       /\ input' = input /\ opts' = opts /\ rounds' = rounds /\ phase = "rest" /\ phase' = "rest"
  BY <1>4, <1>7 DEF Highlight
<1> QED
  BY <1>7, <1>8, <1>9, <1>10, AfterChange

\* A selection shrinks the segment to what it converts.
LEMMA AfterSelectLast ==
  ASSUME IInv, SelectLast
  PROVE  IInv' /\ KeepsChoices
<1> DEFINE l == segs[Len(segs)]
<1>1. /\ N \in Nat /\ Comp(segs, N) /\ segs # << >>
      /\ Len(segs) \in Nat /\ Len(segs) > 0
      /\ l \in SegType /\ SegOK(l) /\ l.end <= N
      /\ Last(segs) = l
  BY Facts DEF SelectLast, Last
<1>2. l.status = kGuess /\ l.start < l.end
  <2>1. l.start < l.end
    BY <1>1 DEF SelectLast, SegOK, IsEmptySegment, SegType
  <2> QED
    BY <1>1, <2>1 DEF SelectLast, IInv, Undecided
<1>3. PICK index \in {Last(segs).sel} \cup 0..(Len(Last(segs).menu) - 1),
           status \in {kSelected, kConfirmed} :
        LET cand == GetCandidateAt(Last(segs), index)
            seg  == [Last(segs) EXCEPT !.sel = index, !.status = status]
        IN  segs' = Forward(SetLast(segs,
                      IF cand = Nil THEN seg ELSE [seg EXCEPT !.end = cand]))
  BY Zenon DEF SelectLast
<1> DEFINE cand == GetCandidateAt(l, index)
           seg  == [l EXCEPT !.sel = index, !.status = status]
           g    == IF cand = Nil THEN seg ELSE [seg EXCEPT !.end = cand]
           t    == SetLast(segs, g)
<1>4. segs' = Forward(t)
  BY <1>1, <1>3
<1>5. Len(l.menu) \in Nat /\ index \in Nat /\ status \in 2..3
  <2>1. Len(l.menu) \in Nat /\ l.sel \in Nat
    BY <1>1, LenProperties DEF SegType
  <2> QED
    BY <1>1, <2>1 DEF kSelected, kConfirmed
<1>6. cand # Nil => cand \in Nat /\ l.start < cand /\ cand <= l.end
  <2> SUFFICES ASSUME cand # Nil PROVE cand \in Nat /\ l.start < cand /\ cand <= l.end
    OBVIOUS
  <2>1. index < Len(l.menu) /\ cand = l.menu[index + 1]
    BY DEF GetCandidateAt
  <2>2. index + 1 \in 1..Len(l.menu)
    BY <1>5, <2>1
  <2>3. MenuWithin(l) /\ l.menu \in Seq(Nat)
    BY <1>1, <1>2 DEF SegOK, SegType
  <2>4. l.menu[index + 1] \in Nat
    BY <2>2, <2>3, ElementOfSeq
  <2> QED
    BY <2>1, <2>2, <2>3, <2>4 DEF MenuWithin
<1>7. /\ g \in SegType /\ g.status = status /\ g.start = l.start
      /\ g.end = (IF cand = Nil THEN l.end ELSE cand)
      /\ g.menu = l.menu /\ g.sel = index
  <2> HIDE DEF cand, l
  <2>t. l \in SegType /\ index \in Nat /\ status \in 0..3
    BY <1>1, <1>5
  <2>1. /\ seg \in SegType /\ seg.status = status /\ seg.start = l.start /\ seg.end = l.end
        /\ seg.menu = l.menu /\ seg.sel = index
    BY <2>t DEF SegType
  <2> HIDE DEF seg
  <2>2. CASE cand = Nil
    BY <2>1, <2>2
  <2>3. CASE cand # Nil
    BY <1>6, <2>1, <2>3 DEF SegType
  <2> QED
    BY <2>2, <2>3
<1> HIDE DEF g
<1>17. GetSelectedCandidate(g) = cand
  BY <1>7 DEF GetSelectedCandidate, GetCandidateAt
<1> HIDE DEF cand
<1>8. l.start \in Nat /\ l.end \in Nat
  BY <1>1 DEF SegType
<1>9. g.start < g.end /\ g.end <= N
  BY <1>1, <1>2, <1>6, <1>7, <1>8
<1>10. SegOK(g)
  <2>1. g.start \in Nat /\ g.end \in Nat
    BY <1>7 DEF SegType
  <2>2. g.status # kGuess /\ g.start # g.end /\ g.start <= g.end
    BY <1>5, <1>7, <1>9, <2>1 DEF kGuess
  <2>3. GetSelectedCandidate(g) \in {Nil, g.end}
    BY <1>7, <1>17
  <2> QED
    BY <2>2, <2>3 DEF SegOK, IsEmptySegment
<1>11. /\ Comp(t, N) /\ Len(t) = Len(segs) /\ t[Len(segs)] = g
  BY <1>1, <1>7, <1>9, <1>10, SetLastFormed
<1> HIDE DEF t, l
<1>12. t # << >> /\ LastFull(t)
  BY <1>1, <1>9, <1>11, LenOf DEF LastFull, Comp
<1>13. /\ Comp(segs', N) /\ LastOpen(segs')
       /\ GetCurrentEndPosition(segs') = GetCurrentEndPosition(t)
       /\ segs' # << >> /\ ~LastFull(segs')
       /\ Len(segs') = Len(t) + 1 /\ \A i \in 1..Len(t) : segs'[i] = t[i]
  BY <1>1, <1>4, <1>11, <1>12, ForwardFormed
<1>14. input' = input /\ opts' = opts /\ rounds' = rounds
  BY DEF SelectLast
<1>15. CASE phase' = "edited"
  BY <1>13, <1>14, <1>15, AfterEdit DEF IInv, TypeInv, SelectLast
<1>16. CASE phase' = "rest"
  <2>1. GetCurrentEndPosition(segs') = N
    BY <1>13, <1>14, <1>16 DEF SelectLast, GetCurrentEndPosition, N
  <2>2. Len(segs') > 1 /\ segs'[Len(segs') - 1].status >= kSelected
    <3>1. segs'[Len(segs)] = g /\ Len(segs') = Len(segs) + 1
      BY <1>1, <1>11, <1>13
    <3> QED
      BY <1>1, <1>5, <1>7, <3>1 DEF kSelected
  <2>3. Whole'
    BY <1>1, <1>14, <2>1, <2>2 DEF Whole, N
  <2>4. Undecided'
    BY <1>13 DEF Undecided, LastFull
  <2>5. TypeInv'
    BY <1>13, <1>14, <1>16 DEF IInv, TypeInv, Comp
  <2>6. IInv'
    BY <1>13, <1>14, <1>16, <2>3, <2>4, <2>5 DEF IInv, Comp, N, LastOpen, Bounded, SelectLast
  <2> QED
    BY <1>16, <2>6 DEF KeepsChoices
<1> QED
  BY <1>15, <1>16 DEF SelectLast

\* Confirming the last selection, which is never of the last segment.
LEMMA AfterConfirmPrevious ==
  ASSUME IInv, ConfirmPrevious
  PROVE  IInv' /\ KeepsChoices
<1>1. PICK i \in 1..Len(segs) : /\ segs[i].status = kSelected
                                /\ segs' = [segs EXCEPT ![i].status = kConfirmed]
  BY DEF ConfirmPrevious
<1>2. /\ N \in Nat /\ Comp(segs, N) /\ LastOpen(segs) /\ Len(segs) \in Nat
      /\ segs[i] \in SegType /\ SegOK(segs[i]) /\ segs # << >>
  BY Facts
<1>3. segs[i].start # segs[i].end /\ i # Len(segs)
  BY <1>1, <1>2 DEF SegOK, LastOpen, IsEmptySegment, kSelected
<1>4. /\ Comp(segs', N) /\ Len(segs') = Len(segs)
      /\ \A j \in 1..Len(segs) : j # i => segs'[j] = segs[j]
      /\ segs'[i].status = kConfirmed
      /\ segs'[i].start = segs[i].start /\ segs'[i].end = segs[i].end
  <2> DEFINE g == [segs[i] EXCEPT !.status = kConfirmed]
  <2>1. segs' = [segs EXCEPT ![i] = g]
    BY <1>1
  <2>2. kConfirmed \in 0..3 /\ kConfirmed # kGuess
    BY DEF kConfirmed, kGuess
  <2>3. /\ g \in SegType /\ g.status = kConfirmed /\ g.start = segs[i].start
        /\ g.end = segs[i].end /\ g.menu = segs[i].menu /\ g.sel = segs[i].sel
    BY <1>2, <2>2 DEF SegType
  <2> HIDE DEF g
  <2>6. GetSelectedCandidate(g) \in {Nil, g.end}
    BY <1>1, <1>2, <2>3 DEF SegOK, GetSelectedCandidate, GetCandidateAt, kSelected
  <2>4. /\ segs' \in Comps /\ Len(segs') = Len(segs)
        /\ \A j \in 1..Len(segs) : segs'[j] = IF j = i THEN g ELSE segs[j]
    BY <1>2, <2>1, <2>3, ExceptSeq DEF Comp, Comps
  <2>5. Comp(segs', N)
    BY <1>2, <1>3, <2>2, <2>3, <2>4, <2>6, StatusFormed
  <2> QED
    BY <2>3, <2>4, <2>5
<1>5. segs'[Len(segs)] = segs[Len(segs)]
  BY <1>2, <1>3, <1>4
<1>6. LastOpen(segs')
  BY <1>2, <1>4, <1>5 DEF LastOpen
<1>7. \A j \in 1..Len(segs) :
        /\ segs'[j].start = segs[j].start /\ segs'[j].end = segs[j].end
        /\ segs[j].status >= kSelected => segs'[j].status >= kSelected
  <2> SUFFICES ASSUME NEW j \in 1..Len(segs)
               PROVE  /\ segs'[j].start = segs[j].start /\ segs'[j].end = segs[j].end
                      /\ segs[j].status >= kSelected => segs'[j].status >= kSelected
    OBVIOUS
  <2>1. CASE j = i
    BY <1>4, <2>1 DEF kSelected, kConfirmed
  <2>2. CASE j # i
    BY <1>4, <2>2
  <2> QED
    BY <2>1, <2>2
<1>8. input' = input /\ opts' = opts /\ rounds' = rounds /\ phase = "rest" /\ phase' = "rest"
  BY DEF ConfirmPrevious
<1> QED
  BY <1>4, <1>5, <1>6, <1>7, <1>8, AfterChange

\* Reopening the last segment, the empty one after it being dropped.
LEMMA AfterReopenSegment ==
  ASSUME IInv, ReopenSegment
  PROVE  IInv' /\ KeepsChoices
<1> DEFINE t == Front(segs)
<1>1. N \in Nat /\ Comp(segs, N) /\ segs # << >>
  BY Facts DEF ReopenSegment
<1>2. Comp(t, N) /\ LastFull(t)
  BY <1>1, FrontFormed
<1>3. segs' = IF t # << >> /\ Last(t).status >= kSelected
                THEN SetLast(t, [Last(t) EXCEPT !.status = kVoid]) ELSE t
  BY DEF ReopenSegment
<1> HIDE DEF t
<1>4. /\ t \in Comps /\ Len(t) \in Nat /\ (t # << >> <=> Len(t) > 0)
      /\ t # << >> => t[Len(t)] \in SegType /\ SegOK(t[Len(t)]) /\ t[Len(t)].end <= N
  BY <1>2, LenOf DEF Comp, Formed
<1>5. Comp(segs', N) /\ LastOpen(segs')
  <2>1. CASE t # << >> /\ Last(t).status >= kSelected
    <3> DEFINE g == [Last(t) EXCEPT !.status = kVoid]
    <3>1. Last(t) = t[Len(t)]
      BY DEF Last
    <3>k. kVoid \in 0..3
      BY DEF kVoid
    <3>2. /\ g \in SegType /\ g.status = kVoid /\ g.start = t[Len(t)].start
          /\ g.end = t[Len(t)].end
      BY <1>4, <2>1, <3>1, <3>k DEF SegType
    <3>3. segs' = SetLast(t, g)
      BY <1>3, <2>1
    <3> HIDE DEF g
    <3>6. t[Len(t)].start < t[Len(t)].end /\ g.start \in Nat /\ g.end \in Nat
      BY <1>2, <2>1, <3>2 DEF LastFull, SegType
    <3>4. SegOK(g)
      BY <3>2, <3>6 DEF SegOK, IsEmptySegment, kVoid, kGuess, kSelected
    <3>5. /\ Comp(segs', N) /\ Len(segs') = Len(t) /\ segs'[Len(t)] = g
      BY <1>1, <1>2, <1>4, <2>1, <3>2, <3>3, <3>4, SetLastFormed
    <3>7. LastOpen(segs')
      BY <3>2, <3>5 DEF LastOpen, kVoid, kSelected
    <3> QED
      BY <3>5, <3>7
  <2>2. CASE ~(t # << >> /\ Last(t).status >= kSelected)
    <3>1. segs' = t
      BY <1>3, <2>2
    <3>2. LastOpen(t)
      BY <1>4, <2>2 DEF LastOpen, Last, SegType, kSelected
    <3> QED
      BY <1>2, <3>1, <3>2
  <2> QED
    BY <2>1, <2>2
<1>6. input' = input /\ opts' = opts /\ rounds' = rounds /\ phase' = "edited"
  BY DEF ReopenSegment
<1> QED
  BY <1>5, <1>6, AfterEdit DEF IInv, TypeInv, ReopenSegment

\* Going back to the last selection drops all that follows it.
LEMMA AfterReopenSelection ==
  ASSUME IInv, ReopenSelection
  PROVE  IInv' /\ KeepsChoices
<1>1. PICK i \in 1..Len(segs) : /\ segs[i].status = kSelected
                                /\ segs' = [SubSeq(segs, 1, i) EXCEPT ![i].status = kVoid]
  BY DEF ReopenSelection
<1> DEFINE t == SubSeq(segs, 1, i)
<1>2. /\ N \in Nat /\ segs \in Comps /\ Formed(segs, N) /\ Len(segs) \in Nat
      /\ segs[i] \in SegType /\ SegOK(segs[i])
  BY Facts DEF Comp
<1>3. Comp(t, N) /\ Len(t) = i /\ t[i] = segs[i]
  BY <1>2, PrefixFormed
<1>4. t[i].start # t[i].end
  BY <1>1, <1>2, <1>3 DEF SegOK, IsEmptySegment, kSelected
<1>5. segs' = [t EXCEPT ![i].status = kVoid]
  BY <1>1
<1> HIDE DEF t
<1>6. Comp(segs', N) /\ Len(segs') = Len(t) /\ segs'[i].status = kVoid
  <2> DEFINE g == [t[i] EXCEPT !.status = kVoid]
  <2>1. segs' = [t EXCEPT ![i] = g]
    BY <1>5
  <2>3. kVoid \in 0..3 /\ kVoid # kGuess
    BY DEF kVoid, kGuess
  <2>4. /\ g \in SegType /\ g.status = kVoid /\ g.start = t[i].start /\ g.end = t[i].end
    BY <1>2, <1>3, <2>3 DEF SegType
  <2>2. i \in 1..Len(t)
    BY <1>2, <1>3
  <2> HIDE DEF g
  <2>5. /\ segs' \in Comps /\ Len(segs') = Len(t)
        /\ \A j \in 1..Len(t) : segs'[j] = IF j = i THEN g ELSE t[j]
    BY <1>3, <2>1, <2>2, <2>4, ExceptSeq DEF Comp, Comps
  <2>6. Comp(segs', N)
    BY SMTT(60), <1>2, <1>3, <1>4, <2>2, <2>3, <2>4, <2>5, StatusFormed DEF kVoid, kSelected
  <2> QED
    BY <2>2, <2>4, <2>5, <2>6
<1>7. LastOpen(segs')
  BY <1>3, <1>6 DEF LastOpen, kVoid, kSelected
<1>8. input' = input /\ opts' = opts /\ rounds' = rounds /\ phase = "rest" /\ phase' = "edited"
  BY DEF ReopenSelection
<1> QED
  BY <1>6, <1>7, <1>8, AfterEdit DEF IInv, TypeInv

\* A refresh keeps the chosen segments and nothing after them.
LEMMA AfterRefresh ==
  ASSUME IInv, Refresh
  PROVE  IInv' /\ KeepsChoices
<1>1. /\ N \in Nat /\ Comp(segs, N) /\ LastOpen(segs) /\ segs \in Comps /\ Len(segs) \in Nat
      /\ \A i \in 1..Len(segs) : segs[i].end <= N
  BY Facts
<1>2. opts' \in SUBSET Options /\ input' = input /\ rounds' = rounds
  BY DEF Refresh
<1>3. CASE segs # << >> /\ Last(segs).status < kSelected
  <2>1. PICK k \in 0..(Len(segs) - 1) : segs' = Forward(SubSeq(segs, 1, k))
    BY <1>3 DEF Refresh
  <2>2. k \in 0..Len(segs) /\ (k > 0 => segs[k].end <= N)
    BY <1>1
  <2>3. Comp(segs', N) /\ LastOpen(segs')
    BY <1>1, <2>1, <2>2, CutFormed
  <2>4. phase' = "edited"
    BY <1>3 DEF Refresh
  <2> QED
    BY <1>2, <2>3, <2>4, AfterEdit DEF Refresh
<1>4. CASE ~(segs # << >> /\ Last(segs).status < kSelected)
  <2>1. segs' = segs /\ phase' = phase
    BY <1>4 DEF Refresh
  <2>2. IInv'
    BY <1>2, <2>1 DEF IInv, TypeInv, Formed, N, LastOpen, LastFull, Undecided, Whole, Bounded
  <2> QED
    BY <2>1, <2>2 DEF Refresh, KeepsChoices
<1> QED
  BY <1>3, <1>4

\* Clear leaves nothing.
LEMMA AfterClear ==
  ASSUME IInv, Clear
  PROVE  IInv' /\ KeepsChoices
<1>1. << >> \in Comps /\ Len(<< >>) = 0
  BY EmptySeq DEF Comps
<1>2. Comp(<< >>, N) /\ LastOpen(<< >>)
  BY <1>1 DEF Comp, Formed, LastOpen
<1>3. /\ segs' = << >> /\ input' = input /\ opts' = opts /\ rounds' = rounds
      /\ phase = "rest" /\ phase' = "edited"
  BY DEF Clear
<1> QED
  BY <1>2, <1>3, AfterEdit DEF IInv, TypeInv

\* What looks at nothing but these variables stays while they do.
LEMMA Stays ==
  ASSUME IInv, UNCHANGED vars
  PROVE  IInv'
BY DEF vars, IInv, TypeInv, Formed, N, LastOpen, LastFull, Undecided, Whole, Bounded

\* Every step keeps the invariant, and every step of Next the choices.
LEMMA EveryStep ==
  ASSUME IInv, Next
  PROVE  IInv' /\ KeepsChoices
<1>1. CASE \E new \in Inputs : Reset(new)
  BY <1>1, AfterReset
<1>2. CASE Compose
  BY <1>2, AfterRunRound, AfterFinish, AfterTranslateAll DEF Compose
<1>3. CASE Edit
  BY <1>3, AfterHighlight, AfterSelectLast, AfterConfirmPrevious, AfterReopenSegment,
     AfterReopenSelection, AfterRefresh, AfterClear DEF Edit
<1> QED
  BY <1>1, <1>2, <1>3 DEF Next

-----------------------------------------------------------------------------
(* The theorems.                                                           *)

\* The invariant holds at every turn of the loops and between two calls of
\* Compose, however the input changes.
THEOREM Invariance == Spec => []IInv
<1>1. Init => IInv
  BY Initially
<1>2. IInv /\ [Next]_vars => IInv'
  BY EveryStep, Stays
<1> QED
  BY <1>1, <1>2, PTL DEF Spec

\* Every segment has a status, a place in the input and the tags that the
\* segmentors give; the loop never stops for want of advancement.
THEOREM SegmentationTyped == Spec => []TypeInv
<1>1. IInv => TypeInv
  BY DEF IInv
<1> QED
  BY <1>1, Invariance, PTL

\* The segments cover the input from its start without gap or overlap, and
\* never reach past its end: no substr of GetCommitText, GetPreedit or the
\* translators is ever out of range.
THEOREM AlwaysTiled == Spec => []Tiling
<1>1. IInv => Tiling
  <2> SUFFICES ASSUME IInv PROVE Tiled(segs, N)
    BY DEF Tiling, N
  <2>1. /\ Len(segs) \in Nat /\ (segs # << >> <=> Len(segs) > 0) /\ Formed(segs, N)
        /\ Last(segs) = segs[Len(segs)]
    BY Facts DEF IInv, Last
  <2>2. segs # << >> => Last(segs).end <= N
    BY <2>1 DEF Formed
  <2>3. \A i \in 1..Len(segs) : segs[i].start <= segs[i].end
    BY <2>1 DEF Formed, SegOK
  <2> QED
    BY <2>1, <2>2, <2>3 DEF Tiled, Formed
<1> QED
  BY <1>1, Invariance, PTL

\* What is on offer for an undecided segment stays within it, and a segment
\* that holds text and comes last is undecided when Compose has returned.
THEOREM OffersStayWithin == Spec => []OfferWithin
<1>1. IInv => OfferWithin
  <2> SUFFICES ASSUME IInv PROVE OfferWithin
    OBVIOUS
  <2>1. /\ \A i \in 1..Len(segs) : SegOK(segs[i])
        /\ segs # << >> => segs[Len(segs)] \in SegType /\ SegOK(segs[Len(segs)])
        /\ Undecided /\ Last(segs) = segs[Len(segs)]
    BY Facts DEF IInv, Last
  <2>2. \A i \in 1..Len(segs) : segs[i].status = kGuess => MenuWithin(segs[i])
    BY <2>1 DEF SegOK
  <2>3. segs # << >> /\ ~IsEmptySegment(Last(segs)) => segs[Len(segs)].start < segs[Len(segs)].end
    BY <2>1 DEF SegOK, SegType, IsEmptySegment
  <2> QED
    BY <2>1, <2>2, <2>3 DEF OfferWithin, Undecided
<1> QED
  BY <1>1, Invariance, PTL

\* When the rounds are over the whole input has been segmented, and the last
\* segment is empty only after one the user has selected.
THEOREM WholeSegmented == Spec => []FullySegmented
<1>1. IInv => FullySegmented
  <2> SUFFICES ASSUME IInv, phase \in {"translate", "rest"}
               PROVE  /\ HasFinishedSegmentation(segs, input)
                      /\ segs # << >> /\ IsEmptySegment(Last(segs)) =>
                           Len(segs) > 1 /\ segs[Len(segs) - 1].status >= kSelected
    BY DEF FullySegmented
  <2>1. GetCurrentEndPosition(segs) >= N /\ Whole
    BY DEF IInv, Whole
  <2>2. segs # << >> => segs[Len(segs)] \in SegType
    BY Facts
  <2>3. segs # << >> /\ IsEmptySegment(Last(segs)) => ~LastFull(segs)
    BY <2>2 DEF IsEmptySegment, LastFull, Last, SegType
  <2> QED
    BY <2>1, <2>3 DEF HasFinishedSegmentation, N, Whole
<1> QED
  BY <1>1, Invariance, PTL

\* The loop of CalculateSegmentation runs no more rounds than the input has
\* characters, however the matcher takes segments back and the affix segmentor
\* adds to them: every key gets its answer.
THEOREM LoopsReturn == Spec => []ComposeReturns
<1>1. IInv => ComposeReturns
  BY DEF IInv, Bounded, ComposeReturns, N
<1> QED
  BY <1>1, Invariance, PTL

\* No reset, round or finish takes back a choice on text that is still there.
THEOREM SelectionsKept == Spec => SelectionKept
<1>1. IInv /\ [Next]_vars => [KeepsChoices]_vars
  BY EveryStep
<1>2. SelectionKept <=> [][KeepsChoices]_vars
  BY DEF SelectionKept, KeepsChoices
<1> QED
  BY <1>1, <1>2, Invariance, PTL DEF Spec
=============================================================================
