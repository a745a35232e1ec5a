------------------------------ MODULE Segments ------------------------------
(***************************************************************************)
(* The data structure under every key stroke of the input method: a       *)
(* composition is a vector of segments, each a slice [start, end) of the   *)
(* active input with the menu of candidates found for it                   *)
(* (librime/include/rime/segmentation.h, librime/src/segmentation.cc).     *)
(*                                                                         *)
(* This module has no variables.  It gives the operations of the class     *)
(* Segmentation, and the segmentors of the schemas in their order, as      *)
(* operators on a sequence of segments.  Segmentation.tla drives them      *)
(* as a state machine, Engine.tla calls them from the key handlers.        *)
(*                                                                         *)
(* Positions are the byte offsets of the code: a segment covers the input  *)
(* characters start + 1 .. end.  A menu is the sequence of the end         *)
(* positions of its candidates (the candidates of a segment all begin at   *)
(* its start); `prompt' is display text and is left out.                   *)
(***************************************************************************)
EXTENDS Integers, SequencesExt

CONSTANTS
  Letters,    \* the schema's alphabet
  Marks,      \* characters outside of it: digits, punctuation
  Lexicon,    \* what the translators know: a function from codes, sequences
              \* of letters, to how many letters each candidate converts
  Puncts,     \* punctuator/full_shape at TRUE and half_shape at FALSE: from
              \* codes to definitions, [kind |-> ..., count |-> candidates]
  Patterns,   \* recognizer/patterns in the order of their tags; the regular
              \* expression of each is lead body* closing? at the end of input
  Affix       \* the affix_segmentor's tag, prefix and suffix characters

Chars == Letters \cup Marks

ASSUME LexiconAssumption ==
  \A code \in DOMAIN Lexicon :
    code \in Seq(Letters) /\ Lexicon[code] \in Seq(1..Len(code))

ASSUME AlphabetAssumption == Letters \cap Marks = {}

ASSUME PunctsAssumption ==
  \A full \in BOOLEAN : \A code \in DOMAIN Puncts[full] :
    /\ code \in Seq(Marks) /\ code # << >>
    /\ Puncts[full][code].kind \in {"unique", "list", "commit", "pair"}
    /\ Puncts[full][code].count \in Nat \ {0}
    /\ Puncts[full][code].kind \in {"unique", "commit"} => Puncts[full][code].count = 1
    /\ Puncts[full][code].kind = "pair" => Puncts[full][code].count = 2

ASSUME PatternsAssumption ==
  Patterns \in Seq([tag : STRING, anchored : BOOLEAN, lead : SUBSET Chars,
                    body : SUBSET Chars, closing : SUBSET Chars])

kVoid      == 0
kGuess     == 1
kSelected  == 2
kConfirmed == 3

\* `hasMenu' tells a null menu pointer from a menu without candidates.
Segment(start, end, tags) ==
  [status |-> kVoid, start |-> start, end |-> end, tags |-> tags,
   hasMenu |-> FALSE, menu |-> << >>, sel |-> 0]

Nil == 0

\* The candidate at an index from 0, as its end position; Nil for none.
GetCandidateAt(seg, index) ==
  IF index < Len(seg.menu) THEN seg.menu[index + 1] ELSE Nil
GetSelectedCandidate(seg) == GetCandidateAt(seg, seg.sel)

IsEmptySegment(seg) == seg.start = seg.end

-----------------------------------------------------------------------------
(* Class Segmentation.                                                     *)

GetCurrentStartPosition(s) == IF s = << >> THEN 0 ELSE Last(s).start
GetCurrentEndPosition(s)   == IF s = << >> THEN 0 ELSE Last(s).end
GetCurrentSegmentLength(s) ==
  GetCurrentEndPosition(s) - GetCurrentStartPosition(s)
HasFinishedSegmentation(s, input) == GetCurrentEndPosition(s) >= Len(input)
GetConfirmedPosition(s) ==
  LET n == SelectLastInSeq(s, LAMBDA seg : seg.status >= kSelected)
  IN  IF n = 0 THEN 0 ELSE s[n].end

SetLast(s, seg) == Append(Front(s), seg)

\* Finalize a round: open an empty segment after a nonempty last one.
Forward(s) ==
  IF s = << >> \/ IsEmptySegment(Last(s))
    THEN s
    ELSE Append(s, Segment(Last(s).end, Last(s).end, {}))

\* Remove the empty trailing segment.
Trim(s) == IF s # << >> /\ IsEmptySegment(Last(s)) THEN Front(s) ELSE s

\* Fault: a segment that grows keeps what was known of the shorter one.
AddSegment_KeepsMenu(s, seg) ==
  IF seg.start # GetCurrentStartPosition(s) \/ GetCurrentEndPosition(s) > seg.end
    THEN s
  ELSE IF s = << >> THEN << seg >>
  ELSE SetLast(s, [Last(s) EXCEPT !.end = seg.end, !.tags = @ \cup seg.tags])

\* Only a segment left-aligned with the last one is admitted; the longer one
\* wins, equal ones merge their tags.
AddSegment(s, seg) ==
  IF seg.start # GetCurrentStartPosition(s) \/ GetCurrentEndPosition(s) > seg.end
    THEN s
  ELSE IF s = << >> THEN << seg >>
  ELSE IF Last(s).end < seg.end THEN SetLast(s, seg)
  ELSE SetLast(s, [Last(s) EXCEPT !.tags = @ \cup seg.tags])

\* d is the first position at which the two inputs differ.
IsDiffPos(d, old, new) ==
  /\ d <= Len(old) /\ d <= Len(new)
  /\ \A k \in 1..d : old[k] = new[k]
  /\ d < Len(old) /\ d < Len(new) => old[d + 1] # new[d + 1]

\* n segments are left when those ending after d are popped from the back.
IsKeptCount(n, s, d) ==
  /\ n > 0 => s[n].end <= d
  /\ \A i \in (n + 1)..Len(s) : s[i].end > d

\* Fault: nothing is popped.
Dispose_KeepsAll(s, n) == s

\* Reset(new_input), given the two counts its loops arrive at.
Dispose(s, n) == IF n < Len(s) THEN Forward(SubSeq(s, 1, n)) ELSE s

-----------------------------------------------------------------------------
(* Segmentors, translators and the passes of ConcreteEngine over them.     *)

\* AsciiSegmentor::Proceed in ascii mode: all the rest is raw.
ProceedAscii(s, input) ==
  LET j == GetCurrentStartPosition(s)
  IN  IF j < Len(input) THEN AddSegment(s, Segment(j, Len(input), {"raw"})) ELSE s

\* The pattern matches the input from position p to its end.
Matches(pattern, input, p) ==
  /\ input[p + 1] \in pattern.lead
  /\ \A i \in (p + 2)..Len(input) :
       input[i] \in pattern.body \/ (i = Len(input) /\ input[i] \in pattern.closing)

\* Fault: what has been confirmed is matched again.
MatchStarts_FromZero(pattern, s, input) ==
  {p \in 0..(Len(input) - 1) :
     /\ pattern.anchored => p = GetConfirmedPosition(s)
     /\ Matches(pattern, input, p)}

\* Where it may be found in the active input, what is not yet confirmed.
MatchStarts(pattern, s, input) ==
  {p \in GetConfirmedPosition(s)..(Len(input) - 1) :
     /\ pattern.anchored => p = GetConfirmedPosition(s)
     /\ Matches(pattern, input, p)}

\* The leftmost match counts if it begins where a segment does or will.
Counts(starts, s) ==
  starts # {} /\ \/ Min(starts) = GetCurrentEndPosition(s)
                 \/ \E i \in 1..Len(s) : s[i].start = Min(starts)

\* RecognizerPatterns::GetMatch, as the index of the pattern, 0 for none.
GetMatch(s, input) ==
  SelectInSeq(Patterns, LAMBDA pattern : Counts(MatchStarts(pattern, s, input), s))

\* n segments are left when those that begin after position p are popped.
IsLeftCount(n, s, p) ==
  /\ n > 0 => s[n].start <= p
  /\ \A i \in (n + 1)..Len(s) : s[i].start > p

LeftOf(s, p) == SubSeq(s, 1, CHOOSE n \in 0..Len(s) : IsLeftCount(n, s, p))

AddMatch(s, seg) == AddSegment(LeftOf(s, seg.start), seg)

AddMatchOf(n, s, input) ==
  IF n = 0 THEN s
  ELSE AddMatch(s, Segment(Min(MatchStarts(Patterns[n], s, input)), Len(input),
                           {Patterns[n].tag}))

\* Matcher::Proceed.
ProceedMatcher(s, input) == AddMatchOf(GetMatch(s, input), s, input)

\* k is where the run of letters from position j ends.
IsRunEnd(k, input, j) ==
  /\ \A i \in (j + 1)..k : input[i] \in Letters
  /\ k < Len(input) => input[k + 1] \notin Letters

RunEnd(input, j) == CHOOSE k \in j..Len(input) : IsRunEnd(k, input, j)

AddRun(s, j, k) == IF j < k THEN AddSegment(s, Segment(j, k, {"abc"})) ELSE s

\* AbcSegmentor::Proceed.
ProceedAbc(s, input) ==
  AddRun(s, GetCurrentStartPosition(s), RunEnd(input, GetCurrentStartPosition(s)))

\* AffixSegmentor::Proceed finds prefix and code in the last segment.
HasAffix(s, input) ==
  /\ s # << >> /\ Affix.tag \in Last(s).tags
  /\ input[Last(s).start + 1] = Affix.prefix

IsAffixed(s, input) == HasAffix(s, input) /\ GetCurrentSegmentLength(s) > 1

Phony(start, tag) ==
  [Segment(start, start + 1, {tag, "phony"}) EXCEPT !.status = kGuess]

PushPrefix(s) == AddSegment(Forward(Front(s)), Phony(Last(s).start, "prefix"))

PushCode(s, start, end) ==
  IF start = end THEN s ELSE AddSegment(Forward(s), Segment(start, end, {Affix.tag}))

\* Prefix, code and suffix become segments of their own.
ProceedAffix(s, input) ==
  LET j == Last(s).start
      k == Last(s).end
  IN  IF input[k] = Affix.suffix
        THEN AddSegment(Forward(PushCode(PushPrefix(s), j + 1, k - 1)), Phony(k - 1, "suffix"))
        ELSE PushCode(PushPrefix(s), j + 1, k)

\* A prefix alone is no code of that tag.
PrefixOnly(s, input) ==
  IF HasAffix(s, input)
    THEN SetLast(s, [Last(s) EXCEPT !.tags = (@ \ {Affix.tag}) \cup {"prefix"}])
    ELSE s

IsPunct(s, input, opts) ==
  LET k == GetCurrentStartPosition(s)
  IN  k < Len(input) /\ << input[k + 1] >> \in DOMAIN Puncts["full_shape" \in opts]

\* PunctSegmentor::Proceed, where there is a definition; then it is exclusive.
ProceedPunct(s) ==
  LET k == GetCurrentStartPosition(s) IN AddSegment(s, Segment(k, k + 1, {"punct"}))

\* One more raw character, joined to a raw segment before it.
AddRaw(t, k) ==
  IF t # << >> /\ "raw" \in Last(t).tags
    THEN SetLast(t, Segment(Last(t).start, k + 1, {"raw"}))
    ELSE AddSegment(Forward(t), Segment(k, k + 1, {"raw"}))

\* Fault: the last character of the input is overlooked.
ProceedFallback_OffByOne(s, input) ==
  IF GetCurrentSegmentLength(s) > 0 \/ GetCurrentStartPosition(s) + 1 >= Len(input)
    THEN s ELSE AddRaw(Trim(s), GetCurrentStartPosition(s))

\* FallbackSegmentor::Proceed, where no other segmentor has found anything;
\* what it joins is then to be translated again.
ProceedFallback(s, input) ==
  IF GetCurrentSegmentLength(s) > 0 \/ GetCurrentStartPosition(s) = Len(input)
    THEN s ELSE AddRaw(Trim(s), GetCurrentStartPosition(s))

\* Every segmentor in turn, up to one that is exclusive: affix_segmentor,
\* which leaves a prefix alone to those after it, then punct_segmentor.
AfterAffix(s, input, opts) ==
  IF IsPunct(s, input, opts) THEN ProceedPunct(s) ELSE ProceedFallback(s, input)

AfterAbc(s, input, opts) ==
  IF IsAffixed(s, input) THEN ProceedAffix(s, input)
                         ELSE AfterAffix(PrefixOnly(s, input), input, opts)

Recognized(s, input, opts) ==
  IF "ascii_mode" \in opts THEN ProceedAscii(s, input)
  ELSE AfterAbc(ProceedAbc(ProceedMatcher(s, input), input), input, opts)

\* Fault: the next round works on the same segment.
Round_NoForward(s, input, opts) == Recognized(s, input, opts)

\* On to the next segment, from a round that began at position `start', unless
\* the input is used up or nothing was recognized.
Advance(s, start, input) ==
  IF GetCurrentEndPosition(s) = start \/ HasFinishedSegmentation(s, input)
    THEN s ELSE Forward(s)

\* One round of CalculateSegmentation.
Round(s, input, opts) ==
  Advance(Recognized(s, input, opts), GetCurrentStartPosition(s), input)

\* An empty segment stays only at the end of a confirmed composition.
ForwardIfChosen(s) == IF s # << >> /\ Last(s).status >= kSelected THEN Forward(s) ELSE s

\* What CalculateSegmentation does after its loop.
FinishSegmentation(s) == ForwardIfChosen(Trim(s))

\* PunctTranslator::Query.
PunctMenu(seg, code, opts) ==
  LET puncts == Puncts["full_shape" \in opts]
  IN  IF "punct" \notin seg.tags \/ code \notin DOMAIN puncts THEN << >>
      ELSE [i \in 1..puncts[code].count |-> seg.end]

\* The candidates of a segment, by the end each reaches.  Translators serve
\* segments by their tags; a raw segment gets a menu without candidates.
MenuFor(seg, input, opts) ==
  LET code == SubSeq(input, seg.start + 1, seg.end)
  IN  IF {"abc", Affix.tag} \cap seg.tags # {} /\ code \in DOMAIN Lexicon
        THEN [i \in 1..Len(Lexicon[code]) |-> seg.start + Lexicon[code][i]]
      ELSE PunctMenu(seg, code, opts)

Translate(seg, input, opts) ==
  IF seg.status >= kGuess \/ IsEmptySegment(seg)
    THEN seg
    ELSE [seg EXCEPT !.status = kGuess, !.hasMenu = TRUE,
                     !.menu = MenuFor(seg, input, opts), !.sel = 0]

TranslateSegments(s, input, opts) ==
  [i \in 1..Len(s) |-> Translate(s[i], input, opts)]

-----------------------------------------------------------------------------
(* What a well-formed composition is.                                      *)

\* The segments lie end to end from position 0, within n characters, and
\* only the last one may be empty.
Tiled(s, n) ==
  /\ s # << >> => s[1].start = 0 /\ Last(s).end <= n
  /\ \A i \in 1..Len(s) : s[i].start <= s[i].end
  /\ \A i \in 1..(Len(s) - 1) : /\ s[i].end = s[i + 1].start
                                /\ s[i].start < s[i].end

\* A candidate never reaches past its segment, nor is it empty.
MenuWithin(seg) ==
  \A i \in 1..Len(seg.menu) : seg.start < seg.menu[i] /\ seg.menu[i] <= seg.end
=============================================================================
