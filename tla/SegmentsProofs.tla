--------------------------- MODULE SegmentsProofs ---------------------------
(***************************************************************************)
(* What the operators of Segments make of a composition, for any alphabet, *)
(* dictionary, punctuation and patterns and texts of any length: lemmas    *)
(* about one sequence of segments, on which the proofs about Segmentation  *)
(* and about the engine rest.                                              *)
(***************************************************************************)
EXTENDS Segments, SequenceTheorems, WellFoundedInduction, TLAPS

Tags ==
  {"raw", "abc", "prefix", "suffix", "phony", "punct", "paging", Affix.tag}
    \cup {Patterns[k].tag : k \in 1..Len(Patterns)}

SegType ==
  [status : 0..3, start : Nat, end : Nat, tags : SUBSET Tags,
   hasMenu : BOOLEAN, menu : Seq(Nat), sel : Nat]

Comps == Seq(SegType)

\* A segment on its own: what it offers lies within it, one of these is
\* highlighted, and what has been chosen of it is not empty and is the whole.
SegOK(seg) ==
  /\ seg.start <= seg.end
  /\ seg.status = kGuess =>
       MenuWithin(seg) /\ (seg.menu # << >> => seg.sel < Len(seg.menu))
  /\ seg.status >= kSelected =>
       ~IsEmptySegment(seg) /\ GetSelectedCandidate(seg) \in {Nil, seg.end}
  /\ IsEmptySegment(seg) => seg.menu = << >>

\* The segments tile the first n characters, as far as they go.  That each
\* ends before any later one begins follows, but by induction: it is kept
\* as a part of the invariant.
Formed(s, n) ==
  /\ \A i \in 1..Len(s) : SegOK(s[i]) /\ s[i].end <= n
  /\ \A i \in 1..(Len(s) - 1) : s[i].end = s[i + 1].start /\ s[i].start < s[i].end
  /\ \A i, j \in 1..Len(s) : i < j => s[i].end <= s[j].start
  /\ Len(s) > 0 => s[1].start = 0

Comp(s, n) == s \in Comps /\ Formed(s, n)

\* The last segment is not chosen; it is not empty.
LastOpen(s) == s # << >> => s[Len(s)].status < kSelected
LastFull(s) == s # << >> => s[Len(s)].start < s[Len(s)].end

\* What has been chosen in s is in t as it was.
IsChoice(seg) == seg.status >= kSelected /\ "raw" \notin seg.tags
Keeps(s, t) == \A i \in 1..Len(s) : IsChoice(s[i]) => i <= Len(t) /\ t[i] = s[i]

-----------------------------------------------------------------------------
(* Least and greatest numbers.                                             *)

\* Every set of natural numbers has a least one.
LEMMA Least ==
  ASSUME NEW T \in SUBSET Nat, T # {}
  PROVE  Min(T) \in T /\ \A y \in T : Min(T) <= y
<1>1. PICK x \in T : \A y \in T : ~(<<y, x>> \in OpToRel(<, Nat))
  BY WFMin, NatLessThanWellFounded
<1>2. \A y \in T : ~(y < x)
  <2> SUFFICES ASSUME NEW y \in T, y < x PROVE FALSE
    OBVIOUS
  <2>1. << y, x >> \in {p \in Nat \X Nat : p[1] < p[2]}
    OBVIOUS
  <2> QED
    BY <1>1, <2>1 DEF OpToRel
<1>3. \A y \in T : x <= y
  BY <1>2
<1> QED
  BY <1>3 DEF Min

\* Every bounded one has a greatest.
LEMMA Greatest ==
  ASSUME NEW n \in Nat, NEW T \in SUBSET (1..n), T # {}
  PROVE  Max(T) \in T /\ \A y \in T : Max(T) >= y
<1> DEFINE U == {n - x : x \in T}
<1>1. U \in SUBSET Nat /\ U # {}
  <2>1. \A x \in T : n - x \in Nat
    OBVIOUS
  <2> QED
    BY <2>1
<1>2. Min(U) \in U /\ \A y \in U : Min(U) <= y
  BY <1>1, Least
<1>3. PICK x \in T : Min(U) = n - x
  BY <1>2
<1>4. \A y \in T : x >= y
  <2> SUFFICES ASSUME NEW y \in T PROVE x >= y
    OBVIOUS
  <2>1. n - x <= n - y
    BY <1>2, <1>3
  <2> QED
    BY <2>1
<1> QED
  BY <1>3, <1>4 DEF Max

-----------------------------------------------------------------------------
(* Sequences of segments.                                                  *)

\* The tags of a segment do not matter to its form.
LEMMA SameOffer ==
  ASSUME NEW g \in SegType, SegOK(g), NEW h, h.status = g.status, h.start = g.start,
         h.end = g.end, h.menu = g.menu, h.sel = g.sel
  PROVE  SegOK(h)
<1>1. GetSelectedCandidate(h) = GetSelectedCandidate(g)
  BY DEF GetSelectedCandidate, GetCandidateAt
<1>2. MenuWithin(h) <=> MenuWithin(g)
  BY DEF MenuWithin
<1>3. IsEmptySegment(h) <=> IsEmptySegment(g)
  BY DEF IsEmptySegment
<1> QED
  BY <1>1, <1>2, <1>3 DEF SegOK

\* A composition has a length, and its elements are segments.
LEMMA LenOf ==
  ASSUME NEW s \in Comps
  PROVE  Len(s) \in Nat /\ (s # << >> <=> Len(s) > 0) /\ \A i \in 1..Len(s) : s[i] \in SegType
BY LenProperties, EmptySeq, ElementOfSeq DEF Comps

\* The first n segments of a composition are one.
LEMMA PrefixFormed ==
  ASSUME NEW n \in Nat, NEW s \in Comps, Formed(s, n), NEW k \in 0..Len(s)
  PROVE  /\ Comp(SubSeq(s, 1, k), n)
         /\ Len(SubSeq(s, 1, k)) = k
         /\ \A i \in 1..k : SubSeq(s, 1, k)[i] = s[i]
<1>1. Len(s) \in Nat /\ \A i \in 1..k : s[i] \in SegType
  BY LenOf
<1>2. /\ SubSeq(s, 1, k) \in Comps /\ Len(SubSeq(s, 1, k)) = k
      /\ \A i \in 1..k : SubSeq(s, 1, k)[i] = s[i]
  BY <1>1, SubSeqProperties DEF Comps
<1> DEFINE t == SubSeq(s, 1, k)
<1>3. Formed(t, n)
  <2>1. /\ \A i \in 1..Len(s) : SegOK(s[i]) /\ s[i].end <= n
        /\ \A i \in 1..(Len(s) - 1) : s[i].end = s[i + 1].start /\ s[i].start < s[i].end
        /\ \A i, j \in 1..Len(s) : i < j => s[i].end <= s[j].start
        /\ Len(s) > 0 => s[1].start = 0
    BY DEF Formed
  <2>2. Len(t) = k /\ \A i \in 1..k : t[i] = s[i] /\ i \in 1..Len(s)
    BY <1>1, <1>2
  <2> HIDE DEF t
  <2>3. \A i \in 1..k : SegOK(t[i]) /\ t[i].end <= n
    BY <2>1, <2>2
  <2>4. ASSUME NEW i \in 1..(k - 1)
        PROVE  t[i].end = t[i + 1].start /\ t[i].start < t[i].end
    <3>1. i \in 1..(Len(s) - 1) /\ i \in 1..k /\ i + 1 \in 1..k
      BY <1>1
    <3> QED
      BY <2>1, <2>2, <3>1
  <2>5. \A i, j \in 1..k : i < j => t[i].end <= t[j].start
    BY <2>1, <2>2
  <2>6. k > 0 => t[1].start = 0
    <3>1. k > 0 => 1 \in 1..k /\ Len(s) > 0
      BY <1>1
    <3> QED
      BY <2>1, <2>2, <3>1
  <2> QED
    BY <2>2, <2>3, <2>4, <2>5, <2>6 DEF Formed
<1> QED
  BY <1>2, <1>3 DEF Comp

\* So is one with a segment more that begins where it ends.
LEMMA AppendFormed ==
  ASSUME NEW n \in Nat, NEW s, Comp(s, n), LastFull(s),
         NEW g \in SegType, SegOK(g), g.end <= n, g.start = GetCurrentEndPosition(s)
  PROVE  /\ Comp(Append(s, g), n)
         /\ Len(Append(s, g)) = Len(s) + 1
         /\ \A i \in 1..Len(s) : Append(s, g)[i] = s[i]
         /\ Append(s, g)[Len(s) + 1] = g
<1>1. s \in Comps /\ Len(s) \in Nat /\ (s # << >> <=> Len(s) > 0)
      /\ \A i \in 1..Len(s) : s[i] \in SegType
  BY LenOf DEF Comp
<1> DEFINE t == Append(s, g)
<1>2. /\ t \in Comps /\ Len(t) = Len(s) + 1
      /\ \A i \in 1..Len(s) : t[i] = s[i]
      /\ t[Len(s) + 1] = g
  BY <1>1, AppendProperties DEF Comps
<1> HIDE DEF t
<1>3. Formed(s, n) /\ g.start = IF s = << >> THEN 0 ELSE s[Len(s)].end
  BY DEF Comp, GetCurrentEndPosition, Last
<1>4. \A i \in 1..Len(s) : s[i].end <= g.start
  <2> SUFFICES ASSUME NEW i \in 1..Len(s) PROVE s[i].end <= g.start
    OBVIOUS
  <2>1. s # << >> /\ g.start = s[Len(s)].end /\ s[Len(s)].start <= s[Len(s)].end
    BY <1>1, <1>3 DEF Formed, SegOK
  <2>2. CASE i = Len(s)
    BY <1>1, <2>1, <2>2 DEF SegType
  <2>3. CASE i < Len(s)
    <3>1. s[i].end <= s[Len(s)].start
      BY <1>1, <1>3, <2>3 DEF Formed
    <3> QED
      BY SMTT(30), <1>1, <2>1, <3>1 DEF SegType
  <2> QED
    BY <1>1, <2>2, <2>3
<1>5. \A i \in 1..Len(t) : SegOK(t[i]) /\ t[i].end <= n
  BY <1>1, <1>2, <1>3 DEF Formed
<1>6. \A i \in 1..(Len(t) - 1) : t[i].end = t[i + 1].start /\ t[i].start < t[i].end
  <2> SUFFICES ASSUME NEW i \in 1..Len(s) PROVE t[i].end = t[i + 1].start /\ t[i].start < t[i].end
    BY <1>1, <1>2
  <2>1. CASE i = Len(s)
    BY <1>1, <1>2, <1>3, <2>1 DEF LastFull
  <2>2. CASE i < Len(s)
    BY <1>1, <1>2, <1>3, <2>2 DEF Formed
  <2> QED
    BY <1>1, <2>1, <2>2
<1>7. \A i, j \in 1..Len(t) : i < j => t[i].end <= t[j].start
  <2> SUFFICES ASSUME NEW i \in 1..Len(t), NEW j \in 1..Len(t), i < j PROVE t[i].end <= t[j].start
    OBVIOUS
  <2>1. CASE j = Len(s) + 1
    BY <1>1, <1>2, <1>4, <2>1
  <2>2. CASE j <= Len(s)
    BY <1>1, <1>2, <1>3, <2>2 DEF Formed
  <2> QED
    BY <1>1, <1>2, <2>1, <2>2
<1>8. t[1].start = 0
  BY <1>1, <1>2, <1>3 DEF Formed
<1> QED
  BY <1>2, <1>5, <1>6, <1>7, <1>8 DEF Comp, Formed, t

\* Without its last segment a composition ends where that began.
LEMMA FrontFormed ==
  ASSUME NEW n \in Nat, NEW s, Comp(s, n), s # << >>
  PROVE  /\ Comp(Front(s), n) /\ LastFull(Front(s))
         /\ Len(Front(s)) = Len(s) - 1
         /\ \A i \in 1..(Len(s) - 1) : Front(s)[i] = s[i]
         /\ GetCurrentEndPosition(Front(s)) = s[Len(s)].start
<1>1. s \in Comps /\ Formed(s, n) /\ Len(s) \in Nat /\ Len(s) > 0
  BY LenOf DEF Comp
<1>2. /\ Comp(Front(s), n) /\ Len(Front(s)) = Len(s) - 1
      /\ \A i \in 1..(Len(s) - 1) : Front(s)[i] = s[i]
  <2>1. Len(s) - 1 \in 0..Len(s)
    BY <1>1
  <2> QED
    BY <1>1, <2>1, PrefixFormed DEF Front
<1>3. Len(Front(s)) > 0 <=> Front(s) # << >>
  BY <1>2, LenOf DEF Comp
<1>4. CASE Len(s) = 1
  BY <1>1, <1>2, <1>3, <1>4 DEF LastFull, GetCurrentEndPosition, Formed
<1>5. CASE Len(s) > 1
  <2>1. Front(s)[Len(s) - 1] = s[Len(s) - 1] /\ Front(s) # << >>
    BY <1>1, <1>2, <1>3, <1>5
  <2>2. s[Len(s) - 1].end = s[Len(s)].start /\ s[Len(s) - 1].start < s[Len(s) - 1].end
    BY <1>1, <1>5 DEF Formed
  <2> QED
    BY <1>2, <2>1, <2>2 DEF LastFull, GetCurrentEndPosition, Last
<1> QED
  BY <1>1, <1>2, <1>4, <1>5

\* The last segment may be exchanged for one that begins there, too.
LEMMA SetLastFormed ==
  ASSUME NEW n \in Nat, NEW s, Comp(s, n), s # << >>,
         NEW g \in SegType, SegOK(g), g.end <= n, g.start = s[Len(s)].start
  PROVE  /\ Comp(SetLast(s, g), n)
         /\ Len(SetLast(s, g)) = Len(s)
         /\ \A i \in 1..(Len(s) - 1) : SetLast(s, g)[i] = s[i]
         /\ SetLast(s, g)[Len(s)] = g
<1>1. Len(s) \in Nat /\ Len(s) > 0
  BY LenOf DEF Comp
<1> QED
  BY <1>1, FrontFormed, AppendFormed DEF SetLast

\* Where the last segment begins and ends.
LEMMA Positions ==
  ASSUME NEW n \in Nat, NEW s, Comp(s, n)
  PROVE  /\ s \in Comps /\ Len(s) \in Nat /\ (s # << >> <=> Len(s) > 0)
         /\ GetCurrentStartPosition(s) = (IF s = << >> THEN 0 ELSE s[Len(s)].start)
         /\ GetCurrentEndPosition(s) = (IF s = << >> THEN 0 ELSE s[Len(s)].end)
         /\ GetCurrentStartPosition(s) \in Nat /\ GetCurrentEndPosition(s) \in Nat
         /\ GetCurrentStartPosition(s) <= GetCurrentEndPosition(s)
         /\ GetCurrentEndPosition(s) <= n
         /\ LastFull(s) <=> s = << >> \/ GetCurrentStartPosition(s) < GetCurrentEndPosition(s)
<1>1. s \in Comps /\ Len(s) \in Nat /\ (s # << >> <=> Len(s) > 0)
  BY LenOf DEF Comp
<1>2. s # << >> => s[Len(s)] \in SegType /\ SegOK(s[Len(s)]) /\ s[Len(s)].end <= n
  BY <1>1, LenOf DEF Comp, Formed
<1>3. /\ GetCurrentStartPosition(s) = (IF s = << >> THEN 0 ELSE s[Len(s)].start)
      /\ GetCurrentEndPosition(s) = (IF s = << >> THEN 0 ELSE s[Len(s)].end)
  BY DEF GetCurrentStartPosition, GetCurrentEndPosition, Last
<1> QED
  BY <1>1, <1>2, <1>3 DEF LastFull, SegOK, SegType

\* Who extends a composition keeps its choices.
LEMMA KeepsAll ==
  ASSUME NEW s \in Comps, NEW t, Len(s) <= Len(t), \A i \in 1..Len(s) : t[i] = s[i]
  PROVE  Keeps(s, t)
BY LenOf DEF Keeps

\* Keeping choices is transitive.
LEMMA KeepsOn ==
  ASSUME NEW s, NEW t, NEW u, Len(t) \in Nat, Len(s) \in Nat, Keeps(s, t), Keeps(t, u)
  PROVE  Keeps(s, u)
BY DEF Keeps

\* What is chosen cannot be last while that is open.
LEMMA KeepsFront ==
  ASSUME NEW s \in Comps, LastOpen(s), NEW t, Len(t) \in Nat, Len(t) >= Len(s) - 1,
         \A i \in 1..(Len(s) - 1) : t[i] = s[i]
  PROVE  Keeps(s, t)
<1> SUFFICES ASSUME NEW i \in 1..Len(s), IsChoice(s[i]) PROVE i <= Len(t) /\ t[i] = s[i]
  BY DEF Keeps
<1>1. Len(s) \in Nat /\ s # << >>
  BY LenOf
<1>2. i # Len(s)
  <2>1. s[Len(s)] \in SegType
    BY <1>1, LenOf
  <2> QED
    BY <1>1, <2>1 DEF LastOpen, IsChoice, kSelected, SegType
<1> QED
  BY <1>1, <1>2

\* A segment as the constructor makes it is well formed and open.
LEMMA NewSegment ==
  ASSUME NEW j \in Nat, NEW k \in Nat, j <= k, NEW tags \in SUBSET Tags
  PROVE  /\ Segment(j, k, tags) \in SegType /\ SegOK(Segment(j, k, tags))
         /\ Segment(j, k, tags).start = j /\ Segment(j, k, tags).end = k
         /\ Segment(j, k, tags).status < kSelected
         /\ Segment(j, k, tags).tags = tags
<1>1. << >> \in Seq(Nat)
  BY EmptySeq
<1> QED
  BY <1>1 DEF Segment, SegType, SegOK, kVoid, kGuess, kSelected

\* Forward keeps all there is, and after it the last segment is open.
LEMMA ForwardFormed ==
  ASSUME NEW n \in Nat, NEW s, Comp(s, n)
  PROVE  /\ Comp(Forward(s), n)
         /\ GetCurrentEndPosition(Forward(s)) = GetCurrentEndPosition(s)
         /\ Len(s) <= Len(Forward(s)) /\ \A i \in 1..Len(s) : Forward(s)[i] = s[i]
         /\ LastOpen(Forward(s))
         /\ s = << >> => Forward(s) = s
         /\ s # << >> => /\ Forward(s) # << >> /\ ~LastFull(Forward(s))
                         /\ GetCurrentStartPosition(Forward(s)) = GetCurrentEndPosition(s)
         /\ s # << >> /\ LastFull(s) => Len(Forward(s)) = Len(s) + 1
         /\ ~LastFull(s) => Forward(s) = s
<1>1. /\ s \in Comps /\ Len(s) \in Nat /\ (s # << >> <=> Len(s) > 0)
      /\ s # << >> => s[Len(s)] \in SegType /\ SegOK(s[Len(s)])
      /\ GetCurrentEndPosition(s) = (IF s = << >> THEN 0 ELSE s[Len(s)].end)
      /\ GetCurrentStartPosition(s) = (IF s = << >> THEN 0 ELSE s[Len(s)].start)
      /\ GetCurrentEndPosition(s) \in Nat /\ GetCurrentEndPosition(s) <= n
  <2>1. s # << >> => s[Len(s)] \in SegType /\ SegOK(s[Len(s)])
    BY LenOf DEF Comp, Formed
  <2> QED
    BY <2>1, Positions
<1>2. CASE s = << >>
  BY <1>1, <1>2 DEF Forward, LastOpen
<1>3. CASE s # << >> /\ ~LastFull(s)
  <2>1. Forward(s) = s /\ s[Len(s)].start = s[Len(s)].end
    BY <1>1, <1>3 DEF Forward, LastFull, IsEmptySegment, Last, SegOK, SegType
  <2>2. LastOpen(s)
    BY <1>1, <1>3, <2>1 DEF LastOpen, SegOK, IsEmptySegment, SegType, kSelected
  <2> QED
    BY <1>1, <1>3, <2>1, <2>2
<1>4. CASE s # << >> /\ LastFull(s)
  <2> DEFINE e == s[Len(s)].end
             g == Segment(e, e, {})
  <2>1. e \in Nat /\ e <= n /\ e = GetCurrentEndPosition(s)
    BY <1>1, <1>4
  <2>2. g \in SegType /\ SegOK(g) /\ g.start = e /\ g.end = e /\ g.status < kSelected
    BY <2>1, NewSegment
  <2>3. Forward(s) = Append(s, g)
    BY <1>1, <1>4 DEF Forward, LastFull, IsEmptySegment, Last, SegType
  <2> HIDE DEF g, e
  <2>4. /\ Comp(Append(s, g), n)
        /\ Len(Append(s, g)) = Len(s) + 1
        /\ \A i \in 1..Len(s) : Append(s, g)[i] = s[i]
        /\ Append(s, g)[Len(s) + 1] = g
    BY <1>4, <2>1, <2>2, AppendFormed
  <2>5. Forward(s) # << >> /\ Forward(s)[Len(Forward(s))] = g
    BY <1>1, <2>3, <2>4, LenOf DEF Comp
  <2>6. ~LastFull(Forward(s)) /\ LastOpen(Forward(s))
    BY <2>2, <2>1, <2>5 DEF LastFull, LastOpen
  <2>7. /\ GetCurrentEndPosition(Forward(s)) = e
        /\ GetCurrentStartPosition(Forward(s)) = e
    BY <2>2, <2>5 DEF GetCurrentEndPosition, GetCurrentStartPosition, Last
  <2> QED
    BY <1>1, <1>4, <2>1, <2>3, <2>4, <2>5, <2>6, <2>7
<1> QED
  BY <1>2, <1>3, <1>4 DEF LastFull

\* Trim drops nothing but an empty segment.
LEMMA TrimFormed ==
  ASSUME NEW n \in Nat, NEW s, Comp(s, n)
  PROVE  /\ Comp(Trim(s), n) /\ LastFull(Trim(s))
         /\ GetCurrentEndPosition(Trim(s)) = GetCurrentEndPosition(s)
         /\ Len(Trim(s)) <= Len(s) /\ \A i \in 1..Len(Trim(s)) : Trim(s)[i] = s[i]
         /\ Keeps(s, Trim(s))
<1>1. /\ s \in Comps /\ Len(s) \in Nat /\ (s # << >> <=> Len(s) > 0)
      /\ \A i \in 1..Len(s) : s[i] \in SegType /\ SegOK(s[i])
      /\ GetCurrentEndPosition(s) = (IF s = << >> THEN 0 ELSE s[Len(s)].end)
  BY LenOf, Positions DEF Comp, Formed
<1>2. CASE s = << >> \/ LastFull(s)
  <2>1. Trim(s) = s /\ LastFull(s)
    BY <1>1, <1>2 DEF Trim, LastFull, IsEmptySegment, Last, SegType
  <2> QED
    BY <1>1, <2>1, KeepsAll
<1>3. CASE s # << >> /\ ~LastFull(s)
  <2>1. Trim(s) = Front(s) /\ s[Len(s)].start = s[Len(s)].end
    BY <1>1, <1>3 DEF Trim, LastFull, IsEmptySegment, Last, SegOK, SegType
  <2>2. LastOpen(s)
    BY <1>1, <1>3, <2>1 DEF LastOpen, SegOK, IsEmptySegment, SegType, kSelected
  <2> QED
    BY <1>1, <1>3, <2>1, <2>2, FrontFormed, KeepsFront
<1> QED
  BY <1>2, <1>3

\* AddSegment exchanges the last segment for a longer one, or leaves it.
LEMMA AddFormed ==
  ASSUME NEW n \in Nat, NEW s, Comp(s, n), LastOpen(s),
         NEW g \in SegType, SegOK(g), g.end <= n, g.status < kSelected
  PROVE  /\ Comp(AddSegment(s, g), n) /\ LastOpen(AddSegment(s, g))
         /\ Keeps(s, AddSegment(s, g))
         /\ GetCurrentStartPosition(AddSegment(s, g)) = GetCurrentStartPosition(s)
         /\ GetCurrentEndPosition(AddSegment(s, g)) >= GetCurrentEndPosition(s)
         /\ g.start # GetCurrentStartPosition(s) => AddSegment(s, g) = s
         /\ g.start = GetCurrentStartPosition(s) =>
              GetCurrentEndPosition(AddSegment(s, g)) >= g.end
<1>1. /\ s \in Comps /\ Len(s) \in Nat /\ (s # << >> <=> Len(s) > 0)
      /\ \A i \in 1..Len(s) : s[i] \in SegType /\ SegOK(s[i]) /\ s[i].end <= n
      /\ GetCurrentStartPosition(s) = (IF s = << >> THEN 0 ELSE s[Len(s)].start)
      /\ GetCurrentEndPosition(s) = (IF s = << >> THEN 0 ELSE s[Len(s)].end)
      /\ GetCurrentEndPosition(s) \in Nat /\ GetCurrentStartPosition(s) \in Nat
      /\ g.start \in Nat /\ g.end \in Nat
  BY LenOf, Positions DEF Comp, Formed, SegType
<1>2. CASE g.start # GetCurrentStartPosition(s) \/ GetCurrentEndPosition(s) > g.end
  <2>1. AddSegment(s, g) = s
    BY <1>2 DEF AddSegment
  <2> QED
    BY <1>1, <1>2, <2>1, KeepsAll
<1>3. CASE /\ s = << >> /\ g.start = 0
  <2>1. AddSegment(s, g) = Append(s, g)
    BY <1>1, <1>3 DEF AddSegment
  <2>2. LastFull(s) /\ g.start = GetCurrentEndPosition(s)
    BY <1>1, <1>3 DEF LastFull
  <2>3. Comp(Append(s, g), n) /\ Len(Append(s, g)) = 1 /\ Append(s, g)[1] = g
    <3>1. Len(s) = 0
      BY <1>1, <1>3
    <3>2. /\ Comp(Append(s, g), n) /\ Len(Append(s, g)) = Len(s) + 1
          /\ Append(s, g)[Len(s) + 1] = g
      BY <2>2, AppendFormed
    <3> QED
      BY <3>1, <3>2
  <2>4. Append(s, g) # << >>
    BY <2>3, LenOf DEF Comp
  <2>5. LastOpen(Append(s, g)) /\ Keeps(s, Append(s, g))
    BY <1>1, <1>3, <2>3 DEF LastOpen, Keeps
  <2> QED
    BY <1>1, <1>3, <2>1, <2>3, <2>4, <2>5, Positions
<1>4. CASE /\ s # << >> /\ g.start = GetCurrentStartPosition(s) /\ GetCurrentEndPosition(s) <= g.end
  <2> DEFINE h == IF Last(s).end < g.end THEN g
                  ELSE [Last(s) EXCEPT !.tags = @ \cup g.tags]
  <2>1. AddSegment(s, g) = SetLast(s, h)
    BY <1>1, <1>4 DEF AddSegment
  <2>2. /\ Last(s) = s[Len(s)] /\ Last(s) \in SegType /\ SegOK(Last(s)) /\ Last(s).end <= n
        /\ Last(s).status < kSelected /\ Last(s).start = g.start /\ Last(s).end <= g.end
    BY <1>1, <1>4 DEF Last, LastOpen
  <2>3. /\ h \in SegType /\ SegOK(h) /\ h.end <= n /\ h.start = s[Len(s)].start
        /\ h.end = g.end /\ h.status < kSelected
    <3>1. CASE Last(s).end < g.end
      BY <1>4, <2>2, <3>1
    <3>2. CASE ~(Last(s).end < g.end)
      <4>1. h = [Last(s) EXCEPT !.tags = @ \cup g.tags] /\ Last(s).end = g.end
        BY <1>1, <2>2, <3>2 DEF SegType
      <4>2. g.tags \in SUBSET Tags /\ Last(s).tags \in SUBSET Tags
        BY <2>2 DEF SegType
      <4>3. h \in SegType
        BY <2>2, <4>1, <4>2 DEF SegType
      <4>4. /\ h.status = Last(s).status /\ h.start = Last(s).start /\ h.end = Last(s).end
            /\ h.menu = Last(s).menu /\ h.sel = Last(s).sel
        BY <2>2, <4>1 DEF SegType
      <4>5. SegOK(h)
        <5> HIDE DEF h
        <5> QED
          BY <2>2, <4>4, SameOffer
      <4> QED
        BY <2>2, <4>1, <4>3, <4>4, <4>5
    <3> QED
      BY <3>1, <3>2
  <2> HIDE DEF h
  <2>4. /\ Comp(SetLast(s, h), n) /\ Len(SetLast(s, h)) = Len(s)
        /\ \A i \in 1..(Len(s) - 1) : SetLast(s, h)[i] = s[i]
        /\ SetLast(s, h)[Len(s)] = h
    BY <1>4, <2>3, SetLastFormed
  <2>5. LastOpen(SetLast(s, h)) /\ Keeps(s, SetLast(s, h)) /\ SetLast(s, h) # << >>
    BY <1>1, <1>4, <2>3, <2>4, LenOf, KeepsFront DEF LastOpen, Comp
  <2> QED
    BY <1>1, <1>4, <2>1, <2>3, <2>4, <2>5, Positions
<1> QED
  BY <1>1, <1>2, <1>3, <1>4

\* A segment pushed after a full one.
LEMMA PushFormed ==
  ASSUME NEW n \in Nat, NEW s, Comp(s, n), LastFull(s),
         NEW g \in SegType, SegOK(g), g.end <= n, g.status < kSelected, g.start < g.end,
         g.start = GetCurrentEndPosition(s)
  PROVE  LET t == AddSegment(Forward(s), g)
         IN  /\ Comp(t, n) /\ LastOpen(t) /\ LastFull(t) /\ t # << >>
             /\ Len(t) = Len(s) + 1 /\ \A i \in 1..Len(s) : t[i] = s[i]
             /\ GetCurrentEndPosition(t) = g.end /\ t[Len(s) + 1] = g
<1> DEFINE t == AddSegment(Forward(s), g)
<1>1. /\ s \in Comps /\ Len(s) \in Nat /\ (s # << >> <=> Len(s) > 0)
      /\ GetCurrentEndPosition(s) = (IF s = << >> THEN 0 ELSE s[Len(s)].end)
      /\ GetCurrentEndPosition(s) \in Nat
      /\ g.start \in Nat /\ g.end \in Nat
  BY Positions DEF SegType
<1>2. /\ Comp(t, n) /\ Len(t) = Len(s) + 1 /\ \A i \in 1..Len(s) : t[i] = s[i]
      /\ t[Len(s) + 1] = g
  <2>1. CASE s = << >>
    <3>1. Forward(s) = s /\ GetCurrentStartPosition(s) = 0
      BY <2>1 DEF Forward, GetCurrentStartPosition
    <3>2. t = Append(s, g)
      BY <1>1, <2>1, <3>1 DEF AddSegment
    <3> QED
      BY <3>2, AppendFormed
  <2>2. CASE s # << >>
    <3> DEFINE f == Forward(s)
    <3>1. /\ Comp(f, n) /\ Len(f) = Len(s) + 1 /\ \A i \in 1..Len(s) : f[i] = s[i]
          /\ f # << >> /\ ~LastFull(f)
          /\ GetCurrentStartPosition(f) = g.start /\ GetCurrentEndPosition(f) = g.start
      BY <2>2, ForwardFormed
    <3>2. f[Len(f)].start = g.start /\ f[Len(f)].end = g.start
      BY <3>1, Positions
    <3>3. t = SetLast(f, g)
      BY <1>1, <3>1, <3>2 DEF AddSegment, Last
    <3>4. /\ Comp(SetLast(f, g), n) /\ Len(SetLast(f, g)) = Len(f)
          /\ \A i \in 1..(Len(f) - 1) : SetLast(f, g)[i] = f[i]
          /\ SetLast(f, g)[Len(f)] = g
      <4> HIDE DEF f
      <4> QED
        BY <3>1, <3>2, SetLastFormed
    <3> QED
      BY <1>1, <3>1, <3>3, <3>4
  <2> QED
    BY <2>1, <2>2
<1>3. t # << >> /\ t[Len(t)] = g
  BY <1>1, <1>2, LenOf DEF Comp
<1>4. LastOpen(t) /\ LastFull(t) /\ GetCurrentEndPosition(t) = g.end
  BY <1>3 DEF LastOpen, LastFull, GetCurrentEndPosition, Last
<1> QED
  BY <1>2, <1>3, <1>4

-----------------------------------------------------------------------------
(* The segmentors.                                                         *)

\* What is chosen is before the confirmed position.
LEMMA Confirmed ==
  ASSUME NEW n \in Nat, NEW s, Comp(s, n)
  PROVE  /\ GetConfirmedPosition(s) \in Nat
         /\ \A i \in 1..Len(s) : s[i].status >= kSelected => s[i].end <= GetConfirmedPosition(s)
         /\ \/ GetConfirmedPosition(s) = 0
            \/ \E i \in 1..Len(s) :
                 s[i].status >= kSelected /\ GetConfirmedPosition(s) = s[i].end
<1>1. /\ s \in Comps /\ Len(s) \in Nat
      /\ \A i \in 1..Len(s) : s[i] \in SegType /\ SegOK(s[i])
  BY LenOf DEF Comp, Formed
<1> DEFINE chosen == {i \in 1..Len(s) : s[i].status >= kSelected}
<1>2. GetConfirmedPosition(s) = IF chosen = {} THEN 0
                                ELSE IF Max(chosen) = 0 THEN 0 ELSE s[Max(chosen)].end
  BY DEF GetConfirmedPosition, SelectLastInSeq
<1>3. CASE chosen = {}
  BY <1>2, <1>3
<1>4. CASE chosen # {}
  <2>1. chosen \in SUBSET (1..Len(s))
    OBVIOUS
  <2>2. Max(chosen) \in chosen /\ \A i \in chosen : Max(chosen) >= i
    <3> HIDE DEF chosen
    <3> QED
      BY <1>1, <1>4, <2>1, Greatest
  <2> DEFINE k == Max(chosen)
  <2>3. k \in 1..Len(s) /\ k # 0 /\ s[k].status >= kSelected /\ \A i \in chosen : i <= k
    BY <1>1, <2>2
  <2> HIDE DEF k
  <2>4. GetConfirmedPosition(s) = s[k].end
    BY <1>2, <1>4, <2>3 DEF k
  <2>5. s[k] \in SegType /\ SegOK(s[k])
    BY <1>1, <2>3
  <2>6. ASSUME NEW i \in 1..Len(s), s[i].status >= kSelected PROVE s[i].end <= s[k].end
    <3>1. i <= k /\ s[i] \in SegType
      BY <1>1, <2>3, <2>6
    <3>2. CASE i < k
      <4>1. s[i].end <= s[k].start
        BY <2>3, <3>2 DEF Comp, Formed
      <4> QED
        BY SMTT(30), <2>5, <3>1, <4>1 DEF SegOK, SegType
    <3>3. CASE i = k
      BY <2>5, <3>3 DEF SegType
    <3> QED
      BY <1>1, <2>3, <3>1, <3>2, <3>3
  <2>7. s[k].end \in Nat
    BY <2>5 DEF SegType
  <2> QED
    BY <2>3, <2>4, <2>6, <2>7
<1> QED
  BY <1>3, <1>4

\* Popping back to a place where a segment begins, after all that is chosen.
LEMMA LeftFormed ==
  ASSUME NEW n \in Nat, NEW s, Comp(s, n), LastOpen(s),
         NEW m \in Nat, GetConfirmedPosition(s) <= m,
         m = GetCurrentEndPosition(s) \/ \E i \in 1..Len(s) : s[i].start = m
  PROVE  /\ Comp(LeftOf(s, m), n) /\ LastOpen(LeftOf(s, m)) /\ Keeps(s, LeftOf(s, m))
         /\ LeftOf(s, m) = s \/ GetCurrentStartPosition(LeftOf(s, m)) = m
<1>1. /\ s \in Comps /\ Len(s) \in Nat /\ (s # << >> <=> Len(s) > 0)
      /\ \A i \in 1..Len(s) : s[i] \in SegType /\ SegOK(s[i])
      /\ GetCurrentEndPosition(s) = (IF s = << >> THEN 0 ELSE s[Len(s)].end)
      /\ Formed(s, n)
  BY LenOf, Positions DEF Comp, Formed
\* A segment that begins at m has none after it that begins there or before.
<1>2. ASSUME NEW i \in 1..Len(s), s[i].start = m, NEW j \in 1..Len(s), i < j
      PROVE  s[j].start > m
  <2>1. s[i].start < s[i].end /\ s[i].end <= s[j].start
    BY <1>1, <1>2 DEF Formed
  <2> QED
    BY SMTT(30), <1>1, <1>2, <2>1 DEF SegType
<1>3. CASE \E i \in 1..Len(s) : s[i].start = m
  <2>1. PICK i \in 1..Len(s) : s[i].start = m
    BY <1>3
  <2>2. IsLeftCount(i, s, m)
    BY <1>1, <1>2, <2>1 DEF IsLeftCount
  <2>3. ASSUME NEW k \in 0..Len(s), IsLeftCount(k, s, m) PROVE k = i
    <3>1. ~(k < i)
      BY <1>1, <2>1, <2>3 DEF IsLeftCount
    <3>2. ~(i < k)
      BY SMTT(30), <1>1, <1>2, <2>1, <2>3 DEF IsLeftCount, SegType
    <3> QED
      BY <1>1, <3>1, <3>2
  <2>4. LeftOf(s, m) = SubSeq(s, 1, i)
    <3>1. i \in 0..Len(s)
      OBVIOUS
    <3>2. (CHOOSE k \in 0..Len(s) : IsLeftCount(k, s, m)) = i
      BY <2>2, <2>3, <3>1
    <3> QED
      BY <3>2 DEF LeftOf
  <2> DEFINE t == LeftOf(s, m)
  <2>5. Comp(t, n) /\ Len(t) = i /\ \A k \in 1..i : t[k] = s[k]
    BY <1>1, <2>4, PrefixFormed
  <2> HIDE DEF t
  <2>6. t # << >> /\ t[Len(t)] = s[i]
    BY <2>5, LenOf DEF Comp
  <2>7. ASSUME NEW k \in 1..Len(s), s[k].status >= kSelected PROVE k < i
    <3>1. s[k].end <= m /\ s[k].start < s[k].end
      <4>1. s[k].end <= GetConfirmedPosition(s) /\ GetConfirmedPosition(s) \in Nat
        BY <2>7, Confirmed
      <4>2. s[k].start < s[k].end
        BY <1>1, <2>7 DEF SegOK, SegType, IsEmptySegment
      <4> QED
        BY <1>1, <4>1, <4>2 DEF SegType
    <3>2. k # i
      BY <1>1, <2>1, <3>1 DEF SegType
    <3>3. ~(i < k)
      BY SMTT(30), <1>1, <1>2, <2>1, <3>1 DEF SegType
    <3> QED
      BY <1>1, <3>2, <3>3
  <2>8. LastOpen(t)
    <3>1. ~(s[i].status >= kSelected) /\ s[i].status \in 0..3
      BY SMTT(30), <1>1, <2>7 DEF SegType
    <3> QED
      BY <2>6, <3>1 DEF LastOpen, kSelected
  <2>9. Keeps(s, t)
    BY <1>1, <2>5, <2>7 DEF Keeps, IsChoice
  <2>10. GetCurrentStartPosition(t) = m
    BY <2>1, <2>6 DEF GetCurrentStartPosition, Last
  <2> QED
    BY <2>5, <2>8, <2>9, <2>10 DEF t
<1>4. CASE m = GetCurrentEndPosition(s) /\ ~(\E i \in 1..Len(s) : s[i].start = m)
  <2>1. \A i \in 1..Len(s) : s[i].start < m
    <3> SUFFICES ASSUME NEW i \in 1..Len(s) PROVE s[i].start < m
      OBVIOUS
    <3>1. m = s[Len(s)].end
      BY <1>1, <1>4
    <3>2. s[i].start <= m
      <4>1. CASE i = Len(s)
        BY <1>1, <3>1, <4>1 DEF SegOK
      <4>2. CASE i < Len(s)
        <5>1. s[i].end <= s[Len(s)].start
          BY <1>1, <4>2 DEF Formed
        <5> QED
          BY SMTT(30), <1>1, <3>1, <5>1 DEF SegOK, SegType
      <4> QED
        BY <1>1, <4>1, <4>2
    <3> QED
      BY <1>1, <1>4, <3>2 DEF SegType
  <2>2. ASSUME NEW k \in 0..Len(s) PROVE IsLeftCount(k, s, m) <=> k = Len(s)
    <3>1. CASE k = Len(s)
      BY <1>1, <2>1, <3>1 DEF IsLeftCount, SegType
    <3>2. CASE k < Len(s)
      <4>1. k + 1 \in (k + 1)..Len(s) /\ k + 1 \in 1..Len(s)
        BY <1>1, <3>2
      <4>2. ~(s[k + 1].start > m)
        BY <1>1, <2>1, <4>1 DEF SegType
      <4> QED
        BY <3>2, <4>1, <4>2 DEF IsLeftCount
    <3> QED
      BY <1>1, <3>1, <3>2
  <2>3. (CHOOSE k \in 0..Len(s) : IsLeftCount(k, s, m)) = Len(s)
    BY <1>1, <2>2
  <2>4. LeftOf(s, m) = s
    BY <1>1, <2>3, SubSeqFull DEF LeftOf, Comps
  <2> QED
    BY <1>1, <2>4, KeepsAll
<1> QED
  BY <1>3, <1>4

\* A match takes the input to its end, or all is as it was.
LEMMA MatchFormed ==
  ASSUME NEW text \in Seq(Chars), NEW s, Comp(s, Len(text)), LastOpen(s)
  PROVE  LET t == ProceedMatcher(s, text)
         IN  /\ Comp(t, Len(text)) /\ LastOpen(t) /\ Keeps(s, t)
             /\ t = s \/ (/\ GetCurrentEndPosition(t) = Len(text)
                          /\ GetCurrentStartPosition(t) < Len(text))
<1>1. Len(text) \in Nat /\ s \in Comps /\ Keeps(s, s)
  BY LenProperties, KeepsAll, LenOf DEF Comp
<1> DEFINE found == {k \in 1..Len(Patterns) : Counts(MatchStarts(Patterns[k], s, text), s)}
<1>2. GetMatch(s, text) = IF found # {} THEN Min(found) ELSE 0
  BY DEF GetMatch, SelectInSeq
<1>3. CASE found = {}
  BY <1>1, <1>2, <1>3 DEF ProceedMatcher, AddMatchOf
<1>4. CASE found # {}
  <2>1. found \in SUBSET Nat
    BY PatternsAssumption, LenProperties
  <2>2. Min(found) \in found
    <3> HIDE DEF found
    <3> QED
      BY <1>4, <2>1, Least
  <2>3. PICK k \in 1..Len(Patterns) :
          k = GetMatch(s, text) /\ Counts(MatchStarts(Patterns[k], s, text), s)
    BY <1>2, <1>4, <2>2
  <2> DEFINE starts == MatchStarts(Patterns[k], s, text)
             m      == Min(starts)
             g      == Segment(m, Len(text), {Patterns[k].tag})
             u      == LeftOf(s, m)
  <2>4. GetConfirmedPosition(s) \in Nat
    BY <1>1, Confirmed
  <2>5. m \in starts
    <3>1. starts \in SUBSET Nat
      BY <1>1, <2>4 DEF MatchStarts
    <3>2. starts # {}
      BY <2>3 DEF Counts
    <3> HIDE DEF starts
    <3> QED
      BY <3>1, <3>2, Least
  <2>6. m \in Nat /\ m < Len(text) /\ GetConfirmedPosition(s) <= m
    BY <1>1, <2>4, <2>5 DEF MatchStarts
  <2>7. m = GetCurrentEndPosition(s) \/ \E i \in 1..Len(s) : s[i].start = m
    BY <2>3 DEF Counts
  <2>8. {Patterns[k].tag} \in SUBSET Tags
    BY DEF Tags
  <2>9. ProceedMatcher(s, text) = AddSegment(LeftOf(s, g.start), g)
    BY <2>3 DEF ProceedMatcher, AddMatchOf, AddMatch
  <2> HIDE DEF starts, m
  <2>10. /\ g \in SegType /\ SegOK(g) /\ g.start = m /\ g.end = Len(text)
         /\ g.status < kSelected
    BY <1>1, <2>6, <2>8, NewSegment
  <2>11. Comp(u, Len(text)) /\ LastOpen(u) /\ Keeps(s, u)
         /\ (u = s \/ GetCurrentStartPosition(u) = m)
    BY <1>1, <2>6, <2>7, LeftFormed
  <2> HIDE DEF g, u
  <2> DEFINE t == AddSegment(u, g)
  <2>12. ProceedMatcher(s, text) = t
    BY <2>9, <2>10 DEF u
  <2>13. /\ Comp(t, Len(text)) /\ LastOpen(t) /\ Keeps(u, t)
         /\ GetCurrentStartPosition(t) = GetCurrentStartPosition(u)
         /\ m # GetCurrentStartPosition(u) => t = u
         /\ m = GetCurrentStartPosition(u) => GetCurrentEndPosition(t) >= Len(text)
    BY <1>1, <2>10, <2>11, AddFormed
  <2>14. Keeps(s, t)
    BY <1>1, <2>11, <2>13, LenOf, KeepsOn DEF Comp
  <2>15. GetCurrentEndPosition(t) \in Nat /\ GetCurrentEndPosition(t) <= Len(text)
    <3> HIDE DEF t
    <3> QED
      BY <1>1, <2>13, Positions
  <2>16. t = s \/ (GetCurrentEndPosition(t) = Len(text) /\ GetCurrentStartPosition(t) < Len(text))
    <3>1. CASE m = GetCurrentStartPosition(u)
      BY <1>1, <2>6, <2>13, <2>15, <3>1
    <3>2. CASE m # GetCurrentStartPosition(u)
      BY <2>11, <2>13, <3>2
    <3> QED
      BY <3>1, <3>2
  <2> QED
    BY <2>12, <2>13, <2>14, <2>16
<1> QED
  BY <1>3, <1>4

\* Every run of letters has an end.
LEMMA RunEnds ==
  ASSUME NEW text \in Seq(Chars), NEW j \in 0..Len(text)
  PROVE  RunEnd(text, j) \in j..Len(text) /\ IsRunEnd(RunEnd(text, j), text, j)
<1>1. Len(text) \in Nat
  BY LenProperties
<1> DEFINE ends == {k \in j..Len(text) : k < Len(text) => text[k + 1] \notin Letters}
<1>2. ends \in SUBSET Nat /\ Len(text) \in ends
  BY <1>1
<1>3. Min(ends) \in ends /\ \A k \in ends : Min(ends) <= k
  <2> HIDE DEF ends
  <2> QED
    BY <1>2, Least
<1> DEFINE k == Min(ends)
<1>4. k \in j..Len(text) /\ (k < Len(text) => text[k + 1] \notin Letters)
  BY <1>3
<1>5. \A i \in (j + 1)..k : text[i] \in Letters
  <2> SUFFICES ASSUME NEW i \in (j + 1)..k, text[i] \notin Letters PROVE FALSE
    OBVIOUS
  <2>1. i - 1 \in j..Len(text) /\ (i - 1) + 1 = i /\ i - 1 < k
    BY <1>1, <1>4
  <2>2. i - 1 \in ends
    BY <2>1
  <2> QED
    BY <1>1, <1>3, <1>4, <2>1, <2>2
<1> HIDE DEF k
<1>6. IsRunEnd(k, text, j)
  BY <1>4, <1>5 DEF IsRunEnd
<1> QED
  BY <1>4, <1>6 DEF RunEnd

\* A run of letters may lengthen the last segment.
LEMMA AbcFormed ==
  ASSUME NEW text \in Seq(Chars), NEW s, Comp(s, Len(text)), LastOpen(s)
  PROVE  LET t == ProceedAbc(s, text)
         IN  /\ Comp(t, Len(text)) /\ LastOpen(t) /\ Keeps(s, t)
             /\ GetCurrentStartPosition(t) = GetCurrentStartPosition(s)
             /\ GetCurrentEndPosition(t) >= GetCurrentEndPosition(s)
<1> DEFINE j == GetCurrentStartPosition(s)
           k == RunEnd(text, j)
           g == Segment(j, k, {"abc"})
<1>1. /\ Len(text) \in Nat /\ s \in Comps /\ Keeps(s, s) /\ j \in Nat /\ j <= Len(text)
      /\ GetCurrentEndPosition(s) \in Nat
  BY LenProperties, Positions, KeepsAll, LenOf DEF Comp
<1>2. k \in j..Len(text)
  BY <1>1, RunEnds
<1> HIDE DEF j, k
<1>3. ProceedAbc(s, text) = IF j < k THEN AddSegment(s, g) ELSE s
  BY DEF ProceedAbc, AddRun, j, k
<1>4. CASE j < k
  <2>a. {"abc"} \in SUBSET Tags
    BY DEF Tags
  <2>1. k \in Nat /\ j <= k /\ k <= Len(text)
    BY <1>1, <1>2
  <2>2. g \in SegType /\ SegOK(g) /\ g.end <= Len(text) /\ g.status < kSelected
    BY <1>1, <2>a, <2>1, NewSegment
  <2> HIDE DEF g
  <2> QED
    BY <1>1, <1>3, <1>4, <2>2, AddFormed
<1>5. CASE ~(j < k)
  BY <1>1, <1>3, <1>5
<1> QED
  BY <1>4, <1>5

\* A composition with one that is pushed, or nothing if that would be empty.
LEMMA CodeFormed ==
  ASSUME NEW n \in Nat, NEW s, Comp(s, n), LastFull(s), LastOpen(s), s # << >>,
         NEW e \in Nat, GetCurrentEndPosition(s) <= e, e <= n
  PROVE  LET t == PushCode(s, GetCurrentEndPosition(s), e)
         IN  /\ Comp(t, n) /\ LastOpen(t) /\ LastFull(t) /\ t # << >>
             /\ Len(s) <= Len(t) /\ \A i \in 1..Len(s) : t[i] = s[i]
             /\ GetCurrentEndPosition(t) = e
<1> DEFINE j == GetCurrentEndPosition(s)
           g == Segment(j, e, {Affix.tag})
<1>1. Len(s) \in Nat /\ j \in Nat
  BY Positions
<1>2. CASE j = e
  <2>1. PushCode(s, j, e) = s
    BY <1>2 DEF PushCode
  <2> QED
    BY <1>1, <1>2, <2>1
<1>3. CASE j < e
  <2>1. {Affix.tag} \in SUBSET Tags
    BY DEF Tags
  <2>2. PushCode(s, j, e) = AddSegment(Forward(s), g)
    BY <1>1, <1>3 DEF PushCode
  <2> HIDE DEF j
  <2>3. /\ g \in SegType /\ SegOK(g) /\ g.start = j /\ g.end = e /\ g.status < kSelected
    BY <1>1, <1>3, <2>1, NewSegment
  <2> HIDE DEF g
  <2>4. g.start = GetCurrentEndPosition(s) /\ g.end <= n /\ g.start < g.end
    BY <1>3, <2>3 DEF j
  <2> DEFINE t == AddSegment(Forward(s), g)
  <2>5. /\ Comp(t, n) /\ LastOpen(t) /\ LastFull(t) /\ t # << >>
        /\ Len(t) = Len(s) + 1 /\ \A i \in 1..Len(s) : t[i] = s[i]
        /\ GetCurrentEndPosition(t) = g.end
    BY <2>3, <2>4, PushFormed
  <2> QED
    BY <1>1, <2>2, <2>3, <2>5 DEF j
<1> QED
  BY <1>1, <1>2, <1>3

\* A prefix or suffix is a segment of one character, offered as it is.
LEMMA PhonySegment ==
  ASSUME NEW j \in Nat, NEW tag \in {"prefix", "suffix"}
  PROVE  /\ Phony(j, tag) \in SegType /\ SegOK(Phony(j, tag))
         /\ Phony(j, tag).start = j /\ Phony(j, tag).end = j + 1
         /\ Phony(j, tag).status < kSelected
<1>1. {tag, "phony"} \in SUBSET Tags
  BY DEF Tags
<1>2. /\ Segment(j, j + 1, {tag, "phony"}) \in SegType
      /\ Segment(j, j + 1, {tag, "phony"}).start = j
      /\ Segment(j, j + 1, {tag, "phony"}).end = j + 1
  BY <1>1, NewSegment
<1>3. Segment(j, j + 1, {tag, "phony"}).menu = << >>
  BY DEF Segment
<1>4. /\ Phony(j, tag) \in SegType /\ Phony(j, tag).start = j /\ Phony(j, tag).end = j + 1
      /\ Phony(j, tag).status = 1 /\ Phony(j, tag).menu = << >>
  <2> DEFINE g == Segment(j, j + 1, {tag, "phony"})
  <2>1. Phony(j, tag) = [g EXCEPT !.status = 1]
    BY DEF Phony, kGuess
  <2>2. g \in SegType /\ g.start = j /\ g.end = j + 1 /\ g.menu = << >>
    BY <1>2, <1>3
  <2> HIDE DEF g
  <2> QED
    BY <2>1, <2>2 DEF SegType
<1> QED
  BY <1>4, EmptySeq DEF SegOK, MenuWithin, kSelected, kGuess

\* Prefix, code and suffix reach as far as the segment they replace.
LEMMA AffixFormed ==
  ASSUME NEW text \in Seq(Chars), NEW s, Comp(s, Len(text)), LastOpen(s), IsAffixed(s, text)
  PROVE  LET t == ProceedAffix(s, text)
         IN  /\ Comp(t, Len(text)) /\ LastOpen(t) /\ LastFull(t) /\ Keeps(s, t)
             /\ GetCurrentEndPosition(t) = GetCurrentEndPosition(s)
<1> DEFINE n == Len(text)
           j == Last(s).start
           k == Last(s).end
           f == Front(s)
           p == PushPrefix(s)
<1>1. s # << >> /\ GetCurrentSegmentLength(s) > 1
  BY DEF IsAffixed, HasAffix
<1>2. /\ n \in Nat /\ s \in Comps /\ Len(s) \in Nat /\ Len(s) > 0
      /\ j \in Nat /\ k \in Nat /\ k <= n /\ k > j + 1
      /\ j = s[Len(s)].start /\ GetCurrentEndPosition(s) = k
  <2>1. n \in Nat
    BY LenProperties
  <2>2. /\ s \in Comps /\ Len(s) \in Nat /\ Len(s) > 0
        /\ j = GetCurrentStartPosition(s) /\ k = GetCurrentEndPosition(s)
        /\ GetCurrentStartPosition(s) \in Nat /\ GetCurrentEndPosition(s) \in Nat
        /\ GetCurrentEndPosition(s) <= n
    BY <1>1, <2>1, Positions DEF GetCurrentStartPosition, GetCurrentEndPosition
  <2> QED
    BY <1>1, <2>1, <2>2 DEF GetCurrentSegmentLength, Last
<1>3. /\ Comp(f, n) /\ LastFull(f) /\ Len(f) = Len(s) - 1
      /\ \A i \in 1..(Len(s) - 1) : f[i] = s[i]
      /\ GetCurrentEndPosition(f) = j
  BY <1>1, <1>2, FrontFormed
<1>4. /\ Comp(p, n) /\ LastOpen(p) /\ LastFull(p) /\ p # << >>
      /\ Len(p) = Len(s) /\ \A i \in 1..(Len(s) - 1) : p[i] = s[i]
      /\ GetCurrentEndPosition(p) = j + 1
  <2> DEFINE g == Phony(j, "prefix")
  <2>1. g \in SegType /\ SegOK(g) /\ g.start = j /\ g.end = j + 1 /\ g.status < kSelected
    BY <1>2, PhonySegment
  <2>2. p = AddSegment(Forward(f), g)
    BY DEF PushPrefix
  <2> HIDE DEF g, f, j, k, n, p
  <2>3. g.end <= n /\ g.start < g.end /\ g.start = GetCurrentEndPosition(f)
    BY <1>2, <1>3, <2>1
  <2> DEFINE t == AddSegment(Forward(f), g)
  <2>4. /\ Comp(t, n) /\ LastOpen(t) /\ LastFull(t) /\ t # << >>
        /\ Len(t) = Len(f) + 1 /\ \A i \in 1..Len(f) : t[i] = f[i]
        /\ GetCurrentEndPosition(t) = g.end
    BY SMTT(30), <1>2, <1>3, <2>1, <2>3, PushFormed
  <2> QED
    BY <1>2, <1>3, <2>1, <2>2, <2>4
<1> DEFINE c(e) == PushCode(p, j + 1, e)
<1>5. ASSUME NEW e \in Nat, j + 1 <= e, e <= n
      PROVE  /\ Comp(c(e), n) /\ LastOpen(c(e)) /\ LastFull(c(e)) /\ c(e) # << >>
             /\ Len(p) <= Len(c(e)) /\ \A i \in 1..Len(p) : c(e)[i] = p[i]
             /\ GetCurrentEndPosition(c(e)) = e
  <2> HIDE DEF p, j, n
  <2> QED
    BY <1>2, <1>4, <1>5, CodeFormed
<1>6. CASE text[k] # Affix.suffix
  <2>1. ProceedAffix(s, text) = c(k)
    BY <1>6 DEF ProceedAffix
  <2> HIDE DEF p, j, n, k
  <2>2. /\ Comp(c(k), n) /\ LastOpen(c(k)) /\ LastFull(c(k)) /\ c(k) # << >>
        /\ Len(p) <= Len(c(k)) /\ \A i \in 1..Len(p) : c(k)[i] = p[i]
        /\ GetCurrentEndPosition(c(k)) = k
    BY SMTT(30), <1>2, <1>5
  <2> HIDE DEF c
  <2>3. Len(c(k)) \in Nat /\ Len(c(k)) >= Len(s) - 1 /\ \A i \in 1..(Len(s) - 1) : c(k)[i] = s[i]
    BY <1>2, <1>4, <2>2, LenOf DEF Comp
  <2>4. Keeps(s, c(k))
    BY <1>2, <2>3, KeepsFront
  <2> QED
    BY <1>2, <2>1, <2>2, <2>4 DEF n
<1>7. CASE text[k] = Affix.suffix
  <2> DEFINE u == c(k - 1)
             g == Phony(k - 1, "suffix")
             t == AddSegment(Forward(u), g)
  <2>1. ProceedAffix(s, text) = t
    BY <1>7 DEF ProceedAffix
  <2> HIDE DEF p, j, n, k
  <2>2. k - 1 \in Nat /\ (k - 1) + 1 = k
    BY <1>2
  <2>3. /\ Comp(u, n) /\ LastOpen(u) /\ LastFull(u) /\ u # << >>
        /\ Len(p) <= Len(u) /\ \A i \in 1..Len(p) : u[i] = p[i]
        /\ GetCurrentEndPosition(u) = k - 1
    BY <1>2, <1>5, <2>2
  <2>4. g \in SegType /\ SegOK(g) /\ g.start = k - 1 /\ g.end = k /\ g.status < kSelected
    BY <2>2, PhonySegment
  <2> HIDE DEF u, g
  <2>5. g.end <= n /\ g.start < g.end /\ g.start = GetCurrentEndPosition(u)
    BY <1>2, <2>3, <2>4
  <2>6. /\ Comp(t, n) /\ LastOpen(t) /\ LastFull(t) /\ t # << >>
        /\ Len(t) = Len(u) + 1 /\ \A i \in 1..Len(u) : t[i] = u[i]
        /\ GetCurrentEndPosition(t) = g.end
    BY SMTT(30), <1>2, <2>3, <2>4, <2>5, PushFormed
  <2> HIDE DEF t
  <2>7. Len(u) \in Nat /\ Len(t) \in Nat
    BY <2>3, <2>6, LenOf DEF Comp
  <2>8. Len(t) >= Len(s) - 1 /\ \A i \in 1..(Len(s) - 1) : t[i] = s[i]
    BY SMTT(30), <1>2, <1>4, <2>3, <2>6, <2>7
  <2>9. Keeps(s, t)
    BY <1>2, <2>7, <2>8, KeepsFront
  <2> QED
    BY <1>2, <2>1, <2>4, <2>6, <2>9 DEF n
<1> QED
  BY <1>6, <1>7

\* A segment's tags do not matter to the form.
LEMMA PrefixOnlyFormed ==
  ASSUME NEW text \in Seq(Chars), NEW s, Comp(s, Len(text)), LastOpen(s)
  PROVE  LET t == PrefixOnly(s, text)
         IN  /\ Comp(t, Len(text)) /\ LastOpen(t) /\ Keeps(s, t)
             /\ GetCurrentStartPosition(t) = GetCurrentStartPosition(s)
             /\ GetCurrentEndPosition(t) = GetCurrentEndPosition(s)
<1>1. /\ Len(text) \in Nat /\ s \in Comps /\ Len(s) \in Nat /\ (s # << >> <=> Len(s) > 0)
      /\ s # << >> => s[Len(s)] \in SegType /\ SegOK(s[Len(s)]) /\ s[Len(s)].end <= Len(text)
      /\ Keeps(s, s)
  BY LenProperties, LenOf, KeepsAll DEF Comp, Formed
<1>2. CASE ~HasAffix(s, text)
  BY <1>1, <1>2 DEF PrefixOnly
<1>3. CASE HasAffix(s, text)
  <2> DEFINE h == [Last(s) EXCEPT !.tags = (@ \ {Affix.tag}) \cup {"prefix"}]
             t == SetLast(s, h)
  <2>1. PrefixOnly(s, text) = t /\ s # << >> /\ Last(s) = s[Len(s)]
    BY <1>3 DEF PrefixOnly, HasAffix, Last
  <2>2. Last(s).tags \in SUBSET Tags /\ "prefix" \in Tags
    BY <1>1, <2>1 DEF SegType, Tags
  <2>3. /\ h \in SegType /\ h.status = Last(s).status /\ h.start = Last(s).start
        /\ h.end = Last(s).end /\ h.menu = Last(s).menu /\ h.sel = Last(s).sel
    BY <1>1, <2>1, <2>2 DEF SegType
  <2> HIDE DEF h
  <2>4. SegOK(h) /\ h.status < kSelected
    BY <1>1, <2>1, <2>3, SameOffer DEF LastOpen
  <2>5. /\ Comp(t, Len(text)) /\ Len(t) = Len(s)
        /\ \A i \in 1..(Len(s) - 1) : t[i] = s[i]
        /\ t[Len(s)] = h
    BY <1>1, <2>1, <2>3, <2>4, SetLastFormed
  <2> HIDE DEF t
  <2>6. t # << >> /\ LastOpen(t) /\ Keeps(s, t)
    BY <1>1, <2>1, <2>4, <2>5, LenOf, KeepsFront DEF Comp, LastOpen
  <2> QED
    BY <1>1, <2>1, <2>3, <2>5, <2>6
    DEF GetCurrentStartPosition, GetCurrentEndPosition, Last
<1> QED
  BY <1>2, <1>3

\* One more raw character, where there is nothing else.
LEMMA RawFormed ==
  ASSUME NEW n \in Nat, NEW s, Comp(s, n), LastOpen(s), ~(GetCurrentSegmentLength(s) > 0),
         GetCurrentStartPosition(s) < n
  PROVE  LET t == AddRaw(Trim(s), GetCurrentStartPosition(s))
         IN  /\ Comp(t, n) /\ LastOpen(t) /\ LastFull(t) /\ Keeps(s, t)
             /\ GetCurrentEndPosition(t) = GetCurrentStartPosition(s) + 1
<1> DEFINE k == GetCurrentStartPosition(s)
           u == Trim(s)
           t == AddRaw(u, k)
<1>1. /\ k \in Nat /\ k = GetCurrentEndPosition(s) /\ s \in Comps /\ Len(s) \in Nat
  <2>1. /\ k \in Nat /\ GetCurrentEndPosition(s) \in Nat /\ k <= GetCurrentEndPosition(s)
        /\ s \in Comps /\ Len(s) \in Nat
    BY Positions
  <2> QED
    BY <2>1 DEF GetCurrentSegmentLength
<1>2. /\ Comp(u, n) /\ LastFull(u) /\ GetCurrentEndPosition(u) = k
      /\ Len(u) <= Len(s) /\ \A i \in 1..Len(u) : u[i] = s[i]
      /\ Keeps(s, u)
  BY <1>1, TrimFormed
<1>a. {"raw"} \in SUBSET Tags
  BY DEF Tags
<1> HIDE DEF k, u
<1>3. u \in Comps /\ Len(u) \in Nat /\ (u # << >> <=> Len(u) > 0)
  BY <1>2, LenOf DEF Comp
<1>4. CASE u # << >> /\ "raw" \in Last(u).tags
  <2> DEFINE g == Segment(Last(u).start, k + 1, {"raw"})
  <2>1. t = SetLast(u, g)
    BY <1>4 DEF AddRaw
  <2>2. /\ Last(u) = u[Len(u)] /\ u[Len(u)].start \in Nat /\ u[Len(u)].start < k
    <3>1. u[Len(u)] \in SegType /\ u[Len(u)].end = k
      BY <1>2, <1>3, <1>4, LenOf DEF GetCurrentEndPosition, Last
    <3> QED
      BY <1>2, <1>4, <3>1 DEF LastFull, Last, SegType
  <2>3. k + 1 \in Nat /\ u[Len(u)].start <= k + 1 /\ k + 1 <= n
    BY <1>1, <2>2 DEF k
  <2>4. /\ g \in SegType /\ SegOK(g) /\ g.start = u[Len(u)].start /\ g.end = k + 1
        /\ g.status < kSelected
    BY <1>a, <2>2, <2>3, NewSegment
  <2> HIDE DEF g
  <2>5. /\ Comp(t, n) /\ Len(t) = Len(u) /\ \A i \in 1..(Len(u) - 1) : t[i] = u[i]
        /\ t[Len(u)] = g
    <3>1. /\ Comp(SetLast(u, g), n) /\ Len(SetLast(u, g)) = Len(u)
          /\ \A i \in 1..(Len(u) - 1) : SetLast(u, g)[i] = u[i]
          /\ SetLast(u, g)[Len(u)] = g
      BY <1>2, <1>4, <2>3, <2>4, SetLastFormed
    <3> QED
      BY <2>1, <3>1
  <2>6. t # << >> /\ t[Len(t)] = g
    BY <1>3, <1>4, <2>5, LenOf DEF Comp
  <2>7. Keeps(u, t)
    <3> SUFFICES ASSUME NEW i \in 1..Len(u), IsChoice(u[i]) PROVE i <= Len(t) /\ t[i] = u[i]
      BY DEF Keeps
    <3>1. i # Len(u)
      BY <1>4, <2>2 DEF IsChoice
    <3> QED
      BY <1>3, <2>5, <3>1
  <2>8. Keeps(s, t)
    BY <1>1, <1>2, <1>3, <2>7, KeepsOn
  <2>9. LastOpen(t) /\ LastFull(t) /\ GetCurrentEndPosition(t) = k + 1
    BY <2>2, <2>3, <2>4, <2>6, <1>1 DEF LastOpen, LastFull, GetCurrentEndPosition, Last
  <2> QED
    BY <2>5, <2>8, <2>9 DEF k, u
<1>5. CASE ~(u # << >> /\ "raw" \in Last(u).tags)
  <2> DEFINE g == Segment(k, k + 1, {"raw"})
  <2>1. t = AddSegment(Forward(u), g)
    BY <1>5 DEF AddRaw
  <2>2. k + 1 \in Nat /\ k <= k + 1 /\ k + 1 <= n
    BY <1>1 DEF k
  <2>3. g \in SegType /\ SegOK(g) /\ g.start = k /\ g.end = k + 1 /\ g.status < kSelected
    BY <1>1, <1>a, <2>2, NewSegment
  <2> HIDE DEF g
  <2>4. g.end <= n /\ g.start < g.end /\ g.start = GetCurrentEndPosition(u)
    BY <1>1, <1>2, <2>2, <2>3
  <2>5. /\ Comp(t, n) /\ LastOpen(t) /\ LastFull(t) /\ t # << >>
        /\ Len(t) = Len(u) + 1 /\ \A i \in 1..Len(u) : t[i] = u[i]
        /\ GetCurrentEndPosition(t) = g.end
    <3> DEFINE v == AddSegment(Forward(u), g)
    <3>1. /\ Comp(v, n) /\ LastOpen(v) /\ LastFull(v) /\ v # << >>
          /\ Len(v) = Len(u) + 1 /\ \A i \in 1..Len(u) : v[i] = u[i]
          /\ GetCurrentEndPosition(v) = g.end
      BY <1>2, <2>3, <2>4, PushFormed
    <3> QED
      BY <2>1, <3>1
  <2> HIDE DEF t
  <2>6. Keeps(u, t)
    BY <1>3, <2>5, KeepsAll
  <2>7. Keeps(s, t)
    BY <1>1, <1>2, <1>3, <2>6, KeepsOn
  <2> QED
    BY <2>3, <2>5, <2>7 DEF k, u, t
<1> QED
  BY <1>4, <1>5

-----------------------------------------------------------------------------
(* A round, and what frames the rounds.                                    *)

\* Past the matcher and the letters, either the place is the same or the
\* input is used up.
LEMMA MatchedFormed ==
  ASSUME NEW text \in Seq(Chars), NEW s, Comp(s, Len(text)), LastOpen(s),
         GetCurrentEndPosition(s) < Len(text)
  PROVE  LET t == ProceedAbc(ProceedMatcher(s, text), text)
         IN  /\ Comp(t, Len(text)) /\ LastOpen(t) /\ Keeps(s, t)
             /\ GetCurrentStartPosition(t) < Len(text)
             /\ \/ GetCurrentStartPosition(t) = GetCurrentStartPosition(s)
                \/ /\ GetCurrentEndPosition(t) = Len(text)
                   /\ GetCurrentStartPosition(s) < Len(text)
<1> DEFINE u == ProceedMatcher(s, text)
           t == ProceedAbc(u, text)
<1>1. /\ Comp(u, Len(text)) /\ LastOpen(u) /\ Keeps(s, u)
      /\ u = s \/ (/\ GetCurrentEndPosition(u) = Len(text)
                   /\ GetCurrentStartPosition(u) < Len(text))
  BY MatchFormed
<1> HIDE DEF u
<1>2. /\ Comp(t, Len(text)) /\ LastOpen(t) /\ Keeps(u, t)
      /\ GetCurrentStartPosition(t) = GetCurrentStartPosition(u)
      /\ GetCurrentEndPosition(t) >= GetCurrentEndPosition(u)
  BY <1>1, AbcFormed
<1> HIDE DEF t
<1>3. Len(text) \in Nat
  BY LenProperties
<1>4. /\ GetCurrentStartPosition(s) \in Nat /\ GetCurrentEndPosition(s) \in Nat
      /\ GetCurrentStartPosition(s) <= GetCurrentEndPosition(s) /\ Len(s) \in Nat
  BY <1>3, Positions
<1>5. /\ GetCurrentEndPosition(t) \in Nat /\ GetCurrentEndPosition(t) <= Len(text)
      /\ Len(u) \in Nat
  BY <1>1, <1>2, <1>3, Positions
<1>6. Keeps(s, t)
  BY <1>1, <1>2, <1>4, <1>5, KeepsOn
<1>7. CASE u = s
  BY <1>2, <1>3, <1>4, <1>6, <1>7 DEF t, u
<1>8. CASE GetCurrentEndPosition(u) = Len(text) /\ GetCurrentStartPosition(u) < Len(text)
  <2>1. GetCurrentEndPosition(t) = Len(text)
    BY <1>2, <1>3, <1>5, <1>8
  <2>2. GetCurrentStartPosition(s) < Len(text)
    BY <1>3, <1>4
  <2> QED
    BY <1>2, <1>6, <1>8, <2>1, <2>2 DEF t, u
<1> QED
  BY <1>1, <1>7, <1>8

\* The segmentors always get beyond where they began: the loop of
\* CalculateSegmentation never stops for want of advancement.
LEMMA RecognizedFormed ==
  ASSUME NEW text \in Seq(Chars), NEW s, Comp(s, Len(text)), LastOpen(s),
         GetCurrentEndPosition(s) < Len(text), NEW on
  PROVE  LET t == Recognized(s, text, on)
         IN  /\ Comp(t, Len(text)) /\ LastOpen(t) /\ Keeps(s, t) /\ LastFull(t)
             /\ GetCurrentEndPosition(t) > GetCurrentStartPosition(s)
<1> DEFINE n == Len(text)
           j == GetCurrentStartPosition(s)
<1>1. n \in Nat
  BY LenProperties
<1>2. j \in Nat /\ GetCurrentEndPosition(s) \in Nat /\ j < n /\ Len(s) \in Nat
  BY <1>1, Positions
<1>3. CASE "ascii_mode" \in on
  <2> DEFINE g == Segment(j, n, {"raw"})
             t == AddSegment(s, g)
  <2>1. Recognized(s, text, on) = t
    BY <1>2, <1>3 DEF Recognized, ProceedAscii
  <2>2. {"raw"} \in SUBSET Tags
    BY DEF Tags
  <2> HIDE DEF j, n
  <2>3. g \in SegType /\ SegOK(g) /\ g.start = j /\ g.end = n /\ g.status < kSelected
    <3> DEFINE tags == {"raw"}
               h == Segment(j, n, tags)
    <3>1. j \in Nat /\ n \in Nat /\ j <= n /\ tags \in SUBSET Tags
      BY <1>1, <1>2, <2>2
    <3>2. g = h
      OBVIOUS
    <3> HIDE DEF tags, g
    <3>3. h \in SegType /\ SegOK(h) /\ h.start = j /\ h.end = n /\ h.status < kSelected
      BY <3>1, NewSegment
    <3> QED
      BY <3>2, <3>3
  <2> HIDE DEF g
  <2>4. /\ Comp(t, n) /\ LastOpen(t) /\ Keeps(s, t)
        /\ GetCurrentStartPosition(t) = j /\ GetCurrentEndPosition(t) >= n
    BY <1>1, <2>3, AddFormed DEF n, j
  <2> HIDE DEF t
  <2>5. GetCurrentEndPosition(t) \in Nat
    BY <1>1, <2>4, Positions
  <2>6. LastFull(t)
    BY <1>1, <1>2, <2>4, <2>5, Positions
  <2> QED
    BY <1>1, <1>2, <2>1, <2>4, <2>5, <2>6 DEF n, j
<1>4. CASE "ascii_mode" \notin on
  <2> DEFINE u == ProceedAbc(ProceedMatcher(s, text), text)
             p == PrefixOnly(u, text)
  <2>1. Recognized(s, text, on) = AfterAbc(u, text, on)
    BY <1>4 DEF Recognized
  <2>2. /\ Comp(u, n) /\ LastOpen(u) /\ Keeps(s, u) /\ GetCurrentStartPosition(u) < n
        /\ GetCurrentStartPosition(u) = j \/ GetCurrentEndPosition(u) = n
    BY MatchedFormed
  <2> HIDE DEF u, j, n
  <2>3. /\ GetCurrentStartPosition(u) \in Nat /\ GetCurrentEndPosition(u) \in Nat
        /\ GetCurrentStartPosition(u) <= GetCurrentEndPosition(u) /\ Len(u) \in Nat
    BY <1>1, <2>2, Positions
  <2>4. CASE IsAffixed(u, text)
    <3> DEFINE t == ProceedAffix(u, text)
    <3>1. AfterAbc(u, text, on) = t
      BY <2>4 DEF AfterAbc
    <3>2. /\ Comp(t, n) /\ LastOpen(t) /\ LastFull(t) /\ Keeps(u, t)
          /\ GetCurrentEndPosition(t) = GetCurrentEndPosition(u)
      BY <2>2, <2>4, AffixFormed DEF n
    <3>3. GetCurrentEndPosition(u) > GetCurrentStartPosition(u)
      BY <2>3, <2>4 DEF IsAffixed, GetCurrentSegmentLength
    <3> HIDE DEF t
    <3>4. Len(t) \in Nat
      BY <1>1, <3>2, Positions
    <3>5. Keeps(s, t)
      BY <1>2, <2>2, <2>3, <3>2, <3>4, KeepsOn
    <3>6. GetCurrentEndPosition(t) > j
      BY <1>1, <1>2, <2>2, <2>3, <3>2, <3>3
    <3> QED
      BY <2>1, <3>1, <3>2, <3>5, <3>6 DEF n, j
  <2>5. CASE ~IsAffixed(u, text)
    <3>1. AfterAbc(u, text, on) = AfterAffix(p, text, on)
      BY <2>5 DEF AfterAbc
    <3>2. /\ Comp(p, n) /\ LastOpen(p) /\ Keeps(u, p)
          /\ GetCurrentStartPosition(p) = GetCurrentStartPosition(u)
          /\ GetCurrentEndPosition(p) = GetCurrentEndPosition(u)
      BY <2>2, PrefixOnlyFormed DEF n
    <3> HIDE DEF p
    <3>3. Len(p) \in Nat
      BY <1>1, <3>2, Positions
    <3>4. Keeps(s, p)
      BY <1>2, <2>2, <2>3, <3>2, <3>3, KeepsOn
    <3> DEFINE k == GetCurrentStartPosition(p)
    <3>5. k \in Nat /\ k < n /\ (k = j \/ GetCurrentEndPosition(p) = n)
      BY <2>2, <2>3, <3>2
    <3>6. CASE IsPunct(p, text, on)
      <4> DEFINE g == Segment(k, k + 1, {"punct"})
                 t == AddSegment(p, g)
      <4>1. AfterAffix(p, text, on) = t
        BY <3>6 DEF AfterAffix, ProceedPunct
      <4>2. {"punct"} \in SUBSET Tags
        BY DEF Tags
      <4> HIDE DEF k
      <4>3. g \in SegType /\ SegOK(g) /\ g.start = k /\ g.end = k + 1 /\ g.status < kSelected
        <5> DEFINE e == k + 1
                   tags == {"punct"}
                   h == Segment(k, e, tags)
        <5>1. k \in Nat /\ e \in Nat /\ k <= e /\ tags \in SUBSET Tags
          BY <3>5, <4>2
        <5>2. g = h /\ e = k + 1
          OBVIOUS
        <5> HIDE DEF tags, e, g
        <5>3. h \in SegType /\ SegOK(h) /\ h.start = k /\ h.end = e /\ h.status < kSelected
          BY <5>1, NewSegment
        <5> QED
          BY <5>2, <5>3
      <4> HIDE DEF g
      <4>4. g.end <= n
        BY <1>1, <3>5, <4>3
      <4>5. /\ Comp(t, n) /\ LastOpen(t) /\ Keeps(p, t)
            /\ GetCurrentStartPosition(t) = k /\ GetCurrentEndPosition(t) >= k + 1
            /\ GetCurrentEndPosition(t) >= GetCurrentEndPosition(p)
        BY <1>1, <3>2, <4>3, <4>4, AddFormed DEF k
      <4> HIDE DEF t
      <4>6. GetCurrentEndPosition(t) \in Nat /\ Len(t) \in Nat
        BY <1>1, <4>5, Positions
      <4>7. LastFull(t)
        BY <1>1, <3>5, <4>5, <4>6, Positions
      <4>8. Keeps(s, t)
        BY <1>2, <3>3, <3>4, <4>5, <4>6, KeepsOn
      <4>9. GetCurrentEndPosition(t) > j
        BY <1>1, <1>2, <2>3, <3>2, <3>5, <4>5, <4>6
      <4> QED
        BY <2>1, <3>1, <4>1, <4>5, <4>7, <4>8, <4>9 DEF n, j
    <3>7. CASE ~IsPunct(p, text, on) /\ GetCurrentSegmentLength(p) > 0
      <4>1. AfterAffix(p, text, on) = p
        BY <3>7 DEF AfterAffix, ProceedFallback
      <4>2. GetCurrentEndPosition(p) > k
        BY <2>3, <3>2, <3>7 DEF GetCurrentSegmentLength
      <4>3. LastFull(p)
        BY <1>1, <3>2, <4>2, Positions
      <4>4. GetCurrentEndPosition(p) > j
        BY <1>1, <1>2, <2>3, <3>2, <3>5, <4>2
      <4> QED
        BY <2>1, <3>1, <3>2, <3>4, <4>1, <4>3, <4>4 DEF n, j
    <3>8. CASE ~IsPunct(p, text, on) /\ ~(GetCurrentSegmentLength(p) > 0)
      <4> DEFINE t == AddRaw(Trim(p), k)
      <4>1. k # Len(text)
        BY <1>1, <3>5 DEF n
      <4>2. AfterAffix(p, text, on) = t
        BY <3>8, <4>1 DEF AfterAffix, ProceedFallback
      <4>3. /\ Comp(t, n) /\ LastOpen(t) /\ LastFull(t) /\ Keeps(p, t)
            /\ GetCurrentEndPosition(t) = k + 1
        BY <1>1, <3>2, <3>5, <3>8, RawFormed
      <4>4. k = j
        <5>1. GetCurrentEndPosition(p) = k
          BY <2>3, <3>2, <3>8 DEF GetCurrentSegmentLength
        <5> QED
          BY <1>1, <3>5, <5>1
      <4> HIDE DEF t
      <4>5. Len(t) \in Nat
        BY <1>1, <4>3, Positions
      <4>6. Keeps(s, t)
        BY <1>2, <3>3, <3>4, <4>3, <4>5, KeepsOn
      <4>7. GetCurrentEndPosition(t) > j
        BY <1>2, <4>3, <4>4
      <4> QED
        BY <2>1, <3>1, <4>2, <4>3, <4>6, <4>7 DEF n, j
    <3> QED
      BY <3>6, <3>7, <3>8
  <2> QED
    BY <2>4, <2>5
<1> QED
  BY <1>3, <1>4

\* A round gets ahead, unless it is the last, and takes back nothing that is
\* chosen.
LEMMA RoundFormed ==
  ASSUME NEW text \in Seq(Chars), NEW s, Comp(s, Len(text)), LastOpen(s),
         GetCurrentEndPosition(s) < Len(text), NEW on
  PROVE  LET t == Round(s, text, on)
         IN  /\ Comp(t, Len(text)) /\ LastOpen(t) /\ Keeps(s, t)
             /\ GetCurrentEndPosition(t) > GetCurrentStartPosition(s)
             /\ GetCurrentEndPosition(t) < Len(text) =>
                  GetCurrentStartPosition(t) > GetCurrentStartPosition(s)
<1> DEFINE u == Recognized(s, text, on)
<1>1. /\ Comp(u, Len(text)) /\ LastOpen(u) /\ Keeps(s, u) /\ LastFull(u)
      /\ GetCurrentEndPosition(u) > GetCurrentStartPosition(s)
  BY RecognizedFormed
<1> HIDE DEF u
<1>2. Round(s, text, on) = u \/ Round(s, text, on) = Forward(u)
  BY DEF Round, Advance, u
<1>3. /\ Len(text) \in Nat /\ Len(s) \in Nat /\ Len(u) \in Nat
  BY <1>1, LenProperties, Positions
<1>4. /\ Comp(Forward(u), Len(text)) /\ LastOpen(Forward(u)) /\ Len(u) <= Len(Forward(u))
      /\ \A i \in 1..Len(u) : Forward(u)[i] = u[i]
      /\ GetCurrentEndPosition(Forward(u)) = GetCurrentEndPosition(u)
  BY <1>1, <1>3, ForwardFormed
<1>5. Keeps(s, Forward(u))
  <2>1. Keeps(u, Forward(u))
    BY <1>1, <1>4, KeepsAll DEF Comp
  <2> QED
    BY <1>1, <1>3, <2>1, KeepsOn
<1>6. ASSUME GetCurrentEndPosition(Round(s, text, on)) < Len(text)
      PROVE  GetCurrentStartPosition(Round(s, text, on)) > GetCurrentStartPosition(s)
  <2>1. /\ GetCurrentEndPosition(u) \in Nat /\ GetCurrentStartPosition(s) \in Nat
        /\ GetCurrentEndPosition(u) < Len(text)
    BY <1>1, <1>2, <1>3, <1>4, <1>6, Positions
  <2>2. Round(s, text, on) = Forward(u)
    BY <1>1, <1>3, <2>1 DEF Round, Advance, HasFinishedSegmentation, u
  <2>3. u # << >>
    BY <1>1, <2>1 DEF GetCurrentEndPosition
  <2>4. GetCurrentStartPosition(Forward(u)) = GetCurrentEndPosition(u)
    BY <1>1, <1>3, <2>3, ForwardFormed
  <2> QED
    BY <1>1, <2>2, <2>4
<1> QED
  BY <1>1, <1>2, <1>4, <1>5, <1>6

\* After the rounds only a chosen segment is followed by an empty one.
LEMMA FinishFormed ==
  ASSUME NEW n \in Nat, NEW s, Comp(s, n)
  PROVE  LET t == FinishSegmentation(s)
         IN  /\ Comp(t, n) /\ LastOpen(t) /\ Keeps(s, t)
             /\ GetCurrentEndPosition(t) = GetCurrentEndPosition(s)
             /\ t # << >> /\ ~LastFull(t) => Len(t) > 1 /\ t[Len(t) - 1].status >= kSelected
<1> DEFINE u == Trim(s)
<1>1. /\ Comp(u, n) /\ LastFull(u) /\ Keeps(s, u)
      /\ GetCurrentEndPosition(u) = GetCurrentEndPosition(s)
  BY TrimFormed
<1> HIDE DEF u
<1>2. /\ u \in Comps /\ Len(u) \in Nat /\ (u # << >> <=> Len(u) > 0) /\ Len(s) \in Nat
      /\ u # << >> => u[Len(u)] \in SegType
  BY <1>1, Positions, LenOf
<1>3. CASE u # << >> /\ u[Len(u)].status >= kSelected
  <2> DEFINE t == Forward(u)
  <2>1. FinishSegmentation(s) = t
    BY <1>3 DEF FinishSegmentation, ForwardIfChosen, Last, u
  <2>2. /\ Comp(t, n) /\ LastOpen(t) /\ Len(t) = Len(u) + 1
        /\ \A i \in 1..Len(u) : t[i] = u[i]
        /\ GetCurrentEndPosition(t) = GetCurrentEndPosition(u)
    BY <1>1, <1>3, ForwardFormed
  <2> HIDE DEF t
  <2>3. Keeps(u, t)
    BY <1>2, <2>2, KeepsAll
  <2>4. Keeps(s, t)
    BY <1>1, <1>2, <2>3, KeepsOn
  <2>5. Len(t) > 1 /\ t[Len(t) - 1].status >= kSelected
    BY <1>2, <1>3, <2>2
  <2> QED
    BY <1>1, <2>1, <2>2, <2>4, <2>5
<1>4. CASE ~(u # << >> /\ u[Len(u)].status >= kSelected)
  <2>1. FinishSegmentation(s) = u
    BY <1>4 DEF FinishSegmentation, ForwardIfChosen, Last, u
  <2>2. LastOpen(u)
    BY <1>2, <1>4 DEF LastOpen, SegType, kSelected
  <2> QED
    BY <1>1, <2>1, <2>2
<1> QED
  BY <1>3, <1>4

\* What the translators offer for a segment lies within it.
LEMMA MenuFormed ==
  ASSUME NEW text \in Seq(Chars), NEW g \in SegType, g.start < g.end, g.end <= Len(text), NEW on
  PROVE  LET m == MenuFor(g, text, on)
         IN  m \in Seq(Nat) /\ \A i \in 1..Len(m) : g.start < m[i] /\ m[i] <= g.end
<1> DEFINE code == SubSeq(text, g.start + 1, g.end)
           full == "full_shape" \in on
           puncts == Puncts[full]
<1>1. g.start \in Nat /\ g.end \in Nat /\ Len(text) \in Nat
  BY LenProperties DEF SegType
<1>2. Len(code) = g.end - g.start
  <2>1. \A i \in (g.start + 1)..g.end : text[i] \in Chars
    BY <1>1, ElementOfSeq
  <2> QED
    BY <1>1, <2>1, SubSeqProperties
<1>3. << >> \in Seq(Nat) /\ Len(<< >>) = 0
  BY EmptySeq
<1>4. CASE {"abc", Affix.tag} \cap g.tags # {} /\ code \in DOMAIN Lexicon
  <2> DEFINE ends == Lexicon[code]
             k == Len(ends)
             m == [i \in 1..k |-> g.start + ends[i]]
  <2>1. MenuFor(g, text, on) = m
    BY <1>4 DEF MenuFor
  <2>2. ends \in Seq(1..Len(code))
    BY <1>4, LexiconAssumption
  <2> HIDE DEF ends, code
  <2>3. k \in Nat /\ \A i \in 1..k : ends[i] \in 1..Len(code)
    BY <2>2, LenProperties, ElementOfSeq
  <2>l. Len(code) = g.end - g.start
    BY <1>2 DEF code
  <2> HIDE DEF k
  <2>4. \A i \in 1..k : m[i] \in Nat /\ g.start < m[i] /\ m[i] <= g.end
    <3> SUFFICES ASSUME NEW i \in 1..k PROVE m[i] \in Nat /\ g.start < m[i] /\ m[i] <= g.end
      OBVIOUS
    <3>1. m[i] = g.start + ends[i] /\ ends[i] \in 1..(g.end - g.start)
      BY <2>3, <2>l
    <3>2. PICK e \in 1..(g.end - g.start) : e = ends[i]
      BY <3>1
    <3>3. g.start + e \in Nat /\ g.start < g.start + e /\ g.start + e <= g.end
      BY <1>1
    <3> HIDE DEF m
    <3> QED
      BY <3>1, <3>2, <3>3
  <2>5. m \in [1..k -> Nat]
    BY <2>4
  <2>6. m \in Seq(Nat) /\ Len(m) = k
    <3> HIDE DEF m
    <3> QED
      BY <2>3, <2>5
  <2> QED
    BY <2>1, <2>4, <2>6
<1>5. CASE ~({"abc", Affix.tag} \cap g.tags # {} /\ code \in DOMAIN Lexicon)
  <2>1. MenuFor(g, text, on) = PunctMenu(g, code, on)
    BY <1>5 DEF MenuFor
  <2>2. CASE "punct" \notin g.tags \/ code \notin DOMAIN puncts
    BY <1>3, <2>1, <2>2 DEF PunctMenu
  <2>3. CASE ~("punct" \notin g.tags \/ code \notin DOMAIN puncts)
    <3> DEFINE c == puncts[code].count
               m == [i \in 1..c |-> g.end]
    <3>1. PunctMenu(g, code, on) = m
      BY <2>3 DEF PunctMenu
    <3>2. c \in Nat
      <4>1. full \in BOOLEAN
        OBVIOUS
      <4> HIDE DEF full, code
      <4>2. c \in Nat \ {0}
        BY <2>3, <4>1, PunctsAssumption, Zenon
      <4> QED
        BY <4>2
    <3> HIDE DEF c
    <3>3. m \in [1..c -> Nat] /\ \A i \in 1..c : m[i] = g.end
      BY <1>1
    <3> HIDE DEF m
    <3>4. m \in Seq(Nat) /\ Len(m) = c
      BY <3>2, <3>3
    <3>5. \A i \in 1..Len(m) : g.start < m[i] /\ m[i] <= g.end
      BY <1>1, <3>3, <3>4
    <3> QED
      BY <2>1, <3>1, <3>4, <3>5
  <2> QED
    BY <2>2, <2>3
<1> QED
  BY <1>4, <1>5

\* Translation neither moves nor chooses a segment, and leaves none that
\* holds text without an offer.
LEMMA TranslateFormed ==
  ASSUME NEW text \in Seq(Chars), NEW g \in SegType, SegOK(g), g.end <= Len(text), NEW on
  PROVE  LET h == Translate(g, text, on)
         IN  /\ h \in SegType /\ SegOK(h) /\ h.start = g.start /\ h.end = g.end
             /\ h.status >= kSelected <=> g.status >= kSelected
             /\ h.start < h.end => h.status >= kGuess
<1>1. /\ g.status \in 0..3 /\ g.start \in Nat /\ g.end \in Nat
  BY DEF SegType
<1>2. CASE g.status >= kGuess \/ IsEmptySegment(g)
  BY <1>1, <1>2 DEF Translate, IsEmptySegment
<1>3. CASE ~(g.status >= kGuess \/ IsEmptySegment(g))
  <2> DEFINE m == MenuFor(g, text, on)
             h == [g EXCEPT !.status = kGuess, !.hasMenu = TRUE, !.menu = m, !.sel = 0]
  <2>1. Translate(g, text, on) = h
    BY <1>3 DEF Translate
  <2>2. g.start < g.end
    BY <1>1, <1>3 DEF IsEmptySegment, SegOK
  <2>3. m \in Seq(Nat) /\ \A i \in 1..Len(m) : g.start < m[i] /\ m[i] <= g.end
    BY <2>2, MenuFormed
  <2> HIDE DEF m
  <2>k. kGuess \in 0..3
    BY DEF kGuess
  <2>4. /\ h \in SegType /\ h.status = kGuess /\ h.start = g.start /\ h.end = g.end
        /\ h.menu = m /\ h.sel = 0
    BY <1>1, <2>3, <2>k DEF SegType
  <2> HIDE DEF h
  <2>6. h.menu # << >> => h.sel < Len(h.menu)
    BY <2>3, <2>4, EmptySeq, LenProperties
  <2>5. SegOK(h)
    BY <1>1, <2>2, <2>3, <2>4, <2>6 DEF SegOK, MenuWithin, IsEmptySegment, kGuess, kSelected
  <2> QED
    BY <1>1, <1>3, <2>1, <2>4, <2>5 DEF kGuess, kSelected
<1> QED
  BY <1>2, <1>3

\* Nor does the translation of them all.
LEMMA TranslatedFormed ==
  ASSUME NEW text \in Seq(Chars), NEW s, Comp(s, Len(text)), LastOpen(s), NEW on
  PROVE  LET t == TranslateSegments(s, text, on)
         IN  /\ Comp(t, Len(text)) /\ LastOpen(t) /\ Len(t) = Len(s)
             /\ \A i \in 1..Len(s) :
                  /\ t[i].start = s[i].start /\ t[i].end = s[i].end
                  /\ t[i].status >= kSelected <=> s[i].status >= kSelected
                  /\ t[i].start < t[i].end => t[i].status >= kGuess
<1> DEFINE t == TranslateSegments(s, text, on)
<1>1. /\ s \in Comps /\ Len(s) \in Nat /\ (s # << >> <=> Len(s) > 0) /\ Len(text) \in Nat
      /\ \A i \in 1..Len(s) : s[i] \in SegType /\ SegOK(s[i]) /\ s[i].end <= Len(text)
      /\ Formed(s, Len(text))
  BY LenOf, LenProperties DEF Comp, Formed
<1>2. \A i \in 1..Len(s) : t[i] = Translate(s[i], text, on)
  BY DEF TranslateSegments
<1>3. \A i \in 1..Len(s) :
        /\ t[i] \in SegType /\ SegOK(t[i])
        /\ t[i].start = s[i].start /\ t[i].end = s[i].end
        /\ t[i].status >= kSelected <=> s[i].status >= kSelected
        /\ t[i].start < t[i].end => t[i].status >= kGuess
  <2> SUFFICES ASSUME NEW i \in 1..Len(s)
               PROVE  /\ t[i] \in SegType /\ SegOK(t[i])
                      /\ t[i].start = s[i].start /\ t[i].end = s[i].end
                      /\ t[i].status >= kSelected <=> s[i].status >= kSelected
                      /\ t[i].start < t[i].end => t[i].status >= kGuess
    OBVIOUS
  <2>1. s[i] \in SegType /\ SegOK(s[i]) /\ s[i].end <= Len(text)
    BY <1>1
  <2>2. t[i] = Translate(s[i], text, on)
    BY <1>2
  <2> QED
    BY <2>1, <2>2, TranslateFormed
<1>4. t \in [1..Len(s) -> SegType]
  BY <1>3 DEF TranslateSegments
<1> HIDE DEF t
<1>5. t \in Comps /\ Len(t) = Len(s)
  BY <1>1, <1>4 DEF Comps
<1>6. Formed(t, Len(text))
  BY <1>1, <1>3, <1>5 DEF Formed
<1>7. LastOpen(t)
  <2> SUFFICES ASSUME t # << >> PROVE t[Len(t)].status < kSelected
    BY DEF LastOpen
  <2>1. Len(s) > 0 /\ s # << >>
    BY <1>1, <1>5, LenOf
  <2>2. s[Len(s)].status < kSelected /\ s[Len(s)] \in SegType /\ t[Len(s)] \in SegType
    BY <1>1, <1>3, <2>1 DEF LastOpen
  <2>3. ~(t[Len(s)].status >= kSelected)
    <3>1. Len(s) \in 1..Len(s)
      BY <1>1, <2>1
    <3>2. ~(s[Len(s)].status >= kSelected)
      BY SMTT(30), <2>2 DEF SegType, kSelected
    <3>3. t[Len(s)].status >= kSelected <=> s[Len(s)].status >= kSelected
      BY <1>3, <3>1, Zenon
    <3> QED
      BY <3>2, <3>3
  <2> QED
    BY <1>5, <2>2, <2>3 DEF SegType, kSelected
<1> QED
  BY <1>3, <1>5, <1>6, <1>7 DEF Comp, t

-----------------------------------------------------------------------------
(* Resetting the input, and what the methods of Context do.                *)

\* A composition that ends by position m is one of any input so long.
LEMMA ShorterFormed ==
  ASSUME NEW n \in Nat, NEW m \in Nat, NEW s, Comp(s, n),
         Len(s) > 0 => s[Len(s)].end <= m
  PROVE  Comp(s, m)
<1>1. /\ s \in Comps /\ Len(s) \in Nat /\ Formed(s, n)
      /\ \A i \in 1..Len(s) : s[i] \in SegType /\ SegOK(s[i])
  BY LenOf DEF Comp, Formed
<1>2. \A i \in 1..Len(s) : s[i].end <= m
  <2> SUFFICES ASSUME NEW i \in 1..Len(s) PROVE s[i].end <= m
    OBVIOUS
  <2>1. CASE i = Len(s)
    BY <1>1, <2>1
  <2>2. CASE i < Len(s)
    <3>1. s[i].end <= s[Len(s)].start
      BY <1>1, <2>2 DEF Formed
    <3>2. s[Len(s)].start <= s[Len(s)].end /\ s[Len(s)].end <= m
      BY <1>1, <2>2 DEF SegOK
    <3>3. /\ s[i].end \in Nat /\ s[Len(s)].start \in Nat /\ s[Len(s)].end \in Nat
      BY <1>1, <2>2 DEF SegType
    <3> DEFINE a == s[i].end
               b == s[Len(s)].start
               c == s[Len(s)].end
    <3>4. a <= b /\ b <= c /\ c <= m /\ a \in Nat /\ b \in Nat /\ c \in Nat
      BY <3>1, <3>2, <3>3
    <3> HIDE DEF a, b, c
    <3>5. a <= m
      BY <3>4
    <3> QED
      BY <3>5 DEF a
  <2> QED
    BY <1>1, <2>1, <2>2
<1> QED
  BY <1>1, <1>2 DEF Comp, Formed

\* The segments up to the k-th, and an empty one after a full one.
LEMMA CutFormed ==
  ASSUME NEW n \in Nat, NEW s, Comp(s, n), NEW k \in 0..Len(s),
         NEW m \in Nat, k > 0 => s[k].end <= m
  PROVE  LET t == Forward(SubSeq(s, 1, k))
         IN  /\ Comp(t, m) /\ LastOpen(t) /\ k <= Len(t)
             /\ \A i \in 1..k : t[i] = s[i]
<1> DEFINE u == SubSeq(s, 1, k)
<1>1. s \in Comps /\ Len(s) \in Nat /\ Formed(s, n)
  BY LenOf DEF Comp
<1>2. Comp(u, n) /\ Len(u) = k /\ \A i \in 1..k : u[i] = s[i]
  BY <1>1, PrefixFormed
<1> HIDE DEF u
<1>3. Comp(u, m)
  BY <1>1, <1>2, ShorterFormed
<1>4. /\ Comp(Forward(u), m) /\ LastOpen(Forward(u)) /\ Len(u) <= Len(Forward(u))
      /\ \A i \in 1..Len(u) : Forward(u)[i] = u[i]
  BY <1>3, ForwardFormed
<1> QED
  BY <1>2, <1>4 DEF u

\* A reset keeps what lies before the first difference.
LEMMA ResetFormed ==
  ASSUME NEW old \in Seq(Chars), NEW s, Comp(s, Len(old)), LastOpen(s),
         NEW new \in Seq(Chars), NEW d \in 0..Len(new), IsDiffPos(d, old, new),
         NEW k \in 0..Len(s), IsKeptCount(k, s, d)
  PROVE  LET t == Dispose(s, k)
         IN  /\ Comp(t, Len(new)) /\ LastOpen(t)
             /\ \A i \in 1..Len(s) :
                  (s[i].end <= Len(new) /\ \A x \in 1..s[i].end : old[x] = new[x])
                    => i <= Len(t) /\ t[i] = s[i]
<1> DEFINE t == Dispose(s, k)
<1>1. /\ Len(old) \in Nat /\ Len(new) \in Nat /\ s \in Comps /\ Len(s) \in Nat
      /\ \A i \in 1..Len(s) : s[i] \in SegType /\ s[i].end <= Len(old)
  BY LenProperties, LenOf DEF Comp, Formed
<1>2. k > 0 => s[k].end <= Len(new)
  <2> SUFFICES ASSUME k > 0 PROVE s[k].end <= Len(new)
    OBVIOUS
  <2>1. s[k].end <= d /\ s[k].end \in Nat
    BY <1>1 DEF IsKeptCount, SegType
  <2> QED
    BY <1>1, <2>1
<1>3. Comp(t, Len(new)) /\ LastOpen(t) /\ k <= Len(t) /\ \A i \in 1..k : t[i] = s[i]
  <2>1. CASE k < Len(s)
    BY <1>1, <1>2, <2>1, CutFormed DEF Dispose
  <2>2. CASE k = Len(s)
    <3>1. t = s
      BY <1>1, <2>2 DEF Dispose
    <3>2. Comp(s, Len(new))
      BY <1>1, <1>2, <2>2, ShorterFormed
    <3> QED
      BY <1>1, <2>2, <3>1, <3>2
  <2> QED
    BY <1>1, <2>1, <2>2
<1> HIDE DEF t
<1>4. ASSUME NEW i \in 1..Len(s), s[i].end <= Len(new), \A x \in 1..s[i].end : old[x] = new[x]
      PROVE  i <= k
  <2> DEFINE e == s[i].end
  <2>1. e \in Nat /\ e <= Len(old) /\ e <= Len(new) /\ d \in Nat /\ Len(old) \in Nat
    BY <1>1, <1>4 DEF SegType
  <2>2. \A x \in 1..e : old[x] = new[x]
    BY <1>4
  <2> HIDE DEF e
  <2>3. ~(e > d)
    <3> SUFFICES ASSUME d < e PROVE FALSE
      BY <2>1
    <3>1. d + 1 \in 1..e
      BY <2>1
    <3>2. old[d + 1] = new[d + 1]
      BY <2>2, <3>1
    <3>3. d < Len(old) /\ d < Len(new)
      BY <1>1, <2>1
    <3> QED
      BY <3>2, <3>3 DEF IsDiffPos
  <2>5. ~(s[i].end > d)
    BY <2>3 DEF e
  <2>4. i \notin (k + 1)..Len(s)
    BY <2>5 DEF IsKeptCount
  <2> QED
    BY <1>1, <2>4
<1>5. ASSUME NEW i \in 1..Len(s), s[i].end <= Len(new), \A x \in 1..s[i].end : old[x] = new[x]
      PROVE  i <= Len(t) /\ t[i] = s[i]
  <2>1. i \in 1..k
    BY <1>1, <1>4, <1>5
  <2>2. Len(t) \in Nat
    BY <1>1, <1>3, LenOf DEF Comp
  <2> QED
    BY <1>1, <1>3, <2>1, <2>2
<1> QED
  BY <1>3, <1>5 DEF t

\* A segment that holds text may get any status but the offered one.
LEMMA StatusFormed ==
  ASSUME NEW n \in Nat, NEW s, Comp(s, n), NEW i \in 1..Len(s), s[i].start # s[i].end,
         NEW g \in SegType, g.status # kGuess, g.start = s[i].start, g.end = s[i].end,
         g.status >= kSelected => GetSelectedCandidate(g) \in {Nil, g.end},
         NEW t \in Comps, Len(t) = Len(s),
         \A j \in 1..Len(s) : t[j] = IF j = i THEN g ELSE s[j]
  PROVE  Comp(t, n)
<1>1. /\ s \in Comps /\ Len(s) \in Nat /\ Formed(s, n)
      /\ \A j \in 1..Len(s) : s[j] \in SegType /\ SegOK(s[j])
  BY LenOf DEF Comp, Formed
<1>6. SegOK(g)
  BY <1>1 DEF SegOK, IsEmptySegment
<1>8. \A j \in 1..Len(s) : t[j].start = s[j].start /\ t[j].end = s[j].end /\ SegOK(t[j])
  BY <1>1, <1>6
<1>9. Formed(t, n)
  BY <1>1, <1>8 DEF Formed
<1> QED
  BY <1>9 DEF Comp
=============================================================================
