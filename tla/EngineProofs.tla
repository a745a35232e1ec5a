---------------------------- MODULE EngineProofs ----------------------------
(***************************************************************************)
(* Proofs about the engine (Engine.tla, over Context.tla) and what is seen *)
(* of it (View.tla), for every input, lexicon, page size and option.       *)
(*                                                                         *)
(* The inductive invariant is IInv: between two keys the context is at     *)
(* rest (Rest).  Each method of Context and each handler of Engine is      *)
(* shown to bring a context at rest to rest, by way of the contexts that   *)
(* it composes anew (Ready) and of the compositions a selection is made in *)
(* (Selectable).  What a commit says is settled where it is made (Spoken,  *)
(* Recites, Leaves) and carried along by Accounted.                        *)
(*                                                                         *)
(* Four theorems rest on the schema being plain, and all of them on its    *)
(* being plain where the speller's auto_select is on: with patterns the    *)
(* segment that a letter overran need not fit what came of the rest.       *)
(***************************************************************************)
EXTENDS View, SegmentsProofs

\* The plainest schema, which Engine's header describes: no punctuation, no
\* patterns and so nothing to take apart, and ascii mode is not switched to.
Plain ==
  /\ Patterns = << >>
  /\ \A full \in BOOLEAN : DOMAIN Puncts[full] = {}
  /\ Affix.tag \notin {"abc", "raw", "paging"}
  /\ "ascii_mode" \notin Options

-----------------------------------------------------------------------------
(* The loop of CalculateSegmentation.                                      *)

\* f gives what the first n rounds make of s.
IsRun(f, n, s, text, on) ==
  f = [k \in 0..n |-> IF k = 0 THEN s ELSE Round(f[k - 1], text, on)]

\* There is one way only for the rounds to go.
LEMMA RunsAgree ==
  ASSUME NEW s, NEW text, NEW on, NEW n \in Nat, NEW m \in Nat, NEW f, NEW g,
         IsRun(f, n, s, text, on), IsRun(g, m, s, text, on), n <= m
  PROVE  \A k \in 0..n : f[k] = g[k]
<1> DEFINE differ == {k \in 0..n : f[k] # g[k]}
<1> SUFFICES ASSUME differ # {} PROVE FALSE
  OBVIOUS
<1>1. Min(differ) \in differ /\ \A y \in differ : Min(differ) <= y
  BY Least
<1> DEFINE k == Min(differ)
<1>2. k \in 0..n /\ f[k] # g[k]
  BY <1>1
<1> HIDE DEF k
<1>3. k = 0 \/ (k - 1 \in 0..n /\ f[k - 1] = g[k - 1])
  BY <1>1, <1>2 DEF k
<1>4. /\ f[k] = IF k = 0 THEN s ELSE Round(f[k - 1], text, on)
      /\ g[k] = IF k = 0 THEN s ELSE Round(g[k - 1], text, on)
  BY <1>2 DEF IsRun
<1> QED
  BY <1>2, <1>3, <1>4

\* The rounds go on for as long as one likes.
LEMMA RunsExist ==
  ASSUME NEW s, NEW text, NEW on
  PROVE  \A n \in Nat : \E f : IsRun(f, n, s, text, on)
<1> DEFINE stuck == {n \in Nat : ~\E f : IsRun(f, n, s, text, on)}
<1> SUFFICES ASSUME stuck # {} PROVE FALSE
  OBVIOUS
<1>1. Min(stuck) \in stuck /\ \A y \in stuck : Min(stuck) <= y
  BY Least
<1> DEFINE n == Min(stuck)
<1>2. n \in Nat /\ ~\E f : IsRun(f, n, s, text, on)
  BY <1>1
<1> HIDE DEF n
<1>3. CASE n = 0
  <2> DEFINE f == [k \in 0..0 |-> s]
  <2>1. f = [k \in 0..0 |-> IF k = 0 THEN s ELSE Round(f[k - 1], text, on)]
    OBVIOUS
  <2> QED
    BY <1>2, <1>3, <2>1 DEF IsRun
<1>4. CASE n > 0
  <2>1. PICK f : IsRun(f, n - 1, s, text, on)
    <3>1. n - 1 \in Nat /\ ~(n <= n - 1)
      BY <1>2, <1>4
    <3>2. n - 1 \notin stuck
      BY <1>1, <3>1 DEF n
    <3> QED
      BY <3>1, <3>2
  <2> DEFINE g == [k \in 0..n |-> IF k = n THEN Round(f[n - 1], text, on) ELSE f[k]]
  <2>2. g = [k \in 0..n |-> IF k = 0 THEN s ELSE Round(g[k - 1], text, on)]
    <3>1. \A k \in 0..n : g[k] = IF k = 0 THEN s ELSE Round(g[k - 1], text, on)
      <4> SUFFICES ASSUME NEW k \in 0..n
                   PROVE  g[k] = IF k = 0 THEN s ELSE Round(g[k - 1], text, on)
        OBVIOUS
      <4>1. CASE k = n
        BY <1>2, <1>4, <4>1
      <4>2. CASE k < n
        <5>1. f[k] = IF k = 0 THEN s ELSE Round(f[k - 1], text, on)
          BY <1>2, <2>1, <4>2 DEF IsRun
        <5> QED
          BY <1>2, <4>2, <5>1
      <4> QED
        BY <1>2, <4>1, <4>2
    <3> QED
      BY <3>1
  <2> QED
    BY <1>2, <2>2 DEF IsRun
<1> QED
  BY <1>2, <1>3, <1>4

\* The function of all the rounds is what its definition says.
LEMMA AfterRoundsIs ==
  ASSUME NEW s, NEW text, NEW on
  PROVE  /\ AfterRounds(s, text, on)[0] = s
         /\ \A n \in Nat : AfterRounds(s, text, on)[n + 1]
                             = Round(AfterRounds(s, text, on)[n], text, on)
<1> DEFINE run(n) == CHOOSE f : IsRun(f, n, s, text, on)
           all == [n \in Nat |-> run(n)[n]]
           Is(after) == after = [n \in Nat |-> IF n = 0 THEN s
                                              ELSE Round(after[n - 1], text, on)]
<1>1. \A n \in Nat : IsRun(run(n), n, s, text, on)
  BY RunsExist
<1>2. \A n \in Nat : all[n] = IF n = 0 THEN s ELSE Round(all[n - 1], text, on)
  <2> SUFFICES ASSUME NEW n \in Nat
               PROVE  all[n] = IF n = 0 THEN s ELSE Round(all[n - 1], text, on)
    OBVIOUS
  <2>1. IsRun(run(n), n, s, text, on)
    BY <1>1
  <2>2. CASE n = 0
    <3>1. run(n)[n] = s
      BY <2>1, <2>2 DEF IsRun
    <3> QED
      BY <2>2, <3>1
  <2>3. CASE n > 0
    <3>1. n - 1 \in Nat /\ n - 1 <= n
      BY <2>3
    <3>2. IsRun(run(n - 1), n - 1, s, text, on)
      BY <1>1, <3>1
    <3> DEFINE f == run(n)
               g == run(n - 1)
               m == n - 1
    <3>3. f[n] = Round(f[n - 1], text, on)
      <4>1. IsRun(f, n, s, text, on) /\ n \in 0..n /\ n # 0
        BY <2>1, <2>3
      <4> HIDE DEF f
      <4> QED
        BY <4>1 DEF IsRun
    <3>4. g[n - 1] = f[n - 1]
      <4>1. IsRun(f, n, s, text, on) /\ IsRun(g, m, s, text, on) /\ m \in Nat /\ m <= n
        BY <2>1, <3>1, <3>2
      <4> HIDE DEF f, g, m
      <4>2. \A k \in 0..m : g[k] = f[k]
        BY <4>1, RunsAgree
      <4>3. m \in 0..m
        BY <4>1
      <4> QED
        BY <4>2, <4>3 DEF m
    <3>5. all[n] = f[n] /\ all[n - 1] = g[n - 1]
      BY <3>1
    <3> HIDE DEF f, g, all
    <3> QED
      BY <2>3, <3>3, <3>4, <3>5
  <2> QED
    BY <2>2, <2>3
<1>3. Is(all)
  <2>1. all = [n \in Nat |-> all[n]]
    OBVIOUS
  <2> HIDE DEF all
  <2>2. [n \in Nat |-> all[n]]
          = [n \in Nat |-> IF n = 0 THEN s ELSE Round(all[n - 1], text, on)]
    BY <1>2
  <2> QED
    BY <2>1, <2>2, Zenon
<1>4. AfterRounds(s, text, on) = CHOOSE after : Is(after)
  BY DEF AfterRounds
<1> HIDE DEF all, Is
<1>5. Is(AfterRounds(s, text, on))
  BY <1>3, <1>4
<1> DEFINE after == AfterRounds(s, text, on)
<1>6. after = [n \in Nat |-> IF n = 0 THEN s ELSE Round(after[n - 1], text, on)]
  BY <1>5 DEF Is
<1> HIDE DEF after
<1>7. after[0] = s
  BY <1>6
<1>8. \A n \in Nat : after[n + 1] = Round(after[n], text, on)
  <2> SUFFICES ASSUME NEW n \in Nat PROVE after[n + 1] = Round(after[n], text, on)
    OBVIOUS
  <2>1. n + 1 \in Nat /\ n + 1 # 0 /\ (n + 1) - 1 = n
    OBVIOUS
  <2> QED
    BY <1>6, <2>1
<1> QED
  BY <1>7, <1>8 DEF after

\* As long as the input is not used up the composition is a good one, and
\* its last segment begins no earlier than there have been rounds.
LEMMA StillRunning ==
  ASSUME NEW text \in Seq(Chars), NEW s, Comp(s, Len(text)), LastOpen(s), NEW on,
         NEW n \in Nat,
         \A m \in 0..(n - 1) : ~HasFinishedSegmentation(AfterRounds(s, text, on)[m], text)
  PROVE  LET t == AfterRounds(s, text, on)[n]
         IN  /\ Comp(t, Len(text)) /\ LastOpen(t) /\ Keeps(s, t)
             /\ ~HasFinishedSegmentation(t, text) => GetCurrentStartPosition(t) >= n
<1> DEFINE after == AfterRounds(s, text, on)
           Good(m) == /\ Comp(after[m], Len(text)) /\ LastOpen(after[m]) /\ Keeps(s, after[m])
                      /\ ~HasFinishedSegmentation(after[m], text)
                           => GetCurrentStartPosition(after[m]) >= m
           bad == {m \in 0..n : ~Good(m)}
<1>1. after[0] = s /\ \A m \in Nat : after[m + 1] = Round(after[m], text, on)
  BY AfterRoundsIs
<1>2. \A m \in 0..(n - 1) : ~HasFinishedSegmentation(after[m], text)
  OBVIOUS
<1> HIDE DEF after
<1>3. Len(text) \in Nat /\ s \in Comps /\ Len(s) \in Nat
  BY LenProperties, LenOf DEF Comp
<1>4. Good(0)
  <2>1. Keeps(s, s)
    BY <1>3, KeepsAll
  <2>2. GetCurrentStartPosition(s) >= 0
    BY <1>3, Positions
  <2> QED
    BY <1>1, <2>1, <2>2
<1>5. ASSUME NEW m \in 0..n, m # 0, Good(m - 1) PROVE Good(m)
  <2> DEFINE t == after[m - 1]
             u == Round(t, text, on)
  <2>1. after[m] = u
    <3>1. m - 1 \in Nat /\ (m - 1) + 1 = m
      BY <1>5
    <3> QED
      BY <1>1, <3>1
  <2>2. Comp(t, Len(text)) /\ LastOpen(t) /\ Keeps(s, t) /\ ~HasFinishedSegmentation(t, text)
    BY <1>2, <1>5
  <2>3. GetCurrentStartPosition(t) >= m - 1
    BY <1>5, <2>2
  <2> HIDE DEF t
  <2>4. /\ GetCurrentEndPosition(t) \in Nat /\ GetCurrentStartPosition(t) \in Nat
        /\ Len(t) \in Nat
    BY <1>3, <2>2, Positions
  <2>5. GetCurrentEndPosition(t) < Len(text)
    BY <1>3, <2>2, <2>4 DEF HasFinishedSegmentation
  <2>6. /\ Comp(u, Len(text)) /\ LastOpen(u) /\ Keeps(t, u)
        /\ GetCurrentEndPosition(u) < Len(text) =>
             GetCurrentStartPosition(u) > GetCurrentStartPosition(t)
    BY <2>2, <2>5, RoundFormed
  <2> HIDE DEF u
  <2>7. Keeps(s, u)
    BY <1>3, <2>2, <2>4, <2>6, KeepsOn
  <2>8. ~HasFinishedSegmentation(u, text) => GetCurrentStartPosition(u) >= m
    <3>1. GetCurrentStartPosition(u) \in Nat /\ GetCurrentEndPosition(u) \in Nat
      BY <1>3, <2>6, Positions
    <3> QED
      BY <1>3, <1>5, <2>3, <2>4, <2>6, <3>1 DEF HasFinishedSegmentation
  <2> QED
    BY <2>1, <2>6, <2>7, <2>8
<1>6. bad = {}
  <2> SUFFICES ASSUME bad # {} PROVE FALSE
    OBVIOUS
  <2>1. bad \in SUBSET Nat
    OBVIOUS
  <2> HIDE DEF Good
  <2>2. Min(bad) \in bad /\ \A m \in bad : Min(bad) <= m
    BY <2>1, Least
  <2> DEFINE m == Min(bad)
  <2>3. m \in 0..n /\ ~Good(m)
    BY <2>2
  <2>4. m # 0
    BY <1>4, <2>3
  <2>5. m - 1 \in 0..n /\ ~(m <= m - 1)
    BY <2>3, <2>4
  <2>6. Good(m - 1)
    BY <2>2, <2>5
  <2> QED
    BY <1>5, <2>3, <2>4, <2>6
<1>7. Good(n)
  BY <1>6
<1> QED
  BY <1>7 DEF after

\* The loop ends, when the input is used up.
LEMMA RoundsEnd ==
  ASSUME NEW text \in Seq(Chars), NEW s, Comp(s, Len(text)), LastOpen(s), NEW on
  PROVE  \E n \in 0..Len(text) :
           /\ Rounds(s, text, on) = AfterRounds(s, text, on)[n]
           /\ HasFinishedSegmentation(AfterRounds(s, text, on)[n], text)
           /\ \A m \in 0..(n - 1) :
                ~HasFinishedSegmentation(AfterRounds(s, text, on)[m], text)
<1> DEFINE after == AfterRounds(s, text, on)
           over == {m \in 0..Len(text) : HasFinishedSegmentation(after[m], text)}
<1>1. Len(text) \in Nat
  BY LenProperties
<1>2. over # {}
  <2> SUFFICES ASSUME \A m \in 0..Len(text) : ~HasFinishedSegmentation(after[m], text)
               PROVE  FALSE
    OBVIOUS
  <2> DEFINE n == Len(text)
             t == after[n]
  <2>1. \A m \in 0..(n - 1) : ~HasFinishedSegmentation(after[m], text)
    BY <1>1
  <2>2. Comp(t, n) /\ ~HasFinishedSegmentation(t, text) /\ GetCurrentStartPosition(t) >= n
    BY <1>1, <2>1, StillRunning
  <2> HIDE DEF t
  <2>3. /\ GetCurrentStartPosition(t) \in Nat /\ GetCurrentEndPosition(t) \in Nat
        /\ GetCurrentStartPosition(t) <= GetCurrentEndPosition(t)
    BY <1>1, <2>2, Positions
  <2> QED
    BY <1>1, <2>2, <2>3 DEF HasFinishedSegmentation
<1>3. Min(over) \in over /\ \A m \in over : Min(over) <= m
  <2>1. over \in SUBSET Nat
    BY <1>1
  <2> QED
    BY <1>2, <2>1, Least
<1> DEFINE n == Min(over)
<1>4. /\ n \in 0..Len(text) /\ HasFinishedSegmentation(after[n], text)
      /\ \A m \in 0..(n - 1) : ~HasFinishedSegmentation(after[m], text)
  <2>1. n \in 0..Len(text) /\ HasFinishedSegmentation(after[n], text)
    BY <1>3
  <2>2. ASSUME NEW m \in 0..(n - 1) PROVE ~HasFinishedSegmentation(after[m], text)
    <3>1. m \in 0..Len(text) /\ ~(n <= m)
      BY <1>1, <2>1
    <3> QED
      BY <1>3, <3>1
  <2> QED
    BY <2>1, <2>2
<1> HIDE DEF n
<1>5. IsOver(after, n, text)
  BY <1>4 DEF IsOver
<1>6. ASSUME NEW m \in 0..(n - 1) PROVE ~IsOver(after, m, text)
  <2>1. ~HasFinishedSegmentation(after[m], text)
    BY <1>4
  <2>2. ASSUME m > 0 PROVE GetCurrentEndPosition(after[m]) # GetCurrentStartPosition(after[m - 1])
    <3> DEFINE t == after[m - 1]
    <3>1. m - 1 \in Nat /\ (m - 1) + 1 = m /\ m - 1 \in 0..(n - 1)
          /\ \A k \in 0..((m - 1) - 1) : k \in 0..(n - 1)
      BY <1>4, <2>2
    <3>2. /\ Comp(t, Len(text)) /\ LastOpen(t) /\ ~HasFinishedSegmentation(t, text)
      BY <1>4, <3>1, StillRunning
    <3>3. after[m] = Round(t, text, on)
      BY <3>1, AfterRoundsIs
    <3> HIDE DEF t
    <3>4. GetCurrentEndPosition(t) \in Nat /\ GetCurrentStartPosition(t) \in Nat
      BY <1>1, <3>2, Positions
    <3>5. GetCurrentEndPosition(t) < Len(text)
      BY <1>1, <3>2, <3>4 DEF HasFinishedSegmentation
    <3>6. /\ Comp(Round(t, text, on), Len(text))
          /\ GetCurrentEndPosition(Round(t, text, on)) > GetCurrentStartPosition(t)
      BY <3>2, <3>5, RoundFormed
    <3>7. GetCurrentEndPosition(Round(t, text, on)) \in Nat
      BY <1>1, <3>6, Positions
    <3>8. GetCurrentEndPosition(Round(t, text, on)) # GetCurrentStartPosition(t)
      BY <3>4, <3>6, <3>7
    <3> QED
      BY <3>3, <3>8 DEF t
  <2> QED
    BY <2>1, <2>2 DEF IsOver
<1>7. IsRoundCount(n, after, text)
  BY <1>5, <1>6 DEF IsRoundCount
<1> DEFINE count == CHOOSE m \in 0..Len(text) : IsRoundCount(m, after, text)
<1>8. count \in 0..Len(text) /\ IsRoundCount(count, after, text)
  BY <1>4, <1>7
<1>9. Rounds(s, text, on) = after[count]
  BY DEF Rounds, WhenOver
<1> HIDE DEF count
<1>10. count = n
  <2>1. ~(count < n)
    <3>1. count < n => count \in 0..(n - 1)
      BY <1>4, <1>8
    <3> QED
      BY <1>6, <1>8, <3>1 DEF IsRoundCount
  <2>2. ~(n < count)
    <3>1. n < count => n \in 0..(count - 1)
      BY <1>4, <1>8
    <3> QED
      BY <1>5, <1>8, <3>1 DEF IsRoundCount
  <2> QED
    BY <1>1, <1>4, <1>8, <2>1, <2>2
<1> QED
  BY <1>4, <1>9, <1>10

\* What the rounds leave is a good composition of the whole input.
LEMMA RoundsFormed ==
  ASSUME NEW text \in Seq(Chars), NEW s, Comp(s, Len(text)), LastOpen(s), NEW on
  PROVE  LET t == Rounds(s, text, on)
         IN  /\ Comp(t, Len(text)) /\ LastOpen(t) /\ Keeps(s, t)
             /\ HasFinishedSegmentation(t, text)
<1>1. PICK n \in 0..Len(text) :
        /\ Rounds(s, text, on) = AfterRounds(s, text, on)[n]
        /\ HasFinishedSegmentation(AfterRounds(s, text, on)[n], text)
        /\ \A m \in 0..(n - 1) : ~HasFinishedSegmentation(AfterRounds(s, text, on)[m], text)
  BY RoundsEnd
<1>2. n \in Nat
  BY LenProperties
<1> QED
  BY <1>1, <1>2, StillRunning

\* In the plainest schema a segment is letters or the rest, and what it offers
\* is what the translators know of the text it is in.
Literal(g, text) ==
  /\ g.tags \subseteq {"abc", "raw", "paging"}
  /\ g.start < g.end =>
       \/ /\ "abc" \in g.tags /\ "raw" \notin g.tags
          /\ \A x \in (g.start + 1)..g.end : text[x] \in Letters
       \/ /\ "raw" \in g.tags /\ "abc" \notin g.tags
          /\ \A x \in (g.start + 1)..g.end : text[x] \notin Letters
  /\ g.status = kGuess => g.menu = MenuFor(g, text, {})
  /\ g.status # kVoid /\ g.menu # << >> => "abc" \in g.tags

\* A guess at letters has them all: what comes next is none.
Shut(g, text) ==
  g.status < kSelected /\ "abc" \in g.tags /\ g.end < Len(text)
    => text[g.end + 1] \notin Letters

\* A composition in the plainest schema: every segment is literal, and every
\* guess but the last is shut.
Settled(s, text) ==
  /\ \A i \in 1..Len(s) : Literal(s[i], text)
  /\ \A i \in 1..(Len(s) - 1) : Shut(s[i], text)

\* An empty segment is literal.
LEMMA LiteralEmpty ==
  ASSUME NEW e \in Nat, NEW text
  PROVE  Literal(Segment(e, e, {}), text)
BY DEF Literal, Segment, kVoid, kGuess

\* Exchanging the last segment for a literal one.
LEMMA SettledSetLast ==
  ASSUME NEW n \in Nat, NEW s, Comp(s, n), s # << >>,
         NEW g \in SegType, SegOK(g), g.end <= n, g.start = s[Len(s)].start,
         NEW text, Settled(s, text), Literal(g, text)
  PROVE  Settled(SetLast(s, g), text)
<1> DEFINE t == SetLast(s, g)
<1>1. /\ Len(t) = Len(s) /\ \A i \in 1..(Len(s) - 1) : t[i] = s[i]
      /\ t[Len(s)] = g
  BY SetLastFormed
<1>2. Len(s) \in Nat /\ Len(s) > 0
  BY LenOf DEF Comp
<1> HIDE DEF t
<1>3. \A i \in 1..Len(t) : Literal(t[i], text)
  <2> SUFFICES ASSUME NEW i \in 1..Len(t) PROVE Literal(t[i], text)
    OBVIOUS
  <2>1. CASE i = Len(s)
    BY <1>1, <2>1
  <2>2. CASE i < Len(s)
    BY <1>1, <1>2, <2>2 DEF Settled
  <2> QED
    BY <1>1, <1>2, <2>1, <2>2
<1>4. \A i \in 1..(Len(t) - 1) : Shut(t[i], text)
  BY <1>1, <1>2 DEF Settled
<1> QED
  BY <1>3, <1>4 DEF Settled, t

\* Appending one, where the last is shut.
LEMMA SettledAppend ==
  ASSUME NEW n \in Nat, NEW s, Comp(s, n), LastFull(s),
         NEW g \in SegType, SegOK(g), g.end <= n, g.start = GetCurrentEndPosition(s),
         NEW text, Settled(s, text), Literal(g, text),
         s # << >> => Shut(s[Len(s)], text)
  PROVE  Settled(Append(s, g), text)
<1> DEFINE t == Append(s, g)
<1>1. /\ Len(t) = Len(s) + 1 /\ \A i \in 1..Len(s) : t[i] = s[i]
      /\ t[Len(s) + 1] = g
  BY AppendFormed
<1>2. Len(s) \in Nat /\ (s # << >> <=> Len(s) > 0)
  BY LenOf DEF Comp
<1> HIDE DEF t
<1>3. \A i \in 1..Len(t) : Literal(t[i], text)
  <2> SUFFICES ASSUME NEW i \in 1..Len(t) PROVE Literal(t[i], text)
    OBVIOUS
  <2>1. CASE i = Len(s) + 1
    BY <1>1, <2>1
  <2>2. CASE i <= Len(s)
    BY <1>1, <1>2, <2>2 DEF Settled
  <2> QED
    BY <1>1, <1>2, <2>1, <2>2
<1>4. \A i \in 1..(Len(t) - 1) : Shut(t[i], text)
  <2> SUFFICES ASSUME NEW i \in 1..Len(s) PROVE Shut(s[i], text)
    BY <1>1, <1>2
  <2>1. CASE i = Len(s)
    BY <1>2, <2>1
  <2>2. CASE i < Len(s)
    BY <1>2, <2>2 DEF Settled
  <2> QED
    BY <1>2, <2>1, <2>2
<1> QED
  BY <1>3, <1>4 DEF Settled, t

\* Going on to the next segment.
LEMMA SettledForward ==
  ASSUME NEW n \in Nat, NEW s, Comp(s, n), NEW text, Settled(s, text),
         s # << >> /\ LastFull(s) => Shut(s[Len(s)], text)
  PROVE  Settled(Forward(s), text)
<1>1. CASE ~(s # << >> /\ LastFull(s))
  BY <1>1, ForwardFormed
<1>2. CASE s # << >> /\ LastFull(s)
  <2> DEFINE e == GetCurrentEndPosition(s)
             g == Segment(e, e, {})
  <2>1. e \in Nat /\ e <= n /\ e = s[Len(s)].end
    BY <1>2, Positions
  <2>2. ~IsEmptySegment(Last(s))
    <3>1. s[Len(s)] \in SegType /\ s[Len(s)].start < s[Len(s)].end
      BY <1>2, LenOf DEF Comp, LastFull
    <3> QED
      BY <3>1 DEF IsEmptySegment, Last, SegType
  <2>3. Forward(s) = Append(s, g)
    BY <1>2, <2>1, <2>2 DEF Forward, Last
  <2> HIDE DEF e
  <2>4. g \in SegType /\ SegOK(g) /\ g.start = e /\ g.end = e /\ Literal(g, text)
    BY <2>1, NewSegment, LiteralEmpty
  <2> HIDE DEF g
  <2>5. Settled(Append(s, g), text)
    BY <1>2, <2>1, <2>4, SettledAppend DEF e
  <2> QED
    BY <2>3, <2>5
<1> QED
  BY <1>1, <1>2

\* The first k segments; the k-th is shut if another follows.
LEMMA SettledPrefix ==
  ASSUME NEW n \in Nat, NEW s, Comp(s, n), NEW text, Settled(s, text), NEW k \in 0..Len(s)
  PROVE  /\ Settled(SubSeq(s, 1, k), text)
         /\ 0 < k /\ k < Len(s) => Shut(SubSeq(s, 1, k)[k], text)
<1> DEFINE t == SubSeq(s, 1, k)
<1>1. Len(s) \in Nat /\ s \in Comps /\ Formed(s, n)
  BY LenOf DEF Comp
<1>2. Len(t) = k /\ \A i \in 1..k : t[i] = s[i]
  BY <1>1, PrefixFormed
<1> HIDE DEF t
<1>3. Settled(t, text)
  BY <1>1, <1>2 DEF Settled
<1>4. 0 < k /\ k < Len(s) => Shut(t[k], text)
  BY <1>1, <1>2 DEF Settled
<1> QED
  BY <1>3, <1>4 DEF t

\* Without an empty last segment.
LEMMA SettledTrim ==
  ASSUME NEW n \in Nat, NEW s, Comp(s, n), NEW text, Settled(s, text)
  PROVE  /\ Settled(Trim(s), text)
         /\ Trim(s) # << >> /\ ~LastFull(s) => Shut(Trim(s)[Len(Trim(s))], text)
<1>1. /\ s \in Comps /\ Len(s) \in Nat /\ (s # << >> <=> Len(s) > 0)
      /\ s # << >> => s[Len(s)] \in SegType /\ SegOK(s[Len(s)])
  BY LenOf DEF Comp, Formed
<1>2. CASE LastFull(s)
  <2>1. Trim(s) = s
    BY <1>1, <1>2 DEF Trim, LastFull, IsEmptySegment, Last, SegType
  <2> QED
    BY <1>2, <2>1
<1>3. CASE ~LastFull(s)
  <2> DEFINE t == SubSeq(s, 1, Len(s) - 1)
  <2>1. s # << >> /\ Trim(s) = t
    BY <1>1, <1>3 DEF Trim, LastFull, IsEmptySegment, Last, SegOK, SegType, Front
  <2>2. Len(s) - 1 \in 0..Len(s) /\ Formed(s, n)
    BY <1>1, <2>1 DEF Comp
  <2>3. /\ Settled(t, text)
        /\ 0 < Len(s) - 1 /\ Len(s) - 1 < Len(s) => Shut(t[Len(s) - 1], text)
    BY <2>2, SettledPrefix
  <2>4. Len(t) = Len(s) - 1 /\ t \in Comps
    BY <1>1, <2>2, PrefixFormed DEF Comp
  <2>5. t # << >> <=> Len(t) > 0
    BY <2>4, LenOf
  <2> HIDE DEF t
  <2> QED
    BY <1>1, <2>1, <2>3, <2>4, <2>5
<1> QED
  BY <1>2, <1>3

\* The tags there are in the plainest schema.
PlainTags == {"abc", "raw", "paging"}

\* Texts that agree have the same slices.
LEMMA SameSlice ==
  ASSUME NEW old \in Seq(Chars), NEW new \in Seq(Chars), NEW i \in Nat, NEW j \in Nat,
         j <= Len(old), j <= Len(new), \A x \in (i + 1)..j : old[x] = new[x]
  PROVE  SubSeq(old, i + 1, j) = SubSeq(new, i + 1, j)
<1> DEFINE s == SubSeq(old, i + 1, j)
           t == SubSeq(new, i + 1, j)
<1>1. \A x \in (i + 1)..j : old[x] \in Chars /\ new[x] \in Chars
  BY LenProperties, ElementOfSeq
<1>2. /\ s \in Seq(Chars) /\ Len(s) = (IF i + 1 <= j THEN j - (i + 1) + 1 ELSE 0)
      /\ \A k \in 1..(j - (i + 1) + 1) : s[k] = old[i + 1 + k - 1]
  BY <1>1, SubSeqProperties
<1>3. /\ t \in Seq(Chars) /\ Len(t) = (IF i + 1 <= j THEN j - (i + 1) + 1 ELSE 0)
      /\ \A k \in 1..(j - (i + 1) + 1) : t[k] = new[i + 1 + k - 1]
  BY <1>1, SubSeqProperties
<1> HIDE DEF s, t
<1>4. Len(s) = Len(t)
  BY <1>2, <1>3
<1>5. \A k \in 1..Len(s) : s[k] = t[k]
  <2> SUFFICES ASSUME NEW k \in 1..Len(s) PROVE s[k] = t[k]
    OBVIOUS
  <2>1. k \in 1..(j - (i + 1) + 1) /\ i + 1 + k - 1 \in (i + 1)..j
    BY <1>2
  <2> QED
    BY <1>2, <1>3, <2>1
<1>6. s = t
  BY <1>2, <1>3, <1>4, <1>5, SeqEqual
<1> QED
  BY <1>6 DEF s, t

\* Only the code of letters matters to a menu.
LEMMA PlainMenu ==
  ASSUME Plain, NEW g, g.tags \subseteq PlainTags, NEW text, NEW on
  PROVE  MenuFor(g, text, on)
           = IF "abc" \in g.tags /\ SubSeq(text, g.start + 1, g.end) \in DOMAIN Lexicon
               THEN [i \in 1..Len(Lexicon[SubSeq(text, g.start + 1, g.end)]) |->
                       g.start + Lexicon[SubSeq(text, g.start + 1, g.end)][i]]
               ELSE << >>
<1>1. {"abc", Affix.tag} \cap g.tags # {} <=> "abc" \in g.tags
  BY DEF Plain, PlainTags
<1>2. PunctMenu(g, SubSeq(text, g.start + 1, g.end), on) = << >>
  <2>1. ("full_shape" \in on) \in BOOLEAN
    OBVIOUS
  <2>2. DOMAIN Puncts["full_shape" \in on] = {}
    BY <2>1, Zenon DEF Plain
  <2> QED
    BY <2>2, Zenon DEF PunctMenu
<1> QED
  BY <1>1, <1>2, Zenon DEF MenuFor

\* Segments of the same letters have the same menu, whatever the options.
LEMMA SameMenu ==
  ASSUME Plain, NEW g, g.tags \subseteq PlainTags, NEW h, h.tags \subseteq PlainTags,
         h.start = g.start, h.end = g.end, "abc" \in h.tags <=> "abc" \in g.tags,
         NEW old, NEW new, SubSeq(old, g.start + 1, g.end) = SubSeq(new, g.start + 1, g.end),
         NEW on, NEW off
  PROVE  MenuFor(g, old, on) = MenuFor(h, new, off)
<1> DEFINE c == SubSeq(old, g.start + 1, g.end)
           d == SubSeq(new, h.start + 1, h.end)
           k == g.start
           l == h.start
<1>1. MenuFor(g, old, on)
        = IF "abc" \in g.tags /\ c \in DOMAIN Lexicon
            THEN [i \in 1..Len(Lexicon[c]) |-> k + Lexicon[c][i]] ELSE << >>
  BY PlainMenu
<1>2. MenuFor(h, new, off)
        = IF "abc" \in h.tags /\ d \in DOMAIN Lexicon
            THEN [i \in 1..Len(Lexicon[d]) |-> l + Lexicon[d][i]] ELSE << >>
  BY PlainMenu
<1>3. c = d /\ k = l
  OBVIOUS
<1> HIDE DEF c, d, k, l
<1> QED
  BY <1>1, <1>2, <1>3

\* What is literal is so in any text that agrees with this one as far.
LEMMA LiteralElsewhere ==
  ASSUME Plain, NEW old \in Seq(Chars), NEW new \in Seq(Chars),
         NEW g \in SegType, g.end <= Len(old), g.end <= Len(new),
         \A x \in 1..g.end : old[x] = new[x], Literal(g, old)
  PROVE  Literal(g, new)
<1>1. g.start \in Nat /\ g.end \in Nat
  BY DEF SegType
<1>2. \A x \in (g.start + 1)..g.end : old[x] = new[x]
  BY <1>1
<1>3. SubSeq(old, g.start + 1, g.end) = SubSeq(new, g.start + 1, g.end)
  BY <1>1, <1>2, SameSlice
<1>4. MenuFor(g, old, {}) = MenuFor(g, new, {})
  <2>1. g.tags \subseteq PlainTags
    BY DEF Literal, PlainTags
  <2> DEFINE c == SubSeq(old, g.start + 1, g.end)
             d == SubSeq(new, g.start + 1, g.end)
  <2>2. MenuFor(g, old, {})
          = IF "abc" \in g.tags /\ c \in DOMAIN Lexicon
              THEN [i \in 1..Len(Lexicon[c]) |-> g.start + Lexicon[c][i]] ELSE << >>
    BY <2>1, PlainMenu
  <2>3. MenuFor(g, new, {})
          = IF "abc" \in g.tags /\ d \in DOMAIN Lexicon
              THEN [i \in 1..Len(Lexicon[d]) |-> g.start + Lexicon[d][i]] ELSE << >>
    BY <2>1, PlainMenu
  <2>4. c = d
    BY <1>3
  <2> HIDE DEF c, d
  <2> QED
    BY <2>2, <2>3, <2>4
<1> QED
  BY <1>2, <1>4 DEF Literal

\* In the plainest schema there is the run of letters, and the rest.
LEMMA RecognizedPlain ==
  ASSUME Plain, NEW text \in Seq(Chars), NEW s, Comp(s, Len(text)), LastOpen(s),
         Settled(s, text), NEW on, "ascii_mode" \notin on,
         Settled(ProceedAbc(s, text), text)
  PROVE  Recognized(s, text, on) = ProceedFallback(ProceedAbc(s, text), text)
<1> DEFINE t == ProceedAbc(s, text)
<1>1. ProceedMatcher(s, text) = s
  <2> DEFINE found == {k \in 1..Len(Patterns) : Counts(MatchStarts(Patterns[k], s, text), s)}
  <2>1. GetMatch(s, text) = IF found # {} THEN Min(found) ELSE 0
    BY DEF GetMatch, SelectInSeq
  <2>2. Len(Patterns) = 0
    BY EmptySeq DEF Plain
  <2>3. found = {}
    BY <2>2
  <2> QED
    BY <2>1, <2>3 DEF ProceedMatcher, AddMatchOf
<1>2. Comp(t, Len(text))
  BY AbcFormed
<1>3. t # << >> => Last(t).tags \subseteq PlainTags
  <2>1. t \in Comps
    BY <1>2 DEF Comp
  <2> HIDE DEF t
  <2>2. t # << >> => Len(t) \in 1..Len(t)
    BY <2>1, LenOf
  <2>3. Settled(t, text)
    BY DEF t
  <2> QED
    BY <2>2, <2>3 DEF Settled, Literal, Last, PlainTags
<1> HIDE DEF t
<1>4. ~HasAffix(t, text)
  BY <1>3 DEF HasAffix, Plain, PlainTags
<1>5. AfterAbc(t, text, on) = AfterAffix(t, text, on)
  BY <1>4 DEF AfterAbc, IsAffixed, PrefixOnly
<1>6. ~IsPunct(t, text, on)
  <2>1. ("full_shape" \in on) \in BOOLEAN
    OBVIOUS
  <2>2. DOMAIN Puncts["full_shape" \in on] = {}
    BY <2>1, Zenon DEF Plain
  <2> QED
    BY <2>2, Zenon DEF IsPunct
<1>7. AfterAffix(t, text, on) = ProceedFallback(t, text)
  BY <1>6 DEF AfterAffix
<1>8. Recognized(s, text, on) = AfterAbc(ProceedAbc(s, text), text, on)
  BY <1>1 DEF Recognized
<1> QED
  BY <1>5, <1>7, <1>8 DEF t

\* A new segment of letters, or of one that is none, is literal.
LEMMA LiteralNew ==
  ASSUME NEW text, NEW j \in Nat, NEW k \in Nat,
         NEW tag \in {"abc", "raw"},
         \A x \in (j + 1)..k : text[x] \in Letters <=> tag = "abc"
  PROVE  Literal(Segment(j, k, {tag}), text)
BY DEF Literal, Segment, kVoid, kGuess

\* A run of letters is recognized to its end.
LEMMA AbcSettled ==
  ASSUME Plain, NEW text \in Seq(Chars), NEW s, Comp(s, Len(text)), LastOpen(s),
         GetCurrentEndPosition(s) < Len(text), Settled(s, text),
         text[GetCurrentStartPosition(s) + 1] \in Letters
  PROVE  LET t == ProceedAbc(s, text)
         IN  /\ Settled(t, text) /\ Len(t) \in 1..(Len(s) + 1)
             /\ Shut(t[Len(t)], text) /\ GetCurrentSegmentLength(t) > 0
<1> DEFINE n == Len(text)
           j == GetCurrentStartPosition(s)
           k == RunEnd(text, j)
           g == Segment(j, k, {"abc"})
           t == ProceedAbc(s, text)
<1>1. /\ n \in Nat /\ s \in Comps /\ Len(s) \in Nat /\ (s # << >> <=> Len(s) > 0)
      /\ j \in Nat /\ GetCurrentEndPosition(s) \in Nat /\ j <= GetCurrentEndPosition(s)
      /\ j < n
      /\ j = (IF s = << >> THEN 0 ELSE s[Len(s)].start)
      /\ GetCurrentEndPosition(s) = (IF s = << >> THEN 0 ELSE s[Len(s)].end)
      /\ s # << >> => s[Len(s)] \in SegType /\ SegOK(s[Len(s)])
  <2>1. n \in Nat
    BY LenProperties
  <2>2. /\ s \in Comps /\ Len(s) \in Nat /\ (s # << >> <=> Len(s) > 0)
        /\ j = (IF s = << >> THEN 0 ELSE s[Len(s)].start)
        /\ GetCurrentEndPosition(s) = (IF s = << >> THEN 0 ELSE s[Len(s)].end)
        /\ j \in Nat /\ GetCurrentEndPosition(s) \in Nat /\ j <= GetCurrentEndPosition(s)
    BY <2>1, Positions
  <2>3. s # << >> => s[Len(s)] \in SegType /\ SegOK(s[Len(s)])
    BY <2>2, LenOf DEF Comp, Formed
  <2> QED
    BY <2>1, <2>2, <2>3
<1>2. k \in j..n /\ IsRunEnd(k, text, j)
  BY <1>1, RunEnds
<1>a. text[j + 1] \in Letters
  OBVIOUS
<1>b. GetCurrentEndPosition(s) < n
  OBVIOUS
<1>c. ProceedAbc(s, text) = IF j < k THEN AddSegment(s, g) ELSE s
  BY DEF ProceedAbc, AddRun
<1> HIDE DEF j, k, n
<1>3. k \in Nat /\ j < k /\ (k < n => text[k + 1] \notin Letters)
      /\ \A x \in (j + 1)..k : text[x] \in Letters
  BY <1>1, <1>2, <1>a DEF IsRunEnd, n
<1>4. t = AddSegment(s, g)
  BY <1>3, <1>c
<1>5. {"abc"} \in SUBSET Tags
  BY DEF Tags
<1>6. /\ g \in SegType /\ SegOK(g) /\ g.start = j /\ g.end = k /\ g.status < kSelected
      /\ g.tags = {"abc"}
  BY <1>1, <1>3, <1>5, NewSegment
<1>7. Literal(g, text)
  BY <1>1, <1>3, LiteralNew
<1> HIDE DEF g
<1>8. Shut(g, text)
  BY <1>3, <1>6 DEF Shut, n
<1>9. ~(GetCurrentEndPosition(s) > k)
  <2> SUFFICES ASSUME GetCurrentEndPosition(s) > k PROVE FALSE
    OBVIOUS
  <2> DEFINE l == s[Len(s)]
  <2>1. s # << >> /\ l.start = j /\ l.end = GetCurrentEndPosition(s) /\ Len(s) \in 1..Len(s)
    BY <1>1, <1>3
  <2>2. Literal(l, text)
    BY <2>1 DEF Settled
  <2>3. j + 1 \in (j + 1)..l.end /\ k + 1 \in (j + 1)..l.end /\ l.start < l.end
    BY <1>1, <1>3, <2>1
  <2>4. k < n
    BY <1>1, <1>3, <1>b, <2>1
  <2>5. text[k + 1] \notin Letters
    BY <1>3, <2>4
  <2> HIDE DEF l
  <2> QED
    BY <1>a, <2>1, <2>2, <2>3, <2>5 DEF Literal
<1>10. CASE s = << >>
  <2>1. t = Append(s, g)
    BY <1>1, <1>4, <1>6, <1>9, <1>10 DEF AddSegment, j
  <2>2. LastFull(s) /\ g.start = GetCurrentEndPosition(s) /\ g.end <= Len(text)
    BY <1>1, <1>2, <1>6, <1>10 DEF LastFull, n
  <2> DEFINE u == Append(s, g)
  <2>3. Settled(u, text) /\ Len(u) = Len(s) + 1 /\ u[Len(s) + 1] = g /\ Comp(u, Len(text))
    <3>1. Len(text) \in Nat
      BY LenProperties
    <3>2. Settled(Append(s, g), text)
      BY <1>6, <1>7, <1>10, <2>2, <3>1, SettledAppend
    <3>3. /\ Comp(Append(s, g), Len(text)) /\ Len(Append(s, g)) = Len(s) + 1
          /\ Append(s, g)[Len(s) + 1] = g
      BY <1>6, <2>2, <3>1, AppendFormed
    <3> QED
      BY <3>2, <3>3
  <2>4. u # << >>
    BY <1>1, <2>3, LenOf DEF Comp
  <2> HIDE DEF u
  <2>5. GetCurrentSegmentLength(u) = g.end - g.start
    BY <1>1, <2>3, <2>4 DEF GetCurrentSegmentLength, GetCurrentEndPosition,
         GetCurrentStartPosition, Last
  <2>6. t = u
    BY <2>1 DEF u
  <2> QED
    BY <1>1, <1>3, <1>6, <1>8, <2>3, <2>5, <2>6
<1>11. CASE s # << >>
  <2> DEFINE l == s[Len(s)]
             h == IF l.end < k THEN g ELSE l
             u == SetLast(s, h)
  <2>1. l \in SegType /\ SegOK(l) /\ l.start = j /\ l.end <= k /\ l.end = GetCurrentEndPosition(s)
        /\ Len(s) \in 1..Len(s) /\ l.start \in Nat /\ l.end \in Nat
    BY <1>1, <1>3, <1>9, <1>11
  <2>2. Literal(l, text)
    BY <2>1 DEF Settled
  <2>3. l.end = k => "abc" \in l.tags
    BY <1>3, <1>a, <2>1, <2>2 DEF Literal
  <2>4. t = u
    <3>1. CASE l.end < k
      BY <1>4, <1>6, <1>9, <1>11, <2>1, <3>1 DEF AddSegment, Last, j
    <3>2. CASE l.end = k
      <4>1. t = SetLast(s, [l EXCEPT !.tags = @ \cup g.tags])
        BY <1>1, <1>4, <1>6, <1>9, <1>11, <2>1, <3>2 DEF AddSegment, Last, j
      <4>2. l.tags \cup g.tags = l.tags
        BY <1>6, <2>3, <3>2
      <4>3. [l EXCEPT !.tags = @ \cup g.tags] = l
        BY <2>1, <4>2 DEF SegType
      <4> QED
        BY <1>3, <3>2, <4>1, <4>3
    <3> QED
      BY <1>3, <2>1, <3>1, <3>2
  <2>5. /\ h \in SegType /\ SegOK(h) /\ h.start = s[Len(s)].start /\ h.end = k
        /\ Literal(h, text) /\ Shut(h, text)
    <3>1. CASE l.end < k
      BY <1>6, <1>7, <1>8, <2>1, <3>1
    <3>2. CASE l.end = k
      BY <1>3, <2>1, <2>2, <3>2 DEF Shut, n
    <3> QED
      BY <1>3, <2>1, <3>1, <3>2
  <2> HIDE DEF h
  <2>n. Len(text) \in Nat /\ h.end <= Len(text)
    BY <1>1, <1>2, <2>5 DEF n
  <2>6. Settled(SetLast(s, h), text)
    BY <1>11, <2>5, <2>n, SettledSetLast
  <2>7. /\ Comp(SetLast(s, h), Len(text)) /\ Len(SetLast(s, h)) = Len(s)
        /\ SetLast(s, h)[Len(s)] = h
    BY <1>11, <2>5, <2>n, SetLastFormed
  <2>8. Settled(u, text) /\ Comp(u, Len(text)) /\ Len(u) = Len(s) /\ u[Len(s)] = h
    BY <2>6, <2>7
  <2> HIDE DEF u
  <2>9. u # << >>
    BY <1>1, <1>11, <2>8, LenOf DEF Comp
  <2>10. GetCurrentSegmentLength(u) = k - j
    BY <2>1, <2>5, <2>8, <2>9 DEF GetCurrentSegmentLength, GetCurrentEndPosition,
         GetCurrentStartPosition, Last
  <2> QED
    BY <1>1, <1>3, <1>11, <2>4, <2>5, <2>8, <2>10
<1> QED
  BY <1>10, <1>11 DEF n

\* What is no letter is raw, one more with a raw segment before it.
LEMMA RawSettled ==
  ASSUME Plain, NEW text \in Seq(Chars), NEW s, Comp(s, Len(text)), LastOpen(s),
         GetCurrentEndPosition(s) < Len(text), Settled(s, text),
         text[GetCurrentStartPosition(s) + 1] \notin Letters
  PROVE  LET t == ProceedFallback(ProceedAbc(s, text), text)
         IN  /\ ProceedAbc(s, text) = s
             /\ Settled(t, text)
             /\ t # << >> => Shut(t[Len(t)], text)
<1> DEFINE n == Len(text)
           j == GetCurrentStartPosition(s)
           k == RunEnd(text, j)
           u == Trim(s)
<1>1. /\ n \in Nat /\ s \in Comps /\ Len(s) \in Nat /\ (s # << >> <=> Len(s) > 0)
      /\ j \in Nat /\ GetCurrentEndPosition(s) \in Nat /\ j <= GetCurrentEndPosition(s)
      /\ j < n
      /\ j = (IF s = << >> THEN 0 ELSE s[Len(s)].start)
      /\ GetCurrentEndPosition(s) = (IF s = << >> THEN 0 ELSE s[Len(s)].end)
  BY LenProperties, Positions
<1>2. k \in j..n /\ IsRunEnd(k, text, j)
  BY <1>1, RunEnds
<1>3. ProceedAbc(s, text) = s
  <2>1. ProceedAbc(s, text) = IF j < k THEN AddSegment(s, Segment(j, k, {"abc"})) ELSE s
    BY DEF ProceedAbc, AddRun
  <2>2. ~(j < k)
    <3> HIDE DEF k, j
    <3> SUFFICES ASSUME j < k PROVE FALSE
      OBVIOUS
    <3>1. j + 1 \in (j + 1)..k
      BY <1>1, <1>2
    <3> QED
      BY <1>2, <3>1 DEF IsRunEnd, j
  <2> QED
    BY <2>1, <2>2
<1>4. CASE GetCurrentSegmentLength(s) > 0
  <2>1. ProceedFallback(s, text) = s
    BY <1>4 DEF ProceedFallback
  <2>2. s # << >> => Shut(s[Len(s)], text)
    <3> SUFFICES ASSUME s # << >> PROVE Shut(s[Len(s)], text)
      OBVIOUS
    <3> DEFINE l == s[Len(s)]
    <3>1. Literal(l, text) /\ l.start = j /\ l.start < l.end
      BY <1>1, <1>4 DEF GetCurrentSegmentLength, Settled
    <3>2. j + 1 \in (l.start + 1)..l.end
      BY <1>1, <3>1
    <3> HIDE DEF l
    <3>3. "abc" \notin l.tags
      BY <3>1, <3>2 DEF Literal
    <3>4. Shut(l, text)
      BY <3>3 DEF Shut
    <3> QED
      BY <3>4 DEF l
  <2> QED
    BY <1>3, <2>1, <2>2
<1>5. CASE ~(GetCurrentSegmentLength(s) > 0)
  <2>1. j = GetCurrentEndPosition(s) /\ (s = << >> \/ ~LastFull(s))
    BY <1>1, <1>5 DEF GetCurrentSegmentLength, LastFull
  <2>2. ProceedFallback(s, text) = AddRaw(u, j)
    BY <1>1, <1>5 DEF ProceedFallback
  <2>3. /\ Comp(u, n) /\ LastFull(u) /\ GetCurrentEndPosition(u) = j
        /\ \A i \in 1..Len(u) : u[i] = s[i]
    BY <1>1, <2>1, TrimFormed
  <2>4. Settled(u, text) /\ (u # << >> => Shut(u[Len(u)], text))
    <3>1. /\ Settled(Trim(s), text)
          /\ Trim(s) # << >> /\ ~LastFull(s) => Shut(Trim(s)[Len(Trim(s))], text)
      BY <1>1, SettledTrim
    <3>2. s = << >> => Trim(s) = << >>
      BY DEF Trim
    <3> QED
      BY <2>1, <3>1, <3>2
  <2>5. text[j + 1] \notin Letters
    OBVIOUS
  <2>6. {"raw"} \in SUBSET Tags
    BY DEF Tags
  <2> HIDE DEF u, j, k, n
  <2>7. u \in Comps /\ Len(u) \in Nat /\ (u # << >> <=> Len(u) > 0)
    BY <2>3, LenOf DEF Comp
  <2>8. CASE u # << >> /\ "raw" \in Last(u).tags
    <3> DEFINE i == u[Len(u)].start
               g == Segment(i, j + 1, {"raw"})
    <3>1. AddRaw(u, j) = SetLast(u, g)
      BY <2>8 DEF AddRaw, Last
    <3>2. i \in Nat /\ u[Len(u)].end = j /\ i < j
      <4>1. u[Len(u)] \in SegType /\ u[Len(u)].end = j
        BY <2>3, <2>7, <2>8, LenOf DEF GetCurrentEndPosition, Last
      <4> QED
        BY <2>3, <2>8, <4>1 DEF LastFull, SegType
    <3>3. j + 1 \in Nat /\ i <= j + 1 /\ j + 1 <= Len(text)
      BY <1>1, <3>2 DEF n
    <3>4. Literal(u[Len(u)], text) /\ "raw" \in u[Len(u)].tags
      BY <2>4, <2>7, <2>8 DEF Settled, Last
    <3>5. \A x \in (i + 1)..(j + 1) : text[x] \notin Letters
      <4> SUFFICES ASSUME NEW x \in (i + 1)..(j + 1) PROVE text[x] \notin Letters
        OBVIOUS
      <4>1. CASE x = j + 1
        BY <2>5, <4>1
      <4>2. CASE x \in (i + 1)..j
        BY <3>2, <3>4, <4>2 DEF Literal
      <4> QED
        BY SMTT(30), <1>1, <3>2, <4>1, <4>2
    <3> HIDE DEF i
    <3>6. /\ g \in SegType /\ SegOK(g) /\ g.start = i /\ g.end = j + 1 /\ g.tags = {"raw"}
      BY <2>6, <3>2, <3>3, NewSegment
    <3>7. Literal(g, text)
      BY <3>2, <3>3, <3>5, LiteralNew
    <3> HIDE DEF g
    <3>8. Len(text) \in Nat /\ Comp(u, Len(text)) /\ g.end <= Len(text) /\ g.start = u[Len(u)].start
      BY <1>1, <2>3, <3>3, <3>6 DEF n, i
    <3> DEFINE v == SetLast(u, g)
    <3>9. Settled(v, text)
      BY <2>4, <2>8, <3>6, <3>7, <3>8, SettledSetLast
    <3>10. Len(v) = Len(u) /\ v[Len(u)] = g
      BY <2>8, <3>6, <3>8, SetLastFormed
    <3>11. Shut(g, text)
      BY <3>6 DEF Shut
    <3> QED
      BY <1>3, <2>2, <3>1, <3>9, <3>10, <3>11
  <2>9. CASE ~(u # << >> /\ "raw" \in Last(u).tags)
    <3> DEFINE g == Segment(j, j + 1, {"raw"})
               f == Forward(u)
               v == AddSegment(f, g)
    <3>1. AddRaw(u, j) = v
      BY <2>9 DEF AddRaw
    <3>2. j + 1 \in Nat /\ j + 1 <= Len(text) /\ Len(text) \in Nat /\ j <= j + 1 /\ j < j + 1
      BY <1>1 DEF n
    <3>3. g \in SegType /\ SegOK(g) /\ g.start = j /\ g.end = j + 1 /\ g.tags = {"raw"}
          /\ g.status < kSelected
      BY <1>1, <2>6, <3>2, NewSegment
    <3>4. Literal(g, text)
      <4>1. \A x \in (j + 1)..(j + 1) : text[x] \notin Letters
        BY <1>1, <2>5
      <4> QED
        BY <1>1, <3>2, <4>1, LiteralNew
    <3> HIDE DEF g
    <3>5. Comp(u, Len(text)) /\ g.end <= Len(text) /\ g.start < g.end
          /\ g.start = GetCurrentEndPosition(u)
      BY <2>3, <3>2, <3>3 DEF n
    <3>6. /\ Len(v) = Len(u) + 1 /\ \A i \in 1..Len(u) : v[i] = u[i]
          /\ v[Len(u) + 1] = g
      BY <2>3, <3>2, <3>3, <3>5, PushFormed
    <3>7. Shut(g, text)
      BY <3>3 DEF Shut
    <3> HIDE DEF v
    <3>8. \A i \in 1..Len(v) : Literal(v[i], text)
      <4> SUFFICES ASSUME NEW i \in 1..Len(v) PROVE Literal(v[i], text)
        OBVIOUS
      <4>1. CASE i = Len(u) + 1
        BY <3>4, <3>6, <4>1
      <4>2. CASE i <= Len(u)
        BY <2>4, <2>7, <3>6, <4>2 DEF Settled
      <4> QED
        BY <2>7, <3>6, <4>1, <4>2
    <3>9. \A i \in 1..(Len(v) - 1) : Shut(v[i], text)
      <4> SUFFICES ASSUME NEW i \in 1..Len(u) PROVE Shut(u[i], text)
        BY <2>7, <3>6
      <4>1. CASE i = Len(u)
        BY <2>4, <2>7, <4>1
      <4>2. CASE i < Len(u)
        BY <2>4, <2>7, <4>2 DEF Settled
      <4> QED
        BY <2>7, <4>1, <4>2
    <3>10. Settled(v, text) /\ (v # << >> => Shut(v[Len(v)], text))
      BY <2>7, <3>6, <3>7, <3>8, <3>9 DEF Settled
    <3> QED
      BY <1>3, <2>2, <3>1, <3>10
  <2> QED
    BY <2>8, <2>9
<1> QED
  BY <1>4, <1>5

\* A round leaves letters and the rest apart.
LEMMA RoundSettled ==
  ASSUME Plain, NEW text \in Seq(Chars), NEW s, Comp(s, Len(text)), LastOpen(s),
         GetCurrentEndPosition(s) < Len(text), Settled(s, text),
         NEW on, "ascii_mode" \notin on
  PROVE  Settled(Round(s, text, on), text)
<1> DEFINE t == ProceedAbc(s, text)
           u == ProceedFallback(t, text)
<1>1. /\ Settled(t, text) /\ Settled(u, text)
      /\ u # << >> => Shut(u[Len(u)], text)
  <2>1. CASE text[GetCurrentStartPosition(s) + 1] \in Letters
    <3>1. /\ Settled(t, text) /\ Len(t) \in 1..(Len(s) + 1)
          /\ Shut(t[Len(t)], text) /\ GetCurrentSegmentLength(t) > 0
      BY <2>1, AbcSettled
    <3> HIDE DEF t
    <3>2. u = t
      BY <3>1 DEF ProceedFallback
    <3> QED
      BY <3>1, <3>2
  <2>2. CASE text[GetCurrentStartPosition(s) + 1] \notin Letters
    <3>1. t = s /\ Settled(u, text) /\ (u # << >> => Shut(u[Len(u)], text))
      BY <2>2, RawSettled
    <3> QED
      BY <3>1
  <2> QED
    BY <2>1, <2>2
<1>2. Recognized(s, text, on) = u
  BY <1>1, RecognizedPlain
<1>3. Comp(Recognized(s, text, on), Len(text))
  BY RecognizedFormed
<1>4. Round(s, text, on) = u \/ Round(s, text, on) = Forward(u)
  BY <1>2 DEF Round, Advance
<1>5. Comp(u, Len(text)) /\ Len(text) \in Nat
  BY <1>2, <1>3, LenProperties
<1> HIDE DEF u, t
<1>6. Settled(Forward(u), text)
  BY <1>1, <1>5, SettledForward
<1> QED
  BY <1>1, <1>4, <1>6

\* So do all of them.
LEMMA RoundsSettled ==
  ASSUME Plain, NEW text \in Seq(Chars), NEW s, Comp(s, Len(text)), LastOpen(s),
         Settled(s, text), NEW on, "ascii_mode" \notin on
  PROVE  Settled(Rounds(s, text, on), text)
<1> DEFINE after == AfterRounds(s, text, on)
<1>1. PICK n \in 0..Len(text) :
        /\ Rounds(s, text, on) = after[n]
        /\ HasFinishedSegmentation(after[n], text)
        /\ \A m \in 0..(n - 1) : ~HasFinishedSegmentation(after[m], text)
  BY RoundsEnd
<1>2. Len(text) \in Nat /\ n \in Nat
  BY LenProperties
<1>3. after[0] = s /\ \A m \in Nat : after[m + 1] = Round(after[m], text, on)
  BY AfterRoundsIs
<1> DEFINE bad == {m \in 0..n : ~Settled(after[m], text)}
<1>4. bad = {}
  <2> SUFFICES ASSUME bad # {} PROVE FALSE
    OBVIOUS
  <2>0. bad \in SUBSET Nat
    BY <1>2
  <2> HIDE DEF after
  <2>1. Min(bad) \in bad /\ \A m \in bad : Min(bad) <= m
    <3> HIDE DEF bad
    <3> QED
      BY <2>0, Least
  <2> DEFINE m == Min(bad)
  <2>2. m \in 0..n /\ ~Settled(after[m], text)
    BY <2>1
  <2>3. m # 0
    BY <1>3, <2>2
  <2>a. \A k \in bad : m <= k
    BY <2>1
  <2> HIDE DEF m
  <2>4. m - 1 \in 0..n /\ ~(m <= m - 1) /\ m - 1 \in Nat /\ (m - 1) + 1 = m
        /\ m - 1 \in 0..(n - 1) /\ \A k \in 0..((m - 1) - 1) : k \in 0..(n - 1)
    BY <1>2, <2>2, <2>3
  <2>5. Settled(after[m - 1], text)
    BY <2>a, <2>4
  <2>6. after[m] = Round(after[m - 1], text, on)
    BY <1>3, <2>4
  <2> DEFINE p == m - 1
             u == after[p]
  <2>7. Comp(u, Len(text)) /\ LastOpen(u) /\ ~HasFinishedSegmentation(u, text)
    <3>1. p \in Nat /\ \A k \in 0..(p - 1) : ~HasFinishedSegmentation(after[k], text)
      BY <1>1, <2>4
    <3>2. p \in 0..(n - 1)
      BY <2>4
    <3> HIDE DEF p
    <3> QED
      BY <1>1, <3>1, <3>2, StillRunning DEF after
  <2>8. Settled(u, text)
    BY <2>5
  <2>9. after[m] = Round(u, text, on)
    BY <2>6
  <2> HIDE DEF u
  <2>10. GetCurrentEndPosition(u) < Len(text)
    BY <1>2, <2>7, Positions DEF HasFinishedSegmentation
  <2>11. Settled(Round(u, text, on), text)
    BY <2>7, <2>8, <2>10, RoundSettled
  <2> QED
    BY <2>2, <2>9, <2>11
<1>5. n \in 0..n
  BY <1>2
<1> QED
  BY <1>1, <1>4, <1>5

\* Letters that go on to the end are taken up in one round.
LEMMA RunToTheEnd ==
  ASSUME Plain, NEW text \in Seq(Chars), NEW s, Comp(s, Len(text)), LastOpen(s), s # << >>,
         GetCurrentEndPosition(s) < Len(text), Settled(s, text),
         NEW on, "ascii_mode" \notin on,
         \A x \in (GetCurrentStartPosition(s) + 1)..Len(text) : text[x] \in Letters
  PROVE  Rounds(s, text, on)
           = SetLast(s, Segment(GetCurrentStartPosition(s), Len(text), {"abc"}))
<1> DEFINE n == Len(text)
           j == GetCurrentStartPosition(s)
           k == RunEnd(text, j)
           g == Segment(j, n, {"abc"})
           t == ProceedAbc(s, text)
<1>1. /\ n \in Nat /\ s \in Comps /\ Len(s) \in Nat /\ Len(s) > 0
      /\ j \in Nat /\ GetCurrentEndPosition(s) \in Nat /\ j <= GetCurrentEndPosition(s)
      /\ j < n /\ j = s[Len(s)].start /\ GetCurrentEndPosition(s) = s[Len(s)].end
  BY LenProperties, Positions
<1>2. k \in j..n /\ IsRunEnd(k, text, j)
  BY <1>1, RunEnds
<1>a. \A x \in (j + 1)..n : text[x] \in Letters
  OBVIOUS
<1>3. k = n
  <2> HIDE DEF k, j
  <2> SUFFICES ASSUME k < n PROVE FALSE
    BY <1>1, <1>2
  <2>1. k + 1 \in (j + 1)..n
    BY <1>1, <1>2
  <2> QED
    BY <1>2, <1>a, <2>1 DEF IsRunEnd
<1>4. t = AddSegment(s, g)
  <2>1. t = IF j < k THEN AddSegment(s, Segment(j, k, {"abc"})) ELSE s
    BY DEF ProceedAbc, AddRun
  <2> HIDE DEF t, j, k, n
  <2> QED
    BY <1>1, <1>3, <2>1
<1>5. t = SetLast(s, g)
  <2>1. g.start = j /\ g.end = n
    BY DEF Segment
  <2>2. ~(GetCurrentEndPosition(s) > n) /\ Last(s).end < n
    BY <1>1 DEF Last
  <2> HIDE DEF t, g
  <2> QED
    BY <1>4, <2>1, <2>2 DEF AddSegment
<1>6. text[j + 1] \in Letters
  BY <1>1, <1>a
<1>7. Settled(t, text) /\ GetCurrentSegmentLength(t) > 0
  BY <1>6, AbcSettled
<1>8. Recognized(s, text, on) = ProceedFallback(t, text)
  BY <1>7, RecognizedPlain
<1>9. ProceedFallback(t, text) = t
  BY <1>7 DEF ProceedFallback
<1>10. HasFinishedSegmentation(t, text)
  <2>1. {"abc"} \in SUBSET Tags
    BY DEF Tags
  <2> HIDE DEF t, j, n
  <2>2. g \in SegType /\ SegOK(g) /\ g.start = j /\ g.end = n
    BY <1>1, <2>1, NewSegment
  <2> HIDE DEF g
  <2> DEFINE u == SetLast(s, g)
  <2>3. Comp(u, n) /\ Len(u) = Len(s) /\ u[Len(s)] = g
    BY <1>1, <2>2, SetLastFormed DEF n
  <2> HIDE DEF u
  <2>4. GetCurrentEndPosition(u) = n
    BY <1>1, <2>2, <2>3, Positions
  <2> QED
    BY <1>1, <1>5, <2>4 DEF HasFinishedSegmentation, u, n
<1>11. Round(s, text, on) = t
  BY <1>8, <1>9, <1>10 DEF Round, Advance
<1> DEFINE after == AfterRounds(s, text, on)
<1>12. after[0] = s /\ after[1] = t
  <2>1. after[0] = s /\ after[0 + 1] = Round(after[0], text, on)
    BY AfterRoundsIs
  <2> QED
    BY <1>11, <2>1
<1>13. PICK m \in 0..Len(text) :
         /\ Rounds(s, text, on) = after[m]
         /\ HasFinishedSegmentation(after[m], text)
         /\ \A i \in 0..(m - 1) : ~HasFinishedSegmentation(after[i], text)
  BY RoundsEnd
<1>14. ~HasFinishedSegmentation(s, text)
  BY <1>1 DEF HasFinishedSegmentation
<1> HIDE DEF after, t
<1>15. m = 1
  <2>1. m # 0
    BY <1>12, <1>13, <1>14
  <2>2. ~(m > 1)
    <3> SUFFICES ASSUME m > 1 PROVE FALSE
      OBVIOUS
    <3>1. 1 \in 0..(m - 1)
      BY <1>1
    <3> QED
      BY <1>10, <1>12, <1>13, <3>1
  <2> QED
    BY <1>1, <2>1, <2>2
<1> QED
  BY <1>5, <1>12, <1>13, <1>15

\* What follows the rounds does not disturb that.
LEMMA FinishSettled ==
  ASSUME NEW n \in Nat, NEW s, Comp(s, n), NEW text, Settled(s, text)
  PROVE  Settled(FinishSegmentation(s), text)
<1> DEFINE u == Trim(s)
<1>1. Comp(u, n) /\ LastFull(u)
  BY TrimFormed
<1>2. Settled(u, text)
  BY SettledTrim
<1> HIDE DEF u
<1>3. CASE u # << >> /\ Last(u).status >= kSelected
  <2>1. FinishSegmentation(s) = Forward(u)
    BY <1>3 DEF FinishSegmentation, ForwardIfChosen, u
  <2>2. Shut(u[Len(u)], text)
    <3>1. u[Len(u)] \in SegType
      BY <1>1, <1>3, LenOf DEF Comp
    <3> QED
      BY <1>3, <3>1 DEF Shut, Last, SegType, kSelected
  <2> QED
    BY <1>1, <1>2, <2>1, <2>2, SettledForward
<1>4. CASE ~(u # << >> /\ Last(u).status >= kSelected)
  <2>1. FinishSegmentation(s) = u
    BY <1>4 DEF FinishSegmentation, ForwardIfChosen, u
  <2> QED
    BY <1>2, <2>1
<1> QED
  BY <1>3, <1>4

\* A translated segment is literal.
LEMMA TranslateSettled ==
  ASSUME Plain, NEW text \in Seq(Chars), NEW s, Comp(s, Len(text)), LastOpen(s),
         Settled(s, text), NEW on
  PROVE  Settled(TranslateSegments(s, text, on), text)
<1> DEFINE t == TranslateSegments(s, text, on)
<1>1. /\ Len(t) = Len(s)
      /\ \A i \in 1..Len(s) : /\ t[i].start = s[i].start /\ t[i].end = s[i].end
                              /\ t[i].status >= kSelected <=> s[i].status >= kSelected
  BY TranslatedFormed
<1>2. \A i \in 1..Len(s) : t[i] = Translate(s[i], text, on)
  BY DEF TranslateSegments
<1>3. /\ Len(s) \in Nat /\ \A i \in 1..Len(s) : s[i] \in SegType
  BY LenOf DEF Comp
<1> HIDE DEF t
<1>4. ASSUME NEW i \in 1..Len(s) PROVE Literal(t[i], text) /\ t[i].tags = s[i].tags
  <2> DEFINE g == s[i]
             h == [g EXCEPT !.status = kGuess, !.hasMenu = TRUE,
                            !.menu = MenuFor(g, text, on), !.sel = 0]
  <2>1. Literal(g, text) /\ g \in SegType
    BY <1>3 DEF Settled
  <2>2. CASE g.status >= kGuess \/ IsEmptySegment(g)
    BY <1>2, <2>1, <2>2 DEF Translate
  <2>3. CASE ~(g.status >= kGuess \/ IsEmptySegment(g))
    <3>1. t[i] = h
      BY <1>2, <2>3 DEF Translate
    <3>2. h.start = g.start /\ h.end = g.end /\ h.tags = g.tags /\ h.status = kGuess
          /\ h.menu = MenuFor(g, text, on)
      BY <2>1 DEF SegType
    <3>3. g.tags \subseteq PlainTags
      BY <2>1 DEF Literal, PlainTags
    <3> HIDE DEF h
    <3>4. MenuFor(g, text, on)
            = IF "abc" \in g.tags /\ SubSeq(text, g.start + 1, g.end) \in DOMAIN Lexicon
                THEN [k \in 1..Len(Lexicon[SubSeq(text, g.start + 1, g.end)]) |->
                        g.start + Lexicon[SubSeq(text, g.start + 1, g.end)][k]]
                ELSE << >>
      BY <3>3, PlainMenu
    <3>5. MenuFor(h, text, {})
            = IF "abc" \in h.tags /\ SubSeq(text, h.start + 1, h.end) \in DOMAIN Lexicon
                THEN [k \in 1..Len(Lexicon[SubSeq(text, h.start + 1, h.end)]) |->
                        h.start + Lexicon[SubSeq(text, h.start + 1, h.end)][k]]
                ELSE << >>
      BY <3>2, <3>3, PlainMenu
    <3> DEFINE c == SubSeq(text, g.start + 1, g.end)
               d == SubSeq(text, h.start + 1, h.end)
               x == g.start
               y == h.start
    <3>6. c = d /\ x = y
      BY <3>2
    <3>7. MenuFor(g, text, on) = IF "abc" \in g.tags /\ c \in DOMAIN Lexicon
                THEN [k \in 1..Len(Lexicon[c]) |-> x + Lexicon[c][k]] ELSE << >>
      BY <3>4
    <3>8. MenuFor(h, text, {}) = IF "abc" \in h.tags /\ d \in DOMAIN Lexicon
                THEN [k \in 1..Len(Lexicon[d]) |-> y + Lexicon[d][k]] ELSE << >>
      BY <3>5
    <3> HIDE DEF c, d, x, y
    <3>9. h.menu = MenuFor(h, text, {}) /\ (h.menu # << >> => "abc" \in h.tags)
      BY <3>2, <3>6, <3>7, <3>8
    <3>10. Literal(h, text)
      BY <2>1, <3>2, <3>9 DEF Literal
    <3> QED
      BY <3>1, <3>2, <3>10
  <2> QED
    BY <2>2, <2>3
<1>5. ASSUME NEW i \in 1..(Len(s) - 1) PROVE Shut(t[i], text)
  <2>1. i \in 1..Len(s) /\ Shut(s[i], text)
    BY <1>3 DEF Settled
  <2> DEFINE g == s[i]
             h == t[i]
  <2>2. /\ h.end = g.end /\ h.tags = g.tags /\ g \in SegType
        /\ h.status >= kSelected <=> g.status >= kSelected
    BY <1>1, <1>3, <1>4, <2>1
  <2>3. h.status \in 0..3
    <3>1. h \in SegType
      BY <1>1, <2>1, TranslatedFormed, LenOf DEF Comp, t
    <3> QED
      BY <3>1 DEF SegType
  <2>4. h.status < kSelected => g.status < kSelected
    BY SMTT(30), <2>2, <2>3 DEF SegType, kSelected
  <2>5. Shut(g, text)
    BY <2>1
  <2> HIDE DEF g, h
  <2>6. Shut(h, text)
    BY <2>2, <2>4, <2>5 DEF Shut
  <2> QED
    BY <2>6 DEF h
<1> QED
  BY <1>1, <1>4, <1>5 DEF Settled, t

\* The types of what there is in a context.
Pieces  == [conv : BOOLEAN, from : Nat, to : Nat]
Commits == [input : Seq(Chars), caret : Nat, segs : Comps, text : Seq(Pieces)]
CtxType ==
  [input : Seq(Chars), caret : Nat, segs : Comps, active : Seq(Chars),
   sink : Seq(Commits), opts : SUBSET Read, temp : BOOLEAN]

\* An empty segment comes last and after a chosen one.
Rested(s) == ~LastFull(s) => Len(s) > 1 /\ s[Len(s) - 1].status >= kSelected

\* What holds text has been translated.
Drafted(s) == \A i \in 1..Len(s) : s[i].start < s[i].end => s[i].status >= kGuess

\* One text goes on from the other.
Aligned(old, new) == \A x \in 1..Len(old) : x <= Len(new) => old[x] = new[x]

-----------------------------------------------------------------------------
(* Resetting the composition.                                              *)

\* There is a first difference, or one text ends.
LEMMA DiffExists ==
  ASSUME NEW old \in Seq(Chars), NEW new \in Seq(Chars)
  PROVE  \E d \in 0..Len(new) : IsDiffPos(d, old, new)
<1> DEFINE ends == {p \in 0..Len(new) : p < Len(old) /\ p < Len(new) => old[p + 1] # new[p + 1]}
<1>1. Len(old) \in Nat /\ Len(new) \in Nat
  BY LenProperties
<1>2. ends \in SUBSET Nat /\ Len(new) \in ends
  BY <1>1
<1>3. Min(ends) \in ends /\ \A p \in ends : Min(ends) <= p
  <2> HIDE DEF ends
  <2> QED
    BY <1>2, Least
<1> DEFINE m == Min(ends)
<1>4. m \in 0..Len(new) /\ (m < Len(old) /\ m < Len(new) => old[m + 1] # new[m + 1])
      /\ \A p \in 0..Len(new) : p < m => p < Len(old) /\ p < Len(new) /\ old[p + 1] = new[p + 1]
  <2>1. m \in ends
    BY <1>3
  <2>2. ASSUME NEW p \in 0..Len(new), p < m
        PROVE  p < Len(old) /\ p < Len(new) /\ old[p + 1] = new[p + 1]
    <3>1. p \notin ends
      <4>1. m \in Nat /\ ~(m <= p)
        BY <1>2, <2>1, <2>2
      <4> QED
        BY <1>3, <4>1
    <3> QED
      BY <3>1
  <2> QED
    BY <2>1, <2>2
<1> HIDE DEF m
<1>5. m <= Len(old)
  <2> SUFFICES ASSUME Len(old) < m PROVE FALSE
    BY <1>1, <1>4
  <2>1. Len(old) \in 0..Len(new)
    BY <1>1, <1>4
  <2> QED
    BY <1>1, <1>4, <2>1
<1>6. \A x \in 1..m : old[x] = new[x]
  <2> SUFFICES ASSUME NEW x \in 1..m PROVE old[x] = new[x]
    OBVIOUS
  <2>1. x - 1 \in 0..Len(new) /\ x - 1 < m /\ (x - 1) + 1 = x
    BY <1>1, <1>4
  <2>2. old[(x - 1) + 1] = new[(x - 1) + 1]
    BY <1>4, <2>1
  <2> QED
    BY <2>1, <2>2
<1>7. IsDiffPos(m, old, new)
  BY <1>1, <1>4, <1>5, <1>6 DEF IsDiffPos
<1> QED
  BY <1>4, <1>7

\* Popping from the back ends somewhere.
LEMMA KeptExists ==
  ASSUME NEW s \in Comps, NEW d \in Nat
  PROVE  \E n \in 0..Len(s) : IsKeptCount(n, s, d)
<1> DEFINE left == {n \in 0..Len(s) : \A i \in (n + 1)..Len(s) : s[i].end > d}
<1>1. Len(s) \in Nat /\ \A i \in 1..Len(s) : s[i].end \in Nat
  BY LenOf DEF SegType
<1>2. left \in SUBSET Nat /\ Len(s) \in left
  BY <1>1
<1>3. Min(left) \in left /\ \A n \in left : Min(left) <= n
  <2> HIDE DEF left
  <2> QED
    BY <1>2, Least
<1> DEFINE m == Min(left)
<1>4. m \in 0..Len(s) /\ \A i \in (m + 1)..Len(s) : s[i].end > d
  BY <1>3
<1>5. \A n \in left : m <= n
  BY <1>3
<1> HIDE DEF m
<1>6. m > 0 => s[m].end <= d
  <2> SUFFICES ASSUME m > 0, s[m].end > d PROVE FALSE
    BY <1>1, <1>4
  <2>1. \A i \in ((m - 1) + 1)..Len(s) : s[i].end > d
    <3> SUFFICES ASSUME NEW i \in m..Len(s) PROVE s[i].end > d
      BY <1>4
    <3>1. i = m \/ i \in (m + 1)..Len(s)
      BY <1>1, <1>4
    <3> QED
      BY <1>4, <3>1
  <2>2. m - 1 \in left
    BY <1>1, <1>4, <2>1
  <2>3. m <= m - 1
    <3> HIDE DEF left
    <3> QED
      BY <1>5, <2>2
  <2> QED
    BY <1>1, <1>4, <2>3
<1> QED
  BY <1>4, <1>6 DEF IsKeptCount

\* A reset keeps the composition of the plainest schema settled.
LEMMA DisposeSettled ==
  ASSUME Plain, NEW old \in Seq(Chars), NEW s, Comp(s, Len(old)), LastOpen(s), Rested(s),
         NEW new \in Seq(Chars), Aligned(old, new), Settled(s, old),
         NEW d \in 0..Len(new), IsDiffPos(d, old, new),
         NEW k \in 0..Len(s), IsKeptCount(k, s, d)
  PROVE  Settled(Dispose(s, k), new)
<1>1. /\ Len(old) \in Nat /\ Len(new) \in Nat /\ s \in Comps /\ Len(s) \in Nat
      /\ Formed(s, Len(old)) /\ (s # << >> <=> Len(s) > 0)
      /\ \A i \in 1..Len(s) : s[i] \in SegType /\ SegOK(s[i]) /\ s[i].end <= Len(old)
  BY LenProperties, LenOf DEF Comp, Formed
<1>2. d <= Len(old) /\ d <= Len(new) /\ \A x \in 1..d : old[x] = new[x]
  BY DEF IsDiffPos
<1>3. ASSUME NEW i \in 1..k PROVE s[i].end <= d
  <2>1. s[k].end <= d /\ k \in 1..Len(s) /\ i \in 1..Len(s)
    BY <1>1, <1>3 DEF IsKeptCount
  <2>2. CASE i = k
    BY <2>1, <2>2
  <2>3. CASE i < k
    <3> DEFINE a == s[i].end
               b == s[k].start
               c == s[k].end
    <3>1. a \in Nat /\ b \in Nat /\ c \in Nat /\ a <= b /\ b <= c /\ c <= d
      BY <1>1, <2>1, <2>3 DEF Formed, SegOK, SegType
    <3> HIDE DEF a, b, c
    <3>2. a <= d
      BY <3>1
    <3> QED
      BY <3>2 DEF a
  <2> QED
    BY <2>1, <2>2, <2>3
<1>4. ASSUME NEW i \in 1..k PROVE Literal(s[i], new)
  <2>1. /\ s[i] \in SegType /\ s[i].end <= d /\ Literal(s[i], old) /\ s[i].end \in Nat
        /\ s[i].end <= Len(old)
    BY <1>1, <1>3 DEF Settled, SegType
  <2>2. s[i].end <= Len(new) /\ \A x \in 1..s[i].end : old[x] = new[x]
    BY <1>1, <1>2, <2>1
  <2> QED
    BY <2>1, <2>2, LiteralElsewhere
<1>5. ASSUME NEW i \in 1..(Len(s) - 1) PROVE Shut(s[i], new)
  <2> DEFINE e == s[i].end
  <2>1. /\ e \in Nat /\ e <= Len(old) /\ Shut(s[i], old) /\ i \in 1..Len(s)
        /\ s[i] \in SegType /\ s[i + 1] \in SegType
    BY SMTT(30), <1>1 DEF Settled, SegType
  <2>2. CASE e < Len(old)
    <3>1. e + 1 \in 1..Len(old) /\ (e < Len(new) => e + 1 <= Len(new))
      BY SMTT(60), <1>1, <2>1, <2>2
    <3> QED
      BY <2>1, <2>2, <3>1 DEF Shut, Aligned
  <2>3. CASE e = Len(old)
    <3>1. s[i + 1].start = Len(old) /\ s[i + 1].end <= Len(old)
          /\ s[i + 1].start <= s[i + 1].end
      BY SMTT(30), <1>1, <2>3 DEF Formed, SegOK
    <3>2. i + 1 = Len(s)
      <4> SUFFICES ASSUME i + 1 < Len(s) PROVE FALSE
        BY <1>1
      <4>1. s[i + 1].start < s[i + 1].end
        BY <1>1 DEF Formed
      <4> QED
        BY <1>1, <2>1, <3>1, <4>1 DEF SegType
    <3>3. ~LastFull(s)
      BY SMTT(30), <1>1, <2>1, <3>1, <3>2 DEF LastFull, SegType
    <3>4. s[i].status >= kSelected
      BY <1>1, <3>2, <3>3 DEF Rested
    <3>5. s[i].status \in 0..3
      BY <2>1 DEF SegType
    <3>6. ~(s[i].status < kSelected)
      BY <3>4, <3>5 DEF kSelected
    <3> QED
      BY <3>6 DEF Shut
  <2> QED
    BY <1>1, <2>1, <2>2, <2>3
<1>6. CASE k = Len(s)
  <2>1. Dispose(s, k) = s
    BY <1>1, <1>6 DEF Dispose
  <2> QED
    BY <1>4, <1>5, <1>6, <2>1 DEF Settled
<1>7. CASE k < Len(s)
  <2> DEFINE u == SubSeq(s, 1, k)
  <2>1. /\ Comp(u, Len(old)) /\ Len(u) = k /\ \A i \in 1..k : u[i] = s[i]
    BY <1>1, PrefixFormed
  <2>2. Dispose(s, k) = Forward(u)
    BY <1>7 DEF Dispose
  <2> HIDE DEF u
  <2>3. Settled(u, new)
    <3>1. \A i \in 1..Len(u) : Literal(u[i], new)
      BY <1>4, <2>1
    <3>2. \A i \in 1..(Len(u) - 1) : Shut(u[i], new)
      <4> SUFFICES ASSUME NEW i \in 1..(Len(u) - 1) PROVE Shut(u[i], new)
        OBVIOUS
      <4>1. i \in 1..k /\ i \in 1..(Len(s) - 1)
        BY <1>1, <1>7, <2>1
      <4> QED
        BY <1>5, <2>1, <4>1
    <3> QED
      BY <3>1, <3>2 DEF Settled
  <2>4. u # << >> => Shut(u[Len(u)], new)
    <3>1. u # << >> => k \in 1..k /\ k \in 1..(Len(s) - 1)
      BY <1>1, <1>7, <2>1, LenOf DEF Comp
    <3> QED
      BY <1>5, <2>1, <3>1
  <2> QED
    BY <1>1, <2>1, <2>2, <2>3, <2>4, SettledForward
<1> QED
  BY <1>1, <1>6, <1>7

\* What CommitAccountsForInput says of one commit ...
AccountsFor(commit) ==
  /\ \A i, j \in 1..Len(commit.text) : i < j => commit.text[i].to <= commit.text[j].from
  /\ \A p \in 1..commit.caret :
       InText(commit, p)
       \/ \E i \in Holder(commit, p) :
            \/ IsUnspoken(commit.segs[i])
            \/ /\ i < Len(commit.segs) /\ commit.segs[i].status = kGuess
               /\ TextEnd(commit.segs[i]) < p

\* ... and SelectionIsCommitted.
Speaks(commit) ==
  \A i \in 1..Len(commit.segs) :
    LET seg == commit.segs[i]
    IN  seg.status >= kSelected /\ GetSelectedCandidate(seg) # Nil =>
          \E j \in 1..Len(commit.text) : commit.text[j] = Piece(TRUE, seg.start, seg.end)

\* Everything committed during this key event is as it should be.
Accounted(c) ==
  \A n \in 1..Len(c.sink) : AccountsFor(c.sink[n]) /\ (Plain => Speaks(c.sink[n]))

\* The express editor of the plainest schema never has but letters.
Lettered(c) == Plain /\ AutoCommit => \A x \in 1..Len(c.input) : c.input[x] \in Letters

\* A context that is ready to be composed, as the methods leave it that go
\* on to do so ...
Ready(c) ==
  /\ c \in CtxType /\ c.caret <= Len(c.input)
  /\ Comp(c.segs, Len(c.active)) /\ LastOpen(c.segs)
  /\ Plain => /\ Settled(c.segs, c.active) /\ Rested(c.segs)
              /\ Aligned(c.active, SubSeq(c.input, 1, c.caret))
              /\ "ascii_mode" \notin c.opts
  /\ Lettered(c) /\ Accounted(c)

\* ... and one at rest, as they all find it and leave it.
Rest(c) ==
  /\ c \in CtxType /\ c.caret <= Len(c.input)
  /\ c.active = SubSeq(c.input, 1, c.caret)
  /\ Comp(c.segs, Len(c.active)) /\ LastOpen(c.segs) /\ Rested(c.segs) /\ Drafted(c.segs)
  /\ HasFinishedSegmentation(c.segs, c.active)
  /\ Plain => Settled(c.segs, c.active) /\ "ascii_mode" \notin c.opts
  /\ Lettered(c) /\ Accounted(c)

\* What the engine makes of a composition and a new text.
Recompose(s, old, new, on) ==
  TranslateSegments(CalculateSegmentation(ResetComposition(s, old, new), new, on), new, on)

\* It is a good one of the whole text.
LEMMA Recomposed ==
  ASSUME NEW old \in Seq(Chars), NEW new \in Seq(Chars), NEW s, Comp(s, Len(old)),
         LastOpen(s), NEW on
  PROVE  LET t == Recompose(s, old, new, on)
         IN  /\ Comp(t, Len(new)) /\ LastOpen(t) /\ Rested(t) /\ Drafted(t)
             /\ HasFinishedSegmentation(t, new)
             /\ (/\ Plain /\ Rested(s) /\ Aligned(old, new) /\ Settled(s, old)
                 /\ "ascii_mode" \notin on) => Settled(t, new)
<1> DEFINE n == Len(new)
           d == CHOOSE d \in 0..Len(new) : IsDiffPos(d, old, new)
           k == CHOOSE m \in 0..Len(s) : IsKeptCount(m, s, d)
           plain == /\ Plain /\ Rested(s) /\ Aligned(old, new) /\ Settled(s, old)
                    /\ "ascii_mode" \notin on
           kept == ResetComposition(s, old, new)
           r == Rounds(kept, new, on)
           f == FinishSegmentation(r)
           t == TranslateSegments(f, new, on)
<1>1. n \in Nat /\ s \in Comps
  BY LenProperties DEF Comp
<1>2. d \in 0..Len(new) /\ IsDiffPos(d, old, new)
  BY DiffExists
<1>3. k \in 0..Len(s) /\ IsKeptCount(k, s, d)
  <2> HIDE DEF d
  <2>1. d \in Nat
    BY <1>1, <1>2
  <2> QED
    BY <1>1, <2>1, KeptExists
<1>4. kept = Dispose(s, k)
  BY DEF ResetComposition
<1> HIDE DEF k, d
<1>5. Comp(kept, n) /\ LastOpen(kept)
  <2>1. Comp(Dispose(s, k), n) /\ LastOpen(Dispose(s, k))
    BY <1>2, <1>3, ResetFormed
  <2> QED
    BY <1>4, <2>1
<1>6. plain => Settled(kept, new)
  <2>1. ASSUME plain PROVE Settled(Dispose(s, k), new)
    BY <1>2, <1>3, <2>1, DisposeSettled
  <2> QED
    BY <1>4, <2>1
<1> HIDE DEF kept
<1>7. Comp(r, n) /\ LastOpen(r) /\ HasFinishedSegmentation(r, new)
  BY <1>5, RoundsFormed
<1>8. plain => Settled(r, new)
  BY <1>5, <1>6, RoundsSettled
<1> HIDE DEF r
<1>9. /\ Comp(f, n) /\ LastOpen(f)
      /\ GetCurrentEndPosition(f) = GetCurrentEndPosition(r)
      /\ f # << >> /\ ~LastFull(f) => Len(f) > 1 /\ f[Len(f) - 1].status >= kSelected
  BY <1>1, <1>7, FinishFormed
<1>10. plain => Settled(f, new)
  BY <1>1, <1>7, <1>8, FinishSettled
<1> HIDE DEF f
<1>11. /\ Comp(t, n) /\ LastOpen(t) /\ Len(t) = Len(f)
       /\ \A i \in 1..Len(f) :
            /\ t[i].start = f[i].start /\ t[i].end = f[i].end
            /\ t[i].status >= kSelected <=> f[i].status >= kSelected
            /\ t[i].start < t[i].end => t[i].status >= kGuess
  BY <1>9, TranslatedFormed
<1>12. plain => Settled(t, new)
  BY <1>9, <1>10, TranslateSettled
<1> HIDE DEF t
<1>13. /\ Len(f) \in Nat /\ (f # << >> <=> Len(f) > 0) /\ (t # << >> <=> Len(t) > 0)
  BY <1>9, <1>11, LenOf DEF Comp
<1>14. Rested(t)
  <2> SUFFICES ASSUME ~LastFull(t) PROVE Len(t) > 1 /\ t[Len(t) - 1].status >= kSelected
    BY DEF Rested
  <2>1. f # << >> /\ Len(f) \in 1..Len(f)
    BY <1>11, <1>13 DEF LastFull
  <2>2. ~LastFull(f)
    BY <1>11, <1>13, <2>1 DEF LastFull
  <2>3. Len(f) > 1 /\ f[Len(f) - 1].status >= kSelected
    BY <1>9, <2>1, <2>2
  <2>4. Len(f) - 1 \in 1..Len(f)
    BY <1>13, <2>3
  <2>5. t[Len(f) - 1].status >= kSelected <=> f[Len(f) - 1].status >= kSelected
    BY <1>11, <2>4, Zenon
  <2> QED
    BY <1>11, <2>3, <2>5
<1>15. Drafted(t)
  BY <1>11 DEF Drafted
<1>16. HasFinishedSegmentation(t, new)
  <2>1. GetCurrentEndPosition(t) = GetCurrentEndPosition(f)
    BY <1>11, <1>13 DEF GetCurrentEndPosition, Last
  <2> QED
    BY <1>7, <1>9, <2>1 DEF HasFinishedSegmentation
<1>17. Recompose(s, old, new, on) = t
  BY DEF Recompose, CalculateSegmentation, t, f, r, kept
<1> HIDE DEF n
<1> QED
  BY <1>11, <1>12, <1>14, <1>15, <1>16, <1>17 DEF n

\* The text before the caret.
LEMMA BeforeCaret ==
  ASSUME NEW text \in Seq(Chars), NEW k \in 0..Len(text)
  PROVE  /\ SubSeq(text, 1, k) \in Seq(Chars) /\ Len(SubSeq(text, 1, k)) = k
         /\ \A x \in 1..k : SubSeq(text, 1, k)[x] = text[x]
<1>1. Len(text) \in Nat /\ \A x \in 1..k : text[x] \in Chars
  BY LenProperties, ElementOfSeq
<1> QED
  BY <1>1, SubSeqProperties

\* Composing brings a context to rest; it changes the composition only.
LEMMA ComposeRest ==
  ASSUME NEW c, Ready(c)
  PROVE  /\ Rest(Compose(c))
         /\ Compose(c).input = c.input /\ Compose(c).caret = c.caret
         /\ Compose(c).sink = c.sink
         /\ Compose(c).segs
              = Recompose(c.segs, c.active, SubSeq(c.input, 1, c.caret), c.opts)
<1> DEFINE new == SubSeq(c.input, 1, c.caret)
           t == Recompose(c.segs, c.active, new, c.opts)
           d == [c EXCEPT !.active = new, !.segs = t]
           e == Compose(c)
<1>1. /\ c \in CtxType /\ c.input \in Seq(Chars) /\ c.caret \in 0..Len(c.input)
      /\ c.active \in Seq(Chars) /\ c.opts \in SUBSET Read /\ c.temp \in BOOLEAN
      /\ Comp(c.segs, Len(c.active)) /\ LastOpen(c.segs)
  BY LenProperties DEF Ready, CtxType
<1>2. new \in Seq(Chars) /\ Len(new) = c.caret
  BY <1>1, BeforeCaret
<1>3. /\ Comp(t, Len(new)) /\ LastOpen(t) /\ Rested(t) /\ Drafted(t)
      /\ HasFinishedSegmentation(t, new)
      /\ Plain => Settled(t, new) /\ "ascii_mode" \notin c.opts
  <2> HIDE DEF new
  <2>1. Plain => /\ Rested(c.segs) /\ Aligned(c.active, new) /\ Settled(c.segs, c.active)
                 /\ "ascii_mode" \notin c.opts
    BY DEF Ready, new
  <2> QED
    BY <1>1, <1>2, <2>1, Recomposed
<1>4. e = EndTemporary(d)
  BY DEF Compose, Recompose
<1> HIDE DEF t, new
<1>5. t \in Comps
  BY <1>3 DEF Comp
<1>6. /\ d \in CtxType /\ d.input = c.input /\ d.caret = c.caret /\ d.sink = c.sink
      /\ d.segs = t /\ d.active = new /\ d.opts = c.opts
  BY <1>1, <1>2, <1>5 DEF CtxType
<1> HIDE DEF d
<1>7. /\ e \in CtxType /\ e.input = d.input /\ e.caret = d.caret /\ e.sink = d.sink
      /\ e.segs = d.segs /\ e.active = d.active /\ e.opts \subseteq d.opts
  <2>1. CASE e = d
    BY <1>6, <2>1
  <2>2. CASE e = [d EXCEPT !.temp = FALSE, !.opts = @ \ {"ascii_mode"}]
    BY <1>6, <2>2 DEF CtxType
  <2> QED
    BY <1>4, <2>1, <2>2 DEF EndTemporary
<1> HIDE DEF e
<1>8. Lettered(e) /\ Accounted(e)
  BY <1>6, <1>7 DEF Ready, Lettered, Accounted
<1>9. Rest(e)
  BY <1>1, <1>2, <1>3, <1>6, <1>7, <1>8 DEF Rest, new
<1> QED
  BY <1>6, <1>7, <1>9 DEF e, t, new

-----------------------------------------------------------------------------
(* Editing the input.                                                      *)

\* What rest says of a context's type.
LEMMA RestType ==
  ASSUME NEW c, Rest(c)
  PROVE  /\ c \in CtxType /\ c.input \in Seq(Chars) /\ c.caret \in 0..Len(c.input)
         /\ c.active \in Seq(Chars) /\ c.opts \in SUBSET Read /\ c.temp \in BOOLEAN
         /\ c.sink \in Seq(Commits) /\ Len(c.input) \in Nat /\ Len(c.active) = c.caret
         /\ \A x \in 1..c.caret : c.active[x] = c.input[x]
         /\ \A x \in 1..Len(c.input) : c.input[x] \in Chars
<1>1. /\ c \in CtxType /\ c.input \in Seq(Chars) /\ c.caret \in Nat /\ c.caret <= Len(c.input)
      /\ c.active \in Seq(Chars) /\ c.opts \in SUBSET Read /\ c.temp \in BOOLEAN
      /\ c.sink \in Seq(Commits) /\ c.active = SubSeq(c.input, 1, c.caret)
  BY DEF Rest, CtxType
<1>2. Len(c.input) \in Nat /\ c.caret \in 0..Len(c.input)
  BY <1>1, LenProperties
<1>3. /\ \A x \in 1..Len(c.input) : c.input[x] \in Chars
      /\ Len(c.active) = c.caret /\ \A x \in 1..c.caret : c.active[x] = c.input[x]
  BY <1>1, <1>2, BeforeCaret, ElementOfSeq
<1> QED
  BY <1>1, <1>2, <1>3

\* An edit that leaves the composition to be reset: where the old and the new
\* text before the caret both go on, they are the same.
LEMMA EditReady ==
  ASSUME NEW c, Rest(c), NEW d \in CtxType,
         d.segs = c.segs, d.active = c.active, d.opts = c.opts, d.sink = c.sink,
         d.caret <= Len(d.input), Lettered(d),
         \A x \in 1..c.caret : x <= d.caret => d.input[x] = c.input[x]
  PROVE  Ready(d)
<1>1. /\ Len(c.active) = c.caret /\ \A x \in 1..c.caret : c.active[x] = c.input[x]
      /\ c.caret \in Nat
  BY RestType
<1>2. d.input \in Seq(Chars) /\ d.caret \in Nat /\ Len(d.input) \in Nat
  BY LenProperties DEF CtxType
<1>3. Aligned(d.active, SubSeq(d.input, 1, d.caret))
  <2>1. /\ Len(SubSeq(d.input, 1, d.caret)) = d.caret
        /\ \A x \in 1..d.caret : SubSeq(d.input, 1, d.caret)[x] = d.input[x]
    BY <1>2, BeforeCaret
  <2> QED
    BY <1>1, <1>2, <2>1 DEF Aligned
<1>4. Accounted(d)
  BY DEF Rest, Accounted
<1> QED
  BY <1>3, <1>4 DEF Rest, Ready

\* Two texts joined.
LEMMA Joined ==
  ASSUME NEW s \in Seq(Chars), NEW t \in Seq(Chars)
  PROVE  /\ s \o t \in Seq(Chars) /\ Len(s \o t) = Len(s) + Len(t)
         /\ Len(s) \in Nat /\ Len(t) \in Nat
         /\ \A x \in 1..Len(s) : (s \o t)[x] = s[x]
         /\ \A x \in (Len(s) + 1)..(Len(s) + Len(t)) : (s \o t)[x] = t[x - Len(s)]
BY ConcatProperties, LenProperties

\* The rest of a text.
LEMMA AfterPosition ==
  ASSUME NEW text \in Seq(Chars), NEW k \in 0..Len(text)
  PROVE  /\ SubSeq(text, k + 1, Len(text)) \in Seq(Chars)
         /\ Len(SubSeq(text, k + 1, Len(text))) = Len(text) - k
         /\ \A x \in 1..(Len(text) - k) : SubSeq(text, k + 1, Len(text))[x] = text[x + k]
<1>1. Len(text) \in Nat /\ \A x \in 1..Len(text) : text[x] \in Chars
  BY LenProperties, ElementOfSeq
<1> QED
  BY <1>1, SubSeqProperties

\* Typing a character.
LEMMA PushRest ==
  ASSUME NEW c, Rest(c), NEW ch \in Chars, Plain /\ AutoCommit => ch \in Letters
  PROVE  LET e == PushInput(c, ch)
         IN  /\ Rest(e) /\ e.caret = c.caret + 1 /\ Len(e.input) = Len(c.input) + 1
             /\ e.sink = c.sink
             /\ e.segs = Recompose(c.segs, c.active, SubSeq(e.input, 1, e.caret), c.opts)
             /\ \A x \in 1..c.caret : e.input[x] = c.input[x]
             /\ e.input[c.caret + 1] = ch
<1>1. /\ c \in CtxType /\ c.input \in Seq(Chars) /\ c.caret \in 0..Len(c.input)
      /\ Len(c.input) \in Nat /\ \A x \in 1..Len(c.input) : c.input[x] \in Chars
  BY RestType
<1> DEFINE a == SubSeq(c.input, 1, c.caret)
           b == SubSeq(c.input, c.caret + 1, Len(c.input))
           one == << ch >>
           m == a \o one
           t == m \o b
           k == c.caret + Len(one)
           d == [c EXCEPT !.caret = k, !.input = t]
<1>2. /\ a \in Seq(Chars) /\ Len(a) = c.caret /\ \A x \in 1..c.caret : a[x] = c.input[x]
      /\ b \in Seq(Chars) /\ Len(b) = Len(c.input) - c.caret
      /\ \A x \in 1..(Len(c.input) - c.caret) : b[x] = c.input[x + c.caret]
  BY <1>1, BeforeCaret, AfterPosition
<1>3. one \in Seq(Chars) /\ Len(one) = 1 /\ one[1] = ch
  OBVIOUS
<1>4. PushInput(c, ch) = Compose(d)
  BY DEF PushInput, PushInputString
<1> HIDE DEF a, b, one
<1>5. /\ m \in Seq(Chars) /\ Len(m) = c.caret + 1 /\ \A x \in 1..c.caret : m[x] = c.input[x]
      /\ m[c.caret + 1] = ch
  <2>1. /\ m \in Seq(Chars) /\ Len(m) = Len(a) + Len(one)
        /\ \A x \in 1..Len(a) : m[x] = a[x]
        /\ \A x \in (Len(a) + 1)..(Len(a) + Len(one)) : m[x] = one[x - Len(a)]
    <3> HIDE DEF m
    <3>1. m = a \o one
      BY DEF m
    <3> QED
      BY ZenonT(30), <1>2, <1>3, <3>1, Joined
  <2> HIDE DEF m
  <2>2. m[c.caret + 1] = one[c.caret + 1 - Len(a)]
    BY <1>1, <1>2, <1>3, <2>1
  <2>3. c.caret + 1 - Len(a) = 1 /\ Len(m) = c.caret + 1
    BY <1>1, <1>2, <1>3, <2>1
  <2>4. \A x \in 1..c.caret : m[x] = c.input[x]
    BY <1>1, <1>2, <2>1
  <2>5. m[c.caret + 1] = ch
    BY <1>3, <2>2, <2>3
  <2> QED
    BY <2>1, <2>3, <2>4, <2>5
<1> HIDE DEF m
<1>6. /\ t \in Seq(Chars) /\ Len(t) = Len(c.input) + 1
      /\ \A x \in 1..(c.caret + 1) : t[x] = m[x]
      /\ \A x \in (c.caret + 2)..Len(t) : t[x] = b[x - (c.caret + 1)]
  <2>1. /\ t \in Seq(Chars) /\ Len(t) = Len(m) + Len(b)
        /\ \A x \in 1..Len(m) : t[x] = m[x]
        /\ \A x \in (Len(m) + 1)..(Len(m) + Len(b)) : t[x] = b[x - Len(m)]
    <3> HIDE DEF t
    <3>1. t = m \o b
      BY DEF t
    <3> QED
      BY ZenonT(30), <1>2, <1>5, <3>1, Joined
  <2> HIDE DEF t
  <2>2. /\ Len(m) = c.caret + 1 /\ Len(t) = Len(c.input) + 1
        /\ Len(m) + Len(b) = Len(t) /\ Len(m) + 1 = c.caret + 2
    <3>1. Len(m) = c.caret + 1
      BY <1>5
    <3>2. Len(b) = Len(c.input) - c.caret
      BY <1>2
    <3>3. Len(t) = Len(m) + Len(b)
      BY <2>1
    <3>4. c.caret \in Nat /\ Len(c.input) \in Nat
      BY <1>1
    <3> QED
      BY SMTT(30), <3>1, <3>2, <3>3, <3>4
  <2> QED
    BY <2>1, <2>2
<1>13. k = c.caret + 1 /\ k \in Nat
  BY <1>1, <1>3
<1> HIDE DEF t, k
<1>7. /\ d \in CtxType /\ d.input = t /\ d.caret = c.caret + 1 /\ d.segs = c.segs
      /\ d.active = c.active /\ d.opts = c.opts /\ d.sink = c.sink
  BY <1>1, <1>6, <1>13 DEF CtxType
<1> HIDE DEF d
<1>8. Lettered(d)
  <2> SUFFICES ASSUME Plain, AutoCommit, NEW x \in 1..Len(d.input) PROVE d.input[x] \in Letters
    BY DEF Lettered
  <2>1. \A y \in 1..Len(c.input) : c.input[y] \in Letters
    BY DEF Rest, Lettered
  <2>2. CASE x \in 1..(c.caret + 1)
    <3>1. x \in 1..c.caret \/ x = c.caret + 1
      BY <1>1, <2>2
    <3>2. CASE x \in 1..c.caret
      <4>1. x \in 1..Len(c.input) /\ t[x] = m[x] /\ m[x] = c.input[x]
        BY SMTT(30), <1>1, <1>5, <1>6, <2>2, <3>2
      <4> QED
        BY <1>7, <2>1, <4>1
    <3>3. CASE x = c.caret + 1
      BY <1>5, <1>6, <1>7, <2>2, <3>3
    <3> QED
      BY <3>1, <3>2, <3>3
  <2>3. CASE x \in (c.caret + 2)..Len(t)
    <3>1. x - (c.caret + 1) \in 1..(Len(c.input) - c.caret)
      BY SMTT(30), <1>1, <1>6, <2>3
    <3>2. t[x] = c.input[x - (c.caret + 1) + c.caret]
      BY <1>2, <1>6, <2>3, <3>1
    <3>3. x - (c.caret + 1) + c.caret \in 1..Len(c.input)
      BY <1>1, <3>1
    <3> QED
      BY <1>7, <2>1, <3>2, <3>3
  <2> QED
    BY <1>1, <1>6, <1>7, <2>2, <2>3
<1>9. \A x \in 1..c.caret : d.input[x] = c.input[x]
  BY <1>1, <1>5, <1>6, <1>7
<1>10. Ready(d)
  BY <1>1, <1>6, <1>7, <1>8, <1>9, EditReady
<1>11. /\ Rest(Compose(d)) /\ Compose(d).input = d.input /\ Compose(d).caret = d.caret
       /\ Compose(d).sink = d.sink
       /\ Compose(d).segs = Recompose(d.segs, d.active, SubSeq(d.input, 1, d.caret), d.opts)
  BY <1>10, ComposeRest
<1>12. d.input[c.caret + 1] = ch
  BY <1>1, <1>5, <1>6, <1>7
<1> QED
  BY <1>4, <1>6, <1>7, <1>9, <1>11, <1>12

\* Erasing.
LEMMA ErasedText ==
  ASSUME NEW text \in Seq(Chars), NEW i \in Nat, NEW j \in Nat, i + j <= Len(text)
  PROVE  /\ Erased(text, i, j) \in Seq(Chars) /\ Len(Erased(text, i, j)) = Len(text) - j
         /\ \A x \in 1..i : Erased(text, i, j)[x] = text[x]
         /\ \A x \in (i + 1)..(Len(text) - j) : Erased(text, i, j)[x] = text[x + j]
<1> DEFINE n == Len(text)
           k == i + j
           a == SubSeq(text, 1, i)
           b == SubSeq(text, k + 1, n)
<1>1. n \in Nat /\ i \in 0..n /\ k \in 0..n
  BY LenProperties
<1>2. /\ a \in Seq(Chars) /\ Len(a) = i /\ \A x \in 1..i : a[x] = text[x]
  BY <1>1, BeforeCaret
<1>3. b \in Seq(Chars) /\ Len(b) = n - k /\ \A x \in 1..(n - k) : b[x] = text[x + k]
  BY <1>1, AfterPosition
<1>4. Erased(text, i, j) = a \o b
  BY DEF Erased
<1> HIDE DEF a, b, n
<1>5. /\ a \o b \in Seq(Chars) /\ Len(a \o b) = i + (n - k)
      /\ \A x \in 1..i : (a \o b)[x] = text[x]
      /\ \A x \in (i + 1)..(i + (n - k)) : (a \o b)[x] = b[x - i]
  <2>1. /\ a \o b \in Seq(Chars) /\ Len(a \o b) = Len(a) + Len(b)
        /\ \A x \in 1..Len(a) : (a \o b)[x] = a[x]
        /\ \A x \in (Len(a) + 1)..(Len(a) + Len(b)) : (a \o b)[x] = b[x - Len(a)]
    BY <1>2, <1>3, Joined
  <2> QED
    BY <1>2, <1>3, <2>1
<1>6. i + (n - k) = n - j
  BY <1>1
<1>7. \A x \in (i + 1)..(n - j) : (a \o b)[x] = text[x + j]
  <2> SUFFICES ASSUME NEW x \in (i + 1)..(n - j) PROVE (a \o b)[x] = text[x + j]
    OBVIOUS
  <2>1. x - i \in 1..(n - k) /\ (x - i) + k = x + j
    BY <1>1
  <2> QED
    BY <1>3, <1>5, <1>6, <2>1
<1> QED
  BY <1>4, <1>5, <1>6, <1>7 DEF n

\* An edit that erases.
LEMMA EraseRest ==
  ASSUME NEW c, Rest(c), NEW i \in Nat, NEW j \in Nat, i + j <= Len(c.input),
         i <= c.caret, NEW d \in CtxType, d.input = Erased(c.input, i, j), d.caret = i,
         d.segs = c.segs, d.active = c.active, d.opts = c.opts, d.sink = c.sink
  PROVE  Rest(Compose(d)) /\ Compose(d).sink = c.sink /\ Compose(d).caret = i
<1>1. /\ c.input \in Seq(Chars) /\ c.caret \in 0..Len(c.input) /\ Len(c.input) \in Nat
  BY RestType
<1>2. /\ Len(d.input) = Len(c.input) - j
      /\ \A x \in 1..i : d.input[x] = c.input[x]
      /\ \A x \in (i + 1)..(Len(c.input) - j) : d.input[x] = c.input[x + j]
  <2> DEFINE t == c.input
             u == Erased(t, i, j)
  <2>1. t \in Seq(Chars) /\ i + j <= Len(t)
    BY <1>1
  <2> HIDE DEF t
  <2>2. /\ Len(u) = Len(t) - j
        /\ \A x \in 1..i : u[x] = t[x]
        /\ \A x \in (i + 1)..(Len(t) - j) : u[x] = t[x + j]
    BY <2>1, ErasedText
  <2>3. d.input = u
    BY DEF t
  <2> QED
    BY <2>2, <2>3 DEF t
<1>3. Lettered(d)
  <2> SUFFICES ASSUME Plain, AutoCommit, NEW x \in 1..Len(d.input) PROVE d.input[x] \in Letters
    BY DEF Lettered
  <2>1. \A y \in 1..Len(c.input) : c.input[y] \in Letters
    BY DEF Rest, Lettered
  <2>2. CASE x \in 1..i
    <3>1. x \in 1..Len(c.input)
      BY <1>1, <2>2
    <3> QED
      BY <1>2, <2>1, <2>2, <3>1
  <2>3. CASE x \in (i + 1)..(Len(c.input) - j)
    <3>1. x + j \in 1..Len(c.input)
      BY <1>1, <2>3
    <3> QED
      BY <1>2, <2>1, <2>3, <3>1
  <2> QED
    BY <1>1, <1>2, <2>2, <2>3
<1>4. d.caret <= Len(d.input)
  BY <1>1, <1>2
<1>5. \A x \in 1..c.caret : x <= d.caret => d.input[x] = c.input[x]
  BY <1>1, <1>2
<1>6. Ready(d)
  BY <1>3, <1>4, <1>5, EditReady
<1> QED
  BY <1>6, ComposeRest

\* Backwards, ...
LEMMA PopRest ==
  ASSUME NEW c, Rest(c)
  PROVE  /\ Rest(PopInput(c, 1)) /\ PopInput(c, 1).sink = c.sink
         /\ PopInput(c, 1).caret = IF c.caret = 0 THEN 0 ELSE c.caret - 1
<1>1. /\ c \in CtxType /\ c.input \in Seq(Chars) /\ c.caret \in 0..Len(c.input)
      /\ Len(c.input) \in Nat
  BY RestType
<1>2. CASE c.caret < 1
  <2>1. c.caret = 0 /\ PopInput(c, 1) = c
    BY <1>1, <1>2 DEF PopInput
  <2> QED
    BY <2>1
<1>3. CASE ~(c.caret < 1)
  <2> DEFINE i == c.caret - 1
             t == Erased(c.input, i, 1)
             d == [c EXCEPT !.caret = i, !.input = t]
  <2>1. i \in Nat /\ i + 1 <= Len(c.input) /\ i <= c.caret
    BY <1>1, <1>3
  <2>2. PopInput(c, 1) = Compose(d)
    BY <1>3 DEF PopInput
  <2> HIDE DEF i
  <2>3. t \in Seq(Chars)
    BY <1>1, <2>1, ErasedText
  <2> HIDE DEF t
  <2>4. /\ d \in CtxType /\ d.input = t /\ d.caret = i /\ d.segs = c.segs
        /\ d.active = c.active /\ d.opts = c.opts /\ d.sink = c.sink
    BY <1>1, <2>1, <2>3 DEF CtxType
  <2> HIDE DEF d
  <2>5. d.input = Erased(c.input, i, 1)
    BY <2>4 DEF t
  <2>6. i = c.caret - 1 /\ c.caret # 0
    BY <1>3 DEF i
  <2>7. Rest(Compose(d)) /\ Compose(d).sink = c.sink /\ Compose(d).caret = i
    BY <2>1, <2>4, <2>5, EraseRest
  <2> QED
    BY <2>2, <2>6, <2>7
<1> QED
  BY <1>2, <1>3

\* ... forwards, ...
LEMMA DeleteRest ==
  ASSUME NEW c, Rest(c)
  PROVE  Rest(DeleteInput(c, 1)) /\ DeleteInput(c, 1).sink = c.sink
<1>1. /\ c \in CtxType /\ c.input \in Seq(Chars) /\ c.caret \in 0..Len(c.input)
      /\ Len(c.input) \in Nat
  BY RestType
<1>2. CASE c.caret + 1 > Len(c.input)
  BY <1>2 DEF DeleteInput
<1>3. CASE ~(c.caret + 1 > Len(c.input))
  <2> DEFINE i == c.caret
             t == Erased(c.input, i, 1)
             d == [c EXCEPT !.input = t]
  <2>1. i \in Nat /\ i + 1 <= Len(c.input) /\ i <= c.caret
    BY <1>1, <1>3
  <2>2. DeleteInput(c, 1) = Compose(d)
    BY <1>3 DEF DeleteInput
  <2>3. t \in Seq(Chars)
    BY <1>1, <2>1, ErasedText
  <2> HIDE DEF t
  <2>4. /\ d \in CtxType /\ d.input = t /\ d.caret = i /\ d.segs = c.segs
        /\ d.active = c.active /\ d.opts = c.opts /\ d.sink = c.sink
    BY <1>1, <2>1, <2>3 DEF CtxType
  <2> HIDE DEF d
  <2>5. d.input = Erased(c.input, i, 1)
    BY <2>4 DEF t
  <2> HIDE DEF i
  <2> QED
    BY <2>1, <2>2, <2>4, <2>5, EraseRest
<1> QED
  BY <1>2, <1>3

\* ... or all that follows a position.
LEMMA CutRest ==
  ASSUME NEW c, Rest(c), NEW k \in 0..c.caret
  PROVE  Rest(SetInput(c, SubSeq(c.input, 1, k)))
         /\ SetInput(c, SubSeq(c.input, 1, k)).sink = c.sink
<1>1. /\ c \in CtxType /\ c.input \in Seq(Chars) /\ c.caret \in 0..Len(c.input)
      /\ Len(c.input) \in Nat
  BY RestType
<1> DEFINE t == SubSeq(c.input, 1, k)
           m == Len(t)
           d == [c EXCEPT !.input = t, !.caret = m]
<1>2. k \in 0..Len(c.input)
  BY <1>1
<1>3. t \in Seq(Chars) /\ Len(t) = k /\ \A x \in 1..k : t[x] = c.input[x]
  BY <1>1, <1>2, BeforeCaret
<1>4. SetInput(c, t) = Compose(d)
  BY DEF SetInput
<1>10. m = k /\ m \in Nat
  BY <1>2, <1>3
<1> HIDE DEF t, m
<1>5. /\ d \in CtxType /\ d.input = t /\ d.caret = k /\ d.segs = c.segs
      /\ d.active = c.active /\ d.opts = c.opts /\ d.sink = c.sink
  BY <1>1, <1>3, <1>10 DEF CtxType
<1> HIDE DEF d
<1>6. Lettered(d)
  <2> SUFFICES ASSUME Plain, AutoCommit, NEW x \in 1..Len(d.input) PROVE d.input[x] \in Letters
    BY DEF Lettered
  <2>1. \A y \in 1..Len(c.input) : c.input[y] \in Letters
    BY DEF Rest, Lettered
  <2>2. x \in 1..k /\ x \in 1..Len(c.input)
    BY <1>1, <1>2, <1>3, <1>5
  <2> QED
    BY <1>3, <1>5, <2>1, <2>2
<1>7. \A x \in 1..c.caret : x <= d.caret => d.input[x] = c.input[x]
  BY <1>1, <1>3, <1>5
<1>8. d.caret <= Len(d.input)
  BY <1>3, <1>5
<1>9. Ready(d)
  BY <1>5, <1>6, <1>7, <1>8, EditReady
<1> QED
  BY <1>4, <1>5, <1>9, ComposeRest DEF t

\* Moving the caret.
LEMMA CaretRest ==
  ASSUME NEW c, Rest(c), NEW pos \in Nat
  PROVE  Rest(SetCaretPos(c, pos)) /\ SetCaretPos(c, pos).sink = c.sink
<1>1. /\ c \in CtxType /\ c.input \in Seq(Chars) /\ c.caret \in 0..Len(c.input)
      /\ Len(c.input) \in Nat
  BY RestType
<1> DEFINE k == IF pos > Len(c.input) THEN Len(c.input) ELSE pos
           d == [c EXCEPT !.caret = k]
<1>2. k \in 0..Len(c.input)
  BY <1>1
<1>3. SetCaretPos(c, pos) = Compose(d)
  BY DEF SetCaretPos
<1> HIDE DEF k
<1>7. k \in Nat
  BY <1>1, <1>2
<1>4. /\ d \in CtxType /\ d.input = c.input /\ d.caret = k /\ d.segs = c.segs
      /\ d.active = c.active /\ d.opts = c.opts /\ d.sink = c.sink
  BY <1>1, <1>7 DEF CtxType
<1> HIDE DEF d
<1>5. Lettered(d) /\ d.caret <= Len(d.input)
  BY <1>1, <1>2, <1>4 DEF Rest, Lettered
<1>6. Ready(d)
  BY <1>4, <1>5, EditReady
<1> QED
  BY <1>3, <1>4, <1>6, ComposeRest

\* Clearing, from any context.
LEMMA ClearRest ==
  ASSUME NEW c \in CtxType, Accounted(c), Plain => "ascii_mode" \notin c.opts
  PROVE  Rest(Clear(c)) /\ Clear(c).input = << >> /\ Clear(c).sink = c.sink
<1> DEFINE none == << >>
           d == [c EXCEPT !.input = none, !.caret = 0, !.segs = none]
<1>1. none \in Seq(Chars) /\ none \in Comps /\ Len(none) = 0
  BY DEF Comps
<1>2. Clear(c) = Compose(d)
  BY DEF Clear
<1>3. none = << >>
  OBVIOUS
<1> HIDE DEF none
<1>4. /\ d \in CtxType /\ d.input = none /\ d.caret = 0 /\ d.segs = none
      /\ d.active = c.active /\ d.opts = c.opts /\ d.sink = c.sink
  BY <1>1 DEF CtxType
<1> HIDE DEF d
<1>5. /\ Comp(d.segs, Len(d.active)) /\ LastOpen(d.segs) /\ Rested(d.segs)
      /\ Settled(d.segs, d.active)
  <2>1. Formed(none, Len(d.active))
    BY <1>1 DEF Formed
  <2> QED
    BY <1>1, <1>3, <1>4, <2>1 DEF Comp, LastOpen, LastFull, Rested, Settled
<1>6. Aligned(d.active, SubSeq(d.input, 1, d.caret))
  <2>1. 0 \in 0..Len(none)
    BY <1>1
  <2>2. Len(SubSeq(none, 1, 0)) = 0
    BY <1>1, <2>1, BeforeCaret
  <2>3. d.active \in Seq(Chars) /\ Len(d.active) \in Nat
    BY <1>4, LenProperties DEF CtxType
  <2>4. Len(SubSeq(d.input, 1, d.caret)) = 0
    BY <1>4, <2>2
  <2> DEFINE e == SubSeq(d.input, 1, d.caret)
  <2>5. Len(e) = 0
    BY <2>4
  <2> HIDE DEF e
  <2>6. Aligned(d.active, e)
    BY <2>3, <2>5 DEF Aligned
  <2> QED
    BY <2>6 DEF e
<1>7. Lettered(d) /\ Accounted(d)
  BY <1>1, <1>4 DEF Lettered, Accounted
<1>8. Ready(d)
  BY <1>1, <1>4, <1>5, <1>6, <1>7 DEF Ready
<1> QED
  BY <1>2, <1>3, <1>4, <1>8, ComposeRest

-----------------------------------------------------------------------------
(* What is committed.                                                      *)

\* A segment as its text is committed: up to its end, if it is no guess.
Utters(g) ==
  /\ TextEnd(g) \in Nat /\ g.start <= TextEnd(g) /\ TextEnd(g) <= g.end
  /\ g.status # kGuess => TextEnd(g) = g.end

\* A composition as it is committed: at rest, or with the last one chosen.
Spoken(s, n) ==
  /\ s \in Comps
  /\ \A i \in 1..Len(s) : Utters(s[i]) /\ s[i].end <= n
  /\ \A i \in 1..(Len(s) - 1) : s[i].end = s[i + 1].start
  /\ \A i, j \in 1..Len(s) : i < j => s[i].end <= s[j].start
  /\ Len(s) > 0 => s[1].start = 0

\* Nothing is left out right before a selected candidate.
Distinct(s) ==
  \A i \in 1..(Len(s) - 1) :
    s[i + 1].status >= kSelected /\ GetSelectedCandidate(s[i + 1]) # Nil
      => TextEnd(s[i]) = s[i].end

\* A segment at rest.
LEMMA Uttering ==
  ASSUME NEW g \in SegType, SegOK(g), g.start < g.end => g.status >= kGuess
  PROVE  Utters(g)
<1>1. g.start \in Nat /\ g.end \in Nat /\ g.status \in 0..3 /\ g.sel \in Nat
      /\ g.menu \in Seq(Nat) /\ Len(g.menu) \in Nat
  BY LenProperties DEF SegType
<1>2. g.start <= g.end
  BY DEF SegOK
<1>3. CASE GetSelectedCandidate(g) = Nil
  BY <1>1, <1>2, <1>3 DEF Utters, TextEnd
<1>4. CASE GetSelectedCandidate(g) # Nil
  <2> DEFINE m == GetSelectedCandidate(g)
  <2>1. g.sel < Len(g.menu) /\ m = g.menu[g.sel + 1]
    BY <1>4 DEF GetSelectedCandidate, GetCandidateAt
  <2>2. g.sel + 1 \in 1..Len(g.menu) /\ g.menu # << >>
    BY <1>1, <2>1
  <2>3. g.start < g.end /\ g.status \in {1, 2, 3}
    BY <1>1, <2>2 DEF SegOK, IsEmptySegment, kGuess
  <2>4. TextEnd(g) = m
    BY <1>4 DEF TextEnd
  <2>5. CASE g.status = 1
    <3>1. g.start < g.menu[g.sel + 1] /\ g.menu[g.sel + 1] <= g.end
      BY <2>2, <2>5 DEF SegOK, MenuWithin, kGuess
    <3>2. m \in Nat
      BY <1>1, <2>1, <2>2, ElementOfSeq
    <3> QED
      BY <1>1, <2>1, <2>4, <2>5, <3>1, <3>2 DEF Utters, kGuess
  <2>6. CASE g.status \in {2, 3}
    <3>1. m = g.end
      BY <1>4, <2>6 DEF SegOK, kSelected
    <3> QED
      BY <1>1, <1>2, <2>4, <3>1 DEF Utters
  <2> QED
    BY <2>3, <2>5, <2>6
<1> QED
  BY <1>3, <1>4

\* A composition at rest.
LEMMA SpokenAtRest ==
  ASSUME NEW n \in Nat, NEW s, Comp(s, n), Drafted(s)
  PROVE  Spoken(s, n)
<1>1. \A i \in 1..Len(s) : Utters(s[i])
  <2> SUFFICES ASSUME NEW i \in 1..Len(s) PROVE Utters(s[i])
    OBVIOUS
  <2>1. s[i] \in SegType /\ SegOK(s[i]) /\ (s[i].start < s[i].end => s[i].status >= kGuess)
    BY LenOf DEF Comp, Formed, Drafted
  <2> QED
    BY <2>1, Uttering
<1> QED
  BY <1>1 DEF Comp, Formed, Spoken

\* In the plainest schema two codes in a row are never one a guess and the
\* other chosen.
LEMMA SettledDistinct ==
  ASSUME Plain, NEW text \in Seq(Chars), NEW s, Comp(s, Len(text)), Drafted(s),
         Settled(s, text)
  PROVE  Distinct(s)
<1> SUFFICES ASSUME NEW i \in 1..(Len(s) - 1), s[i + 1].status >= kSelected,
                    GetSelectedCandidate(s[i + 1]) # Nil, TextEnd(s[i]) # s[i].end
             PROVE  FALSE
  BY DEF Distinct
<1>1. /\ Len(s) \in Nat /\ i \in 1..Len(s) /\ i + 1 \in 1..Len(s)
      /\ Len(text) \in Nat /\ s[i] \in SegType /\ s[i + 1] \in SegType
  BY LenOf, LenProperties DEF Comp
<1> DEFINE g == s[i]
           h == s[i + 1]
<1>2. /\ g.end \in Nat /\ g.status \in 0..3 /\ h.start \in Nat /\ h.end \in Nat
      /\ h.status \in 0..3 /\ SegOK(g) /\ SegOK(h) /\ g.end = h.start /\ h.end <= Len(text)
      /\ g.start < g.end
  BY <1>1 DEF Comp, Formed, SegType
<1>3. Literal(g, text) /\ Literal(h, text) /\ Shut(g, text)
  BY <1>1 DEF Settled
<1>4. g.status >= kGuess
  BY <1>1, <1>2 DEF Drafted
<1>5. g.status # kGuess => TextEnd(g) = g.end
  <2>1. Utters(g)
    BY <1>1, <1>2, <1>4, Uttering
  <2> QED
    BY <2>1 DEF Utters
<1>6. g.status = kGuess
  BY <1>5
<1>7. GetSelectedCandidate(g) # Nil
  BY DEF TextEnd
<1>8. g.menu # << >> /\ h.menu # << >>
  <2>1. g.sel \in Nat /\ h.sel \in Nat
    BY <1>1 DEF SegType
  <2>2. g.sel < Len(g.menu) /\ h.sel < Len(h.menu)
    BY <1>7 DEF GetSelectedCandidate, GetCandidateAt
  <2> QED
    BY <2>1, <2>2
<1>9. "abc" \in g.tags /\ "abc" \in h.tags
  BY <1>2, <1>3, <1>6, <1>8 DEF Literal, kVoid, kGuess, kSelected
<1>10. h.start < h.end
  BY <1>2 DEF SegOK, IsEmptySegment
<1>11. \A x \in (h.start + 1)..h.end : text[x] \in Letters
  BY <1>3, <1>9, <1>10 DEF Literal
<1>12. text[h.start + 1] \in Letters
  BY <1>2, <1>10, <1>11
<1>13. g.status < kSelected /\ g.end < Len(text)
  BY <1>2, <1>6, <1>10 DEF kGuess, kSelected
<1> QED
  BY <1>2, <1>3, <1>9, <1>12, <1>13 DEF Shut

-----------------------------------------------------------------------------
\* Where the text of a composition ends.
EndOf(s) == IF s = << >> THEN 0 ELSE TextEnd(s[Len(s)])

\* What is left over is one piece at most.
Leaves(r, e, n) ==
  /\ r \in Seq(Pieces) /\ Len(r) \in {0, 1}
  /\ IF n > e THEN Len(r) = 1 /\ r[1] = Piece(FALSE, e, n) ELSE Len(r) = 0

\* What Remainder leaves over.
LEMMA Remaining ==
  ASSUME NEW c, Spoken(c.segs, Len(c.active)), Len(c.active) \in Nat
  PROVE  EndOf(c.segs) \in Nat /\ Leaves(Remainder(c), EndOf(c.segs), Len(c.active))
<1> DEFINE s == c.segs
           n == Len(c.active)
           e == EndOf(s)
           x == Piece(FALSE, e, n)
<1>1. Len(s) \in Nat /\ (s # << >> <=> Len(s) > 0)
  BY LenOf DEF Spoken
<1>2. e \in Nat
  BY SMTT(30), <1>1 DEF Spoken, Utters, EndOf
<1>3. Remainder(c) = IF n > e THEN << x >> ELSE << >>
  BY DEF Remainder, Last, EndOf
<1>4. x \in Pieces
  BY <1>2 DEF Piece, Pieces
<1>5. x = Piece(FALSE, e, n)
  OBVIOUS
<1> DEFINE one == << x >>
           none == << >>
<1> HIDE DEF e, n, x
<1>6. one \in Seq(Pieces) /\ Len(one) = 1 /\ one[1] = x
  BY <1>4
<1>7. none \in Seq(Pieces) /\ Len(none) = 0
  OBVIOUS
<1>8. Remainder(c) = IF n > e THEN one ELSE none
  BY <1>3
<1> HIDE DEF one, none
<1>9. Leaves(Remainder(c), e, n)
  BY <1>5, <1>6, <1>7, <1>8 DEF Leaves
<1> QED
  BY <1>2, <1>9 DEF e, n

\* A sequence and one more.
LEMMA OneMore ==
  ASSUME NEW S, NEW f \in Seq(S), NEW r \in Seq(S)
  PROVE  /\ f \o r \in Seq(S) /\ Len(f \o r) = Len(f) + Len(r)
         /\ Len(f) \in Nat /\ Len(r) \in Nat
         /\ \A i \in 1..Len(f) : (f \o r)[i] = f[i]
         /\ Len(r) = 1 => (f \o r)[Len(f) + 1] = r[1]
<1>1. Len(f) \in Nat /\ Len(r) \in Nat
  BY LenProperties
<1>2. /\ f \o r \in Seq(S) /\ Len(f \o r) = Len(f) + Len(r)
      /\ \A i \in 1..(Len(f) + Len(r)) :
           (f \o r)[i] = IF i <= Len(f) THEN f[i] ELSE r[i - Len(f)]
  BY ConcatProperties
<1>3. ASSUME Len(r) = 1 PROVE (f \o r)[Len(f) + 1] = r[1]
  <2>1. /\ Len(f) + 1 \in 1..(Len(f) + Len(r)) /\ ~(Len(f) + 1 <= Len(f))
        /\ Len(f) + 1 - Len(f) = 1
    BY <1>1, <1>3
  <2>2. (f \o r)[Len(f) + 1] = r[Len(f) + 1 - Len(f)]
    BY <1>2, <2>1
  <2> QED
    BY <2>1, <2>2
<1> QED
  BY <1>1, <1>2, <1>3

\* A piece for each segment, in their order.
Recites(f, s) ==
  /\ f \in Seq(Pieces) /\ Len(f) = Len(s)
  /\ \A i \in 1..Len(s) : /\ f[i].to = TextEnd(s[i])
                          /\ IsUnspoken(s[i]) \/ f[i].from <= s[i].start
  /\ \A i, j \in 1..Len(s) : i < j => TextEnd(s[i]) <= f[j].from

\* A text made of these and of what is left over.
LEMMA Accounting ==
  ASSUME NEW s, NEW n \in Nat, Spoken(s, n), NEW e \in Nat, e = EndOf(s),
         NEW f, Recites(f, s), NEW r, Leaves(r, e, n),
         NEW commit, commit.caret = n, commit.segs = s, commit.text = f \o r
  PROVE  AccountsFor(commit)
<1> DEFINE t == f \o r
           k == Len(s)
<1>1. k \in Nat /\ (s # << >> <=> k > 0) /\ \A i \in 1..k : s[i] \in SegType
  BY LenOf DEF Spoken
<1>2. /\ Len(t) = k + Len(r) /\ Len(r) \in {0, 1}
      /\ \A i \in 1..k : t[i] = f[i]
      /\ n > e => k + 1 \in 1..Len(t) /\ t[k + 1] = Piece(FALSE, e, n)
  <2>1. f \in Seq(Pieces) /\ r \in Seq(Pieces) /\ Len(f) = k /\ Len(r) \in {0, 1}
    BY DEF Recites, Leaves
  <2>2. /\ Len(t) = Len(f) + Len(r) /\ \A i \in 1..Len(f) : t[i] = f[i]
        /\ Len(r) = 1 => t[Len(f) + 1] = r[1]
    BY ZenonT(30), <2>1, OneMore
  <2> HIDE DEF t, k
  <2>3. \A i \in 1..k : t[i] = f[i]
    BY <2>1, <2>2
  <2>4. ASSUME n > e PROVE k + 1 \in 1..Len(t) /\ t[k + 1] = Piece(FALSE, e, n)
    <3>1. Len(r) = 1 /\ r[1] = Piece(FALSE, e, n)
      BY <2>4 DEF Leaves
    <3>2. Len(t) = k + 1 /\ t[k + 1] = r[1]
      BY <2>1, <2>2, <3>1
    <3> QED
      BY <1>1, <3>1, <3>2
  <2> QED
    BY <2>1, <2>2, <2>3, <2>4
<1> HIDE DEF t
<1>3. \A i \in 1..k : /\ s[i].start \in Nat /\ s[i].end \in Nat /\ TextEnd(s[i]) \in Nat
                      /\ s[i].start <= TextEnd(s[i]) /\ TextEnd(s[i]) <= s[i].end
                      /\ s[i].end <= n
  BY <1>1 DEF Spoken, Utters, SegType
<1>4. ASSUME NEW i \in 1..Len(t), NEW j \in 1..Len(t), i < j PROVE t[i].to <= t[j].from
  <2> HIDE DEF k
  <2>4. j \in 1..k \/ j = k + 1
    BY <1>1, <1>2, <1>4
  <2>5. i \in 1..k
    <3>1. Len(t) = k + Len(r) /\ Len(r) \in {0, 1}
      BY <1>2
    <3>2. k \in Nat
      BY <1>1
    <3>3. CASE Len(r) = 0
      BY <1>4, <3>1, <3>2, <3>3
    <3>4. CASE Len(r) = 1
      BY <1>4, <3>1, <3>2, <3>4
    <3> QED
      BY <3>1, <3>3, <3>4
  <2>1. i \in 1..k /\ t[i].to = TextEnd(s[i])
    BY <1>2, <2>5 DEF k, Recites
  <2>2. CASE j \in 1..k
    BY <1>2, <1>4, <2>1, <2>2 DEF k, Recites
  <2>3. CASE j = k + 1
    <3>1. n > e
      <4>1. Len(r) = 1
        BY <1>1, <1>2, <1>4, <2>3
      <4>2. ASSUME ~(n > e) PROVE Len(r) = 0
        BY <4>2 DEF Leaves
      <4> QED
        BY <4>1, <4>2
    <3>2. t[j].from = e /\ e = TextEnd(s[k]) /\ k \in 1..k
      <4>1. t[j].from = e
        BY <1>2, <2>3, <3>1 DEF Piece
      <4>2. k \in 1..k
        BY <1>1, <2>1
      <4> QED
        BY <1>1, <4>1, <4>2 DEF EndOf, k
    <3>3. TextEnd(s[i]) <= e
      <4>1. CASE i = k
        BY <1>3, <3>2, <4>1
      <4>2. CASE i < k
        <5>1. s[i].end <= s[k].start
          BY <2>1, <3>2, <4>2 DEF Spoken, k
        <5>2. /\ TextEnd(s[i]) <= s[i].end /\ s[k].start <= e
              /\ TextEnd(s[i]) \in Nat /\ s[i].end \in Nat /\ s[k].start \in Nat
          BY <1>3, <2>1, <3>2
        <5> QED
          BY SMTT(30), <5>1, <5>2
      <4> QED
        BY <1>1, <2>1, <4>1, <4>2
    <3> QED
      BY <2>1, <3>2, <3>3
  <2> QED
    BY <2>2, <2>3, <2>4
<1>5. ASSUME NEW p \in 1..n
      PROVE  \/ \E i \in 1..Len(t) : t[i].from < p /\ p <= t[i].to
             \/ \E i \in 1..k : /\ s[i].start < p /\ p <= s[i].end
                                /\ \/ IsUnspoken(s[i])
                                   \/ i < k /\ s[i].status = kGuess /\ TextEnd(s[i]) < p
  <2>1. CASE e < p
    <3>1. n > e
      BY <2>1
    <3>2. k + 1 \in 1..Len(t) /\ t[k + 1].from = e /\ t[k + 1].to = n
      BY <1>2, <3>1 DEF Piece
    <3> QED
      BY <2>1, <3>2
  <2>2. CASE p <= e
    <3> DEFINE over == {i \in 1..k : p <= s[i].end}
    <3>1. k > 0 /\ e = TextEnd(s[k]) /\ k \in 1..k
      <4>1. s # << >>
        BY <2>2 DEF EndOf
      <4> QED
        BY <1>1, <4>1 DEF EndOf
    <3>2. e <= s[k].end
      BY <1>3, <3>1
    <3>3. k \in over
      <4>1. p <= s[k].end
        BY <1>3, <2>2, <3>1, <3>2
      <4> QED
        BY <3>1, <4>1
    <3>4. over \in SUBSET Nat
      OBVIOUS
    <3> HIDE DEF over
    <3>5. Min(over) \in over /\ \A y \in over : Min(over) <= y
      BY <3>3, <3>4, Least
    <3> DEFINE i == Min(over)
    <3>6. i \in 1..k /\ p <= s[i].end
      BY <3>5 DEF over
    <3>7. \A y \in over : i <= y
      BY <3>5
    <3> HIDE DEF i
    <3>8. s[i].start < p
      <4>1. CASE i = 1
        <5>1. s[i].start = 0
          BY <1>1, <3>1, <4>1 DEF Spoken
        <5> QED
          BY <5>1
      <4>2. CASE i > 1
        <5>1. i - 1 \in 1..k /\ i - 1 \in 1..(Len(s) - 1) /\ ~(i <= i - 1)
          BY <1>1, <3>6, <4>2
        <5>2. i - 1 \notin over
          BY <3>7, <5>1
        <5>3. ~(p <= s[i - 1].end)
          BY <5>1, <5>2 DEF over
        <5>4. s[i - 1].end = s[(i - 1) + 1].start /\ (i - 1) + 1 = i
          BY SMTT(30), <3>6, <5>1 DEF Spoken
        <5>5. s[i - 1].end = s[i].start
          BY <5>4
        <5>6. s[i - 1].end \in Nat
          BY <1>3, <5>1
        <5> QED
          BY <5>3, <5>5, <5>6
      <4> QED
        BY <3>6, <4>1, <4>2
    <3>9. CASE p <= TextEnd(s[i])
      <4>1. CASE IsUnspoken(s[i])
        BY <3>6, <3>8, <4>1
      <4>2. CASE ~IsUnspoken(s[i])
        <5>1. t[i] = f[i] /\ i \in 1..Len(t) /\ f[i].to = TextEnd(s[i]) /\ f[i].from <= s[i].start
          BY <1>1, <1>2, <3>6, <4>2 DEF Recites
        <5>2. f[i].from \in Nat /\ s[i].start \in Nat
          <6>1. f[i] \in Pieces
            BY <3>6, ElementOfSeq DEF Recites
          <6> QED
            BY <1>3, <3>6, <6>1 DEF Pieces
        <5>3. t[i].from < p /\ p <= t[i].to
          BY <3>8, <3>9, <5>1, <5>2
        <5> QED
          BY <5>1, <5>3
      <4> QED
        BY <4>1, <4>2
    <3>10. CASE ~(p <= TextEnd(s[i]))
      <4>1. TextEnd(s[i]) < p
        BY <1>3, <3>6, <3>10
      <4>2. i # k
        BY <2>2, <3>1, <3>10
      <4>3. s[i].status = kGuess
        <5>1. TextEnd(s[i]) # s[i].end
          BY <3>6, <3>10
        <5>2. Utters(s[i])
          BY <3>6 DEF Spoken
        <5> QED
          BY <5>1, <5>2 DEF Utters
      <4>4. i < k
        BY <1>1, <3>6, <4>2
      <4> QED
        BY <3>6, <3>8, <4>1, <4>3, <4>4
    <3> QED
      BY <3>9, <3>10
  <2> QED
    BY <2>1, <2>2
<1>6. ASSUME NEW p \in 1..n
      PROVE  \/ InText(commit, p)
             \/ \E i \in Holder(commit, p) :
                  \/ IsUnspoken(commit.segs[i])
                  \/ /\ i < Len(commit.segs) /\ commit.segs[i].status = kGuess
                     /\ TextEnd(commit.segs[i]) < p
  <2>1. CASE \E i \in 1..Len(t) : t[i].from < p /\ p <= t[i].to
    BY <2>1 DEF InText, t
  <2>2. CASE \E i \in 1..k : /\ s[i].start < p /\ p <= s[i].end
                             /\ \/ IsUnspoken(s[i])
                                \/ i < k /\ s[i].status = kGuess /\ TextEnd(s[i]) < p
    <3> PICK i \in 1..k : /\ s[i].start < p /\ p <= s[i].end
                          /\ \/ IsUnspoken(s[i])
                             \/ i < k /\ s[i].status = kGuess /\ TextEnd(s[i]) < p
      BY <2>2
    <3>1. i \in Holder(commit, p)
      BY DEF Holder
    <3> QED
      BY <3>1
  <2> QED
    BY <1>5, <2>1, <2>2
<1> QED
  BY <1>4, <1>6 DEF AccountsFor, t

\* A sequence of pieces, given one for each segment.
LEMMA PiecesOf ==
  ASSUME NEW k \in Nat, NEW f \in [1..k -> Pieces]
  PROVE  f \in Seq(Pieces) /\ Len(f) = k
OBVIOUS

\* What is known of each segment of a composition that is committed.
LEMMA SpokenOne ==
  ASSUME NEW s, NEW n, Spoken(s, n), NEW i \in 1..Len(s)
  PROVE  /\ Len(s) \in Nat /\ s[i] \in SegType
         /\ s[i].start \in Nat /\ s[i].end \in Nat /\ TextEnd(s[i]) \in Nat
         /\ s[i].start <= TextEnd(s[i]) /\ TextEnd(s[i]) <= s[i].end
         /\ s[i].status \in 0..3 /\ (s[i].status # kGuess => TextEnd(s[i]) = s[i].end)
<1>1. s[i] \in SegType /\ Len(s) \in Nat
  BY LenOf DEF Spoken
<1> QED
  BY <1>1 DEF Spoken, Utters, SegType

\* The texts of segments follow each other as these do.
LEMMA SpokenOrder ==
  ASSUME NEW s, NEW n, Spoken(s, n), NEW i \in 1..Len(s), NEW j \in 1..Len(s), i < j
  PROVE  TextEnd(s[i]) <= s[j].start
<1>1. /\ TextEnd(s[i]) \in Nat /\ s[i].end \in Nat /\ TextEnd(s[i]) <= s[i].end
      /\ s[j].start \in Nat
  BY SpokenOne
<1>2. s[i].end <= s[j].start
  BY DEF Spoken
<1> QED
  BY <1>1, <1>2

\* GetCommitText, its pieces for the segments ...
CommitPieces(s) ==
  [i \in 1..Len(s) |->
     Piece(GetSelectedCandidate(s[i]) # Nil,
           IF IsUnspoken(s[i]) THEN s[i].end ELSE s[i].start, TextEnd(s[i]))]

\* They are one for each segment, in order.
LEMMA CommitRecites ==
  ASSUME NEW s, NEW n, Spoken(s, n)
  PROVE  Recites(CommitPieces(s), s)
<1> DEFINE f == CommitPieces(s)
           k == Len(s)
<1>1. k \in Nat
  BY LenOf DEF Spoken
<1>2. ASSUME NEW i \in 1..k
      PROVE  /\ f[i] = Piece(GetSelectedCandidate(s[i]) # Nil,
                             IF IsUnspoken(s[i]) THEN s[i].end ELSE s[i].start, TextEnd(s[i]))
             /\ f[i] \in Pieces /\ f[i].to = TextEnd(s[i]) /\ s[i].start <= f[i].from
             /\ IsUnspoken(s[i]) \/ f[i].from = s[i].start
             /\ f[i].from \in Nat
  <2>1. f[i] = Piece(GetSelectedCandidate(s[i]) # Nil,
                     IF IsUnspoken(s[i]) THEN s[i].end ELSE s[i].start, TextEnd(s[i]))
    BY DEF CommitPieces
  <2>2. /\ s[i].start \in Nat /\ s[i].end \in Nat /\ TextEnd(s[i]) \in Nat
        /\ s[i].start <= TextEnd(s[i]) /\ TextEnd(s[i]) <= s[i].end
    BY SpokenOne
  <2> HIDE DEF f
  <2>3. s[i].start <= s[i].end
    BY <2>2
  <2>4. (GetSelectedCandidate(s[i]) # Nil) \in BOOLEAN
    OBVIOUS
  <2> QED
    BY <2>1, <2>2, <2>3, <2>4 DEF Piece, Pieces
<1>3. f \in [1..k -> Pieces]
  BY <1>2 DEF CommitPieces
<1> HIDE DEF f, k
<1>4. f \in Seq(Pieces) /\ Len(f) = k
  BY <1>1, <1>3, PiecesOf
<1>5. \A i \in 1..k : /\ f[i].to = TextEnd(s[i])
                      /\ IsUnspoken(s[i]) \/ f[i].from <= s[i].start
  <2> SUFFICES ASSUME NEW i \in 1..k
               PROVE  f[i].to = TextEnd(s[i]) /\ (IsUnspoken(s[i]) \/ f[i].from <= s[i].start)
    OBVIOUS
  <2>1. s[i].start \in Nat
    BY SpokenOne DEF k
  <2> QED
    BY <1>2, <2>1
<1>6. \A i, j \in 1..k : i < j => TextEnd(s[i]) <= f[j].from
  <2> SUFFICES ASSUME NEW i \in 1..k, NEW j \in 1..k, i < j PROVE TextEnd(s[i]) <= f[j].from
    OBVIOUS
  <2>1. TextEnd(s[i]) <= s[j].start /\ s[j].start \in Nat /\ TextEnd(s[i]) \in Nat
    BY SpokenOrder, SpokenOne DEF k
  <2>2. s[j].start <= f[j].from /\ f[j].from \in Nat
    BY <1>2
  <2> QED
    BY <2>1, <2>2
<1> QED
  BY <1>4, <1>5, <1>6 DEF Recites, f, k

\* ... and GetScriptText's.
ScriptPieces(s) ==
  [i \in 1..Len(s) |->
     Piece(GetSelectedCandidate(s[i]) # Nil,
           IF i = 1 THEN 0 ELSE TextEnd(s[i - 1]), TextEnd(s[i]))]

\* They are, too.
LEMMA ScriptRecites ==
  ASSUME NEW s, NEW n, Spoken(s, n)
  PROVE  Recites(ScriptPieces(s), s)
<1> DEFINE f == ScriptPieces(s)
           k == Len(s)
<1>1. k \in Nat
  BY LenOf DEF Spoken
<1>2. ASSUME NEW i \in 1..k
      PROVE  /\ f[i] \in Pieces /\ f[i].to = TextEnd(s[i])
             /\ f[i].from = IF i = 1 THEN 0 ELSE TextEnd(s[i - 1])
             /\ f[i].from <= s[i].start
  <2>1. f[i] = Piece(GetSelectedCandidate(s[i]) # Nil,
                     IF i = 1 THEN 0 ELSE TextEnd(s[i - 1]), TextEnd(s[i]))
    BY DEF ScriptPieces
  <2>2. TextEnd(s[i]) \in Nat /\ s[i].start \in Nat
    BY SpokenOne
  <2> HIDE DEF f
  <2>3. (GetSelectedCandidate(s[i]) # Nil) \in BOOLEAN
    OBVIOUS
  <2>4. CASE i = 1
    <3>1. f[i].from = 0 /\ f[i].to = TextEnd(s[i]) /\ f[i] \in Pieces
      BY <2>1, <2>2, <2>3, <2>4 DEF Piece, Pieces
    <3> QED
      BY <2>2, <2>4, <3>1
  <2>5. CASE i # 1
    <3>1. i - 1 \in 1..k /\ i - 1 < i
      BY <1>1, <2>5
    <3>2. TextEnd(s[i - 1]) <= s[i].start /\ TextEnd(s[i - 1]) \in Nat
      BY <3>1, SpokenOrder, SpokenOne DEF k
    <3>3. f[i].from = TextEnd(s[i - 1]) /\ f[i].to = TextEnd(s[i]) /\ f[i] \in Pieces
      BY <2>1, <2>2, <2>3, <2>5, <3>2 DEF Piece, Pieces
    <3> QED
      BY <2>5, <3>2, <3>3
  <2> QED
    BY <2>4, <2>5
<1>3. f \in [1..k -> Pieces]
  BY <1>2 DEF ScriptPieces
<1> HIDE DEF f, k
<1>4. f \in Seq(Pieces) /\ Len(f) = k
  BY <1>1, <1>3, PiecesOf
<1>6. \A i, j \in 1..k : i < j => TextEnd(s[i]) <= f[j].from
  <2> SUFFICES ASSUME NEW i \in 1..k, NEW j \in 1..k, i < j PROVE TextEnd(s[i]) <= f[j].from
    OBVIOUS
  <2>1. j # 1 /\ j - 1 \in 1..k /\ (i = j - 1 \/ i < j - 1)
    BY <1>1
  <2>2. f[j].from = TextEnd(s[j - 1])
    BY <1>2, <2>1
  <2>3. TextEnd(s[j - 1]) \in Nat /\ TextEnd(s[i]) \in Nat
    BY <2>1, SpokenOne DEF k
  <2>4. CASE i = j - 1
    BY <2>2, <2>3, <2>4
  <2>5. CASE i < j - 1
    <3>1. /\ TextEnd(s[i]) <= s[j - 1].start /\ s[j - 1].start <= TextEnd(s[j - 1])
          /\ s[j - 1].start \in Nat
      BY <2>1, <2>5, SpokenOrder, SpokenOne DEF k
    <3> QED
      BY <2>2, <2>3, <3>1
  <2> QED
    BY <2>1, <2>4, <2>5
<1> QED
  BY <1>2, <1>4, <1>6 DEF Recites, f, k

\* Each says what has been selected ...
LEMMA CommitSpeaks ==
  ASSUME NEW s, NEW n, Spoken(s, n), NEW r \in Seq(Pieces),
         NEW commit, commit.segs = s, commit.text = CommitPieces(s) \o r
  PROVE  Speaks(commit)
<1> DEFINE f == CommitPieces(s)
           t == f \o r
<1>1. f \in Seq(Pieces) /\ Len(f) = Len(s)
  BY CommitRecites DEF Recites
<1>2. Len(t) = Len(s) + Len(r) /\ Len(s) \in Nat /\ Len(r) \in Nat
      /\ \A i \in 1..Len(s) : t[i] = f[i]
  <2> HIDE DEF f
  <2>1. /\ Len(t) = Len(f) + Len(r) /\ Len(f) \in Nat /\ Len(r) \in Nat
        /\ \A i \in 1..Len(f) : t[i] = f[i]
    BY <1>1, OneMore
  <2> HIDE DEF t
  <2> QED
    BY <1>1, <2>1
<1> HIDE DEF t
<1> SUFFICES ASSUME NEW i \in 1..Len(s), s[i].status >= kSelected,
                    GetSelectedCandidate(s[i]) # Nil
             PROVE  \E j \in 1..Len(t) : t[j] = Piece(TRUE, s[i].start, s[i].end)
  BY ZenonT(30) DEF Speaks, t
<1>3. s[i].status \in 0..3 /\ (s[i].status # kGuess => TextEnd(s[i]) = s[i].end)
  BY SpokenOne
<1>4. TextEnd(s[i]) = s[i].end
  BY <1>3 DEF kGuess, kSelected
<1>5. ~IsUnspoken(s[i])
  BY DEF IsUnspoken
<1>6. f[i] = Piece(GetSelectedCandidate(s[i]) # Nil,
                   IF IsUnspoken(s[i]) THEN s[i].end ELSE s[i].start, TextEnd(s[i]))
  BY DEF CommitPieces
<1> HIDE DEF f
<1>7. (GetSelectedCandidate(s[i]) # Nil) = TRUE
  OBVIOUS
<1>8. f[i] = Piece(TRUE, s[i].start, s[i].end)
  BY <1>4, <1>5, <1>6, <1>7
<1>9. i \in 1..Len(t) /\ t[i] = f[i]
  BY <1>2
<1> QED
  BY <1>8, <1>9

\* ... the script text if nothing is left out before it.
LEMMA ScriptSpeaks ==
  ASSUME NEW s, NEW n, Spoken(s, n), Distinct(s), NEW r \in Seq(Pieces),
         NEW commit, commit.segs = s, commit.text = ScriptPieces(s) \o r
  PROVE  Speaks(commit)
<1> DEFINE f == ScriptPieces(s)
           t == f \o r
<1>1. f \in Seq(Pieces) /\ Len(f) = Len(s)
  BY ScriptRecites DEF Recites
<1>2. Len(t) = Len(s) + Len(r) /\ Len(s) \in Nat /\ Len(r) \in Nat
      /\ \A i \in 1..Len(s) : t[i] = f[i]
  <2> HIDE DEF f
  <2>1. /\ Len(t) = Len(f) + Len(r) /\ Len(f) \in Nat /\ Len(r) \in Nat
        /\ \A i \in 1..Len(f) : t[i] = f[i]
    BY <1>1, OneMore
  <2> HIDE DEF t
  <2> QED
    BY <1>1, <2>1
<1> HIDE DEF t
<1> SUFFICES ASSUME NEW i \in 1..Len(s), s[i].status >= kSelected,
                    GetSelectedCandidate(s[i]) # Nil
             PROVE  \E j \in 1..Len(t) : t[j] = Piece(TRUE, s[i].start, s[i].end)
  BY ZenonT(30) DEF Speaks, t
<1>3. s[i].status \in 0..3 /\ (s[i].status # kGuess => TextEnd(s[i]) = s[i].end)
  BY SpokenOne
<1>4. TextEnd(s[i]) = s[i].end
  BY <1>3 DEF kGuess, kSelected
<1>5. (IF i = 1 THEN 0 ELSE TextEnd(s[i - 1])) = s[i].start
  <2>1. CASE i = 1
    BY <1>2, <2>1 DEF Spoken
  <2>2. CASE i # 1
    <3>1. i - 1 \in 1..(Len(s) - 1) /\ (i - 1) + 1 = i
      BY <1>2, <2>2
    <3>2. s[i - 1].end = s[(i - 1) + 1].start
      BY <3>1 DEF Spoken
    <3>3. TextEnd(s[i - 1]) = s[i - 1].end
      BY <3>1 DEF Distinct
    <3> QED
      BY <2>2, <3>1, <3>2, <3>3
  <2> QED
    BY <2>1, <2>2
<1>6. f[i] = Piece(GetSelectedCandidate(s[i]) # Nil,
                   IF i = 1 THEN 0 ELSE TextEnd(s[i - 1]), TextEnd(s[i]))
  BY DEF ScriptPieces
<1> HIDE DEF f
<1>7. (GetSelectedCandidate(s[i]) # Nil) = TRUE
  OBVIOUS
<1>8. f[i] = Piece(TRUE, s[i].start, s[i].end)
  BY <1>4, <1>5, <1>6, <1>7
<1>9. i \in 1..Len(t) /\ t[i] = f[i]
  BY <1>2
<1> QED
  BY <1>8, <1>9

-----------------------------------------------------------------------------
\* A commit of such a text leaves what has been committed accounted for.
LEMMA SinkAccounted ==
  ASSUME NEW c \in CtxType, Spoken(c.segs, Len(c.active)), c.caret = Len(c.active),
         Accounted(c), NEW f, Recites(f, c.segs),
         Plain => \A commit : commit.segs = c.segs /\ commit.text = f \o Remainder(c)
                                => Speaks(commit)
  PROVE  LET d == Sink(c, f \o Remainder(c))
         IN  d \in CtxType /\ Accounted(d) /\ d.opts = c.opts
<1> DEFINE s == c.segs
           n == Len(c.active)
           r == Remainder(c)
           t == f \o r
           commit == [input |-> c.input, caret |-> c.caret, segs |-> c.segs, text |-> t]
           sink == Append(c.sink, commit)
           d == [c EXCEPT !.sink = sink]
<1>1. /\ n \in Nat /\ c.sink \in Seq(Commits) /\ c.input \in Seq(Chars) /\ c.caret \in Nat
      /\ s \in Comps
  BY LenProperties DEF CtxType
<1>2. EndOf(s) \in Nat /\ Leaves(r, EndOf(s), n)
  BY <1>1, Remaining
<1>3. t \in Seq(Pieces)
  <2>1. f \in Seq(Pieces) /\ r \in Seq(Pieces)
    BY <1>2 DEF Recites, Leaves
  <2> HIDE DEF r
  <2> QED
    BY <2>1, OneMore
<1>4. Sink(c, t) = d
  BY DEF Sink
<1>5. t = f \o r
  OBVIOUS
<1> HIDE DEF r, t
<1>6. /\ commit \in Commits /\ commit.caret = n /\ commit.segs = s /\ commit.text = t
  BY <1>1, <1>3 DEF Commits
<1> HIDE DEF commit
<1>7. AccountsFor(commit)
  BY <1>1, <1>2, <1>5, <1>6, Accounting
<1>8. Plain => Speaks(commit)
  BY <1>5, <1>6 DEF r
<1>9. /\ sink \in Seq(Commits) /\ Len(sink) = Len(c.sink) + 1 /\ Len(c.sink) \in Nat
      /\ \A i \in 1..Len(c.sink) : sink[i] = c.sink[i]
      /\ sink[Len(c.sink) + 1] = commit
  BY <1>1, <1>6, AppendProperties, LenProperties
<1> HIDE DEF sink
<1>10. d \in CtxType /\ d.sink = sink /\ d.opts = c.opts
  BY <1>9 DEF CtxType
<1> HIDE DEF d
<1>11. Accounted(d)
  <2> SUFFICES ASSUME NEW i \in 1..Len(sink)
               PROVE  AccountsFor(sink[i]) /\ (Plain => Speaks(sink[i]))
    BY <1>10 DEF Accounted
  <2>1. CASE i \in 1..Len(c.sink)
    BY <1>9, <2>1 DEF Accounted
  <2>2. CASE i = Len(c.sink) + 1
    BY <1>7, <1>8, <1>9, <2>2
  <2> QED
    BY <1>9, <2>1, <2>2
<1> QED
  BY <1>4, <1>10, <1>11 DEF t, r

\* Committing what has been composed.
LEMMA CommitRest ==
  ASSUME NEW c \in CtxType, IsComposing(c), Spoken(c.segs, Len(c.active)),
         c.caret = Len(c.active), Accounted(c), Plain => "ascii_mode" \notin c.opts
  PROVE  Rest(Commit(c)) /\ Commit(c).input = << >>
<1> DEFINE f == CommitPieces(c.segs)
           d == Sink(c, f \o Remainder(c))
<1>1. Commit(c) = Clear(d)
  BY DEF Commit, GetCommitText, CommitPieces
<1>2. Recites(f, c.segs)
  BY CommitRecites
<1>3. Remainder(c) \in Seq(Pieces)
  <2>1. Len(c.active) \in Nat
    BY LenProperties DEF CtxType
  <2> QED
    BY <2>1, Remaining DEF Leaves
<1>4. \A commit : commit.segs = c.segs /\ commit.text = f \o Remainder(c) => Speaks(commit)
  <2> SUFFICES ASSUME NEW commit, commit.segs = c.segs, commit.text = f \o Remainder(c)
               PROVE  Speaks(commit)
    OBVIOUS
  <2> QED
    BY <1>3, CommitSpeaks
<1> HIDE DEF f
<1>5. d \in CtxType /\ Accounted(d) /\ d.opts = c.opts
  BY <1>2, <1>4, SinkAccounted
<1> HIDE DEF d
<1> QED
  BY <1>1, <1>5, ClearRest

\* Committing at rest, if anything is being composed.
LEMMA CommitAtRest ==
  ASSUME NEW c, Rest(c)
  PROVE  Rest(Commit(c)) /\ (Commit(c).input = << >>)
<1>1. /\ c \in CtxType /\ Len(c.active) = c.caret /\ Len(c.active) \in Nat
      /\ Comp(c.segs, Len(c.active)) /\ Drafted(c.segs) /\ Accounted(c)
      /\ Plain => "ascii_mode" \notin c.opts
  <2>1. /\ c \in CtxType /\ Len(c.active) = c.caret /\ c.active \in Seq(Chars)
    BY RestType
  <2>2. Len(c.active) \in Nat
    BY <2>1, LenProperties
  <2> QED
    BY <2>1, <2>2 DEF Rest
<1>2. CASE ~IsComposing(c)
  BY <1>2 DEF Commit, IsComposing
<1>3. CASE IsComposing(c)
  <2>1. Spoken(c.segs, Len(c.active))
    BY <1>1, SpokenAtRest
  <2> QED
    BY <1>1, <1>3, <2>1, CommitRest
<1> QED
  BY <1>2, <1>3

\* CommitScriptText.
LEMMA ScriptRest ==
  ASSUME NEW c, Rest(c)
  PROVE  Rest(Clear(Sink(c, GetScriptText(c))))
<1>1. /\ c \in CtxType /\ Len(c.active) = c.caret /\ Len(c.active) \in Nat
      /\ Comp(c.segs, Len(c.active)) /\ Drafted(c.segs) /\ Accounted(c)
      /\ Plain => "ascii_mode" \notin c.opts /\ Settled(c.segs, c.active)
      /\ c.active \in Seq(Chars)
  <2>1. /\ c \in CtxType /\ Len(c.active) = c.caret /\ c.active \in Seq(Chars)
    BY RestType
  <2>2. Len(c.active) \in Nat
    BY <2>1, LenProperties
  <2> QED
    BY <2>1, <2>2 DEF Rest
<1> DEFINE f == ScriptPieces(c.segs)
           d == Sink(c, f \o Remainder(c))
<1>2. Sink(c, GetScriptText(c)) = d
  BY DEF GetScriptText, ScriptPieces
<1>3. Spoken(c.segs, Len(c.active))
  BY <1>1, SpokenAtRest
<1>4. Recites(f, c.segs) /\ Remainder(c) \in Seq(Pieces)
  BY <1>1, <1>3, ScriptRecites, Remaining DEF Leaves
<1>5. ASSUME Plain, NEW commit, commit.segs = c.segs, commit.text = f \o Remainder(c)
      PROVE  Speaks(commit)
  <2>1. Distinct(c.segs)
    BY <1>1, <1>5, SettledDistinct
  <2> QED
    BY <1>3, <1>4, <1>5, <2>1, ScriptSpeaks
<1> HIDE DEF f
<1>6. d \in CtxType /\ Accounted(d) /\ d.opts = c.opts
  BY <1>1, <1>3, <1>4, <1>5, SinkAccounted
<1> HIDE DEF d
<1> QED
  BY <1>1, <1>2, <1>6, ClearRest

-----------------------------------------------------------------------------
(* Selecting a candidate.                                                  *)

\* Exchanging the last segment, of any sequence.
LEMMA SetLastIs ==
  ASSUME NEW s \in Comps, s # << >>, NEW g \in SegType
  PROVE  /\ SetLast(s, g) \in Comps /\ SetLast(s, g) # << >> /\ Len(SetLast(s, g)) = Len(s)
         /\ Len(s) \in Nat \ {0}
         /\ \A i \in 1..(Len(s) - 1) : SetLast(s, g)[i] = s[i]
         /\ SetLast(s, g)[Len(s)] = g /\ Last(SetLast(s, g)) = g
<1> DEFINE k == Len(s) - 1
           u == SubSeq(s, 1, k)
           t == Append(u, g)
<1>1. Len(s) \in Nat /\ Len(s) > 0 /\ \A i \in 1..Len(s) : s[i] \in SegType
  BY LenOf
<1>2. k \in Nat /\ k + 1 = Len(s) /\ \A i \in 1..k : s[i] \in SegType
  BY <1>1
<1>3. u \in Comps /\ Len(u) = k /\ \A i \in 1..k : u[i] = s[i]
  <2> HIDE DEF k
  <2> QED
    BY <1>2, SubSeqProperties DEF Comps
<1> HIDE DEF u
<1>4. /\ t \in Seq(SegType) /\ Len(t) = Len(u) + 1 /\ t[Len(u) + 1] = g
      /\ \A i \in 1..Len(u) : t[i] = u[i]
  BY <1>3, AppendProperties DEF Comps
<1> HIDE DEF t
<1>5. Len(u) + 1 = Len(s) /\ Len(t) = Len(s)
  BY <1>1, <1>3, <1>4
<1>6. t # << >>
  BY <1>1, <1>5
<1>7. SetLast(s, g) = t
  BY DEF SetLast, Front, t, u
<1> QED
  BY <1>1, <1>3, <1>4, <1>5, <1>6, <1>7 DEF Comps, Last

\* Of two last segments set, the second counts.
LEMMA SetLastTwice ==
  ASSUME NEW s \in Comps, s # << >>, NEW g \in SegType, NEW h \in SegType
  PROVE  SetLast(SetLast(s, g), h) = SetLast(s, h)
<1> DEFINE t == SetLast(s, g)
           u == SetLast(t, h)
           v == SetLast(s, h)
<1>1. /\ t \in Comps /\ t # << >> /\ Len(t) = Len(s) /\ Len(s) \in Nat \ {0}
      /\ \A i \in 1..(Len(s) - 1) : t[i] = s[i]
  BY SetLastIs
<1>2. /\ v \in Comps /\ Len(v) = Len(s) /\ v[Len(s)] = h
      /\ \A i \in 1..(Len(s) - 1) : v[i] = s[i]
  BY SetLastIs
<1> HIDE DEF t, v
<1>3. /\ u \in Comps /\ Len(u) = Len(s) /\ u[Len(s)] = h
      /\ \A i \in 1..(Len(s) - 1) : u[i] = t[i]
  BY <1>1, SetLastIs
<1> HIDE DEF u
<1>4. \A i \in 1..Len(s) : u[i] = v[i]
  <2> SUFFICES ASSUME NEW i \in 1..Len(s) PROVE u[i] = v[i]
    OBVIOUS
  <2>1. i = Len(s) \/ i \in 1..(Len(s) - 1)
    BY <1>1
  <2> QED
    BY <1>1, <1>2, <1>3, <2>1
<1>5. u = v
  BY <1>2, <1>3, <1>4, SeqEqual DEF Comps
<1> QED
  BY <1>5 DEF u, v, t

\* A composition whose last segment has been chosen is forwarded to one at
\* rest.
LEMMA ChosenForward ==
  ASSUME NEW n \in Nat, NEW t, Comp(t, n), t # << >>, t[Len(t)].status >= kSelected,
         NEW text
  PROVE  LET u == Forward(t)
         IN  /\ Comp(u, n) /\ LastOpen(u) /\ Rested(u)
             /\ GetCurrentEndPosition(u) = t[Len(t)].end
             /\ Len(t) \in 1..Len(u) /\ u[Len(t)] = t[Len(t)]
             /\ Drafted(t) => Drafted(u)
             /\ Settled(t, text) => Settled(u, text)
<1> DEFINE u == Forward(t)
           k == Len(t)
<1>1. /\ k \in Nat /\ k > 0 /\ t[k] \in SegType /\ SegOK(t[k]) /\ t[k].start \in Nat
      /\ t[k].end \in Nat /\ t[k].status \in 0..3
  <2>1. t \in Comps
    BY DEF Comp
  <2>2. k \in Nat /\ k > 0 /\ \A i \in 1..k : t[i] \in SegType
    BY <2>1, LenOf
  <2>3. k \in 1..k
    BY <2>2
  <2> QED
    BY <2>2, <2>3 DEF Comp, Formed, SegType
<1>2. t[k].start < t[k].end
  BY <1>1 DEF SegOK, IsEmptySegment
<1>3. LastFull(t)
  BY <1>2 DEF LastFull
<1>4. GetCurrentEndPosition(t) = t[k].end
  BY DEF GetCurrentEndPosition, Last
<1>5. /\ Comp(u, n) /\ LastOpen(u) /\ Len(u) = k + 1 /\ ~LastFull(u)
      /\ GetCurrentEndPosition(u) = t[k].end
      /\ \A i \in 1..k : u[i] = t[i]
  BY <1>3, <1>4, ForwardFormed
<1>6. Shut(t[k], text)
  BY <1>1 DEF Shut, kSelected
<1>7. Settled(t, text) => Settled(u, text)
  BY <1>3, <1>6, SettledForward
<1> HIDE DEF u
<1>8. Rested(u)
  <2>1. Len(u) > 1 /\ Len(u) - 1 = k /\ k \in 1..k
    BY <1>1, <1>5
  <2>2. u[Len(u) - 1].status >= kSelected
    BY <1>5, <2>1
  <2> QED
    BY <2>1, <2>2 DEF Rested
<1>9. Drafted(t) => Drafted(u)
  <2> SUFFICES ASSUME Drafted(t), NEW i \in 1..Len(u), u[i].start < u[i].end
               PROVE  u[i].status >= kGuess
    BY DEF Drafted
  <2>1. u # << >>
    BY <1>1, <1>5
  <2>2. ~(u[Len(u)].start < u[Len(u)].end)
    BY <1>5, <2>1 DEF LastFull
  <2>3. i # k + 1
    BY <1>5, <2>2
  <2>4. i \in 1..k
    BY <1>1, <1>5, <2>3
  <2> QED
    BY <1>5, <2>4 DEF Drafted
<1>10. k \in 1..Len(u) /\ u[k] = t[k]
  BY <1>1, <1>5
<1> QED
  BY <1>5, <1>7, <1>8, <1>9, <1>10 DEF u, k

\* What OnSelect makes of the segment that has been selected.
Chosen(g) ==
  LET cand == GetSelectedCandidate(g)
  IN  IF cand # Nil /\ cand < g.end THEN [g EXCEPT !.end = cand] ELSE g

\* It is well formed, and chosen to its end.
LEMMA ChosenFormed ==
  ASSUME NEW g \in SegType, g.status = kSelected, g.start < g.end,
         GetSelectedCandidate(g) = Nil
           \/ (g.start < GetSelectedCandidate(g) /\ GetSelectedCandidate(g) <= g.end),
         NEW h, h = Chosen(g)
  PROVE  /\ h \in SegType /\ SegOK(h) /\ h.status = kSelected /\ h.tags = g.tags
         /\ h.start = g.start /\ h.start < h.end /\ h.end <= g.end /\ h.menu = g.menu
         /\ [h EXCEPT !.status = kConfirmed] \in SegType
         /\ SegOK([h EXCEPT !.status = kConfirmed])
<1> DEFINE c == GetSelectedCandidate(g)
           k == [h EXCEPT !.status = kConfirmed]
<1>1. /\ g.start \in Nat /\ g.end \in Nat /\ g.sel \in Nat /\ g.menu \in Seq(Nat)
      /\ Len(g.menu) \in Nat
  BY LenProperties DEF SegType
<1>2. c \in Nat
  <2>1. CASE g.sel < Len(g.menu)
    <3>1. g.sel + 1 \in 1..Len(g.menu) /\ c = g.menu[g.sel + 1]
      BY <1>1, <2>1 DEF GetSelectedCandidate, GetCandidateAt
    <3> QED
      BY <1>1, <3>1, ElementOfSeq
  <2>2. CASE ~(g.sel < Len(g.menu))
    BY <2>2 DEF GetSelectedCandidate, GetCandidateAt, Nil
  <2> QED
    BY <2>1, <2>2
<1>3. \A m : m.menu = g.menu /\ m.sel = g.sel => GetSelectedCandidate(m) = c
  BY DEF GetSelectedCandidate, GetCandidateAt
<1> HIDE DEF c
<1>4. h = IF c # Nil /\ c < g.end THEN [g EXCEPT !.end = c] ELSE g
  BY DEF Chosen, c
<1>5. c = Nil \/ (g.start < c /\ c <= g.end)
  BY DEF c
<1>6. /\ h \in SegType /\ h.status = kSelected /\ h.tags = g.tags
      /\ h.start = g.start /\ h.start < h.end /\ h.end <= g.end /\ h.menu = g.menu
      /\ h.sel = g.sel /\ (c = Nil \/ c = h.end)
  <2>1. CASE c # Nil /\ c < g.end
    <3>1. h = [g EXCEPT !.end = c]
      BY <1>4, <2>1
    <3>2. /\ h \in SegType /\ h.status = g.status /\ h.tags = g.tags /\ h.start = g.start
          /\ h.end = c /\ h.menu = g.menu /\ h.sel = g.sel
      BY <1>2, <3>1 DEF SegType
    <3> QED
      BY <1>1, <1>2, <1>5, <2>1, <3>2
  <2>2. CASE ~(c # Nil /\ c < g.end)
    <3>1. h = g
      BY <1>4, <2>2
    <3> QED
      BY <1>1, <1>2, <1>5, <2>2, <3>1
  <2> QED
    BY <2>1, <2>2
<1>7. GetSelectedCandidate(h) = c
  BY <1>3, <1>6
<1>8. h.start \in Nat /\ h.end \in Nat /\ kSelected = 2 /\ kConfirmed = 3 /\ kGuess = 1
  BY <1>6 DEF SegType, kSelected, kConfirmed, kGuess
<1>9. SegOK(h)
  BY <1>6, <1>7, <1>8 DEF SegOK, IsEmptySegment
<1>10. /\ k \in SegType /\ k.start = h.start /\ k.end = h.end /\ k.menu = g.menu
       /\ k.sel = g.sel /\ k.status = 3
  BY <1>6, <1>8 DEF SegType
<1> HIDE DEF k
<1>11. GetSelectedCandidate(k) = c
  BY <1>3, <1>10
<1>12. SegOK(k)
  BY <1>6, <1>8, <1>10, <1>11 DEF SegOK, IsEmptySegment
<1> QED
  BY <1>6, <1>9, <1>10, <1>12 DEF k

\* What was literal as a guess is so when it has been chosen.
LEMMA ChosenLiteral ==
  ASSUME NEW g \in SegType, NEW h \in SegType, NEW text, Literal(g, text), g.status = kGuess,
         h.status >= kSelected, h.tags = g.tags, h.start = g.start, h.end <= g.end,
         h.menu = g.menu
  PROVE  Literal(h, text)
<1>1. /\ h.start \in Nat /\ h.end \in Nat /\ g.end \in Nat /\ h.status \in 0..3
      /\ kGuess = 1 /\ kSelected = 2 /\ kVoid = 0
  BY DEF SegType, kGuess, kSelected, kVoid
<1>2. h.start < h.end => g.start < g.end
  BY <1>1
<1>3. \A x \in (h.start + 1)..h.end : x \in (g.start + 1)..g.end
  BY <1>1
<1> QED
  BY <1>1, <1>2, <1>3 DEF Literal

\* What OnSelect asks of the composition s that it is called with, its last
\* segment selected: the text has been translated, but the composition need
\* not be of all of it.
Selectable(c, s) ==
  /\ c \in CtxType /\ c.caret <= Len(c.input) /\ c.active = SubSeq(c.input, 1, c.caret)
  /\ Comp(s, Len(c.active)) /\ Drafted(s)
  /\ s # << >> /\ s[Len(s)].status = kGuess /\ s[Len(s)].start < s[Len(s)].end
  /\ Plain => Settled(s, c.active) /\ "ascii_mode" \notin c.opts
  /\ Lettered(c) /\ Accounted(c)

\* A composition at rest, but for what it ends in, is brought to rest by
\* composing it anew wherever the caret goes.
LEMMA NextReady ==
  ASSUME NEW c, NEW s, Selectable(c, s) \/ Rest(c),
         NEW d \in CtxType, d.input = c.input, d.active = c.active, d.opts = c.opts,
         d.sink = c.sink, d.caret <= Len(d.input),
         Comp(d.segs, Len(d.active)), LastOpen(d.segs),
         Plain => Rested(d.segs) /\ Settled(d.segs, d.active)
  PROVE  Ready(d)
<1>1. /\ c \in CtxType /\ c.caret <= Len(c.input) /\ c.active = SubSeq(c.input, 1, c.caret)
      /\ Lettered(c) /\ Accounted(c) /\ (Plain => "ascii_mode" \notin c.opts)
  BY DEF Selectable, Rest
<1>2. c.input \in Seq(Chars) /\ c.caret \in Nat /\ d.caret \in Nat /\ Len(c.input) \in Nat
  BY <1>1, LenProperties DEF CtxType
<1>3. Aligned(d.active, SubSeq(d.input, 1, d.caret))
  <2> DEFINE new == SubSeq(c.input, 1, d.caret)
  <2>1. /\ Len(c.active) = c.caret /\ \A x \in 1..c.caret : c.active[x] = c.input[x]
    BY <1>1, <1>2, BeforeCaret
  <2>2. Len(new) = d.caret /\ \A x \in 1..d.caret : new[x] = c.input[x]
    BY <1>2, BeforeCaret
  <2> HIDE DEF new
  <2>3. Aligned(c.active, new)
    BY <1>2, <2>1, <2>2 DEF Aligned
  <2> QED
    BY <2>3 DEF new
<1>4. Lettered(d) /\ Accounted(d)
  BY <1>1 DEF Lettered, Accounted
<1> QED
  BY <1>1, <1>3, <1>4 DEF Ready

\* Finishing removes at most the last segment.
LEMMA FinishKeeps ==
  ASSUME NEW n \in Nat, NEW r, Comp(r, n)
  PROVE  LET f == FinishSegmentation(r)
         IN  \A i \in 1..(Len(r) - 1) : i <= Len(f) /\ f[i] = r[i]
<1> DEFINE v == Trim(r)
           f == FinishSegmentation(r)
<1>1. Len(r) \in Nat /\ Comp(v, n)
  BY TrimFormed, LenOf DEF Comp
<1>2. \A i \in 1..(Len(r) - 1) : i <= Len(v) /\ v[i] = r[i]
  <2>1. CASE r # << >> /\ v = Front(r)
    <3> DEFINE u == Front(r)
    <3>1. Len(u) = Len(r) - 1 /\ \A i \in 1..(Len(r) - 1) : u[i] = r[i]
      BY <2>1, FrontFormed
    <3> HIDE DEF u
    <3> QED
      BY <1>1, <2>1, <3>1 DEF u
  <2>2. CASE v = r
    BY <1>1, <2>2
  <2> QED
    BY <2>1, <2>2 DEF Trim
<1>3. f = v \/ f = Forward(v)
  BY DEF FinishSegmentation, ForwardIfChosen
<1> HIDE DEF v, f
<1>4. /\ Len(v) \in Nat /\ Len(Forward(v)) \in Nat /\ Len(v) <= Len(Forward(v))
      /\ \A i \in 1..Len(v) : Forward(v)[i] = v[i]
  BY <1>1, ForwardFormed, LenOf DEF Comp
<1>5. \A i \in 1..(Len(r) - 1) : i <= Len(f) /\ f[i] = r[i]
  <2>1. CASE f = v
    BY <1>2, <2>1
  <2>2. CASE f = Forward(v)
    BY <1>1, <1>2, <1>4, <2>2
  <2> QED
    BY <1>3, <2>1, <2>2
<1> QED
  BY <1>5 DEF f

\* Composing the same text anew keeps what has been chosen of it, unless that
\* is raw and the fallback segmentor may join to it.
LEMMA ChosenKept ==
  ASSUME NEW text \in Seq(Chars), NEW s, Comp(s, Len(text)), LastOpen(s), NEW on,
         NEW j \in 1..Len(s), s[j].status >= kSelected,
         "raw" \notin s[j].tags \/ HasFinishedSegmentation(s, text)
  PROVE  s[j].end <= GetConfirmedPosition(Recompose(s, text, text, on))
<1> DEFINE n == Len(text)
           d == CHOOSE d \in 0..Len(text) : IsDiffPos(d, text, text)
           k == CHOOSE i \in 0..Len(s) : IsKeptCount(i, s, d)
           kept == ResetComposition(s, text, text)
           r == Rounds(kept, text, on)
           f == FinishSegmentation(r)
           t == TranslateSegments(f, text, on)
<1>1. /\ n \in Nat /\ s \in Comps /\ Len(s) \in Nat /\ Formed(s, n)
      /\ \A i \in 1..Len(s) : s[i] \in SegType /\ s[i].end \in Nat /\ s[i].end <= n
  BY LenProperties, LenOf DEF Comp, Formed, SegType
<1>2. d \in 0..n /\ IsDiffPos(d, text, text)
  BY DiffExists
<1> HIDE DEF d
<1>3. d = n
  BY <1>1, <1>2 DEF IsDiffPos
<1>4. k \in 0..Len(s) /\ IsKeptCount(k, s, d)
  BY <1>1, <1>3, KeptExists
<1>5. kept = Dispose(s, k)
  BY DEF ResetComposition, k, d
<1> HIDE DEF k
<1>6. k = Len(s)
  <2> SUFFICES ASSUME k < Len(s) PROVE FALSE
    BY <1>1, <1>4
  <2>1. Len(s) \in (k + 1)..Len(s) /\ Len(s) \in 1..Len(s)
    BY <1>1, <1>4
  <2>2. s[Len(s)].end > d
    BY <1>4, <2>1 DEF IsKeptCount
  <2> QED
    BY <1>1, <1>3, <2>1, <2>2
<1>7. kept = s
  BY <1>1, <1>5, <1>6 DEF Dispose
<1> HIDE DEF kept
<1>8. Comp(r, n) /\ LastOpen(r) /\ Keeps(s, r)
  BY <1>7, RoundsFormed
<1>9. j <= Len(r) /\ r[j] = s[j]
  <2>1. CASE "raw" \notin s[j].tags
    BY <1>8, <2>1 DEF Keeps, IsChoice
  <2>2. CASE HasFinishedSegmentation(s, text)
    <3> DEFINE after == AfterRounds(s, text, on)
    <3>1. PICK x \in 0..n :
            /\ r = after[x]
            /\ \A y \in 0..(x - 1) : ~HasFinishedSegmentation(after[y], text)
      BY <1>7, RoundsEnd
    <3>2. after[0] = s
      BY AfterRoundsIs
    <3>3. x = 0
      <4>1. x > 0 => 0 \in 0..(x - 1)
        BY <1>1
      <4> QED
        BY <1>1, <2>2, <3>1, <3>2, <4>1
    <3> QED
      BY <1>1, <3>1, <3>2, <3>3
  <2> QED
    BY <2>1, <2>2
<1> HIDE DEF r
<1>10. Len(r) \in Nat /\ j # Len(r)
  <2>1. Len(r) \in Nat /\ (r # << >> <=> Len(r) > 0)
    BY <1>8, LenOf DEF Comp
  <2>2. s[j].status \in 0..3 /\ ~(s[j].status < kSelected)
    BY <1>1 DEF SegType, kSelected
  <2> QED
    BY <1>1, <1>8, <1>9, <2>1, <2>2 DEF LastOpen
<1>11. Comp(f, n) /\ LastOpen(f) /\ j <= Len(f) /\ f[j] = s[j]
  <2>1. Comp(f, n) /\ LastOpen(f)
    BY <1>1, <1>8, FinishFormed
  <2>2. j \in 1..(Len(r) - 1)
    BY <1>1, <1>9, <1>10
  <2>3. \A i \in 1..(Len(r) - 1) : i <= Len(f) /\ f[i] = r[i]
    BY <1>1, <1>8, FinishKeeps
  <2> QED
    BY <1>9, <2>1, <2>2, <2>3
<1> HIDE DEF f
<1>12. j \in 1..Len(f)
  <2>1. Len(f) \in Nat
    BY <1>11, LenOf DEF Comp
  <2> QED
    BY <1>1, <1>11, <2>1
<1>13. /\ Comp(t, n) /\ Len(t) = Len(f) /\ t[j].end = s[j].end
       /\ t[j].status >= kSelected
  <2>1. /\ Comp(t, n) /\ Len(t) = Len(f)
        /\ \A i \in 1..Len(f) :
             t[i].end = f[i].end /\ (t[i].status >= kSelected <=> f[i].status >= kSelected)
    BY <1>11, TranslatedFormed
  <2> QED
    BY <1>11, <1>12, <2>1
<1> HIDE DEF t
<1>14. s[j].end <= GetConfirmedPosition(t)
  BY <1>1, <1>12, <1>13, Confirmed
<1>15. Recompose(s, text, text, on) = t
  BY DEF Recompose, CalculateSegmentation, t, f, r, kept
<1> QED
  BY <1>14, <1>15

\* From a context c to a context e, what is composed has been committed or is
\* confirmed further: the caret has moved on, or more than up to position b is
\* confirmed before it.
Onward(c, b, e) ==
  \/ e.input = << >>
  \/ /\ e.input = c.input
     /\ \/ c.caret < e.caret
        \/ e.caret = c.caret /\ b < GetConfirmedPosition(e.segs)

\* OnSelect, whatever it reads, leaves a context at rest.
LEMMA OnSelectRest ==
  ASSUME NEW c, NEW s, Selectable(c, s), NEW read,
         NEW old \in SegType, old.status = kSelected, old.start = s[Len(s)].start,
         old.end = s[Len(s)].end, old.tags = s[Len(s)].tags, old.menu = s[Len(s)].menu,
         c.segs = SetLast(s, old)
  PROVE  /\ Rest(OnSelect(c, read))
         /\ Plain /\ HasFinishedSegmentation(s, c.active) =>
              Onward(c, s[Len(s)].start, OnSelect(c, read))
<1> DEFINE g == s[Len(s)]
           n == Len(c.active)
           h == Chosen(old)
           k == [h EXCEPT !.status = kConfirmed]
           t == SetLast(s, h)
           v == SetLast(s, k)
           done == [c EXCEPT !.segs = v]
           next == [c EXCEPT !.segs = Forward(t)]
<1>1. /\ c \in CtxType /\ c.input \in Seq(Chars) /\ c.caret \in Nat /\ Len(c.input) \in Nat
      /\ c.active \in Seq(Chars) /\ c.caret <= Len(c.input) /\ n = c.caret /\ n \in Nat
      /\ s \in Comps /\ s # << >> /\ Comp(s, n) /\ Drafted(s)
  <2>1. /\ c \in CtxType /\ c.input \in Seq(Chars) /\ c.caret \in Nat /\ Len(c.input) \in Nat
        /\ c.active \in Seq(Chars) /\ c.caret <= Len(c.input)
        /\ c.active = SubSeq(c.input, 1, c.caret)
    BY LenProperties DEF Selectable, CtxType
  <2>2. n = c.caret
    BY <2>1, BeforeCaret
  <2> QED
    BY <2>1, <2>2 DEF Selectable, Comp
<1>2. /\ Len(s) \in Nat /\ Len(s) \in 1..Len(s) /\ g \in SegType /\ SegOK(g) /\ g.end <= n
      /\ g.status = kGuess /\ g.start < g.end /\ MenuWithin(g)
      /\ g.start \in Nat /\ g.end \in Nat
  <2>1. Len(s) \in Nat /\ Len(s) \in 1..Len(s) /\ g \in SegType
    BY <1>1, LenOf
  <2>2. SegOK(g) /\ g.end <= n
    BY <1>1, <2>1 DEF Comp, Formed
  <2> QED
    BY <2>1, <2>2 DEF Selectable, SegOK, SegType
<1>3. GetSelectedCandidate(old) = Nil
        \/ (old.start < GetSelectedCandidate(old) /\ GetSelectedCandidate(old) <= old.end)
  <2>1. old.sel \in Nat /\ old.menu \in Seq(Nat) /\ Len(old.menu) \in Nat
    BY LenProperties DEF SegType
  <2>2. CASE old.sel < Len(old.menu)
    <3>1. old.sel + 1 \in 1..Len(old.menu) /\ GetSelectedCandidate(old) = old.menu[old.sel + 1]
      BY <2>1, <2>2 DEF GetSelectedCandidate, GetCandidateAt
    <3> QED
      BY <1>2, <3>1 DEF MenuWithin
  <2>3. CASE ~(old.sel < Len(old.menu))
    BY <2>3 DEF GetSelectedCandidate, GetCandidateAt
  <2> QED
    BY <2>2, <2>3
<1>a. ASSUME Plain, h.end < g.end PROVE "raw" \notin h.tags
  <2>1. GetSelectedCandidate(old) # Nil /\ h.tags = g.tags
    BY <1>2, <1>a DEF Chosen, SegType
  <2>2. old.sel \in Nat /\ Len(old.menu) \in Nat /\ old.sel < Len(old.menu)
    BY <2>1, LenProperties DEF SegType, GetSelectedCandidate, GetCandidateAt
  <2>3. g.menu # << >>
    BY <2>2
  <2>4. Literal(g, c.active)
    BY <1>2, <1>a DEF Selectable, Settled
  <2>5. g.status # kVoid
    BY <1>2 DEF kVoid, kGuess
  <2> QED
    BY <1>2, <2>1, <2>3, <2>4, <2>5 DEF Literal
<1>4. /\ h \in SegType /\ SegOK(h) /\ h.status = kSelected /\ h.tags = g.tags
      /\ h.start = g.start /\ h.start < h.end /\ h.end <= g.end /\ h.menu = g.menu
      /\ k \in SegType /\ SegOK(k)
  <2>1. old.start < old.end
    BY <1>2
  <2> QED
    BY <1>3, <2>1, ChosenFormed
<1>5. OnSelect(c, read)
        = IF h.end = Len(c.input)
            THEN IF AutoCommit THEN Commit(done) ELSE [done EXCEPT !.segs = Forward(v)]
            ELSE IF (IF StableVector THEN h.end >= c.caret ELSE read)
                   THEN SetCaretPos(next, Len(c.input)) ELSE Compose(next)
  <2>1. Last(c.segs) = old
    BY <1>1, SetLastIs
  <2>2. SetLast(c.segs, h) = t /\ SetLast(c.segs, k) = v
    <3> HIDE DEF h, k
    <3>1. k \in SegType /\ h \in SegType
      BY <1>4
    <3> QED
      BY <1>1, <3>1, SetLastTwice
  <2>3. done.segs = v
    BY <1>1 DEF CtxType
  <2>4. OnSelect(c, read)
          = IF h.end = Len(c.input)
              THEN IF AutoCommit THEN Commit([c EXCEPT !.segs = SetLast(c.segs, k)])
                   ELSE [[c EXCEPT !.segs = SetLast(c.segs, k)] EXCEPT !.segs = Forward(@)]
              ELSE IF (IF StableVector THEN h.end >= c.caret ELSE read)
                     THEN SetCaretPos([c EXCEPT !.segs = Forward(SetLast(c.segs, h))], Len(c.input))
                     ELSE Compose([c EXCEPT !.segs = Forward(SetLast(c.segs, h))])
    <3>1. h = Chosen(Last(c.segs)) /\ k = [h EXCEPT !.status = kConfirmed]
      BY <2>1
    <3> HIDE DEF h, k
    <3> QED
      BY <3>1 DEF OnSelect, Chosen
  <2> HIDE DEF h, k, t, v
  <2> QED
    BY <2>2, <2>3, <2>4
<1>6. /\ h.start \in Nat /\ h.end \in Nat /\ h.end <= n
      /\ k.start = h.start /\ k.end = h.end /\ k.tags = h.tags /\ k.menu = h.menu
      /\ k.status = kConfirmed
  <2> HIDE DEF h
  <2>1. k.start = h.start /\ k.end = h.end /\ k.tags = h.tags /\ k.menu = h.menu
        /\ k.status = kConfirmed
    BY <1>4 DEF SegType
  <2>2. h.start \in Nat /\ h.end \in Nat
    BY <1>4 DEF SegType
  <2> QED
    BY <1>1, <1>2, <1>4, <2>1, <2>2
<1> HIDE DEF h, k
<1>7. /\ h.status >= kSelected /\ h.status >= kGuess
      /\ k.status >= kSelected /\ k.status >= kGuess
  BY <1>4, <1>6 DEF kGuess, kSelected, kConfirmed
<1>8. ASSUME NEW x \in SegType, SegOK(x), x.start = g.start, x.end = h.end, x.end <= n,
             x.status >= kGuess, x.status >= kSelected, x.tags = g.tags, x.menu = g.menu
      PROVE  LET u == SetLast(s, x)
             IN  /\ Comp(u, n) /\ u # << >> /\ Len(u) = Len(s) /\ u[Len(u)] = x
                 /\ Drafted(u) /\ (Plain => Settled(u, c.active))
  <2> DEFINE u == SetLast(s, x)
  <2>1. /\ Comp(u, n) /\ Len(u) = Len(s) /\ u[Len(s)] = x
        /\ \A i \in 1..(Len(s) - 1) : u[i] = s[i]
    BY SMTT(60), <1>1, <1>8, SetLastFormed
  <2>2. u # << >>
    BY <1>1, <1>8, SetLastIs
  <2>3. Literal(g, c.active) => Literal(x, c.active)
    BY <1>2, <1>4, <1>8, ChosenLiteral
  <2>4. ASSUME Plain PROVE Settled(u, c.active)
    <3>1. Settled(s, c.active)
      BY <2>4 DEF Selectable
    <3>2. Literal(x, c.active)
      BY <1>2, <2>3, <3>1 DEF Settled
    <3> QED
      BY <1>1, <1>8, <3>1, <3>2, SettledSetLast
  <2> HIDE DEF u
  <2>5. Drafted(u)
    <3> SUFFICES ASSUME NEW i \in 1..Len(u), u[i].start < u[i].end PROVE u[i].status >= kGuess
      BY DEF Drafted
    <3>1. i = Len(s) \/ i \in 1..(Len(s) - 1)
      BY <1>2, <2>1
    <3>2. CASE i = Len(s)
      BY <1>8, <2>1, <3>2
    <3>3. CASE i \in 1..(Len(s) - 1)
      <4>1. u[i] = s[i] /\ i \in 1..Len(s)
        BY <1>2, <2>1, <3>3
      <4> QED
        BY <1>1, <4>1 DEF Drafted
    <3> QED
      BY <3>1, <3>2, <3>3
  <2> QED
    BY <2>1, <2>2, <2>4, <2>5 DEF u
<1>9. /\ Comp(t, n) /\ t # << >> /\ t[Len(t)] = h /\ Drafted(t)
      /\ Plain => Settled(t, c.active)
  BY <1>4, <1>6, <1>7, <1>8
<1>10. /\ Comp(v, n) /\ v # << >> /\ v[Len(v)] = k /\ Drafted(v)
       /\ Plain => Settled(v, c.active)
  BY <1>4, <1>6, <1>7, <1>8
<1> HIDE DEF t, v
<1>11. v \in Comps /\ t \in Comps
  BY <1>9, <1>10 DEF Comp
<1>12. CASE h.end = Len(c.input)
  <2>1. n = Len(c.input)
    BY <1>1, <1>6, <1>12
  <2>2. CASE AutoCommit
    <3>1. OnSelect(c, read) = Commit(done)
      BY <1>5, <1>12, <2>2
    <3>2. /\ done \in CtxType /\ done.segs = v /\ done.input = c.input /\ done.caret = c.caret
          /\ done.active = c.active /\ done.sink = c.sink /\ done.opts = c.opts
      BY <1>1, <1>11 DEF CtxType
    <3> HIDE DEF done
    <3>3. IsComposing(done)
      <4>1. Len(c.input) > 0
        BY <1>4, <1>6, <1>12
      <4>2. c.input # << >>
        BY <4>1
      <4> QED
        BY <3>2, <4>2 DEF IsComposing
    <3>4. Spoken(done.segs, Len(done.active))
      BY <1>1, <1>10, <3>2, SpokenAtRest
    <3>5. Accounted(done) /\ (Plain => "ascii_mode" \notin done.opts)
      BY <3>2 DEF Selectable, Accounted
    <3>6. done.caret = Len(done.active)
      BY <1>1, <3>2
    <3> QED
      BY <3>1, <3>2, <3>3, <3>4, <3>5, <3>6, CommitRest DEF Onward
  <2>3. CASE ~AutoCommit
    <3> DEFINE u == Forward(v)
               d == [done EXCEPT !.segs = u]
    <3>1. OnSelect(c, read) = d
      BY <1>5, <1>12, <2>3
    <3>2. /\ Comp(u, n) /\ LastOpen(u) /\ Rested(u) /\ Drafted(u)
          /\ GetCurrentEndPosition(u) = k.end
          /\ Settled(v, c.active) => Settled(u, c.active)
          /\ Len(v) \in 1..Len(u) /\ u[Len(v)] = k
      BY <1>1, <1>7, <1>10, ChosenForward
    <3> HIDE DEF u
    <3>3. u \in Comps
      BY <3>2 DEF Comp
    <3>4. /\ d \in CtxType /\ d.segs = u /\ d.input = c.input /\ d.caret = c.caret
          /\ d.active = c.active /\ d.sink = c.sink /\ d.opts = c.opts
      BY <1>1, <3>3 DEF CtxType
    <3> HIDE DEF d
    <3>5. HasFinishedSegmentation(u, c.active)
      BY <1>1, <1>6, <1>12, <2>1, <3>2 DEF HasFinishedSegmentation
    <3>6. Lettered(d) /\ Accounted(d)
      BY <3>4 DEF Selectable, Lettered, Accounted
    <3>7. Rest(d)
      BY <1>10, <3>2, <3>4, <3>5, <3>6 DEF Selectable, Rest
    <3>8. GetConfirmedPosition(u) \in Nat /\ h.end <= GetConfirmedPosition(u)
      BY <1>1, <1>6, <1>7, <3>2, Confirmed
    <3>9. g.start < GetConfirmedPosition(u)
      <4> HIDE DEF g
      <4> QED
        BY <1>2, <1>4, <1>6, <3>8
    <3>10. Onward(c, g.start, d)
      BY <3>4, <3>9 DEF Onward
    <3> QED
      BY <3>1, <3>7, <3>10
  <2> QED
    BY <2>2, <2>3
<1>13. CASE h.end # Len(c.input)
  <2> DEFINE u == Forward(t)
             d == [c EXCEPT !.segs = u]
             m == Len(c.input)
             e == [d EXCEPT !.caret = m]
  <2>1. /\ Comp(u, n) /\ LastOpen(u) /\ Rested(u)
        /\ Settled(t, c.active) => Settled(u, c.active)
    BY <1>1, <1>7, <1>9, ChosenForward
  <2>a. Len(t) \in 1..Len(u) /\ u[Len(t)] = h /\ GetCurrentEndPosition(u) = h.end
    BY <1>1, <1>7, <1>9, ChosenForward
  <2>2. u \in Comps
    BY <2>1 DEF Comp
  <2>3. d = next
    OBVIOUS
  <2> HIDE DEF u, next
  <2>4. /\ d \in CtxType /\ d.segs = u /\ d.input = c.input /\ d.caret = c.caret
        /\ d.active = c.active /\ d.sink = c.sink /\ d.opts = c.opts
    BY <1>1, <2>2 DEF CtxType
  <2>5. SetCaretPos(d, m) = Compose(e)
    <3>1. (IF m > Len(d.input) THEN Len(d.input) ELSE m) = m
      BY <2>4
    <3>2. SetCaretPos(d, m)
            = Compose([d EXCEPT !.caret = IF m > Len(d.input) THEN Len(d.input) ELSE m])
      BY DEF SetCaretPos
    <3> HIDE DEF d, m
    <3> QED
      BY <3>1, <3>2
  <2>6. m \in Nat
    BY <1>1
  <2>7. m = Len(c.input)
    OBVIOUS
  <2> HIDE DEF d, m
  <2>8. /\ e \in CtxType /\ e.segs = u /\ e.input = c.input /\ e.caret = m
        /\ e.active = c.active /\ e.sink = c.sink /\ e.opts = c.opts
    BY <2>4, <2>6 DEF CtxType
  <2> HIDE DEF e
  <2>9. Ready(d)
    BY <1>1, <1>9, <2>1, <2>4, NextReady
  <2>10. Ready(e)
    BY <1>1, <1>9, <2>1, <2>7, <2>8, NextReady
  <2>11. OnSelect(c, read) \in {Compose(d), Compose(e)}
    BY <1>5, <1>13, <2>3, <2>5, <2>7
  <2>12. ASSUME Plain, HasFinishedSegmentation(s, c.active), NEW x, Ready(x), x.segs = u,
                x.input = c.input, x.active = c.active, x.caret >= c.caret, x.caret \in Nat
         PROVE  Onward(c, g.start, Compose(x))
    <3>1. /\ Compose(x).input = c.input /\ Compose(x).caret = x.caret /\ Rest(Compose(x))
          /\ Compose(x).segs
               = Recompose(u, c.active, SubSeq(c.input, 1, x.caret), x.opts)
      BY <2>12, ComposeRest
    <3>2. CASE c.caret < x.caret
      BY <3>1, <3>2 DEF Onward
    <3>3. CASE c.caret = x.caret
      <4> DEFINE w == Recompose(u, c.active, c.active, x.opts)
      <4>1. Compose(x).segs = w
        BY <3>1, <3>3 DEF Selectable
      <4>2. g.end >= n
        <5>1. GetCurrentEndPosition(s) = g.end
          BY <1>1 DEF GetCurrentEndPosition, Last
        <5> HIDE DEF g
        <5> QED
          BY <2>12, <5>1 DEF HasFinishedSegmentation
      <4>3. "raw" \notin h.tags \/ HasFinishedSegmentation(u, c.active)
        <5>1. CASE h.end < g.end
          BY <1>a, <2>12, <5>1
        <5>2. CASE h.end >= n
          BY <2>a, <5>2 DEF HasFinishedSegmentation
        <5> HIDE DEF g
        <5> QED
          BY <1>1, <1>2, <1>6, <4>2, <5>1, <5>2
      <4>4. h.end <= GetConfirmedPosition(w)
        BY <1>1, <1>7, <2>1, <2>a, <4>3, ChosenKept
      <4>5. GetConfirmedPosition(w) \in Nat
        <5> DEFINE y == Compose(x)
        <5>1. Len(y.active) \in Nat /\ Comp(w, Len(y.active))
          <6>1. Rest(y) /\ y.segs = w
            BY <3>1, <4>1
          <6> HIDE DEF y, w
          <6>2. Len(y.active) \in Nat
            BY <6>1, RestType
          <6> QED
            BY <6>1, <6>2 DEF Rest
        <5> HIDE DEF w
        <5> QED
          BY <5>1, Confirmed
      <4> HIDE DEF w
      <4>6. g.start < GetConfirmedPosition(w)
        <5> HIDE DEF g
        <5> QED
          BY <1>2, <1>4, <1>6, <4>4, <4>5
      <4> QED
        BY <3>1, <3>3, <4>1, <4>6 DEF Onward
    <3> QED
      BY <1>1, <2>12, <3>2, <3>3
  <2>13. Plain /\ HasFinishedSegmentation(s, c.active) =>
           Onward(c, g.start, Compose(d)) /\ Onward(c, g.start, Compose(e))
    <3>1. c.caret >= c.caret /\ m >= c.caret
      BY <1>1, <2>7
    <3>2. Plain /\ HasFinishedSegmentation(s, c.active) => Onward(c, g.start, Compose(d))
      BY <1>1, <2>4, <2>9, <2>12, <3>1
    <3>3. Plain /\ HasFinishedSegmentation(s, c.active) => Onward(c, g.start, Compose(e))
      BY <2>6, <2>8, <2>10, <2>12, <3>1
    <3> QED
      BY <3>2, <3>3
  <2>14. Rest(Compose(d)) /\ Rest(Compose(e))
    BY <2>9, <2>10, ComposeRest
  <2> QED
    BY <2>11, <2>13, <2>14
<1> QED
  BY <1>12, <1>13

\* A segment with another status, or another candidate too.
LEMMA Marked ==
  ASSUME NEW g \in SegType, NEW st \in 0..3, NEW i \in Nat
  PROVE  /\ LET h == [g EXCEPT !.status = st]
            IN  /\ h \in SegType /\ h.status = st /\ h.start = g.start /\ h.end = g.end
                /\ h.tags = g.tags /\ h.menu = g.menu /\ h.sel = g.sel
         /\ LET h == [g EXCEPT !.sel = i, !.status = st]
            IN  /\ h \in SegType /\ h.status = st /\ h.start = g.start /\ h.end = g.end
                /\ h.tags = g.tags /\ h.menu = g.menu /\ h.sel = i
BY DEF SegType

\* The last segment of a composition at rest.
LEMMA LastAtRest ==
  ASSUME NEW c, Rest(c), c.segs # << >>
  PROVE  LET s == c.segs
             n == Len(c.active)
             g == s[Len(s)]
         IN  /\ n \in Nat /\ n = c.caret /\ s \in Comps /\ Comp(s, n) /\ Drafted(s)
             /\ Len(s) \in Nat /\ Len(s) \in 1..Len(s) /\ g = Last(s) /\ g \in SegType /\ SegOK(g)
             /\ g.start \in Nat /\ g.end \in Nat /\ g.start <= g.end /\ g.end <= n
             /\ g.status \in {kVoid, kGuess}
             /\ g.start < g.end => g.status = kGuess
             /\ g.sel \in Nat /\ g.menu \in Seq(Nat) /\ Len(g.menu) \in Nat
             /\ g.menu # << >> <=> Len(g.menu) > 0
             /\ g.menu # << >> => g.start < g.end /\ g.sel < Len(g.menu)
<1> DEFINE s == c.segs
           n == Len(c.active)
           g == s[Len(s)]
<1>1. n \in Nat /\ n = c.caret /\ s \in Comps /\ Comp(s, n) /\ Drafted(s) /\ LastOpen(s)
  <2>1. n = c.caret /\ c.active \in Seq(Chars)
    BY RestType
  <2>2. n \in Nat
    BY <2>1, LenProperties
  <2> QED
    BY <2>1, <2>2 DEF Rest, Comp
<1>2. Len(s) \in Nat /\ Len(s) \in 1..Len(s) /\ g = Last(s) /\ g \in SegType
  <2>1. Len(s) \in Nat /\ Len(s) > 0 /\ \A i \in 1..Len(s) : s[i] \in SegType
    BY <1>1, LenOf
  <2> QED
    BY <2>1 DEF Last
<1>3. SegOK(g) /\ g.end <= n
  BY <1>1, <1>2 DEF Comp, Formed
<1>4. /\ g.start \in Nat /\ g.end \in Nat /\ g.start <= g.end /\ g.status \in 0..3
      /\ g.sel \in Nat /\ g.menu \in Seq(Nat) /\ Len(g.menu) \in Nat
  BY <1>2, <1>3, LenProperties DEF SegType, SegOK
<1>5. g.status < kSelected
  BY <1>1 DEF LastOpen
<1>6. g.status \in {kVoid, kGuess}
  BY <1>4, <1>5 DEF kVoid, kGuess, kSelected
<1>7. g.start < g.end => g.status = kGuess
  <2>1. g.start < g.end => g.status >= kGuess
    BY <1>1, <1>2 DEF Drafted
  <2> QED
    BY <1>6, <2>1 DEF kVoid, kGuess
<1>8. g.menu # << >> <=> Len(g.menu) > 0
  BY <1>4
<1>9. g.menu # << >> => g.start < g.end /\ g.sel < Len(g.menu)
  <2> SUFFICES ASSUME g.menu # << >> PROVE g.start < g.end /\ g.sel < Len(g.menu)
    OBVIOUS
  <2>1. g.start < g.end
    BY <1>3, <1>4 DEF SegOK, IsEmptySegment
  <2> QED
    BY <1>3, <1>7, <2>1 DEF SegOK
<1> QED
  BY <1>1, <1>2, <1>3, <1>4, <1>6, <1>7, <1>8, <1>9

\* Its text can be selected.
LEMMA SelectableAtRest ==
  ASSUME NEW c, Rest(c), c.segs # << >>, c.segs[Len(c.segs)].start < c.segs[Len(c.segs)].end
  PROVE  Selectable(c, c.segs)
<1>1. Comp(c.segs, Len(c.active)) /\ Drafted(c.segs) /\ c.segs[Len(c.segs)].status = kGuess
  BY LastAtRest
<1> QED
  BY <1>1 DEF Rest, Selectable

\* Select, of any candidate there is or is not.
LEMMA SelectRest ==
  ASSUME NEW c, Rest(c), NEW index \in Nat, NEW read
  PROVE  Rest(Select(c, index, read))
<1>1. CASE c.segs = << >> \/ GetCandidateAt(Last(c.segs), index) = Nil
  BY <1>1 DEF Select
<1>2. CASE ~(c.segs = << >> \/ GetCandidateAt(Last(c.segs), index) = Nil)
  <2> DEFINE s == c.segs
             g == s[Len(s)]
             old == [g EXCEPT !.sel = index, !.status = kSelected]
             t == SetLast(s, old)
             d == [c EXCEPT !.segs = t]
  <2>1. s # << >> /\ GetCandidateAt(g, index) # Nil
    BY <1>2 DEF Last
  <2>2. /\ g \in SegType /\ s \in Comps /\ Len(g.menu) \in Nat
        /\ g.menu # << >> <=> Len(g.menu) > 0
        /\ g.menu # << >> => g.start < g.end
        /\ c \in CtxType
    BY <2>1, LastAtRest DEF Rest
  <2>3. g.menu # << >>
    <3>1. index < Len(g.menu)
      BY <2>1 DEF GetCandidateAt
    <3> QED
      BY <2>2, <3>1
  <2>4. Selectable(c, s)
    BY <2>1, <2>2, <2>3, SelectableAtRest
  <2>5. Select(c, index, read) = OnSelect(d, read)
    BY <1>2 DEF Select, Last
  <2>6. /\ old \in SegType /\ old.status = kSelected /\ old.start = g.start
        /\ old.end = g.end /\ old.tags = g.tags /\ old.menu = g.menu
    <3>1. kSelected \in 0..3
      BY DEF kSelected
    <3> HIDE DEF g
    <3> QED
      BY <2>2, <3>1 DEF SegType
  <2> HIDE DEF old
  <2>7. t \in Comps
    BY <2>1, <2>2, <2>6, SetLastIs
  <2> HIDE DEF t
  <2>8. /\ d \in CtxType /\ d.segs = t /\ d.input = c.input /\ d.caret = c.caret
        /\ d.active = c.active /\ d.opts = c.opts /\ d.sink = c.sink
    BY <2>2, <2>7 DEF CtxType
  <2> HIDE DEF d
  <2>9. Selectable(d, s)
    BY <2>4, <2>8 DEF Selectable, Lettered, Accounted
  <2>10. d.segs = SetLast(s, old)
    BY <2>8 DEF t
  <2>11. Rest(OnSelect(d, read))
    <3> HIDE DEF s
    <3> QED
      BY <2>6, <2>9, <2>10, OnSelectRest
  <2> QED
    BY <2>5, <2>11
<1> QED
  BY <1>1, <1>2

\* Confirming a selection.
LEMMA ConfirmSelectable ==
  ASSUME NEW c, Selectable(c, c.segs), NEW read
  PROVE  /\ Rest(ConfirmCurrentSelection(c, read))
         /\ Plain /\ HasFinishedSegmentation(c.segs, c.active) =>
              Onward(c, c.segs[Len(c.segs)].start, ConfirmCurrentSelection(c, read))
<1> DEFINE s == c.segs
           g == s[Len(s)]
           old == [g EXCEPT !.status = kSelected]
           t == SetLast(s, old)
           d == [c EXCEPT !.segs = t]
<1>1. s # << >> /\ g \in SegType /\ s \in Comps /\ c \in CtxType /\ g = Last(s)
  <2>1. s # << >> /\ s \in Comps /\ c \in CtxType
    BY DEF Selectable, Comp
  <2>2. Len(s) \in Nat /\ Len(s) > 0 /\ \A i \in 1..Len(s) : s[i] \in SegType
    BY <2>1, LenOf
  <2> QED
    BY <2>1, <2>2 DEF Last
<1>2. g.start # g.end
  BY <1>1 DEF Selectable, SegType
<1>3. CanConfirm(c)
  BY <1>1, <1>2 DEF CanConfirm, IsEmptySegment
<1>4. ConfirmCurrentSelection(c, read) = OnSelect(d, read)
  BY <1>1, <1>3 DEF ConfirmCurrentSelection
<1>5. /\ old \in SegType /\ old.status = kSelected /\ old.start = g.start
      /\ old.end = g.end /\ old.tags = g.tags /\ old.menu = g.menu
  <2>1. kSelected \in 0..3
    BY DEF kSelected
  <2> HIDE DEF g
  <2> QED
    BY <1>1, <2>1 DEF SegType
<1> HIDE DEF old
<1>6. t \in Comps
  BY <1>1, <1>5, SetLastIs
<1> HIDE DEF t
<1>7. /\ d \in CtxType /\ d.segs = t /\ d.input = c.input /\ d.caret = c.caret
      /\ d.active = c.active /\ d.opts = c.opts /\ d.sink = c.sink
  BY <1>1, <1>6 DEF CtxType
<1> HIDE DEF d
<1>8. Selectable(d, s)
  BY <1>7 DEF Selectable, Lettered, Accounted
<1>9. d.segs = SetLast(s, old)
  BY <1>7 DEF t
<1>10. /\ Rest(OnSelect(d, read))
       /\ Plain /\ HasFinishedSegmentation(s, d.active) =>
            Onward(d, g.start, OnSelect(d, read))
  <2> HIDE DEF s
  <2> QED
    BY <1>5, <1>8, <1>9, OnSelectRest
<1>11. \A b, e : Onward(d, b, e) => Onward(c, b, e)
  BY <1>7 DEF Onward
<1> QED
  BY <1>4, <1>7, <1>10, <1>11

\* Confirming what there is brings the engine to rest.
LEMMA ConfirmRest ==
  ASSUME NEW c, Rest(c), CanConfirm(c), NEW read
  PROVE  /\ Rest(ConfirmCurrentSelection(c, read))
         /\ Plain => Onward(c, c.segs[Len(c.segs)].start, ConfirmCurrentSelection(c, read))
<1> DEFINE g == c.segs[Len(c.segs)]
<1>1. c.segs # << >>
  BY DEF CanConfirm
<1>2. /\ g = Last(c.segs) /\ g.start \in Nat /\ g.end \in Nat /\ g.start <= g.end
      /\ g.sel \in Nat /\ Len(g.menu) \in Nat
      /\ g.menu # << >> <=> Len(g.menu) > 0
      /\ g.menu # << >> => g.start < g.end
  BY <1>1, LastAtRest
<1>3. g.start < g.end
  <2>1. CASE ~IsEmptySegment(g)
    BY <1>2, <2>1 DEF IsEmptySegment
  <2>2. CASE GetSelectedCandidate(g) # Nil
    <3>1. g.sel < Len(g.menu)
      BY <2>2 DEF GetSelectedCandidate, GetCandidateAt
    <3> QED
      BY <1>2, <3>1
  <2> HIDE DEF g
  <2> QED
    BY <1>2, <2>1, <2>2 DEF CanConfirm
<1>4. Selectable(c, c.segs)
  BY <1>1, <1>3, SelectableAtRest
<1>5. HasFinishedSegmentation(c.segs, c.active)
  BY DEF Rest
<1> QED
  BY <1>4, <1>5, ConfirmSelectable

-----------------------------------------------------------------------------
\* Nothing is composed of nothing.
LEMMA NothingComposed ==
  ASSUME NEW c, Rest(c), ~IsComposing(c)
  PROVE  c.segs = << >>
<1> SUFFICES ASSUME c.segs # << >> PROVE FALSE
  OBVIOUS
<1> DEFINE s == c.segs
           n == Len(c.active)
<1>1. /\ n \in Nat /\ s \in Comps /\ Comp(s, n) /\ Len(s) \in Nat /\ Len(s) \in 1..Len(s)
      /\ s[Len(s)].end <= n /\ s[Len(s)].start \in Nat /\ s[Len(s)].end \in Nat
      /\ n = c.caret
  BY LastAtRest
<1>2. n = 0
  <2>1. c.caret \in 0..Len(c.input) /\ c.input = << >>
    BY RestType DEF IsComposing
  <2>2. Len(c.input) = 0
    BY <2>1
  <2> QED
    BY <1>1, <2>1, <2>2
<1>3. ~LastFull(s)
  BY <1>1, <1>2 DEF LastFull
<1>4. Len(s) > 1
  BY <1>3 DEF Rest, Rested
<1>5. 1 \in 1..(Len(s) - 1) /\ 1 \in 1..Len(s)
  BY <1>1, <1>4
<1>6. s[1].start < s[1].end /\ s[1].end <= n /\ s[1] \in SegType
  BY <1>1, <1>5, LenOf DEF Comp, Formed
<1>7. s[1].start \in Nat /\ s[1].end \in Nat
  BY <1>6 DEF SegType
<1> QED
  BY <1>2, <1>6, <1>7

\* Exchanging the last segment of what is committed.
LEMMA SpokenSetLast ==
  ASSUME NEW n \in Nat, NEW s, Comp(s, n), Drafted(s), s # << >>,
         NEW g \in SegType, g.start = s[Len(s)].start, g.end = s[Len(s)].end, Utters(g)
  PROVE  Spoken(SetLast(s, g), n)
<1> DEFINE t == SetLast(s, g)
           k == Len(s)
<1>1. Spoken(s, n)
  BY SpokenAtRest
<1>2. s \in Comps
  BY DEF Comp
<1>3. /\ t \in Comps /\ Len(t) = k /\ k \in Nat /\ k > 0
      /\ \A i \in 1..(k - 1) : t[i] = s[i]
      /\ t[k] = g
  <2>1. s # << >>
    OBVIOUS
  <2> QED
    BY <1>2, <2>1, SetLastIs
<1> HIDE DEF t
<1>4. ASSUME NEW i \in 1..k PROVE t[i].start = s[i].start /\ t[i].end = s[i].end /\ Utters(t[i])
  <2>1. i = k \/ i \in 1..(k - 1)
    BY <1>3
  <2>2. CASE i = k
    BY <1>3, <2>2
  <2>3. CASE i \in 1..(k - 1)
    BY <1>1, <1>3, <2>3 DEF Spoken
  <2> QED
    BY <2>1, <2>2, <2>3
<1>5. \A i \in 1..(k - 1) : i \in 1..k /\ i + 1 \in 1..k
  BY <1>3
<1>6. 1 \in 1..k
  BY <1>3
<1> HIDE DEF k
<1>7. /\ \A i \in 1..k : Utters(s[i]) /\ s[i].end <= n
      /\ \A i \in 1..(k - 1) : s[i].end = s[i + 1].start
      /\ \A i, j \in 1..k : i < j => s[i].end <= s[j].start
      /\ s[1].start = 0
  BY <1>1, <1>3 DEF Spoken, k
<1>8. \A i \in 1..(k - 1) : t[i].end = t[i + 1].start
  BY <1>4, <1>5, <1>7
<1>9. \A i \in 1..k : Utters(t[i]) /\ t[i].end <= n
  BY <1>4, <1>7
<1>10. \A i, j \in 1..k : i < j => t[i].end <= t[j].start
  BY <1>4, <1>7
<1>11. t[1].start = 0
  BY <1>4, <1>6, <1>7
<1>12. Spoken(t, n)
  BY <1>3, <1>8, <1>9, <1>10, <1>11 DEF Spoken
<1> QED
  BY <1>12 DEF t

\* Committing when there was nothing to confirm.
LEMMA UnconfirmedCommit ==
  ASSUME NEW c, Rest(c), ~CanConfirm(c), NEW read
  PROVE  LET d == ConfirmCurrentSelection(c, read)
         IN  Rest(Commit(d)) /\ Commit(d).input = << >>
<1>1. CASE c.segs = << >>
  <2>1. ConfirmCurrentSelection(c, read) = c
    BY <1>1 DEF ConfirmCurrentSelection
  <2> QED
    BY <2>1, CommitAtRest
<1>2. CASE c.segs # << >>
  <2> DEFINE s == c.segs
             g == s[Len(s)]
             old == [g EXCEPT !.status = kSelected]
             t == SetLast(s, old)
             d == [c EXCEPT !.segs = t]
             n == Len(c.active)
  <2>1. /\ n \in Nat /\ n = c.caret /\ s \in Comps /\ Comp(s, n) /\ Drafted(s)
        /\ g = Last(s) /\ g \in SegType /\ g.start \in Nat /\ g.end \in Nat /\ c \in CtxType
    BY <1>2, LastAtRest DEF Rest
  <2>2. IsComposing(c)
    BY <1>2, NothingComposed
  <2>3. GetSelectedCandidate(g) = Nil /\ g.start = g.end
    BY <1>2, <2>1 DEF CanConfirm, IsEmptySegment
  <2>4. ConfirmCurrentSelection(c, read) = d
    BY <1>2, <2>1 DEF ConfirmCurrentSelection
  <2>5. /\ old \in SegType /\ old.start = g.start /\ old.end = g.end /\ Utters(old)
    <3>1. /\ old \in SegType /\ old.start = g.start /\ old.end = g.end
          /\ old.menu = g.menu /\ old.sel = g.sel
      <4>1. kSelected \in 0..3
        BY DEF kSelected
      <4> HIDE DEF g
      <4> QED
        BY <2>1, <4>1 DEF SegType
    <3> HIDE DEF old
    <3>2. TextEnd(old) = g.end
      BY <2>3, <3>1 DEF TextEnd, GetSelectedCandidate, GetCandidateAt
    <3> QED
      BY <2>1, <2>3, <3>1, <3>2 DEF Utters
  <2> HIDE DEF old
  <2>6. t \in Comps /\ Spoken(t, n)
    BY <1>2, <2>1, <2>5, SetLastIs, SpokenSetLast
  <2> HIDE DEF t
  <2>7. /\ d \in CtxType /\ d.segs = t /\ d.input = c.input /\ d.caret = c.caret
        /\ d.active = c.active /\ d.opts = c.opts /\ d.sink = c.sink
    BY <2>1, <2>6 DEF CtxType
  <2> HIDE DEF d
  <2>8. IsComposing(d) /\ Accounted(d) /\ (Plain => "ascii_mode" \notin d.opts)
    BY <2>2, <2>7 DEF Rest, IsComposing, Accounted
  <2>9. Spoken(d.segs, Len(d.active)) /\ d.caret = Len(d.active)
    BY <2>1, <2>6, <2>7
  <2>10. Rest(Commit(d)) /\ Commit(d).input = << >>
    BY <2>7, <2>8, <2>9, CommitRest
  <2> QED
    BY <2>4, <2>10
<1> QED
  BY <1>1, <1>2

\* What Space and Return do.
LEMMA ConfirmKeysRest ==
  ASSUME NEW c, Rest(c), NEW read
  PROVE  /\ Rest(Confirm(c, read)) /\ Rest(CommitComposition(c, read))
         /\ ~IsComposing(c) => Confirm(c, read).input = << >>
<1>1. CASE CanConfirm(c)
  <2>1. Rest(ConfirmCurrentSelection(c, read))
    BY <1>1, ConfirmRest
  <2>2. Rest(Commit(ConfirmCurrentSelection(c, read)))
    BY <2>1, CommitAtRest
  <2>3. IsComposing(c)
    BY <1>1, NothingComposed DEF CanConfirm
  <2> QED
    BY <1>1, <2>1, <2>2, <2>3 DEF Confirm, CommitComposition
<1>2. CASE ~CanConfirm(c)
  BY <1>2, UnconfirmedCommit DEF Confirm, CommitComposition
<1> QED
  BY <1>1, <1>2

-----------------------------------------------------------------------------
(* Taking back, dropping and paging.                                       *)

\* The last segment that has been chosen.
LEMMA ChosenIs ==
  ASSUME NEW c, c.segs \in Comps
  PROVE  /\ LastChosen(c) \in 0..Len(c.segs) /\ Len(c.segs) \in Nat
         /\ LastChosen(c) > 0 => c.segs[LastChosen(c)].status >= kSelected
         /\ \A i \in 1..Len(c.segs) : c.segs[i].status >= kSelected => i <= LastChosen(c)
<1> DEFINE s == c.segs
           chosen == {i \in 1..Len(s) : s[i].status >= kSelected}
<1>1. Len(s) \in Nat
  BY LenOf
<1>2. LastChosen(c) = IF chosen # {} THEN Max(chosen) ELSE 0
  BY DEF LastChosen, SelectLastInSeq
<1>3. CASE chosen = {}
  <2>1. LastChosen(c) = 0
    BY <1>2, <1>3
  <2>2. \A i \in 1..Len(s) : ~(s[i].status >= kSelected)
    BY <1>3
  <2> QED
    BY <1>1, <2>1, <2>2
<1>4. CASE chosen # {}
  <2>1. chosen \in SUBSET (1..Len(s))
    OBVIOUS
  <2>2. Max(chosen) \in chosen /\ \A i \in chosen : Max(chosen) >= i
    <3> HIDE DEF chosen
    <3> QED
      BY <1>1, <1>4, <2>1, Greatest
  <2> DEFINE k == Max(chosen)
  <2>3. k \in 1..Len(s) /\ s[k].status >= kSelected
    BY <2>2
  <2>4. \A i \in chosen : k >= i
    BY <2>2
  <2>5. LastChosen(c) = k
    BY <1>2, <1>4
  <2> HIDE DEF k
  <2>6. \A i \in 1..Len(s) : s[i].status >= kSelected => i <= k
    BY <1>1, <2>3, <2>4
  <2> QED
    BY <1>1, <2>3, <2>5, <2>6
<1> QED
  BY <1>3, <1>4

\* What rest says of the parts of a context.
LEMMA RestParts ==
  ASSUME NEW c, Rest(c)
  PROVE  /\ c \in CtxType /\ Len(c.active) \in Nat /\ c.segs \in Comps
         /\ Comp(c.segs, Len(c.active)) /\ LastOpen(c.segs) /\ Rested(c.segs) /\ Drafted(c.segs)
         /\ c.caret = Len(c.active) /\ c.caret <= Len(c.input)
         /\ c.opts \in SUBSET Read
         /\ Len(c.segs) \in Nat /\ LastChosen(c) \in 0..Len(c.segs)
         /\ LastChosen(c) > 0 => c.segs[LastChosen(c)].status >= kSelected
         /\ \A i \in 1..Len(c.segs) : c.segs[i].status >= kSelected => i <= LastChosen(c)
         /\ \A i \in 1..Len(c.segs) : c.segs[i] \in SegType /\ SegOK(c.segs[i])
<1>1. /\ c \in CtxType /\ Len(c.active) = c.caret /\ c.active \in Seq(Chars)
      /\ c.opts \in SUBSET Read /\ c.caret \in 0..Len(c.input)
  BY RestType
<1>2. Len(c.active) \in Nat
  BY <1>1, LenProperties
<1>3. /\ Comp(c.segs, Len(c.active)) /\ LastOpen(c.segs) /\ Rested(c.segs) /\ Drafted(c.segs)
      /\ c.segs \in Comps /\ c.caret <= Len(c.input)
  BY DEF Rest, Comp
<1>4. \A i \in 1..Len(c.segs) : c.segs[i] \in SegType /\ SegOK(c.segs[i])
  BY <1>3, LenOf DEF Comp, Formed
<1> QED
  BY <1>1, <1>2, <1>3, <1>4, ChosenIs

\* Composing another composition anew.
LEMMA RecomposedRest ==
  ASSUME NEW c, Rest(c), NEW t, Comp(t, Len(c.active)), LastOpen(t),
         Plain => Rested(t) /\ Settled(t, c.active)
  PROVE  Rest(Compose([c EXCEPT !.segs = t]))
<1> DEFINE d == [c EXCEPT !.segs = t]
<1>1. t \in Comps /\ c \in CtxType /\ c.caret <= Len(c.input)
  BY RestParts DEF Comp
<1>2. /\ d \in CtxType /\ d.segs = t /\ d.input = c.input /\ d.caret = c.caret
      /\ d.active = c.active /\ d.opts = c.opts /\ d.sink = c.sink
  BY <1>1 DEF CtxType
<1> HIDE DEF d
<1>3. d.caret <= Len(d.input)
  BY <1>1, <1>2
<1>4. Comp(d.segs, Len(d.active)) /\ LastOpen(d.segs)
      /\ (Plain => Rested(d.segs) /\ Settled(d.segs, d.active))
  BY <1>2
<1>5. Ready(d)
  BY <1>2, <1>3, <1>4, NextReady
<1>6. Rest(Compose(d))
  BY <1>5, ComposeRest
<1> QED
  BY <1>6 DEF d

\* A composition whose last segment is made void.
LEMMA VoidLast ==
  ASSUME NEW n \in Nat, NEW t, Comp(t, n), LastFull(t), t # << >>,
         NEW text, Settled(t, text) \/ ~Plain
  PROVE  LET u == SetLast(t, [Last(t) EXCEPT !.status = kVoid])
         IN  Comp(u, n) /\ LastOpen(u) /\ Rested(u) /\ (Plain => Settled(u, text))
<1> DEFINE k == Len(t)
           g == t[k]
           h == [g EXCEPT !.status = kVoid]
           u == SetLast(t, h)
<1>1. /\ t \in Comps /\ k \in Nat /\ k \in 1..k /\ g \in SegType /\ SegOK(g) /\ g.end <= n
      /\ g = Last(t)
  <2>1. t \in Comps
    BY DEF Comp
  <2>2. k \in Nat /\ k > 0 /\ \A i \in 1..k : t[i] \in SegType
    BY <2>1, LenOf
  <2>3. k \in 1..k
    BY <2>2
  <2> QED
    BY <2>1, <2>2, <2>3 DEF Comp, Formed, Last
<1>2. /\ h \in SegType /\ h.status = kVoid /\ h.start = g.start /\ h.end = g.end
      /\ h.tags = g.tags /\ h.menu = g.menu
  <2>1. kVoid \in 0..3
    BY DEF kVoid
  <2> HIDE DEF g
  <2> QED
    BY <1>1, <2>1 DEF SegType
<1>3. g.start < g.end
  BY DEF LastFull
<1>4. SegOK(h)
  <2> HIDE DEF h, g
  <2> QED
    BY <1>1, <1>2 DEF SegOK, IsEmptySegment, kVoid, kGuess, kSelected
<1> HIDE DEF h
<1>5. /\ Comp(u, n) /\ Len(u) = k /\ u[k] = h
  BY <1>1, <1>2, <1>4, SetLastFormed
<1>6. ASSUME Plain PROVE Settled(u, text)
  <2>1. Settled(t, text)
    BY <1>6
  <2>2. Literal(g, text)
    BY <1>1, <2>1 DEF Settled
  <2>3. Literal(h, text)
    BY <1>2, <2>2 DEF Literal, kVoid, kGuess
  <2> QED
    BY <1>1, <1>2, <1>4, <2>1, <2>3, SettledSetLast
<1> HIDE DEF u
<1>7. LastOpen(u) /\ LastFull(u)
  BY <1>2, <1>3, <1>5 DEF LastOpen, LastFull, kVoid, kSelected
<1>8. Rested(u)
  BY <1>7 DEF Rested
<1> QED
  BY <1>1, <1>5, <1>6, <1>7, <1>8 DEF u, h

\* Reopening the previous segment, ...
LEMMA ReopenSegmentRest ==
  ASSUME NEW c, Rest(c)
  PROVE  Rest(ReopenPreviousSegment(c))
<1> DEFINE s == c.segs
           n == Len(c.active)
           t == Trim(s)
           u == SetLast(t, [Last(t) EXCEPT !.status = kVoid])
<1>1. n \in Nat /\ Comp(s, n) /\ (Plain => Settled(s, c.active))
  BY RestParts DEF Rest
<1>2. Comp(t, n) /\ LastFull(t)
  BY <1>1, TrimFormed
<1>3. Plain => Settled(t, c.active)
  BY <1>1, SettledTrim
<1>4. ReopenPreviousSegment(c)
        = IF ~CanReopenSegment(c) THEN c
          ELSE Compose([c EXCEPT !.segs = IF t # << >> /\ Last(t).status >= kSelected
                                            THEN u ELSE t])
  BY DEF ReopenPreviousSegment
<1> HIDE DEF t
<1>5. CASE t # << >> /\ Last(t).status >= kSelected
  <2>1. Comp(u, n) /\ LastOpen(u) /\ Rested(u) /\ (Plain => Settled(u, c.active))
    BY <1>1, <1>2, <1>3, <1>5, VoidLast
  <2> HIDE DEF u
  <2> QED
    BY <1>4, <1>5, <2>1, RecomposedRest
<1>6. CASE ~(t # << >> /\ Last(t).status >= kSelected)
  <2>1. LastOpen(t)
    <3> SUFFICES ASSUME t # << >> PROVE t[Len(t)].status < kSelected
      BY DEF LastOpen
    <3>1. t \in Comps
      BY <1>2 DEF Comp
    <3>2. Len(t) \in 1..Len(t) /\ t[Len(t)] \in SegType
      BY <3>1, LenOf
    <3>3. t[Len(t)].status \in 0..3
      BY <3>2 DEF SegType
    <3>4. ~(t[Len(t)].status >= kSelected)
      BY <1>6 DEF Last
    <3> QED
      BY <3>3, <3>4 DEF kSelected
  <2>2. Rested(t)
    BY <1>2 DEF Rested
  <2>3. Rest(Compose([c EXCEPT !.segs = t]))
    BY <1>2, <1>3, <2>1, <2>2, RecomposedRest
  <2> HIDE DEF u
  <2> QED
    BY <1>4, <1>6, <2>3
<1> QED
  BY <1>5, <1>6

\* ... the previous selection ...
LEMMA ReopenSelectionRest ==
  ASSUME NEW c, Rest(c)
  PROVE  Rest(ReopenPreviousSelection(c))
<1>1. CASE ~CanReopenSelection(c)
  BY <1>1 DEF ReopenPreviousSelection
<1>2. CASE CanReopenSelection(c)
  <2> DEFINE s == c.segs
             n == Len(c.active)
             k == LastChosen(c)
             t == SubSeq(s, 1, k)
             u == SetLast(t, [Last(t) EXCEPT !.status = kVoid])
  <2>1. /\ n \in Nat /\ Comp(s, n) /\ s \in Comps /\ Formed(s, n) /\ k \in 0..Len(s)
        /\ k > 0 /\ k \in 1..Len(s) /\ s[k].status >= kSelected
        /\ s[k] \in SegType /\ SegOK(s[k])
        /\ Plain => Settled(s, c.active)
    <3>1. k > 0
      BY <1>2 DEF CanReopenSelection
    <3>2. k \in 1..Len(s)
      BY <3>1, RestParts
    <3> QED
      BY <3>1, <3>2, RestParts DEF Rest, Comp
  <2>2. ReopenPreviousSelection(c) = Compose([c EXCEPT !.segs = u])
    BY <1>2 DEF ReopenPreviousSelection
  <2> HIDE DEF k
  <2>3. Comp(t, n) /\ Len(t) = k /\ \A i \in 1..k : t[i] = s[i]
    BY <2>1, PrefixFormed
  <2>4. Plain => Settled(t, c.active)
    BY <2>1, SettledPrefix
  <2> HIDE DEF t
  <2>5. t # << >> /\ t[k] = s[k] /\ t[Len(t)] = s[k]
    BY <2>1, <2>3
  <2>6. LastFull(t)
    BY <2>1, <2>5 DEF LastFull, SegOK, IsEmptySegment, SegType
  <2>7. Comp(u, n) /\ LastOpen(u) /\ Rested(u) /\ (Plain => Settled(u, c.active))
    BY <2>1, <2>3, <2>4, <2>5, <2>6, VoidLast
  <2> HIDE DEF u
  <2> QED
    BY <2>2, <2>7, RecomposedRest
<1> QED
  BY <1>1, <1>2

\* ... and erasing the last segment.
LEMMA ClearSegmentRest ==
  ASSUME NEW c, Rest(c)
  PROVE  Rest(ClearPreviousSegment(c))
<1>1. CASE ~CanClearSegment(c)
  BY <1>1 DEF ClearPreviousSegment
<1>2. CASE CanClearSegment(c)
  <2> DEFINE k == Last(c.segs).start
  <2>1. c.segs # << >>
    BY <1>2 DEF CanClearSegment
  <2>2. k \in Nat /\ k <= c.caret /\ c.caret \in Nat
    <3> DEFINE g == c.segs[Len(c.segs)]
    <3>1. /\ g = Last(c.segs) /\ g.start \in Nat /\ g.end \in Nat /\ g.start <= g.end
          /\ g.end <= Len(c.active) /\ Len(c.active) = c.caret /\ Len(c.active) \in Nat
      BY <2>1, LastAtRest
    <3> HIDE DEF g
    <3> QED
      BY <3>1
  <2>3. k \in 0..c.caret
    BY <2>2
  <2>4. ClearPreviousSegment(c) = SetInput(c, SubSeq(c.input, 1, k))
    BY <1>2 DEF ClearPreviousSegment
  <2> HIDE DEF k
  <2> QED
    BY <2>3, <2>4, CutRest
<1> QED
  BY <1>1, <1>2

-----------------------------------------------------------------------------
\* What is left when the guesses at the end are dropped.
LEMMA Unguessed ==
  ASSUME NEW c, Rest(c), LastChosen(c) # Len(c.segs)
  PROVE  LET u == Forward(SubSeq(c.segs, 1, LastChosen(c)))
         IN  /\ Comp(u, Len(c.active)) /\ LastOpen(u) /\ Rested(u) /\ Drafted(u)
             /\ Plain => Settled(u, c.active)
<1> DEFINE s == c.segs
           n == Len(c.active)
           k == LastChosen(c)
           t == SubSeq(s, 1, k)
           u == Forward(t)
<1>1. /\ n \in Nat /\ s \in Comps /\ Formed(s, n) /\ k \in 0..Len(s) /\ Len(s) \in Nat
      /\ k > 0 => s[k].status >= kSelected
      /\ Drafted(s) /\ Comp(s, n)
      /\ Plain => Settled(s, c.active)
  BY RestParts DEF Rest, Comp
<1> HIDE DEF k
<1>2. Comp(t, n) /\ Len(t) = k /\ \A i \in 1..k : t[i] = s[i]
  BY <1>1, PrefixFormed
<1>3. Plain => Settled(t, c.active)
  BY <1>1, SettledPrefix
<1> HIDE DEF t
<1>4. Drafted(t)
  BY <1>1, <1>2 DEF Drafted
<1>5. CASE k = 0
  <2>1. t = << >>
    BY <1>2, <1>5, LenOf DEF Comp
  <2>2. Forward(t) = t
    BY <2>1 DEF Forward
  <2>3. LastOpen(t) /\ LastFull(t)
    BY <2>1 DEF LastOpen, LastFull
  <2> QED
    BY <1>2, <1>3, <1>4, <2>2, <2>3 DEF Rested, t, k
<1>6. CASE k > 0
  <2>1. k \in 1..k /\ t[Len(t)] = s[k]
    BY <1>1, <1>2, <1>6
  <2>2. t # << >> /\ t[Len(t)].status >= kSelected
    BY <1>1, <1>2, <1>6, <2>1
  <2>3. /\ Comp(u, n) /\ LastOpen(u) /\ Rested(u) /\ (Drafted(t) => Drafted(u))
        /\ Settled(t, c.active) => Settled(u, c.active)
    BY <1>1, <1>2, <2>2, ChosenForward
  <2> QED
    BY <1>3, <1>4, <2>3 DEF t, k
<1> QED
  BY <1>1, <1>5, <1>6

\* Composing anew what is no longer known to be good, ...
LEMMA RefreshRest ==
  ASSUME NEW c, Rest(c)
  PROVE  Rest(RefreshNonConfirmedComposition(c))
<1>1. CASE LastChosen(c) = Len(c.segs)
  BY <1>1 DEF RefreshNonConfirmedComposition
<1>2. CASE LastChosen(c) # Len(c.segs)
  <2> DEFINE u == Forward(SubSeq(c.segs, 1, LastChosen(c)))
  <2>1. RefreshNonConfirmedComposition(c) = Compose([c EXCEPT !.segs = u])
    BY <1>2 DEF RefreshNonConfirmedComposition, ClearNonConfirmedComposition
  <2>2. /\ Comp(u, Len(c.active)) /\ LastOpen(u) /\ Rested(u)
        /\ Plain => Settled(u, c.active)
    BY <1>2, Unguessed
  <2> HIDE DEF u
  <2> QED
    BY <2>1, <2>2, RecomposedRest
<1> QED
  BY <1>1, <1>2

\* ... as setting an option does, ...
LEMMA OptionRest ==
  ASSUME NEW c, Rest(c), NEW name \in Options \cup {"other"}, NEW on \in BOOLEAN
  PROVE  Rest(SetOption(c, name, on))
<1> DEFINE o == IF on THEN c.opts \cup ({name} \cap Read) ELSE c.opts \ {name}
           d == [c EXCEPT !.opts = o]
<1>1. c \in CtxType /\ c.opts \in SUBSET Read
  BY RestParts
<1>2. o \in SUBSET Read
  BY <1>1
<1>3. Plain => "ascii_mode" \notin o
  BY DEF Plain, Rest
<1>4. SetOption(c, name, on)
        = IF IsComposing(d) THEN RefreshNonConfirmedComposition(d) ELSE d
  BY DEF SetOption, IsComposing
<1> HIDE DEF o
<1>5. /\ d \in CtxType /\ d.segs = c.segs /\ d.input = c.input /\ d.caret = c.caret
      /\ d.active = c.active /\ d.opts = o /\ d.sink = c.sink
  BY <1>1, <1>2 DEF CtxType
<1> HIDE DEF d
<1>6. Rest(d)
  BY <1>3, <1>5 DEF Rest, Lettered, Accounted
<1> QED
  BY <1>4, <1>6, RefreshRest

\* ... and committing the input raw.
LEMMA RawRest ==
  ASSUME NEW c, Rest(c)
  PROVE  Rest(CommitRawInput(c))
<1>1. CASE LastChosen(c) = Len(c.segs)
  <2>1. CommitRawInput(c) = Commit(c)
    BY <1>1 DEF CommitRawInput, ClearNonConfirmedComposition
  <2> QED
    BY <2>1, CommitAtRest
<1>2. CASE LastChosen(c) # Len(c.segs)
  <2> DEFINE u == Forward(SubSeq(c.segs, 1, LastChosen(c)))
             d == [c EXCEPT !.segs = u]
  <2>1. CommitRawInput(c) = Commit(d)
    BY <1>2 DEF CommitRawInput, ClearNonConfirmedComposition
  <2>2. Comp(u, Len(c.active)) /\ Drafted(u)
    BY <1>2, Unguessed
  <2> HIDE DEF u
  <2>3. c \in CtxType /\ Len(c.active) \in Nat /\ u \in Comps /\ c.caret = Len(c.active)
    BY <2>2, RestParts DEF Comp
  <2>4. /\ d \in CtxType /\ d.segs = u /\ d.input = c.input /\ d.caret = c.caret
        /\ d.active = c.active /\ d.opts = c.opts /\ d.sink = c.sink
    BY <2>3 DEF CtxType
  <2> HIDE DEF d
  <2>5. IsComposing(d)
    <3> SUFFICES ASSUME ~IsComposing(c) PROVE FALSE
      BY <2>4 DEF IsComposing
    <3>1. c.segs = << >>
      BY NothingComposed
    <3>2. LastChosen(c) \in 0..0
      BY <3>1, RestParts
    <3> QED
      BY <1>2, <3>1, <3>2
  <2>6. Spoken(d.segs, Len(d.active))
    BY <2>2, <2>3, <2>4, SpokenAtRest
  <2>7. Accounted(d) /\ (Plain => "ascii_mode" \notin d.opts) /\ d.caret = Len(d.active)
    BY <2>3, <2>4 DEF Rest, Accounted
  <2> QED
    BY <2>1, <2>4, <2>5, <2>6, <2>7, CommitRest
<1> QED
  BY <1>1, <1>2

\* Confirming the previous selection for good.
LEMMA ConfirmPreviousRest ==
  ASSUME NEW c, Rest(c)
  PROVE  LET d == ConfirmPreviousSelection(c)
         IN  /\ Rest(d) /\ d.input = c.input /\ d.caret = c.caret /\ d.active = c.active
             /\ d.opts = c.opts /\ d.sink = c.sink
             /\ Len(d.segs) = Len(c.segs)
             /\ c.segs # << >> => d.segs[Len(d.segs)] = c.segs[Len(c.segs)]
<1> DEFINE s == c.segs
           n == LastChosen(c)
           p == Len(c.active)
           g == s[n]
           h == [g EXCEPT !.status = kConfirmed]
           t == [s EXCEPT ![n] = h]
           d == [c EXCEPT !.segs = t]
<1>1. CASE ~(n > 0 /\ g.status = kSelected)
  <2>1. ConfirmPreviousSelection(c) = c
    BY <1>1 DEF ConfirmPreviousSelection
  <2> QED
    BY <2>1
<1>2. CASE n > 0 /\ g.status = kSelected
  <2>1. ConfirmPreviousSelection(c) = d
    BY <1>2 DEF ConfirmPreviousSelection
  <2>2. /\ c \in CtxType /\ p \in Nat /\ s \in Comps /\ Comp(s, p) /\ LastOpen(s) /\ Rested(s)
        /\ Drafted(s) /\ Len(s) \in Nat /\ n \in 1..Len(s) /\ s \in Seq(SegType)
        /\ \A i \in 1..Len(s) : s[i] \in SegType /\ SegOK(s[i])
        /\ HasFinishedSegmentation(s, c.active)
        /\ Plain => Settled(s, c.active)
    <3>1. n \in 1..Len(s)
      BY <1>2, RestParts
    <3> QED
      BY <3>1, RestParts DEF Rest, Comps
  <2> HIDE DEF n
  <2>3. g \in SegType /\ SegOK(g)
    BY <2>2
  <2>4. /\ h \in SegType /\ h.status = kConfirmed /\ h.start = g.start /\ h.end = g.end
        /\ h.tags = g.tags /\ h.menu = g.menu /\ h.sel = g.sel
    <3>1. kConfirmed \in 0..3
      BY DEF kConfirmed
    <3> HIDE DEF g
    <3> QED
      BY <2>3, <3>1 DEF SegType
  <2> HIDE DEF h
  <2>5. /\ t \in Comps /\ Len(t) = Len(s)
        /\ \A i \in 1..Len(s) : t[i] = IF i = n THEN h ELSE s[i]
    BY <2>2, <2>4, ExceptSeq DEF Comps
  <2> HIDE DEF t
  <2>6. /\ d \in CtxType /\ d.segs = t /\ d.input = c.input /\ d.caret = c.caret
        /\ d.active = c.active /\ d.opts = c.opts /\ d.sink = c.sink
    BY <2>2, <2>5 DEF CtxType
  <2> HIDE DEF d
  <2>7. g.start # g.end /\ GetSelectedCandidate(g) \in {Nil, g.end}
    BY <1>2, <2>3 DEF SegOK, IsEmptySegment, kSelected
  <2>8. GetSelectedCandidate(h) = GetSelectedCandidate(g)
    BY <2>4 DEF GetSelectedCandidate, GetCandidateAt
  <2>9. kConfirmed # kGuess /\ kConfirmed >= kSelected /\ kConfirmed >= kGuess
    BY DEF kConfirmed, kGuess, kSelected
  <2>10. Comp(t, p)
    <3> HIDE DEF g
    <3>1. g = s[n]
      BY DEF g
    <3> QED
      BY <2>2, <2>4, <2>5, <2>7, <2>8, <2>9, <3>1, StatusFormed
  <2>11. n # Len(s)
    <3> SUFFICES ASSUME n = Len(s) PROVE FALSE
      OBVIOUS
    <3>1. s # << >>
      BY <2>2
    <3>2. s[n].status < kSelected
      BY <2>2, <3>1 DEF LastOpen
    <3> QED
      BY <1>2, <3>2 DEF kSelected
  <2>12. s # << >> /\ t # << >> /\ t[Len(t)] = s[Len(s)] /\ Len(s) \in 1..Len(s)
    BY <2>2, <2>5, <2>11
  <2>13. LastOpen(t)
    BY <2>2, <2>12 DEF LastOpen
  <2>14. Rested(t)
    <3> SUFFICES ASSUME ~LastFull(t) PROVE Len(t) > 1 /\ t[Len(t) - 1].status >= kSelected
      BY DEF Rested
    <3>1. ~LastFull(s)
      BY <2>12 DEF LastFull
    <3>2. Len(s) > 1 /\ s[Len(s) - 1].status >= kSelected
      BY <2>2, <3>1 DEF Rested
    <3>3. Len(s) - 1 \in 1..Len(s)
      BY <2>2, <3>2
    <3> QED
      BY <2>4, <2>5, <2>9, <3>2, <3>3
  <2>15. Drafted(t)
    <3> SUFFICES ASSUME NEW i \in 1..Len(t), t[i].start < t[i].end PROVE t[i].status >= kGuess
      BY DEF Drafted
    <3>1. CASE i = n
      BY <2>4, <2>5, <2>9, <3>1
    <3>2. CASE i # n
      BY <2>2, <2>5, <3>2 DEF Drafted
    <3> QED
      BY <3>1, <3>2
  <2>16. HasFinishedSegmentation(t, c.active)
    BY <2>2, <2>12 DEF HasFinishedSegmentation, GetCurrentEndPosition, Last
  <2>17. ASSUME Plain PROVE Settled(t, c.active)
    <3>1. Settled(s, c.active)
      BY <2>2, <2>17
    <3>2. \A i \in 1..Len(t) : Literal(t[i], c.active)
      <4> SUFFICES ASSUME NEW i \in 1..Len(t) PROVE Literal(t[i], c.active)
        OBVIOUS
      <4>1. CASE i = n
        <5>1. Literal(g, c.active)
          BY <2>2, <3>1 DEF Settled
        <5>2. g.status # kVoid
          BY <1>2 DEF kVoid, kSelected
        <5> HIDE DEF g
        <5>3. Literal(h, c.active)
          BY <2>4, <2>9, <5>1, <5>2 DEF Literal
        <5> QED
          BY <2>5, <4>1, <5>3
      <4>2. CASE i # n
        BY <2>5, <3>1, <4>2 DEF Settled
      <4> QED
        BY <4>1, <4>2
    <3>3. \A i \in 1..(Len(t) - 1) : Shut(t[i], c.active)
      <4> SUFFICES ASSUME NEW i \in 1..(Len(t) - 1) PROVE Shut(t[i], c.active)
        OBVIOUS
      <4>1. i \in 1..Len(s) /\ i \in 1..(Len(s) - 1)
        BY <2>2, <2>5
      <4>2. CASE i = n
        <5>1. t[i].status = kConfirmed
          BY <2>4, <2>5, <4>1, <4>2
        <5> QED
          BY <5>1 DEF Shut, kConfirmed, kSelected
      <4>3. CASE i # n
        BY <2>5, <3>1, <4>1, <4>3 DEF Settled
      <4> QED
        BY <4>2, <4>3
    <3> QED
      BY <3>2, <3>3 DEF Settled
  <2>18. Rest(d)
    BY <2>6, <2>10, <2>13, <2>14, <2>15, <2>16, <2>17 DEF Rest, Lettered, Accounted
  <2> QED
    BY <2>1, <2>5, <2>6, <2>12, <2>18
<1> QED
  BY <1>1, <1>2

\* Highlighting another candidate of the last segment.
LEMMA HighlightRest ==
  ASSUME NEW c, Rest(c), c.segs # << >>, NEW h \in SegType,
         h.status = Last(c.segs).status, h.start = Last(c.segs).start,
         h.end = Last(c.segs).end, h.menu = Last(c.segs).menu,
         h.tags = Last(c.segs).tags \/ h.tags = Last(c.segs).tags \cup {"paging"},
         h.menu # << >> => h.sel < Len(h.menu)
  PROVE  Rest([c EXCEPT !.segs = SetLast(c.segs, h)])
<1> DEFINE s == c.segs
           n == Len(c.active)
           g == s[Len(s)]
           t == SetLast(s, h)
           d == [c EXCEPT !.segs = t]
<1>1. /\ n \in Nat /\ s \in Comps /\ Comp(s, n) /\ Drafted(s) /\ Len(s) \in 1..Len(s)
      /\ Len(s) \in Nat
      /\ g = Last(s) /\ g \in SegType /\ SegOK(g) /\ g.end <= n
      /\ g.start \in Nat /\ g.end \in Nat
      /\ g.start < g.end => g.status = kGuess
      /\ g.status \in {kVoid, kGuess}
      /\ c \in CtxType /\ Rested(s) /\ LastOpen(s) /\ HasFinishedSegmentation(s, c.active)
      /\ c.active \in Seq(Chars)
  BY LastAtRest, RestType DEF Rest
<1>2. /\ h.status = g.status /\ h.start = g.start /\ h.end = g.end /\ h.menu = g.menu
      /\ h.tags = g.tags \/ h.tags = g.tags \cup {"paging"}
  BY <1>1
<1> HIDE DEF g
<1>3. SegOK(h)
  <2>1. h.status = kGuess => MenuWithin(h)
    BY <1>1, <1>2 DEF SegOK, MenuWithin
  <2>2. ~(h.status >= kSelected)
    BY <1>1, <1>2 DEF kVoid, kGuess, kSelected
  <2> QED
    BY <1>1, <1>2, <2>1, <2>2 DEF SegOK, IsEmptySegment
<1>4. /\ Comp(t, n) /\ Len(t) = Len(s) /\ t[Len(s)] = h
      /\ \A i \in 1..(Len(s) - 1) : t[i] = s[i]
  <2>1. g = s[Len(s)] /\ s # << >>
    BY DEF g
  <2> QED
    BY <1>1, <1>2, <1>3, <2>1, SetLastFormed
<1>5. ASSUME Plain PROVE Settled(t, c.active)
  <2>1. Settled(s, c.active)
    BY <1>5 DEF Rest
  <2>2. Literal(g, c.active)
    BY <1>1, <2>1 DEF Settled, g
  <2>3. h.tags \subseteq PlainTags /\ g.tags \subseteq PlainTags
        /\ ("abc" \in h.tags <=> "abc" \in g.tags) /\ ("raw" \in h.tags <=> "raw" \in g.tags)
    BY <1>2, <2>2 DEF Literal, PlainTags
  <2>4. MenuFor(g, c.active, {}) = MenuFor(h, c.active, {})
    <3> DEFINE text == c.active
               a == SubSeq(text, g.start + 1, g.end)
               b == SubSeq(text, h.start + 1, h.end)
               k == g.start
               l == h.start
    <3>1. MenuFor(g, text, {})
          = IF "abc" \in g.tags /\ a \in DOMAIN Lexicon
              THEN [i \in 1..Len(Lexicon[a]) |-> k + Lexicon[a][i]] ELSE << >>
      BY <1>5, <2>3, PlainMenu
    <3>2. MenuFor(h, text, {})
          = IF "abc" \in h.tags /\ b \in DOMAIN Lexicon
              THEN [i \in 1..Len(Lexicon[b]) |-> l + Lexicon[b][i]] ELSE << >>
      BY <1>5, <2>3, PlainMenu
    <3>3. k = l /\ a = b
      BY <1>2
    <3> HIDE DEF a, b, k, l
    <3>4. (IF "abc" \in h.tags /\ b \in DOMAIN Lexicon
             THEN [i \in 1..Len(Lexicon[b]) |-> l + Lexicon[b][i]] ELSE << >>)
          = IF "abc" \in h.tags /\ a \in DOMAIN Lexicon
              THEN [i \in 1..Len(Lexicon[a]) |-> k + Lexicon[a][i]] ELSE << >>
      BY <3>3
    <3> HIDE DEF text
    <3>5. CASE "abc" \in g.tags
      BY <2>3, <3>1, <3>2, <3>4, <3>5 DEF text
    <3>6. CASE "abc" \notin g.tags
      BY <2>3, <3>1, <3>2, <3>4, <3>6 DEF text
    <3> QED
      BY <3>5, <3>6
  <2>5. Literal(h, c.active)
    BY <1>2, <2>2, <2>3, <2>4 DEF Literal, PlainTags
  <2>6. h.end <= n /\ h.start = s[Len(s)].start /\ s # << >>
    BY <1>1, <1>2 DEF g
  <2> QED
    BY <1>1, <1>3, <2>1, <2>5, <2>6, SettledSetLast
<1>6. t \in Comps /\ t # << >> /\ s # << >>
  BY <1>1, SetLastIs
<1> HIDE DEF t
<1>7. LastOpen(t) /\ Rested(t)
  <2>1. LastFull(t) <=> LastFull(s)
    BY <1>2, <1>4, <1>6 DEF LastFull, g
  <2>2. Len(s) > 1 => t[Len(t) - 1] = s[Len(s) - 1]
    BY <1>1, <1>4
  <2> QED
    BY <1>1, <1>2, <1>4, <1>6, <2>1, <2>2 DEF LastOpen, Rested, g
<1>8. Drafted(t)
  <2> SUFFICES ASSUME NEW i \in 1..Len(t), t[i].start < t[i].end PROVE t[i].status >= kGuess
    BY DEF Drafted
  <2>1. i = Len(s) \/ i \in 1..(Len(s) - 1)
    BY <1>1, <1>4
  <2>2. CASE i = Len(s)
    BY <1>1, <1>2, <1>4, <2>2 DEF kGuess
  <2>3. CASE i \in 1..(Len(s) - 1)
    BY <1>1, <1>4, <2>3 DEF Drafted
  <2> QED
    BY <2>1, <2>2, <2>3
<1>9. HasFinishedSegmentation(t, c.active)
  BY <1>1, <1>2, <1>4, <1>6 DEF HasFinishedSegmentation, GetCurrentEndPosition, Last, g
<1>10. /\ d \in CtxType /\ d.segs = t /\ d.input = c.input /\ d.caret = c.caret
       /\ d.active = c.active /\ d.opts = c.opts /\ d.sink = c.sink
  BY <1>1, <1>6 DEF CtxType
<1> HIDE DEF d
<1>11. Rest(d)
  BY <1>4, <1>5, <1>7, <1>8, <1>9, <1>10 DEF Rest, Lettered, Accounted
<1> QED
  BY <1>11 DEF d, t

-----------------------------------------------------------------------------
(* The selector and the navigator.                                         *)

\* Moving the highlight, with or without the tag of paging.
LEMMA MoveRest ==
  ASSUME NEW c, Rest(c), c.segs # << >>, NEW i \in Nat,
         Last(c.segs).menu # << >> => i < Len(Last(c.segs).menu)
  PROVE  Rest(MoveTo(c, i)) /\ Rest(PageTo(c, i))
<1> DEFINE s == c.segs
           g == Last(s)
           p == g.tags \cup {"paging"}
           h == [g EXCEPT !.sel = i]
           k == [g EXCEPT !.sel = i, !.tags = @ \cup {"paging"}]
<1>1. g \in SegType /\ g = Last(c.segs)
  BY LastAtRest
<1>2. MoveTo(c, i) = [c EXCEPT !.segs = SetLast(c.segs, h)]
  BY DEF MoveTo
<1>3. PageTo(c, i) = [c EXCEPT !.segs = SetLast(c.segs, k)]
  BY DEF PageTo
<1> HIDE DEF g
<1>4. p \in SUBSET Tags
  BY <1>1 DEF SegType, Tags
<1>a. p = g.tags \cup {"paging"}
  OBVIOUS
<1> HIDE DEF p
<1>5. /\ h \in SegType /\ h.status = g.status /\ h.start = g.start /\ h.end = g.end
      /\ h.tags = g.tags /\ h.menu = g.menu /\ h.sel = i
  BY <1>1 DEF SegType
<1>6. /\ k \in SegType /\ k.status = g.status /\ k.start = g.start /\ k.end = g.end
      /\ k.tags = p /\ k.menu = g.menu /\ k.sel = i
  BY <1>1, <1>4, <1>a DEF SegType
<1> HIDE DEF h, k
<1>7. Rest([c EXCEPT !.segs = SetLast(c.segs, h)])
  BY <1>1, <1>5, HighlightRest
<1>8. Rest([c EXCEPT !.segs = SetLast(c.segs, k)])
  BY <1>1, <1>6, <1>a, HighlightRest
<1> QED
  BY <1>2, <1>3, <1>7, <1>8

\* The first candidate of the page that holds a given one is one.
LEMMA PageStart ==
  ASSUME NEW i \in Nat
  PROVE  (i \div PageSize) * PageSize \in Nat /\ i \div PageSize \in Nat
<1> DEFINE q == i \div PageSize
<1>1. PageSize \in Nat \ {0}
  BY EngineAssumption
<1>2. q \in Nat
  BY <1>1
<1> HIDE DEF q
<1>3. q * PageSize \in Nat
  BY <1>1, <1>2
<1> QED
  BY <1>2, <1>3 DEF q

\* Every key of the selector leaves the engine at rest.
LEMMA PageRest ==
  ASSUME NEW c, Rest(c), SelectorActs(c)
  PROVE  /\ Rest(PagedUp(c)) /\ Rest(PagedDown(c))
         /\ Last(c.segs).sel > 0 => Rest(PageTo(c, Last(c.segs).sel - 1))
         /\ Last(c.segs).sel + 1 < Len(Last(c.segs).menu)
              => Rest(PageTo(c, Last(c.segs).sel + 1))
         /\ Rest(MoveTo(c, 0))
<1> DEFINE g == Last(c.segs)
           n == Len(g.menu)
           x == g.sel
           b == PageSize
           y == x + b
           start == (y \div b) * b
<1>1. /\ c.segs # << >> /\ x \in Nat /\ n \in Nat
      /\ g.menu # << >> <=> n > 0
      /\ g.menu # << >> => x < n
  <2>1. c.segs # << >>
    BY DEF SelectorActs
  <2> QED
    BY <2>1, LastAtRest
<1>2. b \in Nat \ {0}
  BY EngineAssumption
<1>3. y \in Nat /\ start \in Nat
  <2>1. y \in Nat
    BY <1>1, <1>2
  <2> QED
    BY <2>1, PageStart
<1>a. PagedUp(c) = PageTo(c, IF x < b THEN 0 ELSE x - b)
  BY DEF PagedUp
<1>b. PagedDown(c) = IF n <= start THEN c ELSE PageTo(c, IF y >= n THEN n - 1 ELSE y)
  BY DEF PagedDown
<1>c. y = x + b
  OBVIOUS
<1> HIDE DEF n, x, b, y, start
<1>4. ASSUME NEW i \in Nat, g.menu # << >> => i < n
      PROVE  Rest(PageTo(c, i)) /\ Rest(MoveTo(c, i))
  BY <1>1, <1>4, MoveRest DEF n
<1>5. Rest(PagedUp(c))
  <2> DEFINE i == IF x < b THEN 0 ELSE x - b
  <2>1. i \in Nat /\ (g.menu # << >> => i < n)
    BY <1>1, <1>2
  <2> HIDE DEF i
  <2>2. Rest(PageTo(c, i))
    BY <1>4, <2>1
  <2> QED
    BY <1>a, <2>2 DEF i
<1>6. Rest(PagedDown(c))
  <2>1. CASE n <= start
    BY <1>b, <2>1
  <2>2. CASE ~(n <= start)
    <3> DEFINE i == IF y >= n THEN n - 1 ELSE y
    <3>1. i \in Nat /\ (g.menu # << >> => i < n)
      BY <1>1, <1>3, <2>2
    <3> HIDE DEF i
    <3>2. Rest(PageTo(c, i))
      BY <1>4, <3>1
    <3> QED
      BY <1>b, <2>2, <3>2 DEF i
  <2> QED
    BY <2>1, <2>2
<1>7. x > 0 => Rest(PageTo(c, x - 1))
  <2> SUFFICES ASSUME x > 0 PROVE Rest(PageTo(c, x - 1))
    OBVIOUS
  <2> DEFINE i == x - 1
  <2>1. i \in Nat /\ (g.menu # << >> => i < n)
    BY <1>1
  <2> HIDE DEF i
  <2>2. Rest(PageTo(c, i))
    BY <1>4, <2>1
  <2> QED
    BY <2>2 DEF i
<1>8. x + 1 < n => Rest(PageTo(c, x + 1))
  <2> SUFFICES ASSUME x + 1 < n PROVE Rest(PageTo(c, x + 1))
    OBVIOUS
  <2> DEFINE i == x + 1
  <2>1. i \in Nat /\ (g.menu # << >> => i < n)
    BY <1>1
  <2> HIDE DEF i
  <2>2. Rest(PageTo(c, i))
    BY <1>4, <2>1
  <2> QED
    BY <2>2 DEF i
<1>9. Rest(MoveTo(c, 0))
  <2>1. g.menu # << >> => 0 < n
    BY <1>1
  <2> QED
    BY <1>4, <2>1
<1> QED
  BY <1>5, <1>6, <1>7, <1>8, <1>9 DEF n, x

\* A number key has a place on the page.
LEMMA KeyIndex ==
  ASSUME NEW digit \in Digits
  PROVE  IndexOfKey(digit) \in Nat
<1> DEFINE I == {i \in 1..Len(NumberKeys) : NumberKeys[i] = digit}
<1>1. Len(NumberKeys) \in Nat /\ DOMAIN NumberKeys = 1..Len(NumberKeys)
  BY DEF NumberKeys
<1>2. \E i \in 1..Len(NumberKeys) : NumberKeys[i] = digit
  BY DEF Digits, ToSet, NumberKeys
<1>3. I \in SUBSET Nat /\ I # {} /\ I \subseteq 1..Len(NumberKeys)
  BY <1>1, <1>2
<1>4. Min(I) \in I
  BY <1>3, Least
<1>5. SelectInSeq(NumberKeys, LAMBDA key : key = digit) = Min(I)
  BY <1>3 DEF SelectInSeq
<1> QED
  BY <1>1, <1>3, <1>4, <1>5 DEF IndexOfKey

\* So does a number key.
LEMMA NumberRest ==
  ASSUME NEW c, Rest(c), SelectorActs(c), NEW digit \in Digits, NEW read
  PROVE  Rest(SelectCandidateAt(c, IndexOfKey(digit), read))
<1> DEFINE k == IndexOfKey(digit)
           x == Last(c.segs).sel
           b == (x \div PageSize) * PageSize
           i == b + k
<1>1. c.segs # << >> /\ x \in Nat
  <2>1. c.segs # << >>
    BY DEF SelectorActs
  <2> QED
    BY <2>1, LastAtRest
<1>2. k \in Nat
  BY KeyIndex
<1>3. b \in Nat
  BY <1>1, PageStart
<1>4. SelectCandidateAt(c, k, read) = IF k >= PageSize THEN c ELSE Select(c, i, read)
  BY DEF SelectCandidateAt
<1> HIDE DEF k, b
<1>5. i \in Nat
  BY <1>2, <1>3
<1> HIDE DEF i
<1>6. Rest(Select(c, i, read))
  BY <1>5, SelectRest
<1>7. Rest(SelectCandidateAt(c, k, read))
  BY <1>4, <1>6
<1> QED
  BY <1>7 DEF k

\* The caret goes left, or home.
LEMMA GoRest ==
  ASSUME NEW c, Rest(c)
  PROVE  /\ Rest(GoneLeft(c)) /\ Rest(GoHome(c)) /\ Rest(SetCaretPos(c, c.caret + 1))
         /\ Rest(SetCaretPos(c, Len(c.input)))
<1>1. c.caret \in Nat /\ Len(c.input) \in Nat
  BY RestType
<1>2. Rest(GoneLeft(c))
  <2> DEFINE i == IF c.caret = 0 THEN Len(c.input) ELSE c.caret - 1
  <2>1. i \in Nat
    BY <1>1
  <2> HIDE DEF i
  <2>2. Rest(SetCaretPos(c, i))
    BY <2>1, CaretRest
  <2> QED
    BY <2>2 DEF GoneLeft, i
<1>3. Rest(GoHome(c))
  <2> DEFINE k == LastChosen(c)
             i == IF ConfirmedPos(c) < c.caret THEN ConfirmedPos(c) ELSE 0
  <2>1. ConfirmedPos(c) \in Nat
    <3>1. CASE k = Len(c.segs)
      BY <1>1, <3>1 DEF ConfirmedPos
    <3>2. CASE k # Len(c.segs)
      <4>1. c.segs \in Comps /\ Len(c.segs) \in Nat /\ k \in 0..Len(c.segs)
        BY RestParts
      <4> HIDE DEF k
      <4>2. k + 1 \in 1..Len(c.segs)
        BY <3>2, <4>1
      <4>3. c.segs[k + 1] \in SegType
        BY <4>1, <4>2, LenOf
      <4> QED
        BY <3>2, <4>3 DEF ConfirmedPos, SegType, k
    <3> QED
      BY <3>1, <3>2
  <2>2. i \in Nat
    BY <2>1
  <2> HIDE DEF i
  <2>3. Rest(SetCaretPos(c, i))
    BY <2>2, CaretRest
  <2> QED
    BY <2>3 DEF GoHome, i
<1>4. c.caret + 1 \in Nat
  BY <1>1
<1> QED
  BY <1>1, <1>2, <1>3, <1>4, CaretRest

-----------------------------------------------------------------------------
(* The speller.                                                            *)

\* A letter after the letters of the last segment makes it longer, and leaves
\* the segments before it where they are.
LEMMA GrownLast ==
  ASSUME Plain, NEW old \in Seq(Chars), NEW new \in Seq(Chars), NEW s, Comp(s, Len(old)),
         LastOpen(s), Rested(s), Settled(s, old), HasFinishedSegmentation(s, old),
         s # << >>, s[Len(s)].status = kGuess, s[Len(s)].menu # << >>,
         Len(new) = Len(old) + 1, \A x \in 1..Len(old) : new[x] = old[x],
         new[Len(old) + 1] \in Letters, NEW on, "ascii_mode" \notin on
  PROVE  LET t == Recompose(s, old, new, on)
         IN  /\ t # << >> /\ t[Len(t)].start = s[Len(s)].start
             /\ Comp(s, Len(new)) /\ Settled(s, new)
<1> DEFINE n == Len(new)
           m == Len(s)
           g == s[m]
           d == CHOOSE d \in 0..Len(new) : IsDiffPos(d, old, new)
           k == CHOOSE i \in 0..Len(s) : IsKeptCount(i, s, d)
           j == GetCurrentStartPosition(s)
           h == Segment(j, n, {"abc"})
           r == SetLast(s, h)
           t == TranslateSegments(r, new, on)
<1>1. /\ n \in Nat /\ Len(old) \in Nat /\ n = Len(old) + 1
      /\ s \in Comps /\ m \in Nat /\ m \in 1..m
      /\ \A i \in 1..m : s[i].end <= Len(old)
      /\ g \in SegType /\ SegOK(g) /\ g.start \in Nat /\ g.end \in Nat
      /\ j = g.start /\ GetCurrentEndPosition(s) = g.end
  <2>1. n \in Nat /\ Len(old) \in Nat /\ n = Len(old) + 1
    BY LenProperties
  <2>2. /\ s \in Comps /\ m \in Nat /\ m > 0 /\ j = g.start
        /\ GetCurrentEndPosition(s) = g.end
    BY <2>1, Positions
  <2>3. \A i \in 1..m : s[i] \in SegType /\ SegOK(s[i]) /\ s[i].end <= Len(old)
    BY <2>2, LenOf DEF Comp, Formed
  <2> HIDE DEF j, m
  <2>4. m \in 1..m
    BY <2>2
  <2>5. g \in SegType /\ SegOK(g)
    BY <2>3, <2>4
  <2> QED
    BY <2>1, <2>2, <2>3, <2>4, <2>5 DEF SegType
<1>2. d \in 0..n /\ IsDiffPos(d, old, new)
  BY DiffExists
<1> HIDE DEF d
<1>3. d = Len(old)
  <2>1. d <= Len(old)
    BY <1>2 DEF IsDiffPos
  <2>2. ASSUME d < Len(old) PROVE FALSE
    <3>1. d < n /\ d + 1 \in 1..Len(old)
      BY <1>1, <1>2, <2>2
    <3> QED
      BY <1>2, <2>2, <3>1 DEF IsDiffPos
  <2> QED
    BY <1>1, <1>2, <2>1, <2>2
<1>4. k \in 0..m /\ IsKeptCount(k, s, d)
  BY <1>1, <1>3, KeptExists
<1>a. ResetComposition(s, old, new) = Dispose(s, k)
  BY DEF ResetComposition, k, d
<1> HIDE DEF k
<1>5. k = m
  <2>1. ASSUME k < m PROVE FALSE
    <3>1. m \in (k + 1)..Len(s)
      BY <1>1, <1>4, <2>1
    <3>2. g.end > d
      BY <1>4, <3>1 DEF IsKeptCount
    <3> QED
      BY <1>1, <1>3, <3>2
  <2> QED
    BY <1>1, <1>4, <2>1
<1>6. Dispose(s, k) = s
  BY <1>1, <1>5 DEF Dispose
<1>7. Comp(s, n) /\ Settled(s, new)
  <2>1. Comp(Dispose(s, k), n)
    BY <1>2, <1>4, ResetFormed
  <2>2. Aligned(old, new)
    BY DEF Aligned
  <2>3. Settled(Dispose(s, k), new)
    BY <1>2, <1>4, <2>2, DisposeSettled
  <2> QED
    BY <1>6, <2>1, <2>3
<1>8. g.end = Len(old) /\ g.start < g.end
  <2>1. g.end <= Len(old) /\ g.end >= Len(old)
    BY <1>1 DEF HasFinishedSegmentation
  <2>2. g.start # g.end
    BY <1>1 DEF SegOK, IsEmptySegment
  <2>3. g.start <= g.end
    BY <1>1 DEF SegOK
  <2> QED
    BY <1>1, <2>1, <2>2, <2>3
<1>9. \A x \in (j + 1)..n : new[x] \in Letters
  <2> SUFFICES ASSUME NEW x \in (j + 1)..n PROVE new[x] \in Letters
    OBVIOUS
  <2>1. Literal(g, new)
    BY <1>1, <1>7 DEF Settled
  <2>2. "abc" \in g.tags
    <3>1. g.status # kVoid /\ g.menu # << >>
      BY DEF kVoid, kGuess
    <3> HIDE DEF g
    <3> QED
      BY <2>1, <3>1 DEF Literal
  <2>3. CASE x <= Len(old)
    <3>1. x \in (g.start + 1)..g.end
      BY <1>1, <1>8, <2>3
    <3>2. g.start < g.end
      BY <1>8
    <3> HIDE DEF g
    <3> QED
      BY <2>1, <2>2, <3>1, <3>2 DEF Literal
  <2>4. CASE ~(x <= Len(old))
    BY <1>1, <2>4
  <2> QED
    BY <2>3, <2>4
<1>10. Rounds(s, new, on) = r
  <2>1. GetCurrentEndPosition(s) < Len(new)
    BY <1>1, <1>8
  <2> QED
    BY <1>7, <1>9, <2>1, RunToTheEnd
<1>11. /\ h \in SegType /\ SegOK(h) /\ h.start = j /\ h.end = n /\ h.status < kSelected
  <2>1. {"abc"} \in SUBSET Tags
    BY DEF Tags
  <2>2. j \in Nat /\ j <= n
    BY <1>1, <1>8
  <2> HIDE DEF j
  <2> QED
    BY <1>1, <2>1, <2>2, NewSegment
<1> HIDE DEF h
<1>12. /\ Comp(r, n) /\ Len(r) = m /\ r[m] = h
  BY <1>1, <1>7, <1>11, SetLastFormed
<1>13. LastOpen(r) /\ r # << >> /\ r[Len(r)] = h /\ Last(r) = h
  <2>1. r \in Comps
    BY <1>12 DEF Comp
  <2> HIDE DEF r
  <2>2. r # << >>
    BY <1>1, <1>12, <2>1, LenOf
  <2> QED
    BY <1>11, <1>12, <2>2 DEF LastOpen, Last
<1> HIDE DEF r
<1>14. FinishSegmentation(r) = r
  <2>1. Trim(r) = r
    <3>1. h.start # h.end
      BY <1>1, <1>8, <1>11
    <3> QED
      BY <1>13, <3>1 DEF Trim, IsEmptySegment
  <2>2. ~(Last(r).status >= kSelected)
    BY <1>11, <1>13 DEF SegType, kSelected
  <2> QED
    BY <2>1, <2>2 DEF FinishSegmentation, ForwardIfChosen
<1>15. /\ Comp(t, n) /\ Len(t) = m /\ t[m].start = j
  <2>1. /\ Comp(t, n) /\ Len(t) = Len(r)
        /\ \A i \in 1..Len(r) : t[i].start = r[i].start
    BY <1>12, <1>13, TranslatedFormed
  <2> HIDE DEF t
  <2> QED
    BY <1>1, <1>11, <1>12, <2>1
<1>16. Recompose(s, old, new, on) = t
  BY <1>a, <1>6, <1>10, <1>14 DEF Recompose, CalculateSegmentation
<1> HIDE DEF t
<1>17. t # << >>
  BY <1>1, <1>15, LenOf DEF Comp
<1> QED
  BY <1>1, <1>7, <1>15, <1>16, <1>17

\* A code that has overrun the lexicon: the candidate of what came before the
\* letter can be selected.
LEMMA OverrunSelectable ==
  ASSUME Plain, NEW d, Rest(d), HasMenu(d), NEW ch \in Letters,
         NEW e, e = ConfirmPreviousSelection(PushInput(d, ch))
  PROVE  LET f == [e EXCEPT !.segs = SetLast(e.segs, Last(d.segs))]
         IN  Selectable(f, f.segs)
<1> DEFINE p == PushInput(d, ch)
           s == d.segs
           m == Len(s)
           g == s[m]
           old == d.active
           new == SubSeq(p.input, 1, p.caret)
           t == SetLast(e.segs, g)
           f == [e EXCEPT !.segs = t]
<1>0. ch \in Chars
  BY DEF Chars
<1>1. /\ Rest(p) /\ p.caret = d.caret + 1 /\ Len(p.input) = Len(d.input) + 1
      /\ p.segs = Recompose(s, old, new, d.opts)
      /\ \A x \in 1..d.caret : p.input[x] = d.input[x]
      /\ p.input[d.caret + 1] = ch
  BY <1>0, PushRest
<1>2. /\ Rest(e) /\ e.active = p.active /\ e.caret = p.caret /\ e.input = p.input
      /\ Len(e.segs) = Len(p.segs)
      /\ p.segs # << >> => e.segs[Len(e.segs)] = p.segs[Len(p.segs)]
  BY <1>1, ConfirmPreviousRest
<1>3. /\ d.active \in Seq(Chars) /\ Len(d.active) = d.caret /\ d.caret \in Nat
      /\ \A x \in 1..d.caret : d.active[x] = d.input[x]
  BY RestType
<1>4. /\ p.input \in Seq(Chars) /\ p.caret \in 0..Len(p.input) /\ Len(p.input) \in Nat
      /\ p.active \in Seq(Chars) /\ Len(p.active) = p.caret
  BY <1>1, RestType
<1>a. p.active = new
  BY <1>1 DEF Rest
<1> HIDE DEF p
<1>5. /\ new \in Seq(Chars) /\ Len(new) = p.caret
      /\ \A x \in 1..p.caret : new[x] = p.input[x]
  BY <1>4, BeforeCaret
<1> HIDE DEF new
<1>6. /\ Len(new) = Len(old) + 1 /\ \A x \in 1..Len(old) : new[x] = old[x]
      /\ new[Len(old) + 1] \in Letters
  BY <1>1, <1>3, <1>4, <1>5
<1>7. /\ s # << >> /\ g.menu # << >> /\ g = Last(s) /\ g.status = kGuess
      /\ g \in SegType /\ SegOK(g) /\ g.start < g.end /\ g.end <= Len(old)
      /\ g.start \in Nat /\ g.end \in Nat
  <2>1. s # << >> /\ Last(s).menu # << >>
    BY DEF HasMenu
  <2> QED
    BY <2>1, LastAtRest
<1>8. /\ Comp(s, Len(old)) /\ LastOpen(s) /\ Rested(s) /\ Drafted(s)
      /\ HasFinishedSegmentation(s, old) /\ Settled(s, old) /\ "ascii_mode" \notin d.opts
  BY DEF Rest
<1>9. /\ p.segs # << >> /\ p.segs[Len(p.segs)].start = g.start
      /\ Comp(s, Len(new)) /\ Settled(s, new)
  <2>1. LET r == Recompose(s, old, new, d.opts)
        IN  /\ r # << >> /\ r[Len(r)].start = s[Len(s)].start
            /\ Comp(s, Len(new)) /\ Settled(s, new)
    BY <1>3, <1>5, <1>6, <1>7, <1>8, GrownLast
  <2> QED
    BY <1>1, <2>1
<1>10. Literal(g, new)
  <2>1. m \in 1..m
    BY <1>7, <1>8, LenOf DEF Comp
  <2> QED
    BY <1>9, <2>1 DEF Settled
<1> HIDE DEF g
<1>11. /\ e.segs \in Comps /\ Comp(e.segs, Len(new)) /\ Len(e.segs) \in Nat \ {0}
       /\ e.segs # << >> /\ e.segs[Len(e.segs)].start = g.start
       /\ Drafted(e.segs) /\ Settled(e.segs, new) /\ e.active = new
       /\ e \in CtxType /\ e.caret <= Len(e.input)
       /\ e.active = SubSeq(e.input, 1, e.caret)
       /\ "ascii_mode" \notin e.opts /\ Lettered(e) /\ Accounted(e)
  <2>1. /\ Comp(e.segs, Len(new)) /\ Drafted(e.segs) /\ Settled(e.segs, new)
        /\ e.active = new /\ e \in CtxType /\ e.caret <= Len(e.input)
        /\ e.active = SubSeq(e.input, 1, e.caret)
        /\ "ascii_mode" \notin e.opts /\ Lettered(e) /\ Accounted(e)
    BY <1>2, <1>a DEF Rest
  <2>2. p.segs \in Comps /\ e.segs \in Comps
    BY <1>1, <2>1 DEF Rest, Comp
  <2>3. Len(p.segs) > 0
    BY <1>9, <2>2, LenOf
  <2>4. Len(e.segs) \in Nat \ {0} /\ e.segs # << >>
    BY <1>2, <2>2, <2>3, LenOf
  <2> QED
    BY <1>2, <1>9, <2>1, <2>2, <2>4
<1>12. g.end <= Len(new) /\ Len(new) \in Nat
  BY <1>3, <1>5, <1>6, <1>7, LenProperties
<1>13. /\ Comp(t, Len(new)) /\ Len(t) = Len(e.segs) /\ t[Len(e.segs)] = g
       /\ \A i \in 1..(Len(e.segs) - 1) : t[i] = e.segs[i]
  <2> DEFINE u == e.segs
             n == Len(new)
  <2>1. /\ Comp(u, n) /\ u # << >> /\ u[Len(u)].start = g.start /\ n \in Nat
        /\ g \in SegType /\ SegOK(g) /\ g.end <= n
    BY <1>7, <1>11, <1>12
  <2> HIDE DEF u, n
  <2>2. /\ Comp(SetLast(u, g), n) /\ Len(SetLast(u, g)) = Len(u) /\ SetLast(u, g)[Len(u)] = g
        /\ \A i \in 1..(Len(u) - 1) : SetLast(u, g)[i] = u[i]
    BY <2>1, SetLastFormed
  <2> QED
    BY <2>2 DEF u, n
<1>14. Settled(t, new)
  BY <1>7, <1>10, <1>11, <1>12, SettledSetLast
<1>15. t \in Comps /\ t # << >>
  BY <1>7, <1>11, SetLastIs
<1> HIDE DEF t
<1>16. Drafted(t)
  <2> SUFFICES ASSUME NEW i \in 1..Len(t), t[i].start < t[i].end PROVE t[i].status >= kGuess
    BY DEF Drafted
  <2>1. i = Len(e.segs) \/ i \in 1..(Len(e.segs) - 1)
    BY <1>11, <1>13
  <2>2. CASE i = Len(e.segs)
    BY <1>7, <1>13, <2>2 DEF kGuess
  <2>3. CASE i \in 1..(Len(e.segs) - 1)
    BY <1>11, <1>13, <2>3 DEF Drafted
  <2> QED
    BY <2>1, <2>2, <2>3
<1>17. /\ f \in CtxType /\ f.segs = t /\ f.input = e.input /\ f.caret = e.caret
       /\ f.active = e.active /\ f.opts = e.opts /\ f.sink = e.sink
  BY <1>11, <1>15 DEF CtxType
<1> HIDE DEF f
<1>18. Lettered(f) /\ Accounted(f)
  BY <1>11, <1>17 DEF Lettered, Accounted
<1>19. Selectable(f, f.segs)
  BY <1>7, <1>11, <1>13, <1>14, <1>15, <1>16, <1>17, <1>18 DEF Selectable
<1>20. f = [e EXCEPT !.segs = SetLast(e.segs, Last(d.segs))]
  BY <1>7 DEF f, t
<1> QED
  BY <1>19, <1>20

\* A letter, with all that the speller may select of itself.
LEMMA SpellRest ==
  ASSUME Plain \/ ~AutoSelect, NEW c, Rest(c), NEW ch \in Letters, NEW read
  PROVE  Rest(Spell(c, ch, read))
<1> DEFINE d == IF AtMaxCodeLength(c) THEN ConfirmCurrentSelection(c, read) ELSE c
           e == ConfirmPreviousSelection(PushInput(d, ch))
           f == [e EXCEPT !.segs = SetLast(e.segs, Last(d.segs))]
<1>0. ch \in Chars
  BY DEF Chars
<1>1. Rest(d)
  <2>1. CASE AtMaxCodeLength(c)
    <3>1. CanConfirm(c)
      BY <2>1 DEF AtMaxCodeLength, HasMenu, CanConfirm
    <3> QED
      BY <2>1, <3>1, ConfirmRest
  <2>2. CASE ~AtMaxCodeLength(c)
    BY <2>2
  <2> QED
    BY <2>1, <2>2
<1>a. Spell(c, ch, read) = IF IsUnique(e) THEN ConfirmCurrentSelection(e, read)
                           ELSE IF IsOverrun(e, d) THEN ConfirmCurrentSelection(f, read) ELSE e
  BY DEF Spell
<1> HIDE DEF d
<1>2. Rest(e)
  <2>1. Rest(PushInput(d, ch))
    BY <1>0, <1>1, PushRest
  <2> QED
    BY <2>1, ConfirmPreviousRest
<1>3. CASE IsUnique(e)
  <2>1. e.segs # << >> /\ Last(e.segs).menu # << >>
    BY <1>3 DEF IsUnique, HasMenu
  <2> HIDE DEF e
  <2>2. CanConfirm(e)
    <3> DEFINE g == e.segs[Len(e.segs)]
    <3>1. /\ g = Last(e.segs) /\ g.start < g.end /\ g.start \in Nat /\ g.end \in Nat
      BY <1>2, <2>1, LastAtRest
    <3> QED
      BY <2>1, <3>1 DEF CanConfirm, IsEmptySegment
  <2> QED
    BY <1>a, <1>2, <1>3, <2>2, ConfirmRest
<1>4. CASE ~IsUnique(e) /\ IsOverrun(e, d)
  <2>1. Plain /\ HasMenu(d)
    BY <1>4 DEF IsOverrun
  <2>2. Selectable(f, f.segs)
    BY <1>1, <2>1, OverrunSelectable
  <2> HIDE DEF f
  <2> QED
    BY <1>a, <1>4, <2>2, ConfirmSelectable
<1>5. CASE ~IsUnique(e) /\ ~IsOverrun(e, d)
  BY <1>a, <1>2, <1>5
<1> QED
  BY <1>3, <1>4, <1>5

-----------------------------------------------------------------------------
(* The engine.                                                             *)

\* The inductive invariant.
IInv ==
  /\ Rest(ctx)
  /\ handled \in BOOLEAN
  /\ ~handled => ctx.input = << >>

\* An empty context is at rest.
LEMMA EmptyRest == Rest(EmptyContext)
<1> DEFINE none == << >>
           c == [input |-> none, caret |-> 0, segs |-> none, active |-> none, sink |-> none,
                 opts |-> {}, temp |-> FALSE]
<1>1. /\ none \in Seq(Chars) /\ none \in Comps /\ none \in Seq(Commits) /\ Len(none) = 0
  BY EmptySeq DEF Comps
<1>2. SubSeq(none, 1, 0) = none
  <2>1. 0 \in 0..Len(none)
    BY <1>1
  <2>2. SubSeq(none, 1, 0) \in Seq(Chars) /\ Len(SubSeq(none, 1, 0)) = 0
    BY <1>1, <2>1, BeforeCaret
  <2> QED
    BY <2>2, EmptySeq
<1>3. /\ Formed(none, 0) /\ LastOpen(none) /\ Rested(none) /\ Drafted(none)
      /\ HasFinishedSegmentation(none, none) /\ Settled(none, none)
  BY <1>1 DEF Formed, LastOpen, Rested, LastFull, Drafted, HasFinishedSegmentation,
       GetCurrentEndPosition, Settled
<1> HIDE DEF none
<1>4. /\ c \in CtxType /\ c.input = none /\ c.caret = 0 /\ c.segs = none /\ c.active = none
      /\ c.sink = none /\ c.opts = {}
  BY <1>1 DEF CtxType
<1>5. c = EmptyContext
  BY DEF EmptyContext, none
<1> HIDE DEF c
<1>6. Rest(c)
  BY <1>1, <1>2, <1>3, <1>4 DEF Rest, Comp, Lettered, Accounted
<1> QED
  BY <1>5, <1>6

\* What a key event finds.
LEMMA FreshRest ==
  ASSUME Rest(ctx)
  PROVE  /\ Rest(Fresh) /\ Fresh.input = ctx.input /\ Fresh.segs = ctx.segs
         /\ Fresh.caret = ctx.caret /\ Fresh.active = ctx.active /\ Fresh.opts = ctx.opts
<1> DEFINE none == << >>
           f == [ctx EXCEPT !.sink = none]
<1>1. ctx \in CtxType
  BY DEF Rest
<1>2. none \in Seq(Commits) /\ Len(none) = 0
  BY EmptySeq
<1>3. Fresh = f
  BY DEF Fresh
<1> HIDE DEF none
<1>4. /\ f \in CtxType /\ f.input = ctx.input /\ f.segs = ctx.segs /\ f.sink = none
      /\ f.caret = ctx.caret /\ f.active = ctx.active /\ f.opts = ctx.opts
  BY <1>1, <1>2 DEF CtxType
<1> HIDE DEF f
<1>5. Rest(f)
  <2>1. Lettered(f)
    BY <1>4 DEF Rest, Lettered
  <2>2. Accounted(f)
    <3>1. Len(f.sink) = 0
      BY <1>2, <1>4
    <3> QED
      BY <3>1 DEF Accounted
  <2> QED
    BY <1>4, <2>1, <2>2 DEF Rest
<1> QED
  BY <1>3, <1>4, <1>5

\* A letter or a number key.
LEMMA TypingKeys ==
  ASSUME Plain \/ ~AutoSelect, IInv, Letter \/ Number
  PROVE  IInv'
<1> DEFINE f == Fresh
<1>1. Rest(f) /\ f.segs = ctx.segs
  BY FreshRest DEF IInv
<1>2. CASE Letter
  <2>1. PICK ch \in Letters, read \in Reads : Key("letter", Spell(f, ch, read), TRUE)
    BY <1>2 DEF Letter
  <2>2. Rest(Spell(f, ch, read))
    BY <1>1, SpellRest
  <2> QED
    BY <2>1, <2>2 DEF Key, IInv
<1>3. CASE Number
  <2>1. PICK digit \in Digits, read \in Reads :
          IF SelectorActs(ctx)
            THEN Key("number", SelectCandidateAt(f, IndexOfKey(digit), read), TRUE)
            ELSE IF AutoCommit THEN Key("text", Commit(f), FALSE)
            ELSE Key("text", ConfirmPreviousSelection(PushInput(f, digit)), TRUE)
    BY <1>3 DEF Number
  <2>2. CASE SelectorActs(ctx)
    <3>1. SelectorActs(f)
      BY <1>1, <2>2 DEF SelectorActs
    <3>2. Rest(SelectCandidateAt(f, IndexOfKey(digit), read))
      BY <1>1, <3>1, NumberRest
    <3> QED
      BY <2>1, <2>2, <3>2 DEF Key, IInv
  <2>3. CASE ~SelectorActs(ctx) /\ AutoCommit
    <3>1. Rest(Commit(f)) /\ Commit(f).input = << >>
      BY <1>1, CommitAtRest
    <3> QED
      BY <2>1, <2>3, <3>1 DEF Key, IInv
  <2>4. CASE ~SelectorActs(ctx) /\ ~AutoCommit
    <3>1. digit \in Chars
      BY DEF Digits, Chars
    <3>2. Rest(PushInput(f, digit))
      BY <1>1, <2>4, <3>1, PushRest
    <3>3. Rest(ConfirmPreviousSelection(PushInput(f, digit)))
      BY <3>2, ConfirmPreviousRest
    <3> QED
      BY <2>1, <2>4, <3>3 DEF Key, IInv
  <2> QED
    BY <2>2, <2>3, <2>4
<1> QED
  BY <1>2, <1>3

\* The keys of the selector and the navigator.
LEMMA MovingKeys ==
  ASSUME IInv,
         PageUp \/ PageDown \/ CursorUp \/ CursorDown \/ Left \/ Right \/ Home \/ End
  PROVE  IInv'
<1> DEFINE f == Fresh
<1>1. /\ Rest(f) /\ f.segs = ctx.segs /\ f.input = ctx.input /\ f.caret = ctx.caret
  BY FreshRest DEF IInv
<1>2. SelectorActs(ctx) => SelectorActs(f)
  BY <1>1 DEF SelectorActs
<1>3. CASE PageUp
  <2>1. SelectorActs(f) /\ Key("page", PagedUp(f), TRUE)
    BY <1>2, <1>3 DEF PageUp
  <2>2. Rest(PagedUp(f))
    BY <1>1, <2>1, PageRest
  <2> QED
    BY <2>1, <2>2 DEF Key, IInv
<1>4. CASE PageDown
  <2>1. SelectorActs(f) /\ Key("page", PagedDown(f), TRUE)
    BY <1>2, <1>4 DEF PageDown
  <2>2. Rest(PagedDown(f))
    BY <1>1, <2>1, PageRest
  <2> QED
    BY <2>1, <2>2 DEF Key, IInv
<1>5. CASE CursorUp
  <2> DEFINE x == Last(f.segs).sel
             d == IF x > 0 THEN PageTo(f, x - 1) ELSE f
  <2>1. SelectorActs(f) /\ Key("cursor", d, TRUE)
    BY <1>1, <1>2, <1>5 DEF CursorUp
  <2>2. x > 0 => Rest(PageTo(f, x - 1))
    BY <1>1, <2>1, PageRest
  <2>3. Rest(d)
    BY <1>1, <2>2
  <2> QED
    BY <2>1, <2>3 DEF Key, IInv
<1>6. CASE CursorDown
  <2> DEFINE x == Last(f.segs).sel
             d == IF x + 1 < Len(Last(f.segs).menu) THEN PageTo(f, x + 1) ELSE f
  <2>1. SelectorActs(f) /\ Key("cursor", d, TRUE)
    BY <1>1, <1>2, <1>6 DEF CursorDown
  <2>2. x + 1 < Len(Last(f.segs).menu) => Rest(PageTo(f, x + 1))
    BY <1>1, <2>1, PageRest
  <2>3. Rest(d)
    BY <1>1, <2>2
  <2> QED
    BY <2>1, <2>3 DEF Key, IInv
<1>7. /\ Rest(GoneLeft(f)) /\ Rest(GoHome(f)) /\ Rest(SetCaretPos(f, f.caret + 1))
      /\ Rest(SetCaretPos(f, Len(f.input)))
  BY <1>1, GoRest
<1>8. Rewinds(ctx) => Rest(MoveTo(f, 0))
  BY <1>1, <1>2, PageRest DEF Rewinds
<1>9. CASE Left
  BY <1>7, <1>9 DEF Left, Key, IInv
<1>10. CASE Right
  <2> DEFINE d == IF ctx.caret >= Len(ctx.input) THEN GoHome(f)
                  ELSE SetCaretPos(f, ctx.caret + 1)
  <2>1. Key("navigate", d, TRUE)
    BY <1>10 DEF Right
  <2>2. Rest(d)
    BY <1>1, <1>7
  <2> QED
    BY <2>1, <2>2 DEF Key, IInv
<1>11. CASE Home
  <2> DEFINE d == IF Rewinds(ctx) THEN MoveTo(f, 0) ELSE GoHome(f)
  <2>1. Key("navigate", d, TRUE)
    BY <1>11 DEF Home
  <2>2. Rest(d)
    BY <1>7, <1>8
  <2> QED
    BY <2>1, <2>2 DEF Key, IInv
<1>12. CASE End
  <2> DEFINE d == IF ctx.caret < Len(ctx.input) THEN SetCaretPos(f, Len(ctx.input))
                  ELSE IF Rewinds(ctx) THEN MoveTo(f, 0) ELSE f
  <2>1. Key("navigate", d, TRUE)
    BY <1>12 DEF End
  <2>2. Rest(d)
    BY <1>1, <1>7, <1>8
  <2> QED
    BY <2>1, <2>2 DEF Key, IInv
<1> QED
  BY <1>3, <1>4, <1>5, <1>6, <1>9, <1>10, <1>11, <1>12

\* The keys of the editor.
LEMMA EditingKeys ==
  ASSUME IInv,
         Space \/ Return \/ CommitScriptText
           \/ BackSpace \/ ShiftBackSpace \/ Delete \/ ShiftDelete \/ Escape
  PROVE  IInv'
<1> DEFINE f == Fresh
<1>1. /\ Rest(f) /\ f.segs = ctx.segs /\ f.input = ctx.input /\ f.caret = ctx.caret
  BY FreshRest DEF IInv
<1>2. IsComposing(ctx) \in BOOLEAN /\ (IsComposing(f) <=> IsComposing(ctx))
  BY <1>1 DEF IsComposing
<1>3. CASE Space
  <2>1. PICK read \in Reads : Key("space", Confirm(f, read), IsComposing(ctx))
    BY <1>3 DEF Space
  <2>2. Rest(Confirm(f, read)) /\ (~IsComposing(f) => Confirm(f, read).input = << >>)
    BY <1>1, ConfirmKeysRest
  <2> QED
    BY <1>2, <2>1, <2>2 DEF Key, IInv
<1>4. CASE Return
  <2>1. PICK read \in Reads : Key("return", IF AutoCommit THEN CommitRawInput(f)
                                            ELSE CommitComposition(f, read), TRUE)
    BY <1>4 DEF Return
  <2>2. Rest(CommitRawInput(f))
    BY <1>1, RawRest
  <2>3. Rest(CommitComposition(f, read))
    BY <1>1, ConfirmKeysRest
  <2> QED
    BY <2>1, <2>2, <2>3 DEF Key, IInv
<1>5. CASE CommitScriptText
  <2>1. Rest(Clear(Sink(f, GetScriptText(f))))
    BY <1>1, ScriptRest
  <2> QED
    BY <1>5, <2>1 DEF CommitScriptText, Key, IInv
<1>6. CASE BackSpace
  <2> DEFINE d == IF ~IsComposing(ctx) THEN f
                  ELSE IF AutoCommit THEN RevertLastAction(f) ELSE RevertToPreviousInput(f)
  <2>1. Key("backspace", d, IsComposing(ctx))
    BY <1>6 DEF BackSpace
  <2>2. Rest(PopInput(f, 1)) /\ Rest(ReopenPreviousSelection(f))
        /\ Rest(ReopenPreviousSegment(f))
    BY <1>1, PopRest, ReopenSelectionRest, ReopenSegmentRest
  <2>3. Rest(ReopenPreviousSegment(PopInput(f, 1)))
    BY <2>2, ReopenSegmentRest
  <2>4. Rest(RevertLastAction(f)) /\ Rest(RevertToPreviousInput(f))
    BY <1>1, <2>2, <2>3 DEF RevertLastAction, RevertToPreviousInput
  <2>5. Rest(d) /\ (~IsComposing(ctx) => d.input = << >>)
    BY <1>1, <1>2, <2>4 DEF IsComposing
  <2> QED
    BY <1>2, <2>1, <2>5 DEF Key, IInv
<1>7. CASE ShiftBackSpace
  <2>1. Rest(PopInput(f, 1))
    BY <1>1, PopRest
  <2> QED
    BY <1>7, <2>1 DEF ShiftBackSpace, Key, IInv
<1>8. CASE Delete
  <2>1. Rest(DeleteInput(f, 1))
    BY <1>1, DeleteRest
  <2> QED
    BY <1>8, <2>1 DEF Delete, Key, IInv
<1>9. CASE ShiftDelete
  <2>1. PICK recognized \in BOOLEAN :
          Key("unlearn", IF recognized THEN RefreshNonConfirmedComposition(f) ELSE f, TRUE)
    BY <1>9 DEF ShiftDelete
  <2>2. Rest(RefreshNonConfirmedComposition(f))
    BY <1>1, RefreshRest
  <2> QED
    BY <1>1, <2>1, <2>2 DEF Key, IInv
<1>10. CASE Escape
  <2>1. Key("escape", IF CanClearSegment(ctx) THEN ClearPreviousSegment(f) ELSE Clear(f), TRUE)
    BY <1>10 DEF Escape
  <2>2. Rest(ClearPreviousSegment(f))
    BY <1>1, ClearSegmentRest
  <2>3. Rest(Clear(f))
    <3>1. f \in CtxType /\ Accounted(f) /\ (Plain => "ascii_mode" \notin f.opts)
      BY <1>1 DEF Rest
    <3> QED
      BY <3>1, ClearRest
  <2> QED
    BY <2>1, <2>2, <2>3 DEF Key, IInv
<1> QED
  BY <1>3, <1>4, <1>5, <1>6, <1>7, <1>8, <1>9, <1>10

\* The calls of the front end.
LEMMA FrontEndCalls ==
  ASSUME IInv, SessionCommit \/ SessionClear \/ OptionUpdate
  PROVE  IInv'
<1> DEFINE f == Fresh
<1>1. Rest(f)
  BY FreshRest DEF IInv
<1>2. CASE SessionCommit
  <2>1. Rest(Commit(f))
    BY <1>1, CommitAtRest
  <2> QED
    BY <1>2, <2>1 DEF SessionCommit, Key, IInv
<1>3. CASE SessionClear
  <2>1. f \in CtxType /\ Accounted(f) /\ (Plain => "ascii_mode" \notin f.opts)
    BY <1>1 DEF Rest
  <2>2. Rest(Clear(f))
    BY <2>1, ClearRest
  <2> QED
    BY <1>3, <2>2 DEF SessionClear, Key, IInv
<1>4. CASE OptionUpdate
  <2>1. PICK name \in Options \cup {"other"}, on \in BOOLEAN :
          Key("api", SetOption(f, name, on), TRUE)
    BY <1>4 DEF OptionUpdate
  <2>2. Rest(SetOption(f, name, on))
    BY <1>1, OptionRest
  <2> QED
    BY <2>1, <2>2 DEF Key, IInv
<1> QED
  BY <1>2, <1>3, <1>4

\* The invariant holds of every behaviour.
THEOREM EngineInvariance ==
  ASSUME Plain \/ ~AutoSelect
  PROVE  Spec => []IInv
<1>1. Init => IInv
  <2> SUFFICES ASSUME Init PROVE IInv
    OBVIOUS
  <2> QED
    BY EmptyRest DEF Init, IInv
<1>2. IInv /\ [Next]_vars => IInv'
  <2> SUFFICES ASSUME IInv, [Next]_vars PROVE IInv'
    OBVIOUS
  <2>1. CASE Next
    BY <2>1, TypingKeys, MovingKeys, EditingKeys, FrontEndCalls DEF Next
  <2>2. CASE UNCHANGED vars
    BY <2>2 DEF IInv, vars
  <2> QED
    BY <2>1, <2>2
<1> QED
  BY <1>1, <1>2, PTL DEF Spec

-----------------------------------------------------------------------------
(* What the invariant is for.                                              *)

\* The composition is of the text before the caret, tiles it and uses it up.
LEMMA RestCovered ==
  ASSUME Rest(ctx)
  PROVE  Covered
<1> DEFINE s == ctx.segs
           n == Len(ctx.active)
<1>1. /\ n \in Nat /\ Len(s) \in Nat /\ Comp(s, n) /\ (s # << >> <=> Len(s) > 0)
      /\ Last(s) = s[Len(s)]
  <2>1. n \in Nat /\ Len(s) \in Nat /\ Comp(s, n) /\ s \in Comps
    BY RestParts
  <2> QED
    BY <2>1, LenOf DEF Last
<1>2. Tiled(s, n)
  <2>1. s # << >> => Last(s).end <= n
    BY <1>1 DEF Comp, Formed
  <2>2. \A i \in 1..Len(s) : s[i].start <= s[i].end
    BY <1>1 DEF Comp, Formed, SegOK
  <2> QED
    BY <1>1, <2>1, <2>2 DEF Tiled, Comp, Formed
<1> QED
  BY <1>2 DEF Covered, Rest

\* The composition covers the text before the caret, whatever the schema,
\* between any two keys: Covered, of every session whose speller does not select
\* of itself what a letter has overrun, or whose schema is the plainest.
THEOREM AlwaysCovered ==
  ASSUME Plain \/ ~AutoSelect
  PROVE  Spec => []Covered
<1>1. IInv => Covered
  BY RestCovered DEF IInv
<1> QED
  BY <1>1, EngineInvariance, PTL

\* A selected segment ends where its candidate ends, however it came about.
THEOREM SelectionsExact ==
  ASSUME Plain \/ ~AutoSelect
  PROVE  Spec => []SelectionExact
<1>1. IInv => SelectionExact
  <2> SUFFICES ASSUME IInv, NEW i \in 1..Len(ctx.segs), ctx.segs[i].status >= kSelected
               PROVE  TextEnd(ctx.segs[i]) = ctx.segs[i].end
    BY DEF SelectionExact
  <2>1. SegOK(ctx.segs[i])
    BY RestParts DEF IInv
  <2> QED
    BY <2>1 DEF SegOK, TextEnd
<1> QED
  BY <1>1, EngineInvariance, PTL

\* A commit accounts for what was typed before the caret, in its order and no
\* character twice.
THEOREM CommitsAccountForInput ==
  ASSUME Plain \/ ~AutoSelect
  PROVE  Spec => []CommitAccountsForInput
<1>1. IInv => CommitAccountsForInput
  <2>1. ASSUME IInv PROVE Accounted(ctx)
    BY <2>1 DEF IInv, Rest
  <2>2. ASSUME Accounted(ctx) PROVE CommitAccountsForInput
    BY <2>2, Zenon DEF Accounted, AccountsFor, CommitAccountsForInput
  <2> QED
    BY <2>1, <2>2
<1> QED
  BY <1>1, EngineInvariance, PTL

\* A key that stands for text is never let through ahead of a composition.
THEOREM TextKeysDoNotOvertake ==
  ASSUME Plain \/ ~AutoSelect
  PROVE  Spec => []TextKeyNotOvertaking
<1>1. IInv => TextKeyNotOvertaking
  BY DEF IInv, TextKeyNotOvertaking
<1> QED
  BY <1>1, EngineInvariance, PTL

\* In the plainest schema every selection that is committed is committed as it
\* was made.
THEOREM SelectionsAreCommitted ==
  ASSUME Plain
  PROVE  Spec => []SelectionIsCommitted
<1>1. IInv => SelectionIsCommitted
  <2>1. ASSUME IInv PROVE Accounted(ctx)
    BY <2>1 DEF IInv, Rest
  <2>2. ASSUME Accounted(ctx) PROVE SelectionIsCommitted
    <3>1. \A n \in 1..Len(ctx.sink) : Speaks(ctx.sink[n])
      BY <2>2 DEF Accounted
    <3> QED
      BY <3>1, Zenon DEF Speaks, SelectionIsCommitted
  <2> QED
    BY <2>1, <2>2
<1> QED
  BY <1>1, EngineInvariance, PTL

\* In the plainest schema a menu is never out of date.
THEOREM MenusAreCurrent ==
  ASSUME Plain
  PROVE  Spec => []MenuIsCurrent
<1>1. ASSUME Rest(ctx), NEW i \in 1..Len(ctx.segs), ctx.segs[i].status = kGuess
      PROVE  /\ ctx.segs[i].menu = MenuFor(ctx.segs[i], ctx.active, ctx.opts)
             /\ ctx.segs[i].menu # << >> => ctx.segs[i].sel < Len(ctx.segs[i].menu)
  <2> DEFINE g == ctx.segs[i]
  <2>1. g \in SegType /\ SegOK(g) /\ Literal(g, ctx.active)
    BY <1>1, RestParts DEF Rest, Settled
  <2>a. g.status = kGuess
    BY <1>1
  <2> HIDE DEF g
  <2>2. g.tags \subseteq PlainTags /\ g.menu = MenuFor(g, ctx.active, {})
    BY <2>1, <2>a DEF Literal, PlainTags
  <2>3. MenuFor(g, ctx.active, {}) = MenuFor(g, ctx.active, ctx.opts)
    <3> DEFINE a == SubSeq(ctx.active, g.start + 1, g.end)
               m == IF "abc" \in g.tags /\ a \in DOMAIN Lexicon
                      THEN [x \in 1..Len(Lexicon[a]) |-> g.start + Lexicon[a][x]] ELSE << >>
    <3>1. \A on : MenuFor(g, ctx.active, on) = m
      BY <2>2, PlainMenu
    <3> HIDE DEF m
    <3> QED
      BY <3>1
  <2>4. g.menu # << >> => g.sel < Len(g.menu)
    BY <2>1, <2>a DEF SegOK
  <2> QED
    BY <2>2, <2>3, <2>4 DEF g
<1>2. ASSUME Rest(ctx), ctx.segs # << >>, ~IsEmptySegment(Last(ctx.segs))
      PROVE  Last(ctx.segs).status = kGuess
  BY <1>2, LastAtRest DEF IsEmptySegment
<1>3. IInv => MenuIsCurrent
  BY <1>1, <1>2, RestCovered DEF IInv, MenuIsCurrent
<1> QED
  BY <1>3, EngineInvariance, PTL

-----------------------------------------------------------------------------
(* Pages.                                                                  *)

\* A number is on one page only.
LEMMA OnePage ==
  ASSUME NEW b \in Nat \ {0}, NEW x \in Nat, NEW p \in Nat, NEW q \in Nat,
         b * q <= x, x < b * q + b, b * p <= x, x < b * p + b
  PROVE  p = q
<1>1. ASSUME NEW i \in Nat, NEW j \in Nat, i < j PROVE b * i + b <= b * j
  <2> DEFINE k == j - i - 1
  <2>1. k \in Nat /\ j = i + 1 + k
    BY <1>1
  <2> HIDE DEF k
  <2>2. b * j = b * i + b + b * k
    BY <2>1
  <2>3. b * k \in Nat /\ b * i \in Nat
    BY <2>1
  <2> QED
    BY <2>2, <2>3
<1>2. b * p \in Nat /\ b * q \in Nat
  OBVIOUS
<1>3. ~(p < q)
  BY <1>1, <1>2
<1>4. ~(q < p)
  BY <1>1, <1>2
<1> QED
  BY <1>3, <1>4

\* The page of a candidate and its place on it.
LEMMA PageOf ==
  ASSUME NEW x \in Nat
  PROVE  LET b == PageSize
             q == x \div b
         IN  /\ b \in Nat \ {0} /\ q \in Nat /\ b * q \in Nat /\ b * q = q * b
             /\ b * q <= x /\ x < b * q + b /\ x % b = x - b * q
             /\ (x + b) \div b = q + 1
             /\ \A y \in Nat : b * q + b <= y => y \div b # q
<1> DEFINE b == PageSize
           q == x \div b
           r == x % b
           p == (x + b) \div b
           e == (x + b) % b
<1>1. b \in Nat \ {0}
  BY EngineAssumption
<1> HIDE DEF b
<1>2. q \in Nat /\ r \in Nat /\ x = b * q + r /\ r < b
  BY <1>1
<1>3. p \in Nat /\ e \in Nat /\ x + b = b * p + e /\ e < b
  <2> DEFINE y == x + b
  <2>1. y \in Nat
    BY <1>1
  <2> HIDE DEF y
  <2>2. y \div b \in Nat /\ y % b \in Nat /\ y = b * (y \div b) + (y % b) /\ y % b < b
    BY <1>1, <2>1
  <2> QED
    BY <2>2 DEF y
<1> HIDE DEF q, r, p, e
<1>4. b * q \in Nat /\ b * q = q * b
  BY <1>1, <1>2
<1>5. b * (q + 1) = b * q + b /\ q + 1 \in Nat
  BY <1>1, <1>2
<1>6. b * p \in Nat
  BY <1>1, <1>3
<1>7. p = q + 1
  <2> DEFINE y == x + b
             u == q + 1
  <2>1. y \in Nat /\ b * u <= y /\ y < b * u + b /\ b * p <= y /\ y < b * p + b
    BY <1>1, <1>2, <1>3, <1>4, <1>5, <1>6
  <2>2. u \in Nat
    BY <1>2
  <2> HIDE DEF y, u
  <2>3. p = u
    BY <1>1, <1>3, <2>1, <2>2, OnePage
  <2> QED
    BY <2>3 DEF u
<1>8. b * q <= x /\ x < b * q + b /\ r = x - b * q
  BY <1>1, <1>2, <1>4
<1>9. ASSUME NEW y \in Nat, b * q + b <= y PROVE y \div b # q
  <2>1. y = b * (y \div b) + (y % b) /\ y % b < b /\ y \div b \in Nat /\ y % b \in Nat
    BY <1>1
  <2>2. ASSUME y \div b = q PROVE FALSE
    <3>1. y = b * q + (y % b)
      BY <2>1, <2>2
    <3> QED
      BY <1>1, <1>4, <1>9, <2>1, <3>1
  <2> QED
    BY <2>2
<1> QED
  BY <1>1, <1>2, <1>4, <1>7, <1>8, <1>9 DEF b, q, r, p

\* A slice of a menu.
LEMMA Slice ==
  ASSUME NEW menu \in Seq(Nat), NEW i \in Nat, NEW j \in Nat, i < j, j <= Len(menu)
  PROVE  /\ Len(SubSeq(menu, i + 1, j)) = j - i
         /\ \A k \in 1..(j - i) : SubSeq(menu, i + 1, j)[k] = menu[i + k]
<1>1. Len(menu) \in Nat
  BY LenProperties
<1>2. \A k \in (i + 1)..j : menu[k] \in Nat
  BY <1>1, ElementOfSeq
<1>3. /\ Len(SubSeq(menu, i + 1, j)) = (IF i + 1 <= j THEN j - (i + 1) + 1 ELSE 0)
      /\ \A k \in 1..(j - (i + 1) + 1) : SubSeq(menu, i + 1, j)[k] = menu[i + 1 + k - 1]
  <2> DEFINE a == i + 1
  <2>1. a \in Int /\ j \in Int /\ \A k \in a..j : menu[k] \in Nat
    BY <1>2
  <2> HIDE DEF a
  <2>2. /\ Len(SubSeq(menu, a, j)) = (IF a <= j THEN j - a + 1 ELSE 0)
        /\ \A k \in 1..(j - a + 1) : SubSeq(menu, a, j)[k] = menu[a + k - 1]
    BY <2>1, SubSeqProperties
  <2> QED
    BY <2>2 DEF a
<1>4. Len(SubSeq(menu, i + 1, j)) = j - i
  BY <1>3
<1>5. ASSUME NEW k \in 1..(j - i) PROVE SubSeq(menu, i + 1, j)[k] = menu[i + k]
  <2>1. k \in 1..(j - (i + 1) + 1) /\ i + 1 + k - 1 = i + k
    OBVIOUS
  <2> QED
    BY <1>3, <2>1
<1> QED
  BY <1>4, <1>5

\* Page_Down stays on the page exactly when there is no more.
LEMMA PagedDownPage ==
  ASSUME NEW c, Rest(c), c.segs # << >>, Last(c.segs).menu # << >>
  PROVE  PageNo(PagedDown(c)) = PageNo(c)
           <=> Len(Last(c.segs).menu) <= PageSize * PageNo(c) + PageSize
<1> DEFINE s == c.segs
           g == Last(s)
           n == Len(g.menu)
           x == g.sel
           b == PageSize
           q == x \div b
           y == x + b
           start == (y \div b) * b
<1>1. /\ c \in CtxType /\ s \in Comps /\ g \in SegType /\ x \in Nat /\ n \in Nat /\ x < n
  BY LastAtRest DEF Rest
<1>2. /\ b \in Nat \ {0} /\ q \in Nat /\ b * q \in Nat /\ b * q <= x /\ x < b * q + b
      /\ y \div b = q + 1 /\ \A z \in Nat : b * q + b <= z => z \div b # q
  BY <1>1, PageOf
<1>a. y = x + b /\ start = (y \div b) * b
  OBVIOUS
<1>b. PageNo(c) = q
  BY DEF PageNo
<1>c. PagedDown(c) = IF n <= start THEN c ELSE PageTo(c, IF y >= n THEN n - 1 ELSE y)
  BY DEF PagedDown
<1> HIDE DEF n, x, b, y, start
<1>3. start = b * q + b
  <2>1. start = (q + 1) * b
    BY <1>2, <1>a
  <2> HIDE DEF q
  <2> QED
    BY <1>2, <2>1
<1>4. ASSUME NEW i \in Nat PROVE PageNo(PageTo(c, i)) = i \div b
  <2> DEFINE h == [g EXCEPT !.sel = i, !.tags = @ \cup {"paging"}]
             p == g.tags \cup {"paging"}
             t == SetLast(s, h)
             d == [c EXCEPT !.segs = t]
  <2>1. PageTo(c, i) = d
    BY DEF PageTo
  <2>2. p \in SUBSET Tags
    BY <1>1 DEF SegType, Tags
  <2> HIDE DEF g
  <2>3. h \in SegType /\ h.sel = i
    BY <1>1, <2>2 DEF SegType
  <2> HIDE DEF h
  <2>4. t \in Comps /\ Last(t) = h
    BY <1>1, <2>3, SetLastIs
  <2> HIDE DEF t
  <2>5. d.segs = t
    BY <1>1, <2>4 DEF CtxType
  <2> QED
    BY <2>1, <2>3, <2>4, <2>5 DEF PageNo, b
<1>5. CASE n <= start
  BY <1>3, <1>5, <1>c DEF n, b, x, PageNo
<1>6. CASE ~(n <= start)
  <2> DEFINE i == IF y >= n THEN n - 1 ELSE y
  <2>1. i \in Nat /\ b * q + b <= i
    <3> HIDE DEF q
    <3> DEFINE m == b * q
    <3>1. m \in Nat /\ m <= x /\ start = m + b
      BY <1>2, <1>3
    <3> HIDE DEF m
    <3>2. i \in Nat /\ m + b <= i
      BY <1>1, <1>2, <1>6, <1>a, <3>1
    <3> QED
      BY <3>2 DEF m
  <2> HIDE DEF i
  <2>2. PageNo(PageTo(c, i)) # q
    BY <1>2, <1>4, <2>1
  <2>3. PagedDown(c) = PageTo(c, i)
    BY <1>6, <1>c DEF i
  <2>4. ~(n <= b * q + b)
    BY <1>3, <1>6
  <2> QED
    BY <1>b, <2>2, <2>3, <2>4 DEF n, b
<1> QED
  BY <1>5, <1>6

\* The page on display is the one the keys mean.
THEOREM PagesAreTrue ==
  ASSUME Plain \/ ~AutoSelect
  PROVE  Spec => []PageIsTrue
<1>1. ASSUME Rest(ctx), HasMenu(ctx) PROVE PageIsTrue
  <2> DEFINE g == Last(ctx.segs)
             menu == g.menu
             n == Len(menu)
             x == g.sel
             b == PageSize
             q == x \div b
             start == b * q
             end == IF start + b < n THEN start + b ELSE n
             page == GetContext(ctx).menu
             shown == SubSeq(menu, start + 1, end)
  <2>1. /\ ctx.segs # << >> /\ menu # << >> /\ menu \in Seq(Nat) /\ n \in Nat /\ x \in Nat
        /\ x < n
    <3>1. ctx.segs # << >> /\ menu # << >>
      BY <1>1 DEF HasMenu
    <3> QED
      BY <1>1, <3>1, LastAtRest
  <2>2. /\ b \in Nat \ {0} /\ q \in Nat /\ start \in Nat /\ start = q * b
        /\ start <= x /\ x < start + b /\ x % b = x - start
    BY <2>1, PageOf
  <2>3. PageNo(PagedDown(ctx)) = PageNo(ctx) <=> n <= start + b
    BY <1>1, <2>1, PagedDownPage DEF PageNo
  <2>4. /\ page.highlighted = x % b
        /\ ~(start >= end) => page.candidates = shown /\ (page.isLastPage <=> end = n)
    <3> DEFINE p == CreatePage(menu, PageNo(ctx))
               last == end = n
    <3>1. p = IF start >= end THEN [candidates |-> << >>, isLastPage |-> FALSE]
              ELSE [candidates |-> shown, isLastPage |-> last]
      BY DEF CreatePage, PageNo
    <3>2. page = [candidates |-> p.candidates, isLastPage |-> p.isLastPage,
                  highlighted |-> x % b]
      BY <1>1 DEF GetContext
    <3> HIDE DEF p, page, shown, start, end, last, x
    <3>3. /\ page.candidates = p.candidates /\ page.isLastPage = p.isLastPage
          /\ page.highlighted = x % b
      BY <3>2
    <3>4. ASSUME ~(start >= end) PROVE p.candidates = shown /\ p.isLastPage = last
      BY <3>1, <3>4
    <3> QED
      BY <3>3, <3>4 DEF last
  <2>a. end = IF start + b < n THEN start + b ELSE n
    OBVIOUS
  <2>b. q = x \div PageSize /\ b = PageSize
    OBVIOUS
  <2> HIDE DEF page, start, end, b, q, n, x
  <2>5. end \in Nat /\ start < end /\ end <= n /\ x < end /\ (end = n <=> n <= start + b)
    BY <2>1, <2>2, <2>a
  <2>6. /\ Len(shown) = end - start
        /\ \A k \in 1..(end - start) : shown[k] = menu[start + k]
    BY <2>1, <2>2, <2>5, Slice DEF n
  <2> HIDE DEF shown, menu
  <2>7. page.candidates = shown /\ (page.isLastPage <=> end = n) /\ page.highlighted = x - start
    BY <2>2, <2>4, <2>5
  <2>8. page.highlighted < Len(page.candidates)
    BY <2>1, <2>2, <2>5, <2>6, <2>7
  <2>9. \A k \in 0..(n - 1) : GetCandidateAt(g, k) = menu[k + 1]
    BY <2>1 DEF GetCandidateAt, n, menu
  <2>10. page.candidates[page.highlighted + 1] = GetSelectedCandidate(g)
    <3>1. x - start + 1 \in 1..(end - start) /\ start + (x - start + 1) = x + 1
          /\ x \in 0..(n - 1)
      BY <2>1, <2>2, <2>5
    <3>2. shown[x - start + 1] = menu[x + 1]
      BY <2>6, <3>1
    <3>3. GetSelectedCandidate(g) = menu[x + 1]
      BY <2>9, <3>1 DEF GetSelectedCandidate, x
    <3> QED
      BY <2>7, <3>2, <3>3
  <2>11. ASSUME NEW i \in 1..Len(page.candidates)
         PROVE  page.candidates[i] = GetCandidateAt(g, (g.sel \div PageSize) * PageSize + i - 1)
    <3> DEFINE k == start + i - 1
    <3>1. /\ i \in 1..(end - start) /\ k \in 0..(n - 1) /\ k + 1 = start + i
      BY <2>1, <2>2, <2>5, <2>6, <2>7
    <3>2. (g.sel \div PageSize) * PageSize + i - 1 = k
      BY <2>2, <2>b DEF x
    <3> HIDE DEF k
    <3>3. shown[i] = menu[k + 1]
      BY <2>6, <3>1
    <3> QED
      BY <2>7, <2>9, <3>1, <3>2, <3>3
  <2>12. page.isLastPage <=> PageNo(PagedDown(ctx)) = PageNo(ctx)
    BY <2>3, <2>5, <2>7
  <2> QED
    BY <2>8, <2>10, <2>11, <2>12 DEF PageIsTrue, page
<1>2. IInv => PageIsTrue
  BY <1>1 DEF IInv, PageIsTrue
<1> QED
  BY <1>2, EngineInvariance, PTL

-----------------------------------------------------------------------------
(* The inline text and the auxiliary text.                                 *)

\* Two texts that agree on their first k pieces begin alike.
LEMMA SameStart ==
  ASSUME NEW s \in Seq(Pieces), NEW t \in Seq(Pieces), NEW k \in Nat, k <= Len(s), k <= Len(t),
         \A i \in 1..k : s[i] = t[i]
  PROVE  SubSeq(s, 1, k) = SubSeq(t, 1, k)
<1> DEFINE u == SubSeq(s, 1, k)
           v == SubSeq(t, 1, k)
<1>1. \A i \in 1..k : s[i] \in Pieces /\ t[i] \in Pieces
  BY LenProperties, ElementOfSeq
<1>2. /\ u \in Seq(Pieces) /\ Len(u) = (IF 1 <= k THEN k - 1 + 1 ELSE 0)
      /\ \A i \in 1..(k - 1 + 1) : u[i] = s[1 + i - 1]
  BY <1>1, SubSeqProperties
<1>3. /\ v \in Seq(Pieces) /\ Len(v) = (IF 1 <= k THEN k - 1 + 1 ELSE 0)
      /\ \A i \in 1..(k - 1 + 1) : v[i] = t[1 + i - 1]
  BY <1>1, SubSeqProperties
<1> HIDE DEF u, v
<1>4. Len(u) = k /\ Len(v) = k
  BY <1>2, <1>3
<1>5. \A i \in 1..k : u[i] = v[i]
  <2> SUFFICES ASSUME NEW i \in 1..k PROVE u[i] = v[i]
    OBVIOUS
  <2>1. i \in 1..(k - 1 + 1) /\ 1 + i - 1 = i
    OBVIOUS
  <2>2. u[i] = s[i] /\ v[i] = t[i]
    BY <1>2, <1>3, <2>1
  <2> QED
    BY <2>2
<1>6. u = v
  BY <1>2, <1>3, <1>4, <1>5, SeqEqual
<1> QED
  BY <1>6 DEF u, v

\* What is appended does not change what a text begins with.
LEMMA Prolonged ==
  ASSUME NEW s \in Seq(Pieces), NEW t \in Seq(Pieces)
  PROVE  /\ s \o t \in Seq(Pieces) /\ Len(s) <= Len(s \o t) /\ Len(s) \in Nat
         /\ \A i \in 1..Len(s) : (s \o t)[i] = s[i]
<1>1. /\ s \o t \in Seq(Pieces) /\ Len(s \o t) = Len(s) + Len(t)
      /\ \A i \in 1..Len(s) : (s \o t)[i] = s[i]
  BY ConcatProperties
<1>2. Len(s) \in Nat /\ Len(t) \in Nat
  BY LenProperties
<1> QED
  BY <1>1, <1>2

\* In the express editor of the plainest schema only the last segment is still
\* to be decided: a guess before it would have taken the letters after it too.
LEMMA AllButLastChosen ==
  ASSUME Plain, AutoCommit, NEW c, Rest(c), NEW i \in 1..(Len(c.segs) - 1)
  PROVE  c.segs[i].status >= kSelected
<1> DEFINE s == c.segs
           g == s[i]
           h == s[i + 1]
           n == Len(c.active)
<1> SUFFICES ASSUME ~(g.status >= kSelected) PROVE FALSE
  OBVIOUS
<1>1. /\ Len(s) \in Nat /\ i \in 1..Len(s) /\ i + 1 \in 1..Len(s) /\ s \in Comps
      /\ g \in SegType /\ h \in SegType /\ h.end <= n /\ n \in Nat /\ g.end = h.start
      /\ g.start < g.end /\ Literal(g, c.active) /\ Shut(g, c.active)
      /\ h.start <= h.end
  <2>1. Len(s) \in Nat /\ s \in Comps /\ n \in Nat /\ Comp(s, n)
        /\ \A k \in 1..Len(s) : s[k] \in SegType /\ SegOK(s[k])
    BY RestParts
  <2>2. i \in 1..Len(s) /\ i + 1 \in 1..Len(s)
    BY <2>1
  <2>3. Literal(g, c.active) /\ Shut(g, c.active)
    BY <2>2 DEF Rest, Settled
  <2> QED
    BY <2>1, <2>2, <2>3 DEF Comp, Formed, SegOK
<1>a. ~(g.status >= kSelected)
  OBVIOUS
<1>2. \A x \in 1..n : c.active[x] \in Letters
  <2>1. /\ n = c.caret /\ c.caret \in 0..Len(c.input) /\ Len(c.input) \in Nat
        /\ \A x \in 1..c.caret : c.active[x] = c.input[x]
    BY RestType
  <2>2. \A x \in 1..Len(c.input) : c.input[x] \in Letters
    BY DEF Rest, Lettered
  <2> QED
    BY SMTT(30), <2>1, <2>2
<1>8. ASSUME h.start = h.end, h.start = n PROVE FALSE
  <2>1. i + 1 = Len(s)
    <3>1. ASSUME i + 1 # Len(s) PROVE FALSE
      <4>1. i + 1 \in 1..(Len(s) - 1)
        BY <1>1, <3>1
      <4>2. h.start < h.end
        BY <4>1, RestParts DEF Comp, Formed
      <4>3. h.start \in Nat
        BY <1>1 DEF SegType
      <4> HIDE DEF h
      <4> QED
        BY <1>8, <4>2, <4>3
    <3> QED
      BY <3>1
  <2>2. ~LastFull(s)
    <3>1. s # << >>
      BY <1>1, LenOf
    <3>2. h.start \in Nat /\ ~(h.start < h.end)
      BY <1>1, <1>8 DEF SegType
    <3>3. h = s[Len(s)]
      BY <2>1
    <3> HIDE DEF h
    <3> QED
      BY <3>1, <3>2, <3>3 DEF LastFull
  <2>3. s[Len(s) - 1].status >= kSelected
    BY <2>2, RestParts DEF Rested
  <2> QED
    BY <1>1, <1>a, <2>1, <2>3
<1> HIDE DEF g, h
<1>3. /\ g.start \in Nat /\ g.end \in Nat /\ h.end \in Nat /\ g.status \in 0..3
      /\ h.start = g.end
  BY <1>1 DEF SegType
<1>b. g.start + 1 \in (g.start + 1)..g.end /\ g.start + 1 \in 1..n /\ g.end <= n
  BY <1>1, <1>3
<1>4. c.active[g.start + 1] \in Letters
  BY <1>2, <1>b
<1>5. "abc" \in g.tags
  BY <1>1, <1>4, <1>b DEF Literal
<1>6. g.status < kSelected
  BY <1>3, <1>a DEF kSelected
<1>7. CASE g.end < n
  <2>1. g.end + 1 \in 1..n
    BY <1>1, <1>3, <1>7
  <2>2. c.active[g.end + 1] \notin Letters
    BY <1>1, <1>5, <1>6, <1>7 DEF Shut
  <2> QED
    BY <1>2, <2>1, <2>2
<1>9. CASE g.end = n
  BY <1>1, <1>3, <1>8, <1>9
<1> QED
  BY <1>1, <1>3, <1>7, <1>9, <1>b

\* The preview of the commit begins as the preedit does.
LEMMA PreviewAsPreedit ==
  ASSUME Plain, AutoCommit, NEW c, Rest(c), c.segs # << >>
  PROVE  LET n == Len(c.segs)
         IN  /\ n \in Nat \ {0}
             /\ n <= Len(GetCommitText(c))
             /\ SubSeq(GetCommitText(c), 1, n - 1) = SubSeq(GetPreedit(c).text, 1, n - 1)
             /\ GetPreedit(c).sel = n
<1> DEFINE s == c.segs
           n == Len(s)
           a == Converted(c)
           f == CommitPieces(s)
           h == Highlighted(c)
           r == Remainder(c)
           k == AfterCaret(c)
           m == Len(c.active)
<1>1. /\ n \in Nat \ {0} /\ s \in Comps /\ m \in Nat /\ Comp(s, m) /\ Drafted(s)
  <2>1. s \in Comps /\ m \in Nat /\ Comp(s, m) /\ Drafted(s)
    BY RestParts
  <2> QED
    BY <2>1, LenOf
<1>2. Spoken(s, m)
  BY <1>1, SpokenAtRest
<1>3. f \in Seq(Pieces) /\ Len(f) = n
  BY <1>2, CommitRecites DEF Recites
<1>4. r \in Seq(Pieces)
  BY <1>1, <1>2, Remaining DEF Leaves
<1>5. ASSUME NEW i \in 1..(n - 1)
      PROVE  a[i] = f[i] /\ a[i] \in Pieces
  <2> DEFINE g == s[i]
             cand == GetSelectedCandidate(g)
             before == IF i = 1 THEN 0 ELSE TextEnd(s[i - 1])
  <2>1. i \in 1..n /\ (i # 1 => i - 1 \in 1..(n - 1) /\ i - 1 \in 1..n)
    BY <1>1
  <2>2. \A j \in 1..(n - 1) : s[j].status >= kSelected
    BY AllButLastChosen
  <2>3. \A j \in 1..(n - 1) : TextEnd(s[j]) = s[j].end
    <3> SUFFICES ASSUME NEW j \in 1..(n - 1) PROVE TextEnd(s[j]) = s[j].end
      OBVIOUS
    <3>1. j \in 1..n
      BY <1>1
    <3>2. s[j].status # kGuess
      BY <2>2 DEF kGuess, kSelected
    <3> QED
      BY <1>2, <3>1, <3>2, SpokenOne
  <2>4. g.start \in Nat /\ g.end \in Nat
    BY <1>2, <2>1, SpokenOne
  <2>5. before = g.start
    <3>1. CASE i = 1
      BY <1>1, <3>1 DEF Comp, Formed
    <3>2. CASE i # 1
      <4>1. s[i - 1].end = g.start
        <5>1. i - 1 \in 1..(n - 1) /\ (i - 1) + 1 = i
          BY <2>1, <3>2
        <5> QED
          BY <1>1, <5>1 DEF Comp, Formed
      <4>2. TextEnd(s[i - 1]) = s[i - 1].end
        BY <2>1, <2>3, <3>2
      <4> QED
        BY <3>2, <4>1, <4>2
    <3> QED
      BY <3>1, <3>2
  <2>6. a[i] = IF cand # Nil THEN Piece(TRUE, g.start, cand)
               ELSE Piece(FALSE, IF IsUnspoken(g) THEN g.end ELSE before, g.end)
    BY DEF Converted
  <2>7. f[i] = Piece(cand # Nil, IF IsUnspoken(g) THEN g.end ELSE g.start, TextEnd(g))
    BY <2>1 DEF CommitPieces
  <2>8. TextEnd(g) = g.end /\ (cand # Nil => cand = g.end)
    <3>1. TextEnd(g) = g.end
      BY <2>3
    <3> QED
      BY <3>1 DEF TextEnd
  <2> HIDE DEF a, f, before
  <2>9. CASE cand # Nil
    <3>1. ~IsUnspoken(g) /\ (cand # Nil) = TRUE
      BY <2>9 DEF IsUnspoken
    <3>2. f[i] = Piece(TRUE, g.start, g.end) /\ a[i] = Piece(TRUE, g.start, g.end)
      BY <2>6, <2>7, <2>8, <2>9, <3>1
    <3> QED
      BY <2>4, <3>2 DEF Piece, Pieces
  <2>10. CASE cand = Nil
    <3> DEFINE from == IF IsUnspoken(g) THEN g.end ELSE g.start
    <3>1. (cand # Nil) = FALSE
      BY <2>10
    <3>2. f[i] = Piece(FALSE, from, g.end) /\ a[i] = Piece(FALSE, from, g.end)
      BY <2>5, <2>6, <2>7, <2>8, <2>10, <3>1
    <3>3. from \in Nat
      BY <2>4
    <3> HIDE DEF from
    <3> QED
      BY <2>4, <3>2, <3>3 DEF Piece, Pieces
  <2> QED
    BY <2>9, <2>10
<1>6. a \in Seq(Pieces) /\ Len(a) = n - 1
  <2> DEFINE p == n - 1
  <2>1. a = [i \in 1..p |-> a[i]]
    BY DEF Converted
  <2>2. \A i \in 1..p : a[i] \in Pieces
    BY <1>5
  <2> HIDE DEF a
  <2>3. a \in [1..p -> Pieces]
    BY <2>1, <2>2
  <2>4. p \in Nat
    BY <1>1
  <2> HIDE DEF p
  <2>5. a \in Seq(Pieces) /\ Len(a) = p
    BY <2>3, <2>4, PiecesOf
  <2> QED
    BY <2>5 DEF p
<1>7. h \in Seq(Pieces)
  <2> DEFINE from == IF n = 1 THEN 0 ELSE TextEnd(s[n - 1])
             to == TextEnd(s[n])
             one == Piece(FALSE, from, to)
  <2>1. n \in 1..n /\ (n # 1 => n - 1 \in 1..n)
    <3>1. n \in Nat \ {0}
      BY <1>1
    <3> HIDE DEF n
    <3> QED
      BY <3>1
  <2>2. from \in Nat /\ to \in Nat
    BY <1>2, <2>1, SpokenOne
  <2>3. h = << one >>
    BY DEF Highlighted
  <2> HIDE DEF h, from, to
  <2>4. one \in Pieces
    BY <2>2 DEF Piece, Pieces
  <2> HIDE DEF one
  <2> QED
    BY <2>3, <2>4
<1>8. k \in Seq(Pieces)
  <2>1. c.caret \in Nat /\ Len(c.input) \in Nat
    BY RestType
  <2> DEFINE one == Piece(FALSE, c.caret, Len(c.input))
             none == << >>
  <2>2. one \in Pieces
    BY <2>1 DEF Piece, Pieces
  <2>3. k = IF c.caret < Len(c.input) THEN << one >> ELSE none
    BY DEF AfterCaret
  <2>4. none \in Seq(Pieces)
    BY EmptySeq
  <2> HIDE DEF one, none, k
  <2>5. << one >> \in Seq(Pieces)
    BY <2>2
  <2> QED
    BY <2>3, <2>4, <2>5
<1> DEFINE t == f \o r
           u == a \o h
           v == u \o r
           w == v \o k
<1>9. GetCommitText(c) = t
  BY DEF GetCommitText, CommitPieces
<1>10. GetPreedit(c).text = w /\ GetPreedit(c).sel = n
  BY DEF GetPreedit
<1> HIDE DEF a, f, h, r, k, n
<1>11. t \in Seq(Pieces) /\ n <= Len(t) /\ \A i \in 1..n : t[i] = f[i]
  BY <1>3, <1>4, Prolonged
<1>12. u \in Seq(Pieces) /\ n - 1 <= Len(u) /\ \A i \in 1..(n - 1) : u[i] = a[i]
  BY <1>6, <1>7, Prolonged
<1> HIDE DEF t, u
<1>13. v \in Seq(Pieces) /\ Len(u) <= Len(v) /\ Len(u) \in Nat /\ \A i \in 1..Len(u) : v[i] = u[i]
  BY <1>4, <1>12, Prolonged
<1> HIDE DEF v
<1>14. w \in Seq(Pieces) /\ Len(v) <= Len(w) /\ Len(v) \in Nat /\ \A i \in 1..Len(v) : w[i] = v[i]
  BY <1>8, <1>13, Prolonged
<1> HIDE DEF w
<1>15. Len(w) \in Nat /\ Len(t) \in Nat
  BY <1>11, <1>14, LenProperties
<1>16. \A i \in 1..(n - 1) : t[i] = w[i]
  <2> SUFFICES ASSUME NEW i \in 1..(n - 1) PROVE t[i] = w[i]
    OBVIOUS
  <2>1. i \in 1..n /\ i \in 1..Len(u) /\ i \in 1..Len(v)
    BY <1>1, <1>12, <1>13, <1>14
  <2>2. t[i] = f[i] /\ f[i] = a[i]
    BY <1>5, <1>11, <2>1
  <2>3. w[i] = v[i] /\ v[i] = u[i] /\ u[i] = a[i]
    BY <1>12, <1>13, <1>14, <2>1
  <2> QED
    BY <2>2, <2>3
<1>17. n - 1 \in Nat /\ n - 1 <= Len(t) /\ n - 1 <= Len(w)
  BY <1>1, <1>11, <1>12, <1>13, <1>14, <1>15
<1>18. SubSeq(t, 1, n - 1) = SubSeq(w, 1, n - 1)
  <2> DEFINE p == n - 1
  <2>1. p \in Nat /\ p <= Len(t) /\ p <= Len(w) /\ \A i \in 1..p : t[i] = w[i]
    BY <1>16, <1>17
  <2> HIDE DEF p
  <2>2. SubSeq(t, 1, p) = SubSeq(w, 1, p)
    BY <1>11, <1>14, <2>1, SameStart
  <2> QED
    BY <2>2 DEF p
<1> QED
  BY <1>1, <1>9, <1>10, <1>11, <1>18 DEF n

\* Nothing is shown inline of a composition without segments.
LEMMA NothingInline ==
  ASSUME NEW c, Rest(c), c.segs = << >>
  PROVE  GetCommitText(c) = << >>
<1>1. Len(c.active) = 0
  <2>1. Len(c.active) \in Nat
    BY RestParts
  <2>2. 0 >= Len(c.active)
    BY DEF Rest, HasFinishedSegmentation, GetCurrentEndPosition
  <2> QED
    BY <2>1, <2>2
<1>2. Remainder(c) = << >>
  BY <1>1 DEF Remainder
<1> DEFINE f == CommitPieces(c.segs)
           none == << >>
<1>3. Len(c.segs) = 0
  OBVIOUS
<1>4. f \in [1..0 -> Pieces]
  BY <1>3 DEF CommitPieces
<1>5. GetCommitText(c) = f \o none
  BY <1>2 DEF GetCommitText, CommitPieces
<1> HIDE DEF f
<1>6. f \in Seq(Pieces) /\ Len(f) = 0
  BY <1>4, PiecesOf
<1>7. f = << >>
  BY <1>6, EmptySeq
<1> QED
  BY <1>5, <1>7

\* The highlight of the inline text begins where that of the preedit does, in
\* the express editor of the plainest schema.
THEOREM HighlightsAligned ==
  ASSUME Plain, AutoCommit
  PROVE  Spec => []HighlightAligned
<1>1. Rest(ctx) => HighlightAligned
  <2> DEFINE p == GetPreedit(ctx)
             text == GetCommitText(ctx)
             n == Len(ctx.segs)
             context == GetContext(ctx)
             shown == Shown(context)
             before == BeforeSelection(context)
  <2> SUFFICES ASSUME Rest(ctx), shown.inline # << >>
               PROVE  /\ before <= Len(shown.inline)
                      /\ SubSeq(shown.inline, 1, before)
                           = SubSeq(context.preedit.text, 1, before)
    BY DEF HighlightAligned
  <2>1. shown.inline = context.preview /\ context.preview # << >>
    BY DEF Shown
  <2>2. /\ context.preedit = IF IsComposing(ctx) THEN p ELSE NoPreedit
        /\ context.preview = IF IsComposing(ctx) THEN text ELSE << >>
    BY DEF GetContext
  <2> HIDE DEF shown, context, p, text
  <2>3. IsComposing(ctx) /\ context.preview = text /\ context.preedit = p
    BY <2>1, <2>2
  <2>4. ctx.segs # << >>
    BY <2>1, <2>3, NothingInline DEF text
  <2>5. /\ n \in Nat \ {0} /\ n <= Len(text)
        /\ SubSeq(text, 1, n - 1) = SubSeq(p.text, 1, n - 1) /\ p.sel = n
    BY <2>4, PreviewAsPreedit DEF text, p
  <2> HIDE DEF n
  <2>6. before = n - 1
    BY <2>3, <2>5 DEF BeforeSelection
  <2> HIDE DEF before
  <2>7. n - 1 <= Len(text)
    <3>1. text \in Seq(Pieces) \/ Len(text) >= n
      BY <2>5
    <3> QED
      BY <2>5, <3>1
  <2> QED
    BY <2>1, <2>3, <2>5, <2>6, <2>7
<1>2. IInv => HighlightAligned
  BY <1>1 DEF IInv
<1>3. Plain \/ ~AutoSelect
  OBVIOUS
<1> QED
  BY <1>2, <1>3, EngineInvariance, PTL

-----------------------------------------------------------------------------
(* What BackSpace takes back after a letter.                               *)

\* All that is chosen ends at position b or before.
ChosenWithin(s, b) == \A i \in 1..Len(s) : s[i].status >= kSelected => s[i].end <= b

\* As it does within the text.
LEMMA ChosenInside ==
  ASSUME NEW n, NEW s, Comp(s, n)
  PROVE  ChosenWithin(s, n)
BY DEF Comp, Formed, ChosenWithin

\* Exchanging the last segment for one that is open, or ends there too.
LEMMA WithinSetLast ==
  ASSUME NEW b, NEW s \in Comps, s # << >>, ChosenWithin(s, b), NEW g \in SegType,
         g.status >= kSelected => g.end <= b
  PROVE  ChosenWithin(SetLast(s, g), b)
<1> DEFINE t == SetLast(s, g)
<1>1. /\ Len(t) = Len(s) /\ Len(s) \in Nat \ {0} /\ t[Len(s)] = g
      /\ \A i \in 1..(Len(s) - 1) : t[i] = s[i]
  BY SetLastIs
<1> HIDE DEF t
<1>2. ASSUME NEW i \in 1..Len(t), t[i].status >= kSelected PROVE t[i].end <= b
  <2>1. CASE i = Len(s)
    BY <1>1, <1>2, <2>1
  <2>2. CASE i # Len(s)
    <3>1. i \in 1..(Len(s) - 1) /\ i \in 1..Len(s) /\ t[i] = s[i]
      BY <1>1, <2>2
    <3> QED
      BY <1>2, <3>1 DEF ChosenWithin
  <2> QED
    BY <2>1, <2>2
<1> QED
  BY <1>2 DEF ChosenWithin, t

\* Opening a segment chooses none.
LEMMA WithinForward ==
  ASSUME NEW b, NEW n \in Nat, NEW s, Comp(s, n), ChosenWithin(s, b)
  PROVE  ChosenWithin(Forward(s), b)
<1> DEFINE t == Forward(s)
<1>1. /\ Comp(t, n) /\ Len(s) <= Len(t) /\ \A i \in 1..Len(s) : t[i] = s[i]
      /\ LastOpen(t)
      /\ s = << >> => t = s
      /\ s # << >> /\ LastFull(s) => Len(t) = Len(s) + 1
      /\ ~LastFull(s) => t = s
  BY ForwardFormed
<1>2. /\ Len(s) \in Nat /\ Len(t) \in Nat /\ (t # << >> <=> Len(t) > 0)
      /\ \A i \in 1..Len(t) : t[i] \in SegType
  BY <1>1, LenOf DEF Comp
<1> HIDE DEF t
<1>3. CASE t = s
  BY <1>3 DEF t
<1>4. CASE t # s
  <2>1. Len(t) = Len(s) + 1 /\ t # << >>
    BY <1>1, <1>2, <1>4
  <2>2. ASSUME NEW i \in 1..Len(t), t[i].status >= kSelected PROVE t[i].end <= b
    <3>1. i # Len(t)
      <4>1. t[Len(t)].status < kSelected /\ t[Len(t)] \in SegType
        BY <1>1, <1>2, <2>1 DEF LastOpen
      <4> QED
        BY <2>2, <4>1 DEF SegType, kSelected
    <3>2. i \in 1..Len(s) /\ t[i] = s[i]
      BY <1>1, <1>2, <2>1, <3>1
    <3> QED
      BY <2>2, <3>2 DEF ChosenWithin
  <2> QED
    BY <2>2 DEF ChosenWithin, t
<1> QED
  BY <1>3, <1>4

\* Nor does removing the empty one.
LEMMA WithinTrim ==
  ASSUME NEW b, NEW n \in Nat, NEW s, Comp(s, n), ChosenWithin(s, b)
  PROVE  ChosenWithin(Trim(s), b) /\ Comp(Trim(s), n)
<1>1. Len(s) \in Nat
  BY LenOf DEF Comp
<1>2. CASE Trim(s) = s
  BY <1>2
<1>3. CASE s # << >> /\ Trim(s) = Front(s)
  <2> DEFINE t == Front(s)
  <2>1. /\ Comp(t, n) /\ Len(t) = Len(s) - 1
        /\ \A i \in 1..(Len(s) - 1) : t[i] = s[i]
    BY <1>3, FrontFormed
  <2> HIDE DEF t
  <2>2. ChosenWithin(t, b)
    BY <1>1, <2>1 DEF ChosenWithin
  <2> QED
    BY <1>3, <2>1, <2>2 DEF t
<1> QED
  BY <1>2, <1>3 DEF Trim

\* Nor does adding a segment that a segmentor has found.
LEMMA WithinAdd ==
  ASSUME NEW b, NEW s \in Comps, ChosenWithin(s, b), NEW g \in SegType, g.status < kSelected
  PROVE  ChosenWithin(AddSegment(s, g), b)
<1>0. ~(g.status >= kSelected)
  BY DEF SegType, kSelected
<1>1. CASE s = << >>
  <2> DEFINE one == << g >>
  <2>1. Len(one) = 1 /\ one[1] = g
    OBVIOUS
  <2> HIDE DEF one
  <2>2. ChosenWithin(one, b)
    BY <1>0, <2>1 DEF ChosenWithin
  <2>3. AddSegment(s, g) = s \/ AddSegment(s, g) = one
    BY <1>1 DEF AddSegment, one
  <2> QED
    BY <2>2, <2>3
<1>2. CASE s # << >>
  <2> DEFINE l == Last(s)
             h == [l EXCEPT !.tags = l.tags \cup g.tags]
  <2>1. Len(s) \in 1..Len(s) /\ l = s[Len(s)] /\ l \in SegType
    BY <1>2, LenOf DEF Last
  <2>2. l.status >= kSelected => l.end <= b
    BY <2>1 DEF ChosenWithin
  <2>3. AddSegment(s, g) = s \/ AddSegment(s, g) = SetLast(s, g)
        \/ AddSegment(s, g) = SetLast(s, h)
    BY <1>2 DEF AddSegment
  <2> HIDE DEF l
  <2>4. h \in SegType /\ h.status = l.status /\ h.end = l.end
    BY <2>1 DEF SegType
  <2> HIDE DEF h
  <2>5. ChosenWithin(SetLast(s, g), b) /\ ChosenWithin(SetLast(s, h), b)
    BY <1>0, <1>2, <2>2, <2>4, WithinSetLast
  <2> QED
    BY <2>3, <2>5
<1> QED
  BY <1>1, <1>2

\* A segment of letters or of the rest, as the segmentors make it.
LEMMA RunSegment ==
  ASSUME NEW j \in Nat, NEW k \in Nat, NEW tag \in {"abc", "raw"}
  PROVE  Segment(j, k, {tag}) \in SegType /\ Segment(j, k, {tag}).status < kSelected
<1>1. << >> \in Seq(Nat) /\ {tag} \in SUBSET Tags
  BY EmptySeq DEF Tags
<1> QED
  BY <1>1 DEF Segment, SegType, kVoid, kSelected

\* A round of segmentors chooses nothing.
LEMMA WithinRound ==
  ASSUME Plain, NEW text \in Seq(Chars), NEW s, Comp(s, Len(text)), LastOpen(s),
         GetCurrentEndPosition(s) < Len(text), Settled(s, text),
         NEW on, "ascii_mode" \notin on, NEW b, ChosenWithin(s, b)
  PROVE  ChosenWithin(Round(s, text, on), b)
<1> DEFINE n == Len(text)
           j == GetCurrentStartPosition(s)
           t == ProceedAbc(s, text)
           v == Trim(t)
           u == ProceedFallback(t, text)
<1>1. n \in Nat /\ s \in Comps /\ j \in Nat /\ j < n
  BY LenProperties, Positions
<1>2. Comp(t, n) /\ Settled(t, text)
  <2>1. CASE text[j + 1] \in Letters
    BY <2>1, AbcSettled, AbcFormed
  <2>2. CASE text[j + 1] \notin Letters
    <3>1. t = s
      BY <2>2, RawSettled
    <3> QED
      BY <3>1
  <2> QED
    BY <2>1, <2>2
<1>3. ChosenWithin(t, b)
  <2> DEFINE k == RunEnd(text, j)
             g == Segment(j, k, {"abc"})
  <2>1. k \in Nat
    BY <1>1, RunEnds
  <2>2. t = s \/ t = AddSegment(s, g)
    BY DEF ProceedAbc, AddRun
  <2> HIDE DEF t, k, j
  <2>3. g \in SegType /\ g.status < kSelected
    BY <1>1, <2>1, RunSegment
  <2> HIDE DEF g
  <2> QED
    BY <1>1, <2>2, <2>3, WithinAdd
<1>4. Recognized(s, text, on) = u
  BY <1>2, RecognizedPlain
<1>5. Comp(u, n)
  <2>1. Comp(Recognized(s, text, on), n)
    BY RecognizedFormed
  <2> QED
    BY <1>4, <2>1
<1>6. Round(s, text, on) = u \/ Round(s, text, on) = Forward(u)
  BY <1>4 DEF Round, Advance
<1>7. GetCurrentStartPosition(t) \in Nat
  BY <1>1, <1>2, Positions
<1>8. ChosenWithin(v, b) /\ Comp(v, n)
  BY <1>1, <1>2, <1>3, WithinTrim
<1> DEFINE k == GetCurrentStartPosition(t)
           l == Last(v)
           g == Segment(l.start, k + 1, {"raw"})
           h == Segment(k, k + 1, {"raw"})
<1>9. \/ u = t
      \/ v # << >> /\ u = SetLast(v, g)
      \/ u = AddSegment(Forward(v), h)
  BY DEF ProceedFallback, AddRaw
<1> HIDE DEF u, t, v, k
<1>10. ChosenWithin(u, b)
  <2>1. CASE u = t
    BY <1>3, <2>1
  <2>2. CASE v # << >> /\ u = SetLast(v, g)
    <3>1. v \in Comps /\ l.start \in Nat
      <4>1. Len(v) \in 1..Len(v) /\ v \in Comps
        BY <1>8, <2>2, LenOf DEF Comp
      <4>2. l = v[Len(v)] /\ l \in SegType
        BY <4>1, LenOf DEF Last
      <4> QED
        BY <4>1, <4>2 DEF SegType
    <3> HIDE DEF l
    <3>2. g \in SegType /\ g.status < kSelected
      BY <1>7, <3>1, RunSegment DEF k
    <3> HIDE DEF g
    <3>3. ~(g.status >= kSelected)
      BY <3>2 DEF SegType, kSelected
    <3> QED
      BY <1>8, <2>2, <3>1, <3>2, <3>3, WithinSetLast
  <2>3. CASE u = AddSegment(Forward(v), h)
    <3>1. h \in SegType /\ h.status < kSelected
      BY <1>7, RunSegment DEF k
    <3> HIDE DEF h
    <3> DEFINE w == Forward(v)
    <3>2. ChosenWithin(w, b) /\ w \in Comps
      BY <1>1, <1>8, WithinForward, ForwardFormed DEF Comp
    <3>3. u = AddSegment(w, h)
      BY <2>3
    <3> HIDE DEF w
    <3> QED
      BY <3>1, <3>2, <3>3, WithinAdd
  <2> QED
    BY <1>9, <2>1, <2>2, <2>3
<1>11. ChosenWithin(Forward(u), b)
  BY <1>1, <1>5, <1>10, WithinForward
<1> QED
  BY <1>6, <1>10, <1>11

\* Nor do all of them.
LEMMA WithinRounds ==
  ASSUME Plain, NEW text \in Seq(Chars), NEW s, Comp(s, Len(text)), LastOpen(s),
         Settled(s, text), NEW on, "ascii_mode" \notin on, NEW b, ChosenWithin(s, b)
  PROVE  ChosenWithin(Rounds(s, text, on), b)
<1> DEFINE after == AfterRounds(s, text, on)
<1>1. PICK n \in 0..Len(text) :
        /\ Rounds(s, text, on) = after[n]
        /\ HasFinishedSegmentation(after[n], text)
        /\ \A m \in 0..(n - 1) : ~HasFinishedSegmentation(after[m], text)
  BY RoundsEnd
<1>2. Len(text) \in Nat /\ n \in Nat
  BY LenProperties
<1>3. after[0] = s /\ \A m \in Nat : after[m + 1] = Round(after[m], text, on)
  BY AfterRoundsIs
<1> DEFINE Good(t) == Settled(t, text) /\ ChosenWithin(t, b)
           bad == {m \in 0..n : ~Good(after[m])}
<1>a. Good(s)
  OBVIOUS
<1>b. ASSUME NEW t, Comp(t, Len(text)), LastOpen(t), ~HasFinishedSegmentation(t, text), Good(t)
      PROVE  Good(Round(t, text, on))
  <2>1. GetCurrentEndPosition(t) < Len(text)
    BY <1>2, <1>b, Positions DEF HasFinishedSegmentation
  <2> QED
    BY <1>b, <2>1, RoundSettled, WithinRound
<1> HIDE DEF Good
<1>4. bad = {}
  <2> SUFFICES ASSUME bad # {} PROVE FALSE
    OBVIOUS
  <2>0. bad \in SUBSET Nat
    BY <1>2
  <2> HIDE DEF after
  <2>1. Min(bad) \in bad /\ \A m \in bad : Min(bad) <= m
    <3> HIDE DEF bad
    <3> QED
      BY <2>0, Least
  <2> DEFINE m == Min(bad)
  <2>2. m \in 0..n /\ ~Good(after[m])
    BY <2>1
  <2>3. m # 0
    BY <1>a, <1>3, <2>2
  <2>a. \A k \in bad : m <= k
    BY <2>1
  <2> HIDE DEF m
  <2>4. m - 1 \in 0..n /\ ~(m <= m - 1) /\ m - 1 \in Nat /\ (m - 1) + 1 = m
        /\ m - 1 \in 0..(n - 1) /\ \A k \in 0..((m - 1) - 1) : k \in 0..(n - 1)
    BY <1>2, <2>2, <2>3
  <2>5. Good(after[m - 1])
    BY <2>a, <2>4
  <2>6. after[m] = Round(after[m - 1], text, on)
    BY <1>3, <2>4
  <2> DEFINE p == m - 1
             u == after[p]
  <2>7. Comp(u, Len(text)) /\ LastOpen(u) /\ ~HasFinishedSegmentation(u, text)
    <3>1. p \in Nat /\ \A k \in 0..(p - 1) : ~HasFinishedSegmentation(after[k], text)
      BY <1>1, <2>4
    <3>2. p \in 0..(n - 1)
      BY <2>4
    <3> HIDE DEF p
    <3> QED
      BY <1>1, <3>1, <3>2, StillRunning DEF after
  <2>8. Good(u)
    BY <2>5
  <2>9. after[m] = Round(u, text, on)
    BY <2>6
  <2> HIDE DEF u
  <2>10. Good(Round(u, text, on))
    BY <1>b, <2>7, <2>8
  <2> QED
    BY <2>2, <2>9, <2>10
<1>5. n \in 0..n
  BY <1>2
<1>6. Good(after[n])
  BY <1>4, <1>5
<1> QED
  BY <1>1, <1>6 DEF Good

\* Nor does composing anew.
LEMMA WithinRecomposed ==
  ASSUME Plain, NEW old \in Seq(Chars), NEW new \in Seq(Chars), NEW s, Comp(s, Len(old)),
         LastOpen(s), Rested(s), Aligned(old, new), Settled(s, old),
         NEW on, "ascii_mode" \notin on, NEW b, ChosenWithin(s, b)
  PROVE  ChosenWithin(Recompose(s, old, new, on), b)
<1> DEFINE n == Len(new)
           d == CHOOSE d \in 0..Len(new) : IsDiffPos(d, old, new)
           k == CHOOSE m \in 0..Len(s) : IsKeptCount(m, s, d)
           kept == ResetComposition(s, old, new)
           r == Rounds(kept, new, on)
           f == FinishSegmentation(r)
           t == TranslateSegments(f, new, on)
<1>1. n \in Nat /\ Len(old) \in Nat /\ s \in Comps /\ Len(s) \in Nat /\ Formed(s, Len(old))
  BY LenProperties, LenOf DEF Comp
<1>2. d \in 0..Len(new) /\ IsDiffPos(d, old, new)
  BY DiffExists
<1>3. k \in 0..Len(s) /\ IsKeptCount(k, s, d)
  <2> HIDE DEF d
  <2>1. d \in Nat
    BY <1>1, <1>2
  <2> QED
    BY <1>1, <2>1, KeptExists
<1>4. kept = Dispose(s, k)
  BY DEF ResetComposition
<1> HIDE DEF k, d
<1>5. Comp(kept, n) /\ LastOpen(kept) /\ Settled(kept, new)
  <2>1. Comp(Dispose(s, k), n) /\ LastOpen(Dispose(s, k))
    BY <1>2, <1>3, ResetFormed
  <2>2. Settled(Dispose(s, k), new)
    BY <1>2, <1>3, DisposeSettled
  <2> QED
    BY <1>4, <2>1, <2>2
<1>6. ChosenWithin(kept, b)
  <2> DEFINE u == SubSeq(s, 1, k)
  <2>1. Comp(u, Len(old)) /\ Len(u) = k /\ \A i \in 1..k : u[i] = s[i]
    BY <1>1, <1>3, PrefixFormed
  <2>2. kept = s \/ kept = Forward(u)
    BY <1>4 DEF Dispose
  <2> HIDE DEF u, kept
  <2>3. ChosenWithin(u, b)
    BY <1>1, <1>3, <2>1 DEF ChosenWithin
  <2>4. ChosenWithin(Forward(u), b)
    BY <1>1, <2>1, <2>3, WithinForward
  <2> QED
    BY <2>2, <2>4
<1> HIDE DEF kept
<1>7. Comp(r, n) /\ LastOpen(r)
  BY <1>5, RoundsFormed
<1>8. ChosenWithin(r, b)
  BY <1>5, <1>6, WithinRounds
<1> HIDE DEF r
<1>9. Comp(f, n) /\ LastOpen(f)
  BY <1>1, <1>7, FinishFormed
<1>10. ChosenWithin(f, b)
  <2> DEFINE v == Trim(r)
  <2>1. ChosenWithin(v, b) /\ Comp(v, n)
    BY <1>1, <1>7, <1>8, WithinTrim
  <2>2. f = v \/ f = Forward(v)
    BY DEF FinishSegmentation, ForwardIfChosen
  <2> HIDE DEF v, f
  <2>3. ChosenWithin(Forward(v), b)
    BY <1>1, <2>1, WithinForward
  <2> QED
    BY <2>1, <2>2, <2>3
<1> HIDE DEF f
<1>11. /\ Len(t) = Len(f)
       /\ \A i \in 1..Len(f) : /\ t[i].end = f[i].end
                               /\ t[i].status >= kSelected <=> f[i].status >= kSelected
  BY <1>9, TranslatedFormed
<1> HIDE DEF t
<1>12. ChosenWithin(t, b)
  BY <1>10, <1>11 DEF ChosenWithin
<1>13. Recompose(s, old, new, on) = t
  BY DEF Recompose, CalculateSegmentation, t, f, r, kept
<1> QED
  BY <1>12, <1>13

\* A context as a letter leaves it: the letter is in the last segment, which is
\* open, and no selection is left that a BackSpace would reopen.
Typed(c) ==
  /\ c.segs # << >> /\ c.segs[Len(c.segs)].start < c.segs[Len(c.segs)].end
  /\ c.caret > 0 /\ c.active[c.caret] \in Letters
  /\ ~CanReopenSelection(c)

\* Once the previous selection is confirmed there is none to reopen.
LEMMA NothingToReopen ==
  ASSUME NEW c, Rest(c)
  PROVE  ~CanReopenSelection(ConfirmPreviousSelection(c))
<1> DEFINE s == c.segs
           n == LastChosen(c)
           h == [s[n] EXCEPT !.status = kConfirmed]
           t == [s EXCEPT ![n] = h]
           d == [c EXCEPT !.segs = t]
<1>1. CASE ~(n > 0 /\ s[n].status = kSelected)
  BY <1>1 DEF ConfirmPreviousSelection, CanReopenSelection
<1>2. CASE n > 0 /\ s[n].status = kSelected
  <2>1. ConfirmPreviousSelection(c) = d
    BY <1>2 DEF ConfirmPreviousSelection
  <2>2. /\ c \in CtxType /\ s \in Comps /\ s \in Seq(SegType) /\ Len(s) \in Nat
        /\ n \in 1..Len(s) /\ s[n] \in SegType
        /\ \A i \in 1..Len(s) : s[i].status >= kSelected => i <= n
    <3>1. n \in 1..Len(s)
      BY <1>2, RestParts
    <3> QED
      BY <3>1, RestParts DEF Comps
  <2> HIDE DEF n
  <2>3. h \in SegType /\ h.status = kConfirmed
    <3>1. kConfirmed \in 0..3
      BY DEF kConfirmed
    <3> QED
      BY <2>2, <3>1 DEF SegType
  <2> HIDE DEF h
  <2>4. /\ t \in Comps /\ Len(t) = Len(s)
        /\ \A i \in 1..Len(s) : t[i] = IF i = n THEN h ELSE s[i]
    BY <2>2, <2>3, ExceptSeq DEF Comps
  <2> HIDE DEF t
  <2>5. d.segs = t
    BY <2>2 DEF CtxType
  <2> HIDE DEF d
  <2> DEFINE m == LastChosen(d)
  <2>6. /\ m \in 0..Len(t)
        /\ m > 0 => t[m].status >= kSelected
        /\ \A i \in 1..Len(t) : t[i].status >= kSelected => i <= m
    <3>1. d.segs \in Comps
      BY <2>4, <2>5
    <3>2. /\ m \in 0..Len(d.segs)
          /\ m > 0 => d.segs[m].status >= kSelected
          /\ \A i \in 1..Len(d.segs) : d.segs[i].status >= kSelected => i <= m
      BY <3>1, ChosenIs
    <3> HIDE DEF m
    <3> QED
      BY <2>5, <3>2
  <2>a. CanReopenSelection(d) => m > 0 /\ t[m].status = kSelected
    BY <2>5 DEF CanReopenSelection
  <2> HIDE DEF m
  <2>7. m = n
    <3>1. n <= m
      BY <2>2, <2>3, <2>4, <2>6 DEF kConfirmed, kSelected
    <3>2. m # n => s[m].status >= kSelected /\ m \in 1..Len(s)
      BY <2>2, <2>4, <2>6, <3>1
    <3> QED
      BY <2>2, <2>4, <2>6, <3>1, <3>2
  <2>8. t[m].status = kConfirmed
    BY <2>2, <2>3, <2>4, <2>7
  <2> QED
    BY <2>1, <2>a, <2>8 DEF kConfirmed, kSelected
<1> QED
  BY <1>1, <1>2

\* A letter leaves the context so.
LEMMA LetterTyped ==
  ASSUME Plain, NEW d, Rest(d), NEW ch \in Letters
  PROVE  Typed(ConfirmPreviousSelection(PushInput(d, ch)))
<1> DEFINE p == PushInput(d, ch)
           e == ConfirmPreviousSelection(p)
           old == d.active
           new == SubSeq(p.input, 1, p.caret)
           s == p.segs
           m == Len(s)
<1>0. ch \in Chars
  BY DEF Chars
<1>1. /\ Rest(p) /\ p.caret = d.caret + 1
      /\ s = Recompose(d.segs, old, new, d.opts)
      /\ \A x \in 1..d.caret : p.input[x] = d.input[x]
      /\ p.input[d.caret + 1] = ch
  BY <1>0, PushRest
<1>2. /\ Rest(e) /\ e.active = p.active /\ e.caret = p.caret
      /\ Len(e.segs) = m
      /\ s # << >> => e.segs[Len(e.segs)] = s[m]
  BY <1>1, ConfirmPreviousRest
<1>3. ~CanReopenSelection(e)
  BY <1>1, NothingToReopen
<1> HIDE DEF e
<1>4. /\ d.active \in Seq(Chars) /\ Len(d.active) = d.caret /\ d.caret \in Nat
      /\ \A x \in 1..d.caret : d.active[x] = d.input[x]
  BY RestType
<1>5. /\ p.input \in Seq(Chars) /\ p.caret \in 0..Len(p.input) /\ p.active = new
      /\ Len(p.active) = p.caret
      /\ \A x \in 1..p.caret : p.active[x] = p.input[x]
  <2>1. p.active = new
    BY <1>1 DEF Rest
  <2> HIDE DEF p, new
  <2> QED
    BY <1>1, <2>1, RestType
<1> HIDE DEF p
<1>6. new \in Seq(Chars) /\ Len(new) = p.caret /\ \A x \in 1..p.caret : new[x] = p.input[x]
  BY <1>5, BeforeCaret
<1> HIDE DEF new
<1>7. /\ Comp(d.segs, Len(old)) /\ LastOpen(d.segs) /\ Rested(d.segs)
      /\ Settled(d.segs, old) /\ "ascii_mode" \notin d.opts
  BY DEF Rest
<1>8. Aligned(old, new)
  BY <1>1, <1>4, <1>6 DEF Aligned
<1>9. ChosenWithin(s, d.caret)
  <2>1. ChosenWithin(Recompose(d.segs, old, new, d.opts), Len(old))
    BY <1>4, <1>6, <1>7, <1>8, ChosenInside, WithinRecomposed
  <2> QED
    BY <1>1, <1>4, <2>1
<1>10. /\ s \in Comps /\ Comp(s, p.caret) /\ Rested(s) /\ Len(s) \in Nat
       /\ (s # << >> <=> Len(s) > 0)
       /\ GetCurrentEndPosition(s) >= p.caret /\ p.caret \in Nat
  <2>1. Comp(s, Len(p.active)) /\ Rested(s) /\ HasFinishedSegmentation(s, p.active)
    BY <1>1 DEF Rest
  <2> QED
    BY <1>5, <2>1, Positions DEF HasFinishedSegmentation
<1>11. s # << >> /\ m \in 1..m /\ s[m].end >= p.caret
  <2>1. s # << >>
    BY <1>1, <1>4, <1>10 DEF GetCurrentEndPosition
  <2> QED
    BY <1>10, <2>1 DEF GetCurrentEndPosition, Last
<1>12. s[m].start < s[m].end
  <2> SUFFICES ASSUME ~(s[m].start < s[m].end) PROVE FALSE
    OBVIOUS
  <2>1. m > 1 /\ s[m - 1].status >= kSelected
    BY <1>10, <1>11 DEF Rested, LastFull
  <2>2. m - 1 \in 1..m /\ m - 1 \in 1..(m - 1) /\ (m - 1) + 1 = m
    BY <1>10, <2>1
  <2>3. s[m - 1].end <= d.caret
    BY <1>9, <2>1, <2>2 DEF ChosenWithin
  <2>4. s[m - 1].end = s[m].start
    BY <1>10, <2>2 DEF Comp, Formed
  <2>5. s[m] \in SegType
    BY <1>10, <1>11, LenOf
  <2>6. s[m].start \in Nat /\ s[m].end \in Nat
    BY <2>5 DEF SegType
  <2> HIDE DEF s, m
  <2> QED
    BY SMTT(60), <1>1, <1>4, <1>11, <2>3, <2>4, <2>6
<1>13. e.segs # << >> /\ e.segs[Len(e.segs)] = s[m]
  <2>1. e.segs \in Comps
    BY <1>2 DEF Rest, Comp
  <2> QED
    BY <1>2, <1>10, <1>11, <2>1, LenOf
<1>14. e.caret > 0 /\ e.active[e.caret] \in Letters
  BY <1>1, <1>2, <1>4, <1>5, <1>6
<1>15. Typed(e)
  BY <1>3, <1>12, <1>13, <1>14 DEF Typed
<1> QED
  BY <1>15 DEF e, p

\* A range within one that goes on by one.
LEMMA OneBefore ==
  ASSUME NEW a \in Nat, NEW n \in Nat, NEW x \in (a + 1)..n
  PROVE  x \in (a + 1)..(n + 1) /\ x \in 1..n
OBVIOUS

\* Without the letter that ends the last segment, the segments before it stay
\* as they are.
LEMMA Shrunk ==
  ASSUME Plain, NEW old \in Seq(Chars), NEW new \in Seq(Chars), NEW s, Comp(s, Len(old)),
         LastOpen(s), Rested(s), Settled(s, old), HasFinishedSegmentation(s, old),
         s # << >>, s[Len(s)].start < s[Len(s)].end, old[Len(old)] \in Letters,
         Len(new) = Len(old) - 1, \A x \in 1..Len(new) : new[x] = old[x],
         NEW on, "ascii_mode" \notin on
  PROVE  LET t == Recompose(s, old, new, on)
         IN  \A i \in 1..Len(s) :
               s[i].status >= kSelected => i <= Len(t) /\ t[i].status >= kSelected
<1> DEFINE n == Len(new)
           m == Len(s)
           g == s[m]
           d == CHOOSE d \in 0..Len(new) : IsDiffPos(d, old, new)
           k == CHOOSE i \in 0..Len(s) : IsKeptCount(i, s, d)
           u == SubSeq(s, 1, m - 1)
           kept == ResetComposition(s, old, new)
           r == Rounds(kept, new, on)
           f == FinishSegmentation(r)
           t == TranslateSegments(f, new, on)
<1>0. n \in Nat /\ Len(old) \in Nat /\ n = Len(old) - 1
  BY LenProperties
<1>1. /\ s \in Comps /\ m \in Nat /\ m \in 1..m /\ m > 0 /\ Formed(s, Len(old))
      /\ \A i \in 1..m : s[i] \in SegType
      /\ g \in SegType /\ g.start \in Nat /\ g.end \in Nat /\ g.end = Len(old)
  <2>2. s \in Comps /\ m \in Nat /\ m > 0 /\ Formed(s, Len(old)) /\ GetCurrentEndPosition(s) = g.end
    BY <1>0, Positions DEF Comp
  <2>3. \A i \in 1..m : s[i] \in SegType /\ s[i].end <= Len(old)
    BY <2>2, LenOf DEF Formed
  <2> HIDE DEF m
  <2>4. m \in 1..m
    BY <2>2
  <2>5. g \in SegType /\ g.end <= Len(old)
    BY <2>3, <2>4
  <2>6. g.start \in Nat /\ g.end \in Nat
    BY <2>5 DEF SegType
  <2>7. g.end >= Len(old)
    BY <2>2 DEF HasFinishedSegmentation
  <2>8. g.end = Len(old)
    <3> HIDE DEF g
    <3> QED
      BY <1>0, <2>5, <2>6, <2>7
  <2> QED
    BY <2>2, <2>3, <2>4, <2>5, <2>6, <2>8
<1>2. d \in 0..n /\ IsDiffPos(d, old, new)
  BY DiffExists
<1> HIDE DEF d
<1>3. d = n
  <2>1. ASSUME d < n PROVE FALSE
    <3>1. d < Len(old) /\ d + 1 \in 1..n
      BY <1>0, <1>1, <1>2, <2>1
    <3> QED
      BY <1>2, <2>1, <3>1 DEF IsDiffPos
  <2> QED
    BY <1>0, <1>2, <2>1
<1>4. k \in 0..m /\ IsKeptCount(k, s, d)
  BY <1>0, <1>1, <1>3, KeptExists
<1>a. kept = Dispose(s, k)
  BY DEF ResetComposition, k, d
<1> HIDE DEF k
<1>5. k = m - 1
  <2>1. k # m
    BY <1>0, <1>1, <1>3, <1>4 DEF IsKeptCount
  <2>2. ASSUME k < m - 1 PROVE FALSE
    <3>1. m - 1 \in (k + 1)..Len(s) /\ m - 1 \in 1..m
      BY <1>0, <1>1, <1>4, <2>2
    <3>2. s[m - 1].end > d
      BY <1>4, <3>1 DEF IsKeptCount
    <3>3. s[m - 1].end <= g.start
      BY <1>0, <1>1, <3>1 DEF Formed
    <3>4. s[m - 1].end \in Nat
      BY <1>0, <1>1, <3>1 DEF SegType
    <3>a. g.start < g.end
      OBVIOUS
    <3>5. g.start \in Nat /\ g.start <= n
      <4> HIDE DEF g
      <4> QED
        BY <1>0, <1>1, <3>a
    <3> HIDE DEF g, m, n
    <3> QED
      BY <1>0, <1>3, <3>2, <3>3, <3>4, <3>5
  <2>3. m \in Nat /\ k \in 0..m
    BY <1>1, <1>4
  <2> HIDE DEF m
  <2> QED
    BY <2>1, <2>2, <2>3
<1>6. kept = Forward(u)
  BY <1>0, <1>1, <1>a, <1>5 DEF Dispose
<1>7. Comp(kept, n) /\ LastOpen(kept) /\ Settled(kept, new)
  <2>1. Comp(Dispose(s, k), n) /\ LastOpen(Dispose(s, k))
    BY <1>2, <1>4, ResetFormed
  <2>2. Aligned(old, new)
    BY <1>0, <1>1 DEF Aligned
  <2>3. Settled(Dispose(s, k), new)
    BY <1>2, <1>4, <2>2, DisposeSettled
  <2> QED
    BY <1>a, <2>1, <2>3
<1>8. Comp(u, Len(old)) /\ Len(u) = m - 1 /\ \A i \in 1..(m - 1) : u[i] = s[i]
  <2>1. m - 1 \in 0..m
    BY <1>0, <1>1
  <2> QED
    BY <1>0, <1>1, <2>1, PrefixFormed
<1> HIDE DEF u, kept
<1>9. CASE m = 1
  <2>1. \A i \in 1..m : ~(s[i].status >= kSelected)
    BY <1>0, <1>1, <1>9 DEF LastOpen, SegType, kSelected
  <2> QED
    BY <2>1
<1>10. CASE m > 1
  <2>1. u # << >> /\ m - 1 \in 1..(m - 1) /\ (m - 1) + 1 = m
    BY <1>0, <1>1, <1>8, <1>10, LenOf DEF Comp
  <2>2. LastFull(u) /\ GetCurrentEndPosition(u) = g.start
    <3>1. s[m - 1].start < s[m - 1].end /\ s[m - 1].end = g.start
      BY <1>0, <1>1, <2>1 DEF Formed
    <3>2. u[Len(u)] = s[m - 1]
      BY <1>8, <2>1
    <3>3. GetCurrentEndPosition(u) = u[Len(u)].end
      BY <1>0, <1>1, <1>8, <2>1, Positions
    <3> QED
      BY <3>1, <3>2, <3>3 DEF LastFull
  <2>3. /\ Len(kept) = m /\ \A i \in 1..(m - 1) : kept[i] = s[i]
        /\ GetCurrentStartPosition(kept) = g.start /\ GetCurrentEndPosition(kept) = g.start
        /\ kept # << >> /\ kept \in Comps
    <3> DEFINE w == Forward(u)
    <3>1. /\ \A i \in 1..Len(u) : w[i] = u[i]
          /\ GetCurrentEndPosition(w) = GetCurrentEndPosition(u)
          /\ GetCurrentStartPosition(w) = GetCurrentEndPosition(u)
          /\ w # << >> /\ Len(w) = Len(u) + 1
      BY <1>0, <1>1, <1>8, <2>1, <2>2, ForwardFormed
    <3>2. kept = w /\ kept \in Comps
      BY <1>6, <1>7 DEF Comp
    <3> HIDE DEF w
    <3> QED
      BY <1>0, <1>1, <1>8, <2>2, <3>1, <3>2
  <2>4. Len(r) = m /\ \A i \in 1..(m - 1) : r[i] = s[i]
    <3>1. CASE g.start = n
      <4> DEFINE after == AfterRounds(kept, new, on)
      <4>1. HasFinishedSegmentation(kept, new)
        BY <1>0, <1>1, <2>3, <3>1 DEF HasFinishedSegmentation
      <4>2. PICK x \in 0..n :
              /\ r = after[x]
              /\ \A y \in 0..(x - 1) : ~HasFinishedSegmentation(after[y], new)
        BY <1>7, RoundsEnd
      <4>3. after[0] = kept
        BY AfterRoundsIs
      <4>4. x = 0
        <5>1. x > 0 => 0 \in 0..(x - 1)
          BY <1>0, <1>1
        <5> QED
          BY <1>0, <1>1, <4>1, <4>2, <4>3, <5>1
      <4> QED
        BY <2>3, <4>2, <4>3, <4>4
    <3>2. CASE g.start # n
      <4> DEFINE h == Segment(g.start, n, {"abc"})
      <4>1. g.start < n
        BY <1>0, <1>1, <3>2
      <4>2. \A x \in (g.start + 1)..n : new[x] \in Letters
        <5> SUFFICES ASSUME NEW x \in (g.start + 1)..n PROVE new[x] \in Letters
          OBVIOUS
        <5>1. Literal(g, old) /\ g.start < g.end
          BY <1>0, <1>1 DEF Settled
        <5>2. g.end \in (g.start + 1)..g.end /\ old[g.end] \in Letters
          <6> HIDE DEF g
          <6> QED
            BY <1>1, <5>1
        <5>3. x \in (g.start + 1)..g.end /\ x \in 1..n
          <6>1. x \in (g.start + 1)..n
            OBVIOUS
          <6>2. g.start \in Nat /\ n \in Nat /\ g.end = n + 1
            <7> HIDE DEF g, n
            <7> QED
              BY <1>0, <1>1
          <6> HIDE DEF g, n
          <6> QED
            BY <6>1, <6>2, OneBefore
        <5> HIDE DEF g
        <5>4. old[x] \in Letters
          BY <5>1, <5>2, <5>3 DEF Literal
        <5> QED
          BY <5>3, <5>4
      <4>3. r = SetLast(kept, h)
        <5>1. GetCurrentEndPosition(kept) < Len(new)
          BY <2>3, <4>1
        <5> QED
          BY <1>7, <2>3, <4>2, <5>1, RunToTheEnd
      <4>4. h \in SegType
        BY <1>0, <1>1, RunSegment
      <4> HIDE DEF h
      <4>5. Len(SetLast(kept, h)) = m /\ \A i \in 1..(m - 1) : SetLast(kept, h)[i] = kept[i]
        BY <2>3, <4>4, SetLastIs
      <4> QED
        BY <2>3, <4>3, <4>5
    <3> QED
      BY <3>1, <3>2
  <2>5. Comp(r, n)
    BY <1>7, RoundsFormed
  <2> HIDE DEF r
  <2>6. Comp(f, n) /\ LastOpen(f) /\ \A i \in 1..(m - 1) : i <= Len(f) /\ f[i] = s[i]
    <3>1. Comp(f, n) /\ LastOpen(f)
      BY <1>0, <1>1, <2>5, FinishFormed
    <3>2. \A i \in 1..(Len(r) - 1) : i <= Len(f) /\ f[i] = r[i]
      BY <1>0, <1>1, <2>5, FinishKeeps
    <3> QED
      BY <2>4, <3>1, <3>2
  <2> HIDE DEF f
  <2>7. Len(t) = Len(f) /\ Len(f) \in Nat
        /\ \A i \in 1..Len(f) : t[i].status >= kSelected <=> f[i].status >= kSelected
    <3>1. Len(f) \in Nat
      BY <2>6, LenOf DEF Comp
    <3> QED
      BY <2>6, <3>1, TranslatedFormed
  <2> HIDE DEF t
  <2>8. \A i \in 1..m : s[i].status >= kSelected => i <= Len(t) /\ t[i].status >= kSelected
    <3> SUFFICES ASSUME NEW i \in 1..m, s[i].status >= kSelected
                 PROVE  i <= Len(t) /\ t[i].status >= kSelected
      OBVIOUS
    <3>1. i # m
      BY <1>0, <1>1 DEF LastOpen, SegType, kSelected
    <3>2. i \in 1..(m - 1)
      BY <1>0, <1>1, <3>1
    <3>3. i \in 1..Len(f) /\ f[i] = s[i]
      BY <2>6, <2>7, <3>2
    <3> QED
      BY <2>7, <3>3
  <2>9. Recompose(s, old, new, on) = t
    BY DEF Recompose, CalculateSegmentation, t, f, r, kept
  <2> QED
    BY <2>8, <2>9
<1>11. m = 1 \/ m > 1
  <2> HIDE DEF m
  <2> QED
    BY <1>1
<1> QED
  BY <1>9, <1>10, <1>11

\* The last segment chosen depends on the segments alone.
LEMMA ChosenSame ==
  ASSUME NEW c, NEW d, c.segs \in Comps, d.segs = c.segs
  PROVE  LastChosen(d) = LastChosen(c)
<1> DEFINE m == LastChosen(c)
           n == LastChosen(d)
           s == c.segs
<1>1. /\ m \in 0..Len(s) /\ Len(s) \in Nat
      /\ m > 0 => s[m].status >= kSelected
      /\ \A i \in 1..Len(s) : s[i].status >= kSelected => i <= m
  BY ChosenIs
<1>2. /\ n \in 0..Len(s)
      /\ n > 0 => s[n].status >= kSelected
      /\ \A i \in 1..Len(s) : s[i].status >= kSelected => i <= n
  BY ChosenIs
<1> HIDE DEF m, n, s
<1>3. m > n => FALSE
  BY <1>1, <1>2
<1>4. n > m => FALSE
  BY <1>1, <1>2
<1> QED
  BY <1>1, <1>2, <1>3, <1>4 DEF m, n

\* Erasing the letter leaves what was chosen so.
LEMMA PopKeeps ==
  ASSUME Plain, NEW c, Rest(c), Typed(c)
  PROVE  LET e == PopInput(c, 1)
         IN  \A i \in 1..Len(c.segs) :
               c.segs[i].status >= kSelected => i <= Len(e.segs) /\ e.segs[i].status >= kSelected
<1> DEFINE i == c.caret - 1
           t == Erased(c.input, i, 1)
           d == [c EXCEPT !.caret = i, !.input = t]
           e == Compose(d)
           s == c.segs
           old == c.active
           new == SubSeq(d.input, 1, d.caret)
<1>1. /\ c \in CtxType /\ c.input \in Seq(Chars) /\ c.caret \in 0..Len(c.input)
      /\ Len(c.input) \in Nat /\ c.caret > 0
      /\ old \in Seq(Chars) /\ Len(old) = c.caret
      /\ \A x \in 1..c.caret : old[x] = c.input[x]
  BY RestType DEF Typed
<1>2. i \in Nat /\ i + 1 <= Len(c.input) /\ i <= c.caret /\ i = c.caret - 1
  BY <1>1
<1>3. PopInput(c, 1) = e
  BY <1>1 DEF PopInput
<1> HIDE DEF i
<1>4. /\ t \in Seq(Chars) /\ Len(t) = Len(c.input) - 1
      /\ \A x \in 1..i : t[x] = c.input[x]
      /\ \A x \in (i + 1)..(Len(c.input) - 1) : t[x] = c.input[x + 1]
  <2> DEFINE a == c.input
             j == 1
             b == Erased(a, i, j)
  <2>1. a \in Seq(Chars) /\ j \in Nat /\ i + j <= Len(a)
    BY <1>1, <1>2
  <2> HIDE DEF a, j
  <2>2. /\ b \in Seq(Chars) /\ Len(b) = Len(a) - j
        /\ \A x \in 1..i : b[x] = a[x]
        /\ \A x \in (i + 1)..(Len(a) - j) : b[x] = a[x + j]
    BY <1>2, <2>1, ErasedText
  <2>3. t = b
    BY DEF a, j
  <2> HIDE DEF b
  <2> QED
    BY <2>2, <2>3 DEF a, j
<1> HIDE DEF t
<1>5. /\ d \in CtxType /\ d.input = t /\ d.caret = i /\ d.segs = s
      /\ d.active = old /\ d.opts = c.opts /\ d.sink = c.sink
  BY <1>1, <1>2, <1>4 DEF CtxType
<1> HIDE DEF d
<1>6. Lettered(d)
  <2> SUFFICES ASSUME Plain, AutoCommit, NEW x \in 1..Len(d.input) PROVE d.input[x] \in Letters
    BY DEF Lettered
  <2>1. \A y \in 1..Len(c.input) : c.input[y] \in Letters
    BY DEF Rest, Lettered
  <2>2. CASE x \in 1..i
    <3>1. x \in 1..Len(c.input)
      BY <1>1, <1>2, <2>2
    <3> QED
      BY <1>4, <1>5, <2>1, <2>2, <3>1
  <2>3. CASE x \in (i + 1)..(Len(c.input) - 1)
    <3>1. x + 1 \in 1..Len(c.input)
      BY <1>1, <1>2, <2>3
    <3> QED
      BY <1>4, <1>5, <2>1, <2>3, <3>1
  <2> QED
    BY <1>1, <1>2, <1>4, <1>5, <2>2, <2>3
<1>7. Ready(d)
  <2>1. d.caret <= Len(d.input) /\ \A x \in 1..c.caret : x <= d.caret => d.input[x] = c.input[x]
    BY <1>1, <1>2, <1>4, <1>5
  <2> QED
    BY <1>5, <1>6, <2>1, EditReady
<1>8. e.segs = Recompose(s, old, new, c.opts)
  BY <1>5, <1>7, ComposeRest
<1>9. /\ new \in Seq(Chars) /\ Len(new) = Len(old) - 1
      /\ \A x \in 1..Len(new) : new[x] = old[x]
  <2>1. i \in 0..Len(t)
    BY <1>1, <1>2, <1>4
  <2>2. new \in Seq(Chars) /\ Len(new) = i /\ \A x \in 1..i : new[x] = t[x]
    BY <1>4, <1>5, <2>1, BeforeCaret
  <2> HIDE DEF new
  <2> QED
    BY <1>1, <1>2, <1>4, <2>2
<1> HIDE DEF new, e
<1>10. /\ Comp(s, Len(old)) /\ LastOpen(s) /\ Rested(s) /\ Settled(s, old)
       /\ HasFinishedSegmentation(s, old) /\ "ascii_mode" \notin c.opts
  BY DEF Rest
<1>11. s # << >> /\ s[Len(s)].start < s[Len(s)].end /\ old[Len(old)] \in Letters
  BY <1>1 DEF Typed
<1> HIDE DEF s, old
<1>12. \A x \in 1..Len(s) :
         s[x].status >= kSelected => x <= Len(e.segs) /\ e.segs[x].status >= kSelected
  <2> DEFINE r == Recompose(s, old, new, c.opts)
  <2>1. old \in Seq(Chars)
    BY <1>1 DEF old
  <2>2. \A x \in 1..Len(s) :
          s[x].status >= kSelected => x <= Len(r) /\ r[x].status >= kSelected
    BY <1>9, <1>10, <1>11, <2>1, Shrunk
  <2> HIDE DEF r
  <2> QED
    BY <1>8, <2>2 DEF r
<1> QED
  BY <1>3, <1>12 DEF s

\* The key before this one was a letter: the context is as that left it.
TypedInv == lastKey = "letter" => Typed(ctx)

\* Only a letter is remembered as one.
LEMMA OnlyLetters ==
  ASSUME Next, lastKey' = "letter"
  PROVE  Letter
<1>1. \A kind, c, accepted : Key(kind, c, accepted) => lastKey' = kind
  BY DEF Key
<1>2. CASE Number
  BY <1>1, <1>2 DEF Number
<1>3. CASE PageUp \/ PageDown \/ CursorUp \/ CursorDown
  BY <1>1, <1>3 DEF PageUp, PageDown, CursorUp, CursorDown
<1>4. CASE Left \/ Right \/ Home \/ End
  BY <1>1, <1>4 DEF Left, Right, Home, End
<1>5. CASE Space \/ Return \/ CommitScriptText
  BY <1>1, <1>5 DEF Space, Return, CommitScriptText
<1>6. CASE BackSpace \/ ShiftBackSpace \/ Delete \/ ShiftDelete \/ Escape
  BY <1>1, <1>6 DEF BackSpace, ShiftBackSpace, Delete, ShiftDelete, Escape
<1>7. CASE SessionCommit \/ SessionClear \/ OptionUpdate
  BY <1>1, <1>7 DEF SessionCommit, SessionClear, OptionUpdate
<1> QED
  BY <1>2, <1>3, <1>4, <1>5, <1>6, <1>7 DEF Next

\* A letter leaves no selection for BackSpace to revert, when the speller
\* selects nothing of itself.
LEMMA LetterStep ==
  ASSUME Plain, ~AutoSelect, ~AutoSelectUnique, IInv, Letter
  PROVE  TypedInv'
<1> DEFINE f == Fresh
<1>1. Rest(f)
  BY FreshRest DEF IInv
<1> HIDE DEF f
<1>2. PICK ch \in Letters, read \in Reads : ctx' = Spell(f, ch, read)
  BY DEF Letter, Key, f
<1> DEFINE d == IF AtMaxCodeLength(f) THEN ConfirmCurrentSelection(f, read) ELSE f
           e == ConfirmPreviousSelection(PushInput(d, ch))
<1>3. Rest(d)
  <2>1. CASE AtMaxCodeLength(f)
    <3>1. CanConfirm(f)
      BY <2>1 DEF AtMaxCodeLength, HasMenu, CanConfirm
    <3> QED
      BY <1>1, <2>1, <3>1, ConfirmRest
  <2>2. CASE ~AtMaxCodeLength(f)
    BY <1>1, <2>2
  <2> QED
    BY <2>1, <2>2
<1>4. Spell(f, ch, read) = e
  <2>1. ~IsUnique(e) /\ ~IsOverrun(e, d)
    BY DEF IsUnique, IsOverrun
  <2> QED
    BY <2>1 DEF Spell
<1> HIDE DEF d
<1>5. Typed(e)
  BY <1>3, LetterTyped
<1> QED
  BY <1>2, <1>4, <1>5 DEF TypedInv

\* BackSpace after a letter erases it.
LEMMA BackSpaceStep ==
  ASSUME Plain, ~AutoCommit, IInv, TypedInv, lastKey = "letter", BackSpace
  PROVE  \A i \in 1..LastChosen(ctx) :
           ctx.segs[i].status >= kSelected =>
             i <= Len(ctx'.segs) /\ ctx'.segs[i].status >= kSelected
<1> DEFINE f == Fresh
<1>1. /\ Rest(ctx) /\ Rest(f) /\ f.input = ctx.input /\ f.segs = ctx.segs
      /\ f.caret = ctx.caret /\ f.active = ctx.active
  BY FreshRest DEF IInv
<1> HIDE DEF f
<1>2. Typed(ctx) /\ ctx.segs \in Comps
  BY <1>1, RestParts DEF TypedInv
<1>3. LastChosen(f) = LastChosen(ctx)
  BY <1>1, <1>2, ChosenSame
<1>4. Typed(f)
  BY <1>1, <1>2, <1>3 DEF Typed, CanReopenSelection
<1>5. IsComposing(ctx)
  <2>1. ctx.caret > 0 /\ ctx.caret \in 0..Len(ctx.input)
    BY <1>1, <1>2, RestType DEF Typed
  <2>2. ctx.input = << >> => Len(ctx.input) = 0
    OBVIOUS
  <2> QED
    BY <2>1, <2>2 DEF IsComposing
<1>6. ctx' = RevertToPreviousInput(f)
  BY <1>5 DEF BackSpace, Key, f
<1>7. ~CanReopenSegment(f)
  <2>1. f.segs[Len(f.segs)].start < f.segs[Len(f.segs)].end /\ f.segs # << >>
    BY <1>4 DEF Typed
  <2>2. f.segs[Len(f.segs)] \in SegType
    BY <1>1, <1>2, <2>1, LenOf
  <2> QED
    BY <2>1, <2>2 DEF CanReopenSegment, IsEmptySegment, Last, SegType
<1>8. ~CanReopenSelection(f)
  BY <1>4 DEF Typed
<1>9. ctx' = PopInput(f, 1)
  BY <1>6, <1>7, <1>8 DEF RevertToPreviousInput
<1>10. \A i \in 1..Len(ctx.segs) :
         ctx.segs[i].status >= kSelected =>
           i <= Len(ctx'.segs) /\ ctx'.segs[i].status >= kSelected
  BY <1>1, <1>4, <1>9, PopKeeps
<1>11. LastChosen(ctx) \in 0..Len(ctx.segs) /\ Len(ctx.segs) \in Nat
  BY <1>2, ChosenIs
<1> QED
  BY <1>10, <1>11

\* After a letter BackSpace erases it and leaves every selection as made, in
\* the fluency editor, whose speller selects nothing of itself.
THEOREM BackSpaceLeavesSelections ==
  ASSUME Plain, ~AutoCommit, ~AutoSelect, ~AutoSelectUnique
  PROVE  Spec => BackSpaceKeepsSelections
<1> DEFINE Stays == lastKey = "letter" /\ BackSpace =>
                      \A i \in 1..LastChosen(ctx) :
                        ctx.segs[i].status >= kSelected =>
                          i <= Len(ctx'.segs) /\ ctx'.segs[i].status >= kSelected
<1>1. Init => TypedInv
  BY DEF Init, TypedInv
<1>2. IInv /\ TypedInv /\ [Next]_vars => TypedInv'
  <2> SUFFICES ASSUME IInv, TypedInv, [Next]_vars PROVE TypedInv'
    OBVIOUS
  <2>1. CASE Next /\ lastKey' = "letter"
    BY <2>1, OnlyLetters, LetterStep
  <2>2. CASE lastKey' # "letter"
    BY <2>2 DEF TypedInv
  <2>3. CASE UNCHANGED vars
    BY <2>3 DEF TypedInv, vars
  <2> QED
    BY <2>1, <2>2, <2>3
<1>3. IInv /\ TypedInv => [Stays]_vars
  BY BackSpaceStep
<1>4. Spec => []IInv
  BY EngineInvariance
<1>5. BackSpaceKeepsSelections <=> [][Stays]_vars
  BY DEF BackSpaceKeepsSelections
<1> HIDE DEF Stays
<1> QED
  BY <1>1, <1>2, <1>3, <1>4, <1>5, PTL DEF Spec

-----------------------------------------------------------------------------
(* A key held down gets on: the measure behind HeldKey's liveness.         *)

\* If all that is chosen ends at a position or before, so does what is confirmed.
LEMMA ConfirmedWithin ==
  ASSUME NEW n \in Nat, NEW s, Comp(s, n), NEW b \in Nat, ChosenWithin(s, b)
  PROVE  GetConfirmedPosition(s) <= b
BY Confirmed DEF ChosenWithin

\* Once the last selection has been reopened, what is confirmed ends before it.
LEMMA ReopenedLower ==
  ASSUME Plain, NEW c, Rest(c), LastChosen(c) > 0
  PROVE  LET t == SubSeq(c.segs, 1, LastChosen(c))
             e == Compose([c EXCEPT !.segs = SetLast(t, [Last(t) EXCEPT !.status = kVoid])])
         IN  /\ e.caret = c.caret
             /\ GetConfirmedPosition(e.segs) < GetConfirmedPosition(c.segs)
<1> DEFINE s == c.segs
           n == Len(c.active)
           k == LastChosen(c)
           t == SubSeq(s, 1, k)
           h == [Last(t) EXCEPT !.status = kVoid]
           u == SetLast(t, h)
           d == [c EXCEPT !.segs = u]
           e == Compose(d)
           b == s[k].start
<1>1. /\ n \in Nat /\ Comp(s, n) /\ s \in Comps /\ Formed(s, n) /\ k \in 1..Len(s)
      /\ s[k].status >= kSelected /\ s[k] \in SegType /\ SegOK(s[k]) /\ Settled(s, c.active)
      /\ c \in CtxType /\ c.caret <= Len(c.input) /\ n = c.caret
      /\ c.active = SubSeq(c.input, 1, c.caret) /\ c.active \in Seq(Chars)
      /\ "ascii_mode" \notin c.opts
  <2>1. k \in 1..Len(s)
    BY RestParts
  <2> QED
    BY <2>1, RestParts, RestType DEF Rest, Comp
<1>2. b \in Nat /\ s[k].end \in Nat /\ b < s[k].end
  BY <1>1 DEF SegOK, IsEmptySegment, SegType
<1> HIDE DEF k
<1>3. Comp(t, n) /\ Len(t) = k /\ \A i \in 1..k : t[i] = s[i]
  BY <1>1, PrefixFormed
<1>4. Settled(t, c.active)
  BY <1>1, SettledPrefix
<1> HIDE DEF t
<1>5. t # << >> /\ t[Len(t)] = s[k] /\ t \in Comps /\ Last(t) = s[k] /\ LastFull(t)
  <2>1. Len(t) > 0 /\ k \in 1..k
    BY <1>1, <1>3
  <2>2. t # << >> /\ t \in Comps
    BY <1>3, <2>1 DEF Comp
  <2>3. t[Len(t)] = s[k]
    BY <1>3, <2>1
  <2> QED
    BY <1>2, <2>2, <2>3 DEF Last, LastFull
<1>6. Comp(u, n) /\ LastOpen(u) /\ Rested(u) /\ Settled(u, c.active)
  BY <1>1, <1>3, <1>4, <1>5, VoidLast
<1>7. ChosenWithin(u, b)
  <2>1. h \in SegType /\ ~(h.status >= kSelected)
    <3>1. kVoid \in 0..3 /\ ~(kVoid >= kSelected)
      BY DEF kVoid, kSelected
    <3> DEFINE g == Last(t)
    <3>2. g \in SegType
      BY <1>1, <1>5
    <3> HIDE DEF g
    <3>3. [g EXCEPT !.status = kVoid] \in SegType /\ [g EXCEPT !.status = kVoid].status = kVoid
      BY <3>1, <3>2 DEF SegType
    <3> QED
      BY <3>1, <3>3 DEF g
  <2> HIDE DEF h
  <2>2. /\ Len(u) = k /\ u[k] = h /\ \A i \in 1..(k - 1) : u[i] = t[i]
    BY <1>3, <1>5, <2>1, SetLastIs
  <2> HIDE DEF u
  <2> SUFFICES ASSUME NEW i \in 1..Len(u), u[i].status >= kSelected PROVE u[i].end <= b
    BY DEF ChosenWithin
  <2>3. i \in 1..(k - 1) /\ i \in 1..k /\ i \in 1..Len(s) /\ i < k
    BY <1>1, <2>1, <2>2
  <2>4. u[i] = s[i] /\ s[i].end <= s[k].start
    BY <1>1, <1>3, <2>2, <2>3 DEF Formed
  <2> QED
    BY <2>4
<1> HIDE DEF h, u
<1>8. u \in Comps
  BY <1>6 DEF Comp
<1>9. /\ d \in CtxType /\ d.segs = u /\ d.input = c.input /\ d.caret = c.caret
      /\ d.active = c.active /\ d.opts = c.opts /\ d.sink = c.sink
  BY <1>1, <1>8 DEF CtxType
<1> HIDE DEF d
<1>10. Ready(d)
  BY <1>1, <1>6, <1>9, NextReady
<1>11. /\ Rest(e) /\ e.caret = c.caret
       /\ e.segs = Recompose(u, c.active, c.active, c.opts)
  <2>1. /\ Rest(e) /\ e.caret = d.caret
        /\ e.segs = Recompose(d.segs, d.active, SubSeq(d.input, 1, d.caret), d.opts)
    BY <1>10, ComposeRest
  <2> HIDE DEF e
  <2> QED
    BY <1>1, <1>9, <2>1
<1> HIDE DEF e
<1>12. ChosenWithin(e.segs, b)
  <2>1. Aligned(c.active, c.active)
    BY DEF Aligned
  <2> QED
    BY ZenonT(60), <1>1, <1>6, <1>7, <1>11, <2>1, WithinRecomposed
<1>13. GetConfirmedPosition(e.segs) \in Nat /\ GetConfirmedPosition(e.segs) <= b
  <2>1. Len(e.active) \in Nat /\ Comp(e.segs, Len(e.active))
    BY <1>11, RestParts
  <2> QED
    BY <1>2, <1>12, <2>1, Confirmed, ConfirmedWithin
<1>14. GetConfirmedPosition(s) \in Nat /\ s[k].end <= GetConfirmedPosition(s)
  BY <1>1, Confirmed
<1>15. GetConfirmedPosition(e.segs) < GetConfirmedPosition(s)
  BY <1>2, <1>13, <1>14
<1> QED
  BY <1>11, <1>15 DEF e, d, u, h, t, k

\* BackSpace gets on: it moves the caret back, or else what is confirmed ends
\* earlier.
Retreats(c, e) ==
  \/ e.caret < c.caret
  \/ /\ e.caret = c.caret
     /\ c.caret = 0 \/ GetConfirmedPosition(e.segs) < GetConfirmedPosition(c.segs)

LEMMA ReopenRetreats ==
  ASSUME Plain, NEW c, Rest(c)
  PROVE  /\ CanReopenSegment(c) => Retreats(c, ReopenPreviousSegment(c))
         /\ CanReopenSelection(c) => Retreats(c, ReopenPreviousSelection(c))
         /\ ReopenPreviousSegment(c).caret = c.caret
<1> DEFINE s == c.segs
           n == Len(c.active)
           Void(t) == SetLast(t, [Last(t) EXCEPT !.status = kVoid])
<1>1. CanReopenSelection(c) => Retreats(c, ReopenPreviousSelection(c))
  BY ReopenedLower DEF CanReopenSelection, ReopenPreviousSelection, Retreats
<1>2. ASSUME CanReopenSegment(c)
      PROVE  LET e == ReopenPreviousSegment(c)
             IN  e.caret = c.caret /\ GetConfirmedPosition(e.segs) < GetConfirmedPosition(s)
  <2> DEFINE t == SubSeq(s, 1, LastChosen(c))
             k == Len(s)
  <2>1. /\ s # << >> /\ IsEmptySegment(Last(s)) /\ Trim(s) = Front(s)
        /\ k \in Nat /\ k > 0 /\ Comp(s, n) /\ n \in Nat /\ s \in Comps
        /\ LastOpen(s) /\ Rested(s) /\ s[k] \in SegType
    <3>1. s # << >> /\ IsEmptySegment(Last(s)) /\ Trim(s) = Front(s)
      BY <1>2 DEF CanReopenSegment, Trim
    <3>2. k \in Nat /\ Comp(s, n) /\ n \in Nat /\ s \in Comps /\ LastOpen(s) /\ Rested(s)
      BY RestParts
    <3>3. k > 0 /\ \A i \in 1..k : s[i] \in SegType
      BY <3>1, <3>2, LenOf
    <3>4. s[k] \in SegType
      BY <3>2, <3>3
    <3> QED
      BY <3>1, <3>2, <3>3, <3>4
  <2>2. ~LastFull(s)
    BY <2>1 DEF LastFull, IsEmptySegment, Last, SegType
  <2>3. k > 1 /\ s[k - 1].status >= kSelected
    BY <2>1, <2>2 DEF Rested
  <2>4. LastChosen(c) = k - 1
    <3>1. ~(s[k].status >= kSelected)
      BY <2>1 DEF LastOpen, SegType, kSelected
    <3>2. /\ LastChosen(c) \in 0..k
          /\ LastChosen(c) > 0 => s[LastChosen(c)].status >= kSelected
          /\ \A i \in 1..k : s[i].status >= kSelected => i <= LastChosen(c)
      BY RestParts
    <3>3. k - 1 \in 1..k
      BY <2>1, <2>3
    <3>4. k - 1 <= LastChosen(c)
      BY <2>3, <3>2, <3>3
    <3>5. LastChosen(c) # k
      BY <2>1, <3>1, <3>2
    <3> HIDE DEF k, s
    <3> QED
      BY <2>1, <3>2, <3>4, <3>5
  <2>5. Trim(s) = t
    BY <2>1, <2>4 DEF Front
  <2>6. t # << >> /\ Last(t).status >= kSelected
    <3>1. k - 1 \in 0..k /\ Formed(s, n)
      BY <2>1, <2>3 DEF Comp
    <3>2. Comp(t, n) /\ Len(t) = k - 1 /\ \A i \in 1..(k - 1) : t[i] = s[i]
      BY <2>1, <2>4, <3>1, PrefixFormed
    <3> HIDE DEF t
    <3>3. t # << >> /\ k - 1 \in 1..(k - 1)
      BY <2>1, <2>3, <3>2, LenOf DEF Comp
    <3> QED
      BY <2>3, <3>2, <3>3 DEF Last
  <2>7. ReopenPreviousSegment(c) = Compose([c EXCEPT !.segs = Void(t)])
    BY <1>2, <2>5, <2>6 DEF ReopenPreviousSegment
  <2>8. LastChosen(c) > 0
    BY <2>1, <2>3, <2>4
  <2> QED
    BY <2>7, <2>8, ReopenedLower
<1>3. ReopenPreviousSegment(c).caret = c.caret
  <2>1. CASE CanReopenSegment(c)
    BY <1>2, <2>1
  <2>2. CASE ~CanReopenSegment(c)
    BY <2>2 DEF ReopenPreviousSegment
  <2> QED
    BY <2>1, <2>2
<1> QED
  BY <1>1, <1>2, <1>3 DEF Retreats

LEMMA BackSpaceRetreats ==
  ASSUME Plain, IInv, BackSpace
  PROVE  Retreats(ctx, ctx')
<1> DEFINE f == Fresh
           p == PopInput(f, 1)
<1>1. Rest(f) /\ f.input = ctx.input /\ f.caret = ctx.caret /\ f.segs = ctx.segs
  BY FreshRest DEF IInv
<1>2. ctx' = IF ~IsComposing(ctx) THEN f
             ELSE IF AutoCommit THEN RevertLastAction(f) ELSE RevertToPreviousInput(f)
  BY DEF BackSpace, Key
<1> HIDE DEF f
<1>3. f.caret \in Nat /\ f.caret <= Len(f.input)
  BY <1>1, RestType
<1>4. Rest(p) /\ p.caret = IF f.caret = 0 THEN 0 ELSE f.caret - 1
  BY <1>1, PopRest
<1>5. Retreats(f, ctx')
  <2>1. CASE ~IsComposing(ctx)
    <3>1. Len(f.input) = 0
      BY <1>1, <2>1 DEF IsComposing
    <3>2. f.caret = 0
      BY <1>3, <3>1
    <3> QED
      BY <1>2, <2>1, <3>2 DEF Retreats
  <2>2. Retreats(f, p)
    BY <1>3, <1>4 DEF Retreats
  <2>3. CASE IsComposing(ctx) /\ ~AutoCommit
    BY <1>1, <1>2, <2>2, <2>3, ReopenRetreats DEF RevertToPreviousInput
  <2>4. CASE IsComposing(ctx) /\ AutoCommit
    <3>1. CASE CanReopenSelection(f)
      BY <1>1, <1>2, <2>4, <3>1, ReopenRetreats DEF RevertLastAction
    <3>2. CASE ~CanReopenSelection(f) /\ f.caret < 1
      <4>1. ctx' = f /\ f.caret = 0
        BY <1>2, <1>3, <2>4, <3>2 DEF RevertLastAction
      <4> QED
        BY <4>1 DEF Retreats
    <3>3. CASE ~CanReopenSelection(f) /\ ~(f.caret < 1)
      <4>1. ctx' = ReopenPreviousSegment(p)
        BY <1>2, <2>4, <3>3 DEF RevertLastAction
      <4>2. ctx'.caret = p.caret
        BY <1>4, <4>1, ReopenRetreats
      <4> QED
        BY <1>3, <1>4, <3>3, <4>2 DEF Retreats
    <3> QED
      BY <3>1, <3>2, <3>3
  <2> QED
    BY <2>1, <2>3, <2>4
<1> QED
  BY <1>1, <1>5 DEF Retreats

\* No BackSpace leaves the composition as it found it, or worse: short of an
\* empty text before the caret, each one moves the caret back or has what is
\* confirmed end earlier, however the editor reopens, composes and reopens
\* (RevertToPreviousInput, RevertLastAction).  So there is no composition that
\* takes the key forever.
BackSpaceProgresses == [][BackSpace => Retreats(ctx, ctx')]_vars

\* So it is in both editors.
THEOREM BackSpaceGetsOn ==
  ASSUME Plain
  PROVE  Spec => BackSpaceProgresses
<1> DEFINE GetsOn == BackSpace => Retreats(ctx, ctx')
<1>1. IInv => [GetsOn]_vars
  BY BackSpaceRetreats
<1>2. Spec => []IInv
  BY EngineInvariance
<1>3. BackSpaceProgresses <=> [][GetsOn]_vars
  BY DEF BackSpaceProgresses
<1> HIDE DEF GetsOn
<1> QED
  BY <1>1, <1>2, <1>3, PTL

\* Nor does Space, for that matter: what it confirms comes after all that has
\* been.
LEMMA SpaceConfirms ==
  ASSUME Plain, NEW c, Rest(c), NEW read
  PROVE  Onward(c, GetConfirmedPosition(c.segs), Confirm(c, read))
<1>1. CASE ~CanConfirm(c)
  <2>1. Confirm(c, read).input = << >>
    BY <1>1, UnconfirmedCommit DEF Confirm
  <2> QED
    BY <2>1 DEF Onward
<1>2. CASE CanConfirm(c)
  <2> DEFINE s == c.segs
             m == Len(s)
             b == s[m].start
             e == Confirm(c, read)
  <2>1. e = ConfirmCurrentSelection(c, read)
    BY <1>2 DEF Confirm
  <2>2. Rest(e) /\ Onward(c, b, e)
    BY <1>2, <2>1, ConfirmRest
  <2>3. /\ Len(c.active) \in Nat /\ Comp(s, Len(c.active)) /\ LastOpen(s) /\ m \in Nat
        /\ s # << >> /\ \A i \in 1..m : s[i] \in SegType
    BY <1>2, RestParts DEF CanConfirm
  <2>4. m \in 1..m /\ b \in Nat
    <3>1. m > 0
      BY <2>3, LenOf DEF Comp
    <3> QED
      BY <2>3, <3>1 DEF SegType
  <2>5. ChosenWithin(s, b)
    <3> SUFFICES ASSUME NEW i \in 1..m, s[i].status >= kSelected PROVE s[i].end <= b
      BY DEF ChosenWithin
    <3>1. s[i].status \in 0..3 /\ ~(s[i].status < kSelected)
      BY <2>3 DEF SegType, kSelected
    <3>2. i # m
      BY <2>3, <3>1 DEF LastOpen
    <3>3. \A x, y \in 1..m : x < y => s[x].end <= s[y].start
      BY <2>3 DEF Comp, Formed
    <3>4. i < m
      BY <2>3, <3>2
    <3> QED
      BY <2>4, <3>3, <3>4
  <2> HIDE DEF b
  <2>6. GetConfirmedPosition(s) \in Nat /\ GetConfirmedPosition(s) <= b
    BY <2>3, <2>4, <2>5, Confirmed, ConfirmedWithin
  <2>7. GetConfirmedPosition(e.segs) \in Nat
    <3> HIDE DEF e
    <3>1. Len(e.active) \in Nat /\ Comp(e.segs, Len(e.active))
      BY <2>2, RestParts
    <3> QED
      BY <3>1, Confirmed
  <2> HIDE DEF s, e
  <2>8. Onward(c, GetConfirmedPosition(s), e)
    BY <2>2, <2>4, <2>6, <2>7 DEF Onward
  <2> QED
    BY <2>8 DEF s, e
<1> QED
  BY <1>1, <1>2

LEMMA SpaceStep ==
  ASSUME Plain, IInv, Space
  PROVE  Onward(ctx, GetConfirmedPosition(ctx.segs), ctx')
<1>1. Rest(Fresh) /\ Fresh.input = ctx.input /\ Fresh.caret = ctx.caret /\ Fresh.segs = ctx.segs
  BY FreshRest DEF IInv
<1>2. PICK read \in Reads : ctx' = Confirm(Fresh, read)
  BY DEF Space, Key
<1>3. Onward(Fresh, GetConfirmedPosition(ctx.segs), ctx')
  BY <1>1, <1>2, SpaceConfirms
<1> QED
  BY <1>1, <1>3 DEF Onward

\* No Space leaves the composition as it found it: each one commits it, moves
\* the caret on in the same text, or has what is confirmed before the caret end
\* later (ConfirmCurrentSelection, OnSelect), whatever OnSelect reads through
\* its stale reference.
SpaceProgresses == [][Space => Onward(ctx, GetConfirmedPosition(ctx.segs), ctx')]_vars

\* So it is in both editors.
THEOREM SpaceGetsOn ==
  ASSUME Plain
  PROVE  Spec => SpaceProgresses
<1> DEFINE GetsOn == Space => Onward(ctx, GetConfirmedPosition(ctx.segs), ctx')
<1>1. IInv => [GetsOn]_vars
  BY SpaceStep
<1>2. Spec => []IInv
  BY EngineInvariance
<1>3. SpaceProgresses <=> [][GetsOn]_vars
  BY DEF SpaceProgresses
<1> HIDE DEF GetsOn
<1> QED
  BY <1>1, <1>2, <1>3, PTL
=============================================================================
