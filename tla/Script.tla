------------------------------- MODULE Script -------------------------------
(***************************************************************************)
(* The script translator (librime/src/gear/script_translator.cc): it lists *)
(* the phrases of the dictionary and of the user dictionary that the input *)
(* starts with, the longest first, and before them a sentence (gear/       *)
(* poet.cc) when no phrase is as long as what could be read.               *)
(*                                                                         *)
(* A candidate has the entries it consists of as its elements; a           *)
(* translation is a record that Peek looks at and Next makes into the next.*)
(***************************************************************************)
EXTENDS Lexicon

ConcatText(entries) == Flat([k \in DOMAIN entries |-> entries[k].text])
ConcatCode(entries) == Flat([k \in DOMAIN entries |-> entries[k].code])

LastEnd(collector) == Max({0} \cup DOMAIN collector)

\* The entries at the last end without the first of them, and the end with
\* its last.
DropFirst(collector, rest) ==
  LET end == LastEnd(collector)
  IN  IF rest = << >> THEN Restrict(collector, DOMAIN collector \ {end})
      ELSE [collector EXCEPT ![end] = rest]

-----------------------------------------------------------------------------
(* Sentences.                                                              *)

EmptySentence == [components |-> << >>, weight |-> 0, lengths |-> << >>, end |-> 0]

\* Sentence::Extend; a word costs as much as a factor of 10^-8.
Extend(sentence, entry, end) ==
  [components |-> Append(sentence.components, entry),
   weight     |-> sentence.weight + entry.weight - Scale,
   lengths    |-> Append(sentence.lengths, end - sentence.end),
   end        |-> end]

\* Poet::MakeSentence: the best sentence up to each position, by the first
\* word on each edge, the first of equals; a word for the whole of it is no
\* sentence.
Better(best, start, sentence, total) ==
  IF \/ start = 0 /\ sentence.end = total
     \/ sentence.end \in DOMAIN best /\ best[sentence.end].weight >= sentence.weight THEN best
  ELSE Put(best, sentence.end, sentence)

ExtendFrom(best, start, from, total) ==
  Fold(LAMBDA b, end : Better(b, start, Extend(b[start], from[end][1], end), total),
       best, Sorted(DOMAIN from, <))

PoetSentence(words, total) ==
  LET visit(best, start) ==
        IF start \notin DOMAIN best THEN best ELSE ExtendFrom(best, start, words[start], total)
      made(best) == IF total \in DOMAIN best THEN << best[total] >> ELSE << >>
  IN  made(Fold(visit, (0 :> EmptySentence), Sorted(DOMAIN words, <)))

\* The entry a sentence itself has: of its words only the syllables count.
SentenceEntry(sentence) ==
  [text |-> ConcatText(sentence.components), code |-> ConcatCode(sentence.components),
   custom |-> << >>, remaining |-> 0, encoded |-> FALSE, weight |-> sentence.weight]

SentenceCandidate(sentence, start) ==
  [type |-> "sentence", start |-> start, end |-> start + sentence.end,
   text |-> ConcatText(sentence.components), entry |-> SentenceEntry(sentence),
   elements |-> sentence.components, lengths |-> sentence.lengths]

PhraseCandidate(type, start, end, entry) ==
  [type |-> type, start |-> start, end |-> start + end, text |-> entry.text,
   entry |-> entry, elements |-> << entry >>, lengths |-> << end >>]

-----------------------------------------------------------------------------
(* The translation.                                                        *)

\* A sentence of more syllables than this is not looked up in one piece.
MaxSyllablesForUserPhraseQuery == 5
\* The binary logarithm of 10^10.
PenaltyForAmbiguousSyllable == 33

\* The words on the edges of a sentence: those of the user dictionary, and of
\* the dictionary's the first where the user has none.
FirstWords(found) == [end \in DOMAIN found |-> << PeekEntry(found[end]) >>]

WordsFrom(dict, user, graph, pos) ==
  LET halvings == IF graph.vertices[pos] >= AmbiguousSpelling THEN PenaltyForAmbiguousSyllable ELSE 0
  IN  UserLookup(user, graph, pos, MaxSyllablesForUserPhraseQuery, halvings)
        @@ FirstWords(Lookup(dict, graph, pos, halvings))

WordGraph(dict, user, graph) ==
  [pos \in DOMAIN graph.edges |-> WordsFrom(dict, user, graph, pos)]

MakeScriptSentence(dict, user, graph, start) ==
  LET candidates(made) == [k \in DOMAIN made |-> SentenceCandidate(made[k], start)]
  IN  candidates(PoetSentence(WordGraph(dict, user, graph), graph.interpreted))

\* ScriptTranslation::Evaluate: a sentence when something was read that no
\* phrase covers, of at least two syllables.
NeedsSentence(t) ==
  /\ Max({LastEnd(t.phrases), LastEnd(t.users)}) < t.graph.interpreted
  /\ Cardinality(DOMAIN t.graph.edges) > 1

WithSentence(dict, user, t) ==
  IF NeedsSentence(t) THEN [t EXCEPT !.sentence = MakeScriptSentence(dict, user, t.graph, t.start)]
  ELSE t

ScriptTranslation(dict, user, input, start, graph) ==
  WithSentence(dict, user,
    [kind |-> "script", input |-> input, start |-> start, graph |-> graph,
     phrases |-> Lookup(dict, graph, 0, 0), users |-> UserLookup(user, graph, 0, 0, 0),
     sentence |-> << >>])

Evaluate(dict, user, input, start, opts) ==
  ScriptTranslation(dict, user, input, start, BuildSyllableGraph(dict.prism, input, opts))

ScriptExhausted(t) == t.phrases = EmptyMap /\ t.users = EmptyMap

\* The phrases of the user come first among those as long.
PrefersUser(t) == LastEnd(t.users) > 0 /\ LastEnd(t.users) >= LastEnd(t.phrases)

PeekScript(t) ==
  IF t.sentence # << >> THEN t.sentence[1]
  ELSE IF PrefersUser(t)
  THEN PhraseCandidate("phrase", t.start, LastEnd(t.users), Head(t.users[LastEnd(t.users)]))
  ELSE PhraseCandidate("phrase", t.start, LastEnd(t.phrases), PeekEntry(t.phrases[LastEnd(t.phrases)]))

NextScript(t) ==
  IF t.sentence # << >> THEN [t EXCEPT !.sentence = << >>]
  ELSE IF PrefersUser(t) THEN [t EXCEPT !.users = DropFirst(@, Tail(@[LastEnd(@)]))]
  ELSE [t EXCEPT !.phrases = DropFirst(@, NextEntry(@[LastEnd(@)]))]

\* Fault: the longest spelling of each syllable, whatever follows.
Delimited_FirstOnly(t, delimiter, delimiters, code, pos, end) ==
  LET cut[k \in 0..Len(code)] ==
        IF k = 0 THEN pos
        ELSE LET ends == SelectSeq(EndsOf(t.graph, cut[k - 1], code[k]), LAMBDA e : e <= end)
             IN  IF cut[k - 1] \notin DOMAIN t.graph.edges \/ ends = << >> THEN end + 1 ELSE ends[1]
  IN  IF cut[Len(code)] = end THEN << t.input >> ELSE << >>

\* DelimitSyllablesDfs: the ways to cut the input by a code, the longer
\* spellings first; each with a delimiter between syllables.
RECURSIVE Delimited(_, _, _, _, _, _)
Delimited(t, delimiter, delimiters, code, pos, end) ==
  IF code = << >> THEN (IF pos = end THEN << << >> >> ELSE << >>)
  ELSE IF pos \notin DOMAIN t.graph.edges THEN << >>
  ELSE LET ends == SelectSeq(EndsOf(t.graph, pos, Head(code)), LAMBDA e : e <= end)
           piece(e) == SubSeq(t.input, pos + 1, e)
           rests(e) == Delimited(t, delimiter, delimiters, Tail(code), e, end)
           joint(e) == IF Len(code) = 1 \/ t.input[e] \in delimiters THEN << >> ELSE << delimiter >>
       IN  Flat([k \in DOMAIN ends |->
                         [i \in DOMAIN rests(ends[k]) |->
                            piece(ends[k]) \o joint(ends[k]) \o rests(ends[k])[i]]])

\* GetPreeditString: empty if the code cannot be found in the graph.
GetPreedit(t, opts, cand) ==
  LET ways == Delimited(t, opts.delimiter, opts.delimiters, cand.entry.code,
                        cand.start - t.start, cand.end - t.start)
  IN  IF ways = << >> THEN << >> ELSE ways[1]

-----------------------------------------------------------------------------
\* Memorize: what was committed becomes an entry; when it was not made of
\* single characters only, its elements are touched.
MemorizeScript(user, elements) ==
  LET touches == Len(elements) > 1 /\ \E k \in DOMAIN elements : Len(elements[k].code) > 1
      touched == Fold(LAMBDA u, e : UpdateEntry(u, KeyOf(e), 0, FALSE), user, elements)
  IN  UpdateEntry(IF touches THEN touched ELSE user,
                  UserKey(FALSE, ConcatCode(elements), ConcatText(elements)), 1, FALSE)
=============================================================================
