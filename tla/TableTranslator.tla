-------------------------- MODULE TableTranslator ---------------------------
(***************************************************************************)
(* The table translator (librime/src/gear/table_translator.cc): it lists   *)
(* the words whose code is the input or, with completion, starts with it,  *)
(* fetching more of them when it runs out; phrases that the unity encoder  *)
(* (gear/unity_table_encoder.cc) constructed are among those of the user.  *)
(* When it finds none, it makes a sentence of the words the input consists *)
(* of.  Also the reverse lookup translator (gear/                          *)
(* reverse_lookup_translator.cc), a translation of the same kind.          *)
(***************************************************************************)
EXTENDS Script

CONSTANTS
  InitialSearchLimit,  \* LazyTableTranslation::kInitialSearchLimit
  ExpandingFactor      \* LazyTableTranslation::kExpandingFactor

-----------------------------------------------------------------------------
(* The unity encoder.                                                      *)

\* TranslateWord of the encoder: the stems, else the codes of a word.
ReverseTranslate(dict, word) ==
  IF word \in DOMAIN dict.reverse.stems THEN InOrder(dict.reverse.stems[word])
  ELSE InOrder(At(dict.reverse.codes, word, {}))

\* Load: the settings are there only with rules.
EncoderLoaded(dict, opts) == opts.enable_encoder /\ LoadRules(dict.settings.rules) # << >>

\* EncodePhrase with the encoder's CreateEntry.
EncodeUserPhrase(dict, user, phrase, commits) ==
  LET translated == [char \in Range(phrase) |-> ReverseTranslate(dict, << char >>)]
  IN  Fold(LAMBDA u, code : UpdateEntry(u, UserKey(FALSE, << code >>, phrase), commits, TRUE),
               user, TableCodes(dict.settings, translated, phrase))

-----------------------------------------------------------------------------
(* The translation: an iterator over the dictionary, the entries of the    *)
(* user not yet listed, and what is needed to fetch more of both (a limit  *)
(* of 0 says that there are none).                                         *)

TableExhausted(t) == t.iter = << >> /\ t.users = << >>

PrefersUserEntry(t) ==
  /\ t.users # << >>
  /\ t.iter = << >> \/ ~(/\ PeekEntry(t.iter).remaining = 0
                         /\ Head(t.users).remaining # 0 \/ Head(t.users).encoded)

PeekTable(t) ==
  LET e == IF PrefersUserEntry(t) THEN Head(t.users) ELSE PeekEntry(t.iter)
  IN  PhraseCandidate(IF e.remaining = 0 THEN "table" ELSE "completion", t.start, t.length, e)

\* FetchUserPhrases: the exact entries, and the constructed ones.
UserPhrases(t, dict, opts, exact, encoded) ==
  [t EXCEPT !.users  = exact.entries \o IF EncoderLoaded(dict, opts) THEN encoded.entries ELSE << >>,
            !.resume = exact.resume]

FetchUserPhrases(t, dict, user, opts) ==
  UserPhrases(t, dict, opts, UserLookupWords(user, FALSE, t.code, FALSE, 0, << >>),
              UserLookupWords(user, TRUE, t.code, FALSE, 0, << >>))

MoreUserPhrases(t, more) ==
  [t EXCEPT !.users = @ \o more.entries, !.resume = more.resume,
            !.user_limit = IF Len(more.entries) < @ THEN 0 ELSE @ * ExpandingFactor]

FetchMoreUserPhrases(t, user) ==
  IF t.users # << >> \/ t.user_limit = 0 THEN t
  ELSE MoreUserPhrases(t, UserLookupWords(user, FALSE, t.code, TRUE, t.user_limit, t.resume))

\* A wider search lists again what has been listed: that much is skipped.
\* When it brings nothing new there are no more entries.
MoreTableEntries(t, more) ==
  [t EXCEPT !.limit = IF more.keys < @ THEN 0 ELSE @ * ExpandingFactor,
            !.iter  = IF EntryCount(more.iter) <= t.count THEN @ ELSE Skip(more.iter, t.count),
            !.count = Max({@, EntryCount(more.iter)})]

FetchMoreTableEntries(t, dict) ==
  IF t.iter # << >> \/ t.limit = 0 THEN t
  ELSE MoreTableEntries(t, LookupWords(dict, t.code, TRUE, t.limit))

NextTable(t, dict, user) ==
  IF PrefersUserEntry(t) THEN FetchMoreUserPhrases([t EXCEPT !.users = Tail(@)], user)
  ELSE FetchMoreTableEntries([t EXCEPT !.iter = NextEntry(@)], dict)

TableTranslation(input, code, start, iter, users) ==
  [kind |-> "table", input |-> input, code |-> code, start |-> start, length |-> Len(input),
   iter |-> iter, count |-> EntryCount(iter), limit |-> 0,
   users |-> users, user_limit |-> 0, resume |-> << >>]

\* The constructor of LazyTableTranslation; `enabled' is about the user's.
LazyTableTranslation(dict, user, input, code, start, opts, enabled) ==
  LET empty == [TableTranslation(input, code, start, << >>, << >>)
                  EXCEPT !.limit = InitialSearchLimit,
                         !.user_limit = IF enabled THEN InitialSearchLimit ELSE 0]
      exact == IF enabled THEN FetchUserPhrases(empty, dict, user, opts) ELSE empty
  IN  FetchMoreTableEntries(FetchMoreUserPhrases(exact, user), dict)

EagerTableTranslation(dict, user, input, code, start, opts, enabled) ==
  LET words == TableTranslation(input, code, start, LookupWords(dict, code, FALSE, 0).iter, << >>)
  IN  IF enabled THEN [FetchUserPhrases(words, dict, user, opts) EXCEPT !.resume = << >>] ELSE words

-----------------------------------------------------------------------------
(* A sentence of table words, and after it the words the input starts      *)
(* with.                                                                   *)

\* FilterText, of a filter that is on: no rare characters.
Passes(opts, text) == ~opts.charset \/ Range(text) \cap opts.rare = {}

\* The lengths at which words of the user dictionary are looked up: up to the
\* first under which there are no keys.
UserLengths(user, encoded, active) ==
  {len \in 1..Len(active) : \A l \in 1..len : KeysUnder(user, encoded, SubSeq(active, 1, l)) # << >>}

\* The first entry of an iterator that passes the filter, if any.
RECURSIVE FirstPassing(_, _)
FirstPassing(iter, opts) ==
  IF iter = << >> THEN << >>
  ELSE IF Passes(opts, PeekEntry(iter).text) THEN << PeekEntry(iter) >>
  ELSE FirstPassing(NextEntry(iter), opts)

\* What was found at the start of the active input, by the lengths it consumes
\* with the delimiters after it.
ByConsumption(active, found, longest, opts) ==
  LET prefer(lengths) == IF longest THEN Max(lengths) ELSE Min(lengths)
      past(len) == PastDelimiters(active, len, opts.delimiters)
      good == {len \in DOMAIN found : found[len] # << >>}
  IN  [c \in {past(len) : len \in good} |-> found[prefer({len \in good : past(len) = c})]]

\* The user's words, of which the shortest key counts.
UserWordsAt(user, encoded, active, opts) ==
  LET found(len) == UserLookupWords(user, encoded, SubSeq(active, 1, len), FALSE, 0, << >>).entries
      passing(entries) == IF \E k \in DOMAIN entries : Passes(opts, entries[k].text) THEN entries ELSE << >>
  IN  ByConsumption(active, [len \in UserLengths(user, encoded, active) |-> passing(found(len))], FALSE, opts)

EncodedWordsAt(dict, user, active, opts) ==
  IF EncoderLoaded(dict, opts) THEN UserWordsAt(user, TRUE, active, opts) ELSE EmptyMap

\* The dictionary's, of which the longest does.
DictWordsAt(dict, active, opts) ==
  LET found(s) == LookupWords(dict, s, FALSE, 0).iter
      passing(iter) == IF FirstPassing(iter, opts) # << >> THEN iter ELSE << >>
      lengths == {Len(s) : s \in CommonPrefixSearch(dict.prism, active)}
  IN  ByConsumption(active, [len \in lengths |-> passing(found(SubSeq(active, 1, len)))], TRUE, opts)

\* The word that TableTranslator::MakeSentence takes at a position for each
\* length: the user's, a constructed phrase, the dictionary's.  Where the
\* prism has no match, those of the user do not count either.
BestOf(found, opts) == [c \in DOMAIN found |-> SelectSeq(found[c], LAMBDA e : Passes(opts, e.text))[1]]
BestIn(found, opts)  == [c \in DOMAIN found |-> FirstPassing(found[c], opts)[1]]

WordsAt(dict, user, active, opts) ==
  IF CommonPrefixSearch(dict.prism, active) = {} THEN EmptyMap
  ELSE BestOf(UserWordsAt(user, FALSE, active, opts), opts)
         @@ BestOf(EncodedWordsAt(dict, user, active, opts), opts)
         @@ BestIn(DictWordsAt(dict, active, opts), opts)

\* The best sentence up to each position, the later of equals.
BetterTable(best, sentence) ==
  IF sentence.end \in DOMAIN best /\ best[sentence.end].weight > sentence.weight THEN best
  ELSE Put(best, sentence.end, sentence)

ExtendTable(best, start, words) ==
  Fold(LAMBDA b, len : BetterTable(b, Extend(b[start], words[len], start + len)), best,
       Sorted(DOMAIN words, <))

BestSentences(dict, user, input, opts) ==
  LET visit(best, start) ==
        IF start \notin DOMAIN best THEN best
        ELSE ExtendTable(best, start, WordsAt(dict, user, SubSeq(input, start + 1, Len(input)), opts))
  IN  Fold(visit, (0 :> EmptySentence), [k \in 1..Len(input) |-> k - 1])

\* MakeSentence: a list of at most one translation.  The words for manual
\* composition are those at the start of the input.
SentenceTranslation(input, start, best, users, words) ==
  [kind |-> "sentence", input |-> input, start |-> start,
   sentence |-> << SentenceCandidate(best[Len(input)], start) >>,
   users |-> users, words |-> Restrict(words, DOMAIN words \ DOMAIN users)]

Composed(dict, user, input, start, opts, best) ==
  LET users == UserWordsAt(user, FALSE, input, opts) @@ EncodedWordsAt(dict, user, input, opts)
  IN  IF Len(input) \notin DOMAIN best THEN << >>
      ELSE << SentenceTranslation(input, start, best, users, DictWordsAt(dict, input, opts)) >>

MakeTableSentence(dict, user, input, start, opts) ==
  Composed(dict, user, input, start, opts, BestSentences(dict, user, input, opts))

SentenceExhausted(t) == t.sentence = << >> /\ t.words = EmptyMap /\ t.users = EmptyMap

PrefersUserWord(t) == LastEnd(t.users) > 0 /\ LastEnd(t.users) >= LastEnd(t.words)

PeekSentence(t) ==
  IF t.sentence # << >> THEN t.sentence[1]
  ELSE IF PrefersUserWord(t)
  THEN PhraseCandidate("table", t.start, LastEnd(t.users), Head(t.users[LastEnd(t.users)]))
  ELSE PhraseCandidate("table", t.start, LastEnd(t.words), PeekEntry(t.words[LastEnd(t.words)]))

NextSentence(t) ==
  IF t.sentence # << >> THEN [t EXCEPT !.sentence = << >>]
  ELSE IF PrefersUserWord(t) THEN [t EXCEPT !.users = DropFirst(@, Tail(@[LastEnd(@)]))]
  ELSE [t EXCEPT !.words = DropFirst(@, NextEntry(@[LastEnd(@)]))]

-----------------------------------------------------------------------------
\* Memorize: each word; the whole as a constructed phrase; and those that end
\* the history of commits.
HistoryPhrases(history, opts) ==
  LET last == Len(history) - (IF history # << >> /\ history[Len(history)].type = "punct" THEN 1 ELSE 0)
      from(k) == Flat([i \in 1..last - k + 1 |-> history[k + i - 1].text])
      words(k) == \A i \in k..last : history[i].type \in {"table", "sentence"}
      short(k) == Len(from(k)) <= opts.max_phrase_length
      some == Sorted({k \in 1..last - 1 : words(k) /\ short(k)}, >)
  IN  [i \in DOMAIN some |-> from(some[i])]

Constructed(dict, user, phrases, commits) ==
  Fold(LAMBDA u, phrase : EncodeUserPhrase(dict, u, phrase, commits), user, phrases)

MemorizeTable(dict, user, elements, history, opts) ==
  LET blessed == Fold(LAMBDA u, e : UpdateEntry(u, [KeyOf(e) EXCEPT !.encoded = FALSE], 1, FALSE),
                      user, elements)
      whole == IF Len(elements) > 1 THEN << ConcatText(elements) >> ELSE << >>
      past  == IF opts.encode_commit_history THEN HistoryPhrases(history, opts) ELSE << >>
  IN  IF EncoderLoaded(dict, opts) THEN Constructed(dict, Constructed(dict, blessed, whole, 1), past, 0)
      ELSE blessed

-----------------------------------------------------------------------------
(* The reverse lookup translator.                                          *)

WholeWords(graph, code, words) ==
  IF code # << >> /\ graph.interpreted = Len(code) /\ LastEnd(words) = Len(code)
  THEN words[Len(code)] ELSE << >>

ReverseWords(dict, graph, code) == WholeWords(graph, code, Lookup(dict, graph, 0, 0))

ReverseTranslation(dict, input, start, opts) ==
  LET from == IF opts.prefix # << >> /\ IsPrefix(opts.prefix, input) THEN Len(opts.prefix) ELSE 0
      rest == SubSeq(input, from + 1, Len(input))
      ends == opts.suffix # << >> /\ IsSuffix(opts.suffix, rest)
      code == SubSeq(rest, 1, Len(rest) - IF ends THEN Len(opts.suffix) ELSE 0)
      graph == BuildSyllableGraph(dict.prism, code, [opts EXCEPT !.delimiters = {}, !.completion = TRUE])
      iter == IF from >= Len(input) THEN << >>
              ELSE IF opts.completion THEN LookupWords(dict, code, TRUE, 100).iter
              ELSE ReverseWords(dict, graph, code)
  IN  [TableTranslation(input, code, start, iter, << >>) EXCEPT !.kind = "reverse"]

PeekReverse(t) == [PeekTable(t) EXCEPT !.type = "reverse_lookup"]
=============================================================================
