----------------------------- MODULE Collector ------------------------------
(***************************************************************************)
(* How a dictionary source becomes a table: the collector reads the rows   *)
(* of its files (librime/src/dict/entry_collector.cc), words without code  *)
(* and the phrases of the preset vocabulary (preset_vocabulary.cc) are     *)
(* encoded from the codes of their characters (algo/encoder.cc), and       *)
(* BuildTable files what has been collected under its codes.               *)
(*                                                                         *)
(* A text is a sequence of characters (code points), a code a sequence of  *)
(* syllables.  A row has a text, a code (empty: none), a weight that is given ("weight", *)
(* n), in percent of the preset one ("percent", n) or not ("none", 0), a   *)
(* stem (empty: none) and says whether it starts with "#".                 *)
(***************************************************************************)
EXTENDS Spelling

At(f, x, default) == IF x \in DOMAIN f THEN f[x] ELSE default
Put(f, x, v)      == (x :> v) @@ f

\* A sort that leaves equals as they were.
StableSort(seq, Before(_, _)) ==
  LET order == SortSeq([i \in DOMAIN seq |-> i],
                       LAMBDA i, j : \/ Before(seq[i], seq[j])
                                     \/ ~Before(seq[j], seq[i]) /\ i < j)
  IN  [k \in DOMAIN seq |-> seq[order[k]]]

-----------------------------------------------------------------------------
(* Dictionary settings: the columns a file declares decide which fields of *)
(* a row are there; a header needs its name and version.                   *)

LoadDictHeader(file) == {"name", "version"} \subseteq file.header

\* GetColumnIndex: a field that is no column of the file is as if missing.
Field(file, row, label, absent) == IF label \in file.columns THEN row[label] ELSE absent

\* GetTables: the dictionary itself, then what it imports but itself.
GetTables(settings) ==
  << settings.name >> \o SelectSeq(settings.import_tables, LAMBDA t : t # settings.name)

\* The rows that are entries: the text "# no comment" ends the comments.
NoComment == << 35 >>
EntryRows(file) ==
  LET last == SelectInSeq(file.rows, LAMBDA r : r.text = NoComment)
      isComment(k) == file.rows[k].hash /\ (last = 0 \/ k <= last)
      entries == Sorted({k \in DOMAIN file.rows : ~isComment(k) /\ file.rows[k].text # << >>}, <)
  IN  [k \in DOMAIN entries |-> file.rows[entries[k]]]

-----------------------------------------------------------------------------
(* The preset vocabulary, a sequence of phrases and weights in the order   *)
(* of the cursor.                                                          *)

GetWeightForEntry(preset, text) ==
  LET k == SelectInSeq(preset, LAMBDA p : p.text = text)
  IN  IF k = 0 THEN 0 ELSE preset[k].weight

IsQualifiedPhrase(settings, p) ==
  /\ settings.max_phrase_length > 0 => Len(p.text) <= settings.max_phrase_length
  /\ settings.min_phrase_weight > 0 => p.weight >= settings.min_phrase_weight

\* GetNextEntry, to the end.
QualifiedPhrases(settings, preset) ==
  SelectSeq(preset, LAMBDA p : IsQualifiedPhrase(settings, p))

LoadPresetVocabulary(settings, preset) ==
  IF settings.use_preset_vocabulary THEN preset ELSE << >>

-----------------------------------------------------------------------------
(* The collector.                                                          *)

NewCollector(preset) ==
  [collection |-> {}, words |-> EmptyMap, total |-> EmptyMap, stems |-> EmptyMap,
   syllabary |-> {}, entries |-> << >>, queue |-> << >>, preset |-> preset]

\* The weight CreateEntry makes out of the column.
EntryWeight(c, text, weight) ==
  CASE weight.kind = "none"    -> GetWeightForEntry(c.preset, text)
    [] weight.kind = "percent" -> (GetWeightForEntry(c.preset, text) * weight.n) \div 100
    [] weight.kind = "weight"  -> weight.n

\* A second definition of a word with the same code is refused, but its
\* syllables are learnt.
CreateEntry(c, text, code, weight) ==
  LET w      == EntryWeight(c, text, weight)
      known  == At(c.words, text, EmptyMap)
      isWord == Len(code) = 1
      learnt == [c EXCEPT !.syllabary = @ \cup Range(code)]
      filed  == [learnt EXCEPT !.entries = Append(@, [text |-> text, code |-> code, weight |-> w])]
  IN  IF ~isWord THEN filed
      ELSE IF code[1] \in DOMAIN known THEN learnt
      ELSE [filed EXCEPT !.words = Put(@, text, Put(known, code[1], w)),
                         !.total = Put(@, text, At(@, text, 0) + w)]

\* One row of Collect.
CollectRow(file, c, row) ==
  LET code   == Field(file, row, "code", << >>)
      weight == Field(file, row, "weight", [kind |-> "none", n |-> 0])
      stem   == Field(file, row, "stem", << >>)
      seen   == [c EXCEPT !.collection = @ \cup {row.text}]
      entered == IF code # << >> THEN CreateEntry(seen, row.text, code, weight)
                 ELSE [seen EXCEPT !.queue = Append(@, [text |-> row.text, weight |-> weight])]
  IN  IF stem = << >> \/ code = << >> THEN entered
      ELSE [entered EXCEPT !.stems = Put(@, row.text, At(@, row.text, {}) \cup {stem})]

Collect(c, file) ==
  IF ~LoadDictHeader(file) \/ "text" \notin file.columns THEN c
  ELSE Fold(LAMBDA d, row : CollectRow(file, d, row), c, EntryRows(file))

\* TranslateWord: the stems of a word, else its codes of at least 5 percent.
TranslateWord(c, word) ==
  IF word \in DOMAIN c.stems THEN InOrder(c.stems[word])
  ELSE LET codes == At(c.words, word, EmptyMap)
       IN  InOrder({x \in DOMAIN codes : codes[x] * 20 >= c.total[word]})

-----------------------------------------------------------------------------
(* The encoder of phrases of a script: every way to cut the phrase into    *)
(* words, the longest first, and every code of each.                       *)

RECURSIVE ScriptCodes(_, _, _)
ScriptCodes(c, phrase, start) ==
  IF start = Len(phrase) THEN << << >> >>
  ELSE LET left == Len(phrase) - start
           from(k) == LET word == SubSeq(phrase, start + 1, start + k)
                          codes == TranslateWord(c, word)
                          rest == IF codes = << >> THEN << >> ELSE ScriptCodes(c, phrase, start + k)
                      IN  Flat([i \in DOMAIN codes |->
                                        [j \in DOMAIN rest |-> << codes[i] >> \o rest[j]]])
       IN  Flat([i \in 1..left |-> from(left + 1 - i)])

(* The encoder by rules, for tables.  A rule has the least and the most    *)
(* characters of its words and coordinates; a coordinate counts from 0, or *)
(* from the end when negative.                                             *)

\* ParseFormula: two letters for each coordinate.
ParseFormula(formula) ==
  /\ Len(formula) % 2 = 0
  /\ \A k \in DOMAIN formula : formula[k].upper = (k % 2 = 1)

\* LoadSettings: a rule is dropped for its formula or an invalid range.
LoadRules(rules) == SelectSeq(rules, LAMBDA r : ParseFormula(r.formula) /\ r.min <= r.max)

\* The coordinates of a rule: past U, or u, the letters count from the end.
Coords(rule) ==
  LET index(l) == IF l.place >= 20 THEN l.place - 26 ELSE l.place
  IN  [k \in 1..Len(rule.formula) \div 2 |->
         [char |-> index(rule.formula[2 * k - 1]), code |-> index(rule.formula[2 * k])]]

\* CalculateCodeIndex: tail anchors do not count; from the end, the first of
\* them past `start' is where the end is.
CalculateCodeIndex(anchors, code, index, start) ==
  LET n == Len(code)
      tails == {k \in start + 1..n - 1 : code[k + 1] \in anchors}
      letters == {k \in 0..n - 1 : code[k + 1] \notin anchors}
      back[i \in Nat] == IF i = 0 THEN (IF tails = {} THEN n ELSE Min(tails)) - 1
                         ELSE LET k == back[i - 1]
                              IN  Max({j \in letters : j < k} \cup {Min({k - 1, -1})})
      forth[i \in Nat] == IF i = 0 THEN 0
                          ELSE LET k == forth[i - 1]
                               IN  Min({j \in letters : j > k} \cup {Max({k + 1, n})})
  IN  IF index < 0 THEN back[-index - 1] ELSE forth[index]

\* One coordinate of Encode: what it adds to the result, unless it is not
\* there or would repeat or go back.
EncodeAt(word, e, current, char, code) ==
  LET repeats == /\ current.char < 0 \/ current.code < 0
                 /\ char = e.encoded.char /\ code <= e.encoded.code
                 /\ current # e.previous
  IN  IF code \notin 0..Len(word[char + 1]) - 1 \/ repeats THEN e
      ELSE [result   |-> Append(e.result, word[char + 1][code + 1]),
            previous |-> current, encoded |-> [char |-> char, code |-> code]]

EncodeOne(anchors, word, e, current) ==
  LET char  == IF current.char < 0 THEN current.char + Len(word) ELSE current.char
      there == char \in 0..Len(word) - 1 /\ (current.char < 0 => char >= e.encoded.char)
      start == IF char = e.encoded.char THEN e.encoded.code + 1 ELSE 0
  IN  IF ~there THEN e
      ELSE EncodeAt(word, e, current, char, CalculateCodeIndex(anchors, word[char + 1], current.code, start))

\* Encode: the first rule for this length that gives anything; empty if none.
EncodeBy(settings, word, rule) ==
  LET origin == [char |-> 0, code |-> 0]
  IN  Fold(LAMBDA e, coord : EncodeOne(settings.tail_anchor, word, e, coord),
           [result |-> << >>, previous |-> origin, encoded |-> origin], Coords(rule)).result

Encode(settings, word) ==
  LET fitting == SelectSeq(LoadRules(settings.rules), LAMBDA r : Len(word) \in r.min..r.max)
      results == [k \in DOMAIN fitting |-> EncodeBy(settings, word, fitting[k])]
  IN  Flat(Foremost(SelectSeq(results, LAMBDA r : r # << >>)))

\* TableEncoder::DfsEncode: one code that is not excluded for each character.
RECURSIVE CharCodes(_, _, _)
CharCodes(translated, excluded, phrase) ==
  IF phrase = << >> THEN << << >> >>
  ELSE LET codes == SelectSeq(translated[Head(phrase)], LAMBDA x : x \notin excluded)
           rest  == CharCodes(translated, excluded, Tail(phrase))
       IN  Flat([i \in DOMAIN codes |-> [j \in DOMAIN rest |-> << codes[i] >> \o rest[j]]])

Encoded(settings, codes) ==
  SelectSeq([k \in DOMAIN codes |-> Encode(settings, codes[k])], LAMBDA x : x # << >>)

TableCodes(settings, translated, phrase) ==
  Encoded(settings, CharCodes(translated, settings.exclude_patterns, phrase))

\* Configure: a dictionary with rules is a table.
UsesRules(settings) == settings.rules # << >>

EncodePhrase(settings, c, phrase, weight) ==
  LET translated == [char \in Range(phrase) |-> TranslateWord(c, << char >>)]
      single(strings) == [k \in DOMAIN strings |-> << strings[k] >>]
      codes == IF UsesRules(settings) THEN single(TableCodes(settings, translated, phrase))
               ELSE ScriptCodes(c, phrase, 0)
  IN  Fold(LAMBDA d, code : CreateEntry(d, phrase, code, weight), c, codes)

\* Finish: the words without code, then the preset phrases not yet there.
Finish(settings, c) ==
  LET queued == Fold(LAMBDA d, q : EncodePhrase(settings, d, q.text, q.weight),
                         [c EXCEPT !.queue = << >>], c.queue)
      fresh  == SelectSeq(QualifiedPhrases(settings, c.preset),
                          LAMBDA p : p.text \notin c.collection)
  IN  Fold(LAMBDA d, p : EncodePhrase(settings, d, p.text, [kind |-> "weight", n |-> p.weight]),
               queued, fresh)

\* Collect of the files of the tables, those that are there.
CollectAll(settings, preset, files) ==
  LET tables == SelectSeq(GetTables(settings), LAMBDA t : t \in DOMAIN files)
  IN  Finish(settings, Fold(LAMBDA c, t : Collect(c, files[t]),
                            NewCollector(LoadPresetVocabulary(settings, preset)), tables))

-----------------------------------------------------------------------------
(* BuildTable.  The index of a code has its first three syllables; longer  *)
(* codes share a page at the third level (LocateEntries).                  *)

IndexCodeMaxLength == 3

CreateIndex(code) == SubSeq(code, 1, Min({IndexCodeMaxLength, Len(code)}))

PageOf(code) == [index |-> CreateIndex(code), tail |-> Len(code) > IndexCodeMaxLength]

\* DictEntry's order, and SortHomophones unless the order is the original.
HeavierEntry(e, f) == e.weight > f.weight

BuildPages(settings, entries) ==
  LET at(page) == SelectSeq(entries, LAMBDA e : PageOf(e.code) = page)
  IN  [page \in {PageOf(entries[k].code) : k \in DOMAIN entries} |->
         IF settings.sort = "original" THEN at(page) ELSE StableSort(at(page), HeavierEntry)]

\* ReverseLookupDictionary::Build: the codes of the words, and the stems.
BuildReverseTable(c) ==
  LET words == SelectSeq(c.entries, LAMBDA e : Len(e.code) = 1)
  IN  [codes |-> [text \in {words[k].text : k \in DOMAIN words} |->
                    {words[k].code[1] : k \in {i \in DOMAIN words : words[i].text = text}}],
       stems |-> c.stems]

Dictionary(settings, c, algebra) ==
  [settings  |-> settings,
   syllabary |-> c.syllabary,
   pages     |-> BuildPages(settings, c.entries),
   reverse   |-> BuildReverseTable(c),
   prism     |-> Project(algebra, c.syllabary)]

CompileDictionary(settings, preset, files, algebra) ==
  Dictionary(settings, CollectAll(settings, preset, files), algebra)
=============================================================================
