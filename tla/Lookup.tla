------------------------------- MODULE Lookup -------------------------------
(***************************************************************************)
(* The composition of the look-up: a schema compiles its dictionary and    *)
(* has one of the translators, whose candidates pass the simplifier and    *)
(* are listed as the menu asks for them.  The user types, erases, selects  *)
(* the words of the input from left to right and deletes what was learnt.  *)
(* When the last word has been selected the whole is committed, or more is *)
(* typed and selected before it is; then the translator memorizes it       *)
(* (librime/src/gear/memory.cc).                                           *)
(*                                                                         *)
(* A Translator's Query is asked about the input from the start of the     *)
(* last segment; the segmentation itself is the module Segmentation's.     *)
(***************************************************************************)
EXTENDS TableTranslator

CONSTANT
  Schemas      \* a sequence of schemas; auto_commit is FALSE with the fluency
               \* editor; each bounds the input (max_input) and the commits
               \* and deletions (max_changes)

VARIABLES
  schema,      \* which schema is in use
  dict,        \* its dictionary
  user,        \* the user dictionary
  history,     \* commit_history
  input,       \* Context::input_
  chosen,      \* the candidates selected so far
  translation, \* of the rest of the input: a sequence of at most one
  listed,      \* the candidates the menu has taken from it
  changes      \* commits and deletions

vars == << schema, dict, user, history, input, chosen, translation, listed, changes >>

\* The files of a schema, once they are deployed.
Compiled(s) == CompileDictionary(s.settings, s.preset, s.files, s.algebra)

Opts == Schemas[schema].opts

-----------------------------------------------------------------------------
(* A translation of whatever kind, with the filters around it: a record    *)
(* with the texts it has listed.                                           *)

Exhausted(t) ==
  CASE t.kind = "script"   -> ScriptExhausted(t)
    [] t.kind = "sentence" -> SentenceExhausted(t)
    [] OTHER               -> TableExhausted(t)

Peek(t) ==
  CASE t.kind = "script"   -> PeekScript(t)
    [] t.kind = "sentence" -> PeekSentence(t)
    [] t.kind = "reverse"  -> PeekReverse(t)
    [] OTHER               -> PeekTable(t)

Advance(t, u) ==
  CASE t.kind = "script"   -> NextScript(t)
    [] t.kind = "sentence" -> NextSentence(t)
    [] OTHER               -> NextTable(t, dict, u)

\* UniqueFilter::Next around CharsetFilter::LocateNextCandidate (the table
\* translator's): past what is filtered and what has been listed.  A reverse
\* look-up has no filter.
Passing(t, texts) ==
  /\ t.kind # "reverse" => Peek(t).text \notin texts
  /\ t.kind \in {"table", "sentence"} => Passes(Opts, Peek(t).text)

RECURSIVE LocateNextCandidate(_, _, _)
LocateNextCandidate(t, u, texts) ==
  IF Exhausted(t) \/ Passing(t, texts) THEN t ELSE LocateNextCandidate(Advance(t, u), u, texts)

-----------------------------------------------------------------------------
(* The translators' Query, about a segment that has their tag: a sequence  *)
(* of at most one translation, none when it is exhausted at once.          *)

\* TranslatorOptions::IsUserDictDisabledFor.
EnablesUserDict(text) == text \notin Opts.disable_user_dict_for_patterns

\* The first of these translations that is not exhausted at once.
Located(ts, u) ==
  LET found == [k \in DOMAIN ts |-> LocateNextCandidate(ts[k], u, {})]
  IN  Foremost(SelectSeq(found, LAMBDA t : ~Exhausted(t)))

QueryScript(u, text, start) ==
  Located(<< Evaluate(dict, IF EnablesUserDict(text) THEN u ELSE EmptyMap, text, start, Opts) >>, u)

CodeLength(text) == CHOOSE n \in 0..Len(text) :
                      /\ \A k \in n + 1..Len(text) : text[k] \in Opts.delimiters
                      /\ n > 0 => text[n] \notin Opts.delimiters

QueryTable(u, text, start) ==
  LET code    == SubSeq(text, 1, CodeLength(text))
      enabled == EnablesUserDict(text)
      words == IF Opts.completion THEN LazyTableTranslation(dict, u, text, code, start, Opts, enabled)
               ELSE EagerTableTranslation(dict, u, text, code, start, Opts, enabled)
      sentence == IF Opts.enable_sentence THEN MakeTableSentence(dict, u, text, start, Opts) ELSE << >>
  IN  Located(<< words >> \o sentence, u)

QueryReverse(u, text, start) == Located(<< ReverseTranslation(dict, text, start, Opts) >>, u)

Queried(u, text, start) ==
  IF text = << >> THEN << >>
  ELSE CASE Schemas[schema].translator = "script"  -> QueryScript(u, text, start)
         [] Schemas[schema].translator = "table"   -> QueryTable(u, text, start)
         [] Schemas[schema].translator = "reverse" -> QueryReverse(u, text, start)

-----------------------------------------------------------------------------
(* The menu.                                                               *)

\* Simplifier::Convert: the forms of a character or the form of a phrase, as
\* shadows of the candidate; a candidate that needs none is left.
Simplified(cand) ==
  LET forms == Schemas[schema].opencc
      shadow(form) == IF form = cand.text THEN [type |-> cand.type, text |-> form, genuine |-> cand]
                      ELSE [type |-> "simplified", text |-> form, genuine |-> cand]
  IN  IF cand.text \in DOMAIN forms /\ cand.type \notin Opts.excluded_types
      THEN [k \in DOMAIN forms[cand.text] |-> shadow(forms[cand.text][k])]
      ELSE << [type |-> cand.type, text |-> cand.text, genuine |-> cand] >>

\* EchoTranslation, listed when there is nothing else.
EchoCandidate(text, start) ==
  LET raw == [type |-> "raw", start |-> start, end |-> start + Len(text), text |-> << >>,
              elements |-> << >>]
  IN  [type |-> "raw", text |-> raw.text, genuine |-> raw]

Start == IF chosen = << >> THEN 0 ELSE chosen[Len(chosen)].genuine.end
Active == SubSeq(input, Start + 1, Len(input))

AllListed == translation = << >> \/ Exhausted(translation[1])

-----------------------------------------------------------------------------
Init ==
  /\ schema \in DOMAIN Schemas /\ dict = Compiled(Schemas[schema])
  /\ user = EmptyMap /\ history = << >>
  /\ input = << >> /\ chosen = << >> /\ translation = << >> /\ listed = << >>
  /\ changes = 0

Type ==
  /\ Len(input) < Schemas[schema].max_input
  /\ \E c \in Schemas[schema].letters : input' = Append(input, c)
  /\ UNCHANGED << user, history, chosen, changes >>

\* Context::PopInput, within the last segment.
BackSpace ==
  /\ Active # << >> /\ input' = Front(input)
  /\ UNCHANGED << user, history, chosen, changes >>

\* One more candidate for the menu.
Fetch ==
  /\ ~AllListed
  /\ LET t     == translation[1]
         texts == {Peek(t).text} \cup {listed[k].genuine.text : k \in DOMAIN listed}
     IN  /\ listed' = listed \o Simplified(Peek(t))
         /\ translation' = << LocateNextCandidate(Advance(t, user), user, texts) >>
  /\ UNCHANGED << schema, dict, user, history, input, chosen, changes >>

\* CommitHistory::Push: adjacent texts of a type are joined, until one that is
\* confirmed terminates the record.
Pushed(selected) ==
  Fold(LAMBDA h, cand :
         LET joins == h # << >> /\ h[Len(h)].open /\ h[Len(h)].type = cand.type
         IN  Append(IF joins THEN Front(h) ELSE h,
                    [type |-> cand.type, open |-> ~cand.confirmed,
                     text |-> IF joins THEN h[Len(h)].text \o cand.text ELSE cand.text]),
       history, selected)

Settled(h) == [k \in DOMAIN h |-> [h[k] EXCEPT !.open = FALSE]]

\* The genuine candidate is a phrase of this translator's language.
IsPhrase(cand) == cand.genuine.type \notin {"raw", "reverse_lookup"}

\* Memory::OnCommit: the elements of the phrases are one entry up to a segment
\* that is confirmed or is no phrase; what is left in the end is not saved.
Memorized(u, selected) ==
  LET Save(m) ==
        IF m.elements = << >> THEN m
        ELSE [elements |-> << >>,
              user |-> IF Schemas[schema].translator = "script" THEN MemorizeScript(m.user, m.elements)
                       ELSE MemorizeTable(dict, m.user, m.elements, Pushed(selected), Opts)]
      Gathered(m, cand) ==
        IF ~IsPhrase(cand) THEN Save(m)
        ELSE LET more == [m EXCEPT !.elements = @ \o cand.genuine.elements]
             IN  IF cand.confirmed THEN Save(more) ELSE more
  IN  Fold(Gathered, [user |-> u, elements |-> << >>], selected).user

Committed(selected) ==
  /\ changes < Schemas[schema].max_changes /\ changes' = changes + 1
  /\ user' = Memorized(user, selected)
  /\ history' = Settled(Pushed(selected))
  /\ input' = << >> /\ chosen' = << >>

\* A candidate that reaches the end is confirmed by ConcreteEngine::OnSelect,
\* which commits it unless the editor is the fluency editor.
Select ==
  \E k \in DOMAIN listed :
    LET finished == listed[k].genuine.end = Len(input)
        selected == Append(chosen, [confirmed |-> finished] @@ listed[k])
    IN  \/ /\ ~(finished /\ Schemas[schema].auto_commit)
           /\ chosen' = selected
           /\ UNCHANGED << user, history, input, changes >>
        \/ finished /\ Schemas[schema].auto_commit /\ Committed(selected)

\* Space in the fluency editor, when there is nothing left to select.
Commit == chosen # << >> /\ Active = << >> /\ Committed(chosen)

\* Memory::OnDeleteEntry: a phrase is marked as deleted in the user
\* dictionary, also one that is only in the other; the menu is made anew.
DeleteEntry ==
  /\ changes < Schemas[schema].max_changes /\ changes' = changes + 1
  /\ \E k \in DOMAIN listed :
       /\ IsPhrase(listed[k])
       /\ user' = UpdateEntry(user, KeyOf(listed[k].genuine.entry), -1, FALSE)
  /\ UNCHANGED << history, input, chosen >>

\* What a change of the composition makes of the translation and the menu.
Compose ==
  /\ \E found \in {Queried(user', Active', Start')} :
       /\ translation' = found
       /\ listed' = IF Active' # << >> /\ found = << >> THEN << EchoCandidate(Active', Start') >>
                    ELSE << >>
  /\ UNCHANGED << schema, dict >>

Edit == Type \/ BackSpace \/ Select \/ Commit \/ DeleteEntry
Next == (Edit /\ Compose) \/ Fetch

Spec == Init /\ [][Next]_vars

-----------------------------------------------------------------------------
(* The words there are.                                                    *)

DictWords == UNION {Range(dict.pages[p]) : p \in DOMAIN dict.pages}
UserWords(encoded) == {k \in DOMAIN user : k.encoded = encoded /\ user[k] >= 0}

\* The readings of an input as a sequence of normally or fuzzily spelt
\* syllables, each with the position where it ends: as the algebra allows,
\* not as the syllabifier finds them.
RECURSIVE Readings(_, _)
Readings(text, pos) ==
  LET spelt(e) ==
        {y \in dict.syllabary :
           \E s \in DOMAIN dict.prism :
             /\ y \in DOMAIN dict.prism[s] /\ dict.prism[s][y].type <= FuzzySpelling
             /\ IsPrefix(s, SubSeq(text, pos + 1, e))
             /\ \A k \in pos + Len(s) + 1..e : text[k] \in Opts.delimiters}
      ends == {e \in pos + 1..Len(text) : e < Len(text) => text[e + 1] \notin Opts.delimiters}
  IN  IF pos = Len(text) THEN {<< >>}
      ELSE UNION {{<< [syllable |-> y, end |-> e] >> \o r : y \in spelt(e), r \in Readings(text, e)} : e \in ends}

\* A single fuzzy syllable for all of the input is what strict spelling bars.
Allowed(reading) == ~Opts.strict \/ Len(reading) > 1

\* What a reading makes of the beginning of the input is listed: every word
\* of the dictionary and of the user dictionary, learnt words included, that
\* is written with the first syllables of a normal or fuzzy reading of the
\* whole input has a candidate at least as long (user_dictionary.cc:182-187
\* promises that going back in the scan finds both aaa'b and aa'ab; the
\* pruning of the graph must not lose a way either).
EveryWordIsFound ==
  Schemas[schema].translator = "script" /\ AllListed /\ Active # << >> /\ EnablesUserDict(Active) =>
    \A reading \in {r \in Readings(Active, 0) : Allowed(r)} :
      \A word \in DictWords \cup UserWords(FALSE) :
        IsPrefix(word.code, [k \in DOMAIN reading |-> reading[k].syllable]) =>
          \E k \in DOMAIN listed :
            /\ listed[k].genuine.text = word.text
            /\ listed[k].genuine.end >= Start + reading[Len(word.code)].end

\* The preedit of every candidate of a script is the input it stands for, cut
\* into as many syllables as it has (DelimitSyllablesDfs: an empty preedit
\* would be the outcome of a code that the edges do not spell, while it was
\* found by the transposed index, or in a stale place).
PreeditIsSpelt ==
  translation # << >> /\ Schemas[schema].translator = "script" =>
    \A k \in DOMAIN listed :
      LET cand    == listed[k].genuine
          preedit == GetPreedit(translation[1], Opts, cand)
          spoken(s) == SelectSeq(s, LAMBDA c : c \notin Opts.delimiters)
      IN  /\ preedit # << >>
          /\ spoken(preedit) = spoken(SubSeq(input, cand.start + 1, cand.end))
          /\ Len(preedit) >= cand.end - cand.start

\* A table lists all there is: when its translation says that it has obtained
\* all entries, the candidates are the words whose code is the input, or with
\* completion starts with it, with those of the user and the constructed
\* phrases; whatever the widening searches and the resumed scans fetched, no
\* word is skipped between two of them and none made up.
EveryExtensionIsFound ==
  (/\ Schemas[schema].translator = "table" /\ translation # << >> /\ AllListed
   /\ translation[1].kind = "table" /\ translation[1].limit = 0 /\ translation[1].user_limit = 0
   /\ EnablesUserDict(Active)) =>
    LET code == translation[1].code
        fits(s) == IF Opts.completion THEN IsPrefix(code, s) ELSE s = code
        words == {w.text : w \in {v \in DictWords :
                    \E s \in DOMAIN dict.prism :
                      /\ fits(s) /\ v.code[1] \in DOMAIN dict.prism[s] /\ Len(v.code) = 1
                      /\ dict.prism[s][v.code[1]].type = NormalSpelling}}
        users == {k.text : k \in {v \in UserWords(FALSE) : fits(v.code[1])}}
        built == {k.text : k \in {v \in UserWords(TRUE) : EncoderLoaded(dict, Opts) /\ v.code[1] = code}}
    IN  {listed[k].genuine.text : k \in DOMAIN listed}
          = {text \in words \cup users \cup built : Passes(Opts, text)}
=============================================================================
