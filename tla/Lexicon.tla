------------------------------ MODULE Lexicon -------------------------------
(***************************************************************************)
(* Looking words up: by a graph of syllables (Table::Query and             *)
(* Dictionary::Lookup; UserDictionary::Lookup) or by the letters of a code *)
(* (LookupWords), in a compiled dictionary and in a user dictionary.  What *)
(* is found in the first stays in chunks, records of entries of one code   *)
(* with a cursor, that an iterator serves the best head first; of the      *)
(* second it is a sequence of entries.                                     *)
(*                                                                         *)
(* The weight of an entry that has been found is the binary logarithm of   *)
(* the code's weight, rounded down.                                        *)
(***************************************************************************)
EXTENDS Collector

-----------------------------------------------------------------------------
(* The table.  A visitor has walked an index code; it accesses the entries *)
(* of one more syllable, or at the last level those of all longer codes.   *)

EntriesAt(table, page) == At(table.pages, page, << >>)

\* TableVisitor::Access and Walk.
Access(table, code, y) == EntriesAt(table, [index |-> Append(code, y), tail |-> FALSE])
AccessTail(table, code) == EntriesAt(table, [index |-> code, tail |-> TRUE])
CanWalk(table, code) ==
  \E page \in DOMAIN table.pages :
    \/ IsStrictPrefix(code, page.index)
    \/ page.tail /\ page.index = code

\* One visitor of Table::Query: the entries it accesses, with their ends, and
\* the visitors that walk on.  A word is as credible as the way to its last
\* syllable, without that one's own.
Accessed(table, graph, v) ==
  IF v.pos \notin DOMAIN graph.edges THEN << >>
  ELSE IF Len(v.code) = IndexCodeMaxLength
  THEN << [end |-> v.pos, code |-> v.code, halvings |-> v.halvings, tail |-> TRUE,
           entries |-> AccessTail(table, v.code)] >>
  ELSE LET syllables == InOrder(Starting(graph, v.pos))
           of(y) == [i \in DOMAIN EndsOf(graph, v.pos, y) |->
                       [end |-> EndsOf(graph, v.pos, y)[i], code |-> Append(v.code, y),
                        halvings |-> v.halvings, tail |-> FALSE,
                        entries |-> Access(table, v.code, y)]]
       IN  Flat([k \in DOMAIN syllables |-> of(syllables[k])])

Walked(table, graph, v) ==
  IF v.pos \notin DOMAIN graph.edges \/ Len(v.code) = IndexCodeMaxLength THEN << >>
  ELSE LET syllables == SelectSeq(InOrder(Starting(graph, v.pos)),
                                  LAMBDA y : CanWalk(table, Append(v.code, y)))
           ends(y) == SelectSeq(EndsOf(graph, v.pos, y), LAMBDA e : e < graph.interpreted)
           of(y) == [i \in DOMAIN ends(y) |->
                       [pos |-> ends(y)[i], code |-> Append(v.code, y),
                        halvings |-> v.halvings + graph.edges[v.pos][ends(y)[i]][y].halvings]]
       IN  Flat([k \in DOMAIN syllables |-> of(syllables[k])])

\* Table::Query, level by level as the queue has them: the visitors of an
\* empty code, then of one syllable, up to the longest of the index.
Walks(table, graph, start) ==
  LET walk(visitors) == Flat([i \in DOMAIN visitors |-> Walked(table, graph, visitors[i])])
  IN  Fold(LAMBDA levels, k : Append(levels, walk(levels[k])),
           << << [pos |-> start, code |-> << >>, halvings |-> 0] >> >>,
           [k \in 1..IndexCodeMaxLength |-> k])

AccessedBy(table, graph, visitors) ==
  SelectSeq(Flat([i \in DOMAIN visitors |-> Accessed(table, graph, visitors[i])]),
            LAMBDA a : a.entries # << >>)

Query(table, graph, start) ==
  IF start >= graph.interpreted THEN << >>
  ELSE AccessedBy(table, graph, Flat(Walks(table, graph, start)))

-----------------------------------------------------------------------------
(* The iterator of a dictionary: a sequence of chunks.                     *)

Chunk(entries, halvings, remaining) ==
  [entries |-> entries, cursor |-> 0, halvings |-> halvings, remaining |-> remaining]

HeadOf(chunk) == chunk.entries[chunk.cursor + 1]

\* compare_chunk_by_head_element.  No weight is 2^20 times another.
BetterChunk(a, b) ==
  LET gap(c, d) == 2 ^ Max({0, Min({20, c.halvings - d.halvings})})
  IN  IF a.remaining # b.remaining THEN a.remaining < b.remaining
      ELSE HeadOf(a).weight * gap(b, a) > HeadOf(b).weight * gap(a, b)

SortChunks(iter) == StableSort(iter, BetterChunk)

\* The binary logarithm of 10^8, by which weights are scaled.
Scale == 27
Log2(n) == CHOOSE k \in 0..n : 2 ^ k <= n /\ n < 2 ^ (k + 1)

\* PrepareEntry and Peek, of an iterator that is not exhausted.
PeekEntry(iter) ==
  LET chunk == Head(iter)
      e     == HeadOf(chunk)
  IN  [text |-> e.text, code |-> e.code, custom |-> << >>, remaining |-> chunk.remaining,
       encoded |-> FALSE,
       weight |-> Log2(e.weight + 1) - Scale - chunk.halvings]

\* Next: another head may be the best now.
NextEntry(iter) ==
  LET chunk == Head(iter)
  IN  IF chunk.cursor + 1 >= Len(chunk.entries) THEN Tail(iter)
      ELSE SortChunks(<< [chunk EXCEPT !.cursor = @ + 1] >> \o Tail(iter))

EntryCount(iter) == Fold(LAMBDA n, chunk : n + Len(chunk.entries), 0, iter)

\* Fault: chunks are skipped, not entries.
RECURSIVE Skip_WholeChunks(_, _)
Skip_WholeChunks(iter, n) ==
  IF n = 0 \/ iter = << >> THEN iter ELSE Skip_WholeChunks(Tail(iter), n - 1)

\* Skip, of an iterator just filled: chunk by chunk, in the order they are in.
RECURSIVE Skip(_, _)
Skip(iter, n) ==
  IF n = 0 \/ iter = << >> THEN iter
  ELSE LET left == Len(Head(iter).entries) - Head(iter).cursor
       IN  IF n < left THEN << [Head(iter) EXCEPT !.cursor = @ + n] >> \o Tail(iter)
           ELSE Skip(Tail(iter), n - left)

\* match_extra_code: the farthest end at which the rest of a long code can
\* be read; 0 if it cannot.
RECURSIVE MatchExtraCode(_, _, _)
MatchExtraCode(graph, extra, pos) ==
  IF extra = << >> THEN pos
  ELSE IF pos >= graph.interpreted \/ pos \notin DOMAIN graph.edges THEN 0
  ELSE Max({0} \cup {MatchExtraCode(graph, Tail(extra), e) :
                       e \in {d \in DOMAIN graph.edges[pos] : Head(extra) \in DOMAIN graph.edges[pos][d]}})

\* Dictionary::Lookup: the chunks at each end, sorted.  The words of long
\* codes are at the farthest end they reach only, one to a chunk.
ChunksOf(graph, a, halvings) ==
  LET extra(e) == SubSeq(e.code, IndexCodeMaxLength + 1, Len(e.code))
  IN  IF a.tail
      THEN SelectSeq([i \in DOMAIN a.entries |->
                        [end   |-> MatchExtraCode(graph, extra(a.entries[i]), a.end),
                         chunk |-> Chunk(<< a.entries[i] >>, a.halvings + halvings, 0)]],
                     LAMBDA c : c.end # 0)
      ELSE << [end |-> a.end, chunk |-> Chunk(a.entries, a.halvings + halvings, 0)] >>

ByEnd(all) ==
  LET at(e) == SelectSeq(all, LAMBDA c : c.end = e)
      chunks(cs) == SortChunks([k \in DOMAIN cs |-> cs[k].chunk])
  IN  [e \in {all[k].end : k \in DOMAIN all} |-> chunks(at(e))]

\* The accessors come in the order of their ends.
Lookup(table, graph, start, halvings) ==
  LET chunks(found) == Flat([k \in DOMAIN found |-> ChunksOf(graph, found[k], halvings)])
  IN  ByEnd(chunks(StableSort(Query(table, graph, start), LAMBDA a, b : a.end < b.end)))

\* Dictionary::LookupWords: the words of the syllables that are normally spelt
\* with the letters, or with more of them, and how many spellings there were.
WordsOf(table, input, predictive, keys) ==
  LET syllables(key) == InOrder({y \in DOMAIN QuerySpelling(table.prism, key) :
                                   table.prism[key][y].type = NormalSpelling})
      rest(key, y) == IF predictive /\ Len(key) > Len(input) /\ Len(y) > Len(input)
                      THEN Len(y) - Len(input) ELSE 0
      chunks(key, ys) == [k \in DOMAIN ys |-> Chunk(Access(table, << >>, ys[k]), 0, rest(key, ys[k]))]
      all == [k \in DOMAIN keys |-> chunks(keys[k], syllables(keys[k]))]
  IN  [iter |-> SelectSeq(Flat(all), LAMBDA c : c.entries # << >>), keys |-> Len(keys)]

LookupWords(table, input, predictive, limit) ==
  WordsOf(table, input, predictive,
          IF predictive THEN ExpandSearch(table.prism, input, limit)
          ELSE IF QuerySpelling(table.prism, input) # EmptyMap THEN << input >> ELSE << >>)

-----------------------------------------------------------------------------
(* The user dictionary: a map from keys to the number of commits (negative *)
(* for a deleted entry).  A key has a code, a text, and whether it has the *)
(* prefix of a phrase that the encoder constructed.                        *)

UserKey(encoded, code, text) == [encoded |-> encoded, code |-> code, text |-> text]

\* The code of an entry's key: what it was found by, or its syllables.
KeyCode(e) == IF e.custom # << >> THEN e.custom ELSE e.code
KeyOf(e)   == UserKey(e.encoded, KeyCode(e), e.text)

\* UpdateEntry.  When the key is not there and a prefix is given, the entry
\* with the prefix is written afresh, whatever it had.
UpdateEntry(user, key, commits, prefixed) ==
  LET had   == At(user, key, 0)
      alive == IF had < 0 THEN -had ELSE had
      target == IF key \in DOMAIN user \/ ~prefixed THEN key ELSE [key EXCEPT !.encoded = TRUE]
  IN  Put(user, target,
          IF commits > 0 THEN alive + commits
          ELSE IF commits = 0 THEN had
          ELSE Min({-1, -had}))

\* CreateDictEntry.  Of formula_p: more commits, more weight.
UserWeight(user, key, halvings) == user[key] - Scale - halvings

\* As DfsLookup and as LookupWords complete the entry.
SpelledEntry(user, key, halvings) ==
  [text |-> key.text, code |-> key.code, custom |-> << >>, remaining |-> 0, encoded |-> FALSE,
   weight |-> UserWeight(user, key, halvings)]
FoundEntry(user, key, remaining) ==
  [text |-> key.text, code |-> << >>, custom |-> key.code, remaining |-> remaining,
   encoded |-> key.encoded, weight |-> UserWeight(user, key, 0)]

Heavier(e, f) == e.weight > f.weight

Exact(user, code) ==
  Sorted({key \in DOMAIN user : ~key.encoded /\ key.code = code /\ user[key] >= 0},
               LAMBDA k, l : Precedes(k.text, l.text))

\* Fault: the scan does not go back for the other ends of a spelling.
Tried_NoBackdating(graph, pos, y, ends) == << ends[1] >>

\* DfsLookup: the entries on the ways through the graph, but of the ends of
\* an abbreviation the farthest only.  The scan jumps to each code in turn,
\* so where its cursor is when it gives up a code decides nothing.
Tried(graph, pos, y, ends) ==
  SelectSeq(ends, LAMBDA e : e = ends[1] \/ graph.edges[pos][e][y].type < AbbreviatedSpelling)

RecruitEntries(user, code, end, halvings) ==
  LET keys == Exact(user, code)
  IN  [i \in DOMAIN keys |-> [end |-> end, entry |-> SpelledEntry(user, keys[i], halvings)]]

RECURSIVE DfsLookup(_, _, _, _, _, _)
DfsLookup(user, graph, pos, code, halvings, limit) ==
  LET recruit(c, e, h) ==
        RecruitEntries(user, c, e, h)
          \o (IF limit = 0 \/ Len(c) < limit THEN DfsLookup(user, graph, e, c, h, limit) ELSE << >>)
      along(y, ends) ==
        Flat([k \in DOMAIN ends |->
                recruit(Append(code, y), ends[k], halvings + graph.edges[pos][ends[k]][y].halvings)])
      syllables == InOrder(Starting(graph, pos))
  IN  Flat([k \in DOMAIN syllables |->
              along(syllables[k], Tried(graph, pos, syllables[k], EndsOf(graph, pos, syllables[k])))])

\* UserDictionary::Lookup: the entries at each end, the heaviest first.
EntriesByEnd(all) ==
  LET entries(rs) == StableSort([k \in DOMAIN rs |-> rs[k].entry], Heavier)
  IN  [e \in {all[k].end : k \in DOMAIN all} |-> entries(SelectSeq(all, LAMBDA r : r.end = e))]

UserLookup(user, graph, start, limit, halvings) ==
  IF start >= graph.interpreted THEN EmptyMap
  ELSE EntriesByEnd(DfsLookup(user, graph, start, << >>, halvings, limit))

\* The keys under a prefix in the order of the db: of a code that goes on
\* after the letters, those that end there come first.
KeysUnder(user, encoded, input) ==
  Sorted({k \in DOMAIN user : k.encoded = encoded /\ k.code # << >> /\ IsPrefix(input, k.code[1])},
               LAMBDA k, l : \/ Precedes(k.code[1], l.code[1])
                             \/ k.code[1] = l.code[1] /\ Precedes(k.text, l.text))

\* Where a scan resumes: after the key, or with the first there is.
ResumeFrom(keys, resume) ==
  IF resume = << >> THEN 1
  ELSE LET k == SelectInSeq(keys, LAMBDA key : key = resume[1]) IN IF k = 0 THEN Len(keys) + 1 ELSE k + 1

\* LookupWords: from the resume key on, the entries of this code, and if it
\* is predictive those of longer codes up to the limit.  The exact ones are
\* sorted.  `resume' holds the last key seen, if any.
LastScanned(user, keys, first, input, predictive, limit) ==
  LET exact(k)   == keys[k].code[1] = input
      counted(k) == Cardinality({j \in first..k : user[keys[j]] >= 0})
      stops(k)   == limit > 0 /\ ~exact(k) /\ user[keys[k]] >= 0 /\ counted(k) >= limit
  IN  IF predictive THEN Min({Len(keys)} \cup {k \in first..Len(keys) : stops(k)})
      ELSE Max({first - 1} \cup {k \in first..Len(keys) : exact(k)})

Scanned(user, keys, first, last, input, resume) ==
  LET alive == SelectSeq(SubSeq(keys, first, last), LAMBDA k : user[k] >= 0)
      found == [i \in DOMAIN alive |-> FoundEntry(user, alive[i], Len(alive[i].code[1]) - Len(input))]
  IN  [entries |-> StableSort(SelectSeq(found, LAMBDA e : e.remaining = 0), Heavier)
                     \o SelectSeq(found, LAMBDA e : e.remaining > 0),
       resume  |-> IF last < first THEN resume ELSE << keys[last] >>]

Scan(user, keys, first, input, predictive, limit, resume) ==
  Scanned(user, keys, first, LastScanned(user, keys, first, input, predictive, limit), input, resume)

ScanFrom(user, keys, input, predictive, limit, resume) ==
  Scan(user, keys, ResumeFrom(keys, resume), input, predictive, limit, resume)

UserLookupWords(user, encoded, input, predictive, limit, resume) ==
  ScanFrom(user, KeysUnder(user, encoded, input), input, predictive, limit, resume)
=============================================================================
