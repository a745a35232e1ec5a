------------------------------ MODULE Spelling ------------------------------
(***************************************************************************)
(* How the letters of an input become syllables: the spelling algebra of a *)
(* schema (librime/src/algo/algebra.cc, calculus.cc) says how syllables    *)
(* may be spelt, the prism (dict/prism.cc) finds the spellings at a place  *)
(* of the input, and the syllabifier (algo/syllabifier.cc) builds a graph  *)
(* of the ways to read the whole of it.                                    *)
(*                                                                         *)
(* A letter is its place in the alphabet, a string a sequence of letters,  *)
(* a syllable the string the dictionary writes it with.  Credibility is    *)
(* 2^-halvings: nothing in the code but a halving ever changes it.         *)
(***************************************************************************)
EXTENDS Integers, Sequences, FiniteSets, Folds, Functions, SequencesExt, FiniteSetsExt

NormalSpelling == 0
FuzzySpelling == 1
AbbreviatedSpelling == 2
CompletedSpelling == 3
AmbiguousSpelling == 4
InvalidSpelling == 5

Best(types) == Min(types \cup {InvalidSpelling})

\* FoldLeft, FlattenSeq and SetToSortSeq, with their arguments evaluated once.
Once(F(_), x) == CHOOSE y \in {F(z) : z \in {x}} : TRUE

Fold(op(_, _), base, seq) ==
  LET folded(s) == FoldLeft(op, base, s) IN Once(folded, seq \o << >>)

Flat(seqs) == Once(FlattenSeq, seqs \o << >>)

Sorted(S, Before(_, _)) ==
  SortSeq([k \in 1..Cardinality(S) |->
             CHOOSE x \in S : Cardinality({y \in S : Before(y, x)}) = k - 1], Before)

\* The first element, if there is one.
Foremost(seq) == SubSeq(seq, 1, Min({1, Len(seq)}))

\* Alphabetical order, the order of std::map and of the ids of syllables.
Precedes(s, t) ==
  \/ IsStrictPrefix(s, t)
  \/ \E i \in 1..Min({Len(s), Len(t)}) : s[i] < t[i] /\ \A j \in 1..i - 1 : s[j] = t[j]

InOrder(strings) == Sorted(strings, Precedes)

EmptyMap == [x \in {} |-> x]

-----------------------------------------------------------------------------
(* The spelling algebra.  A formula transliterates letters (left to        *)
(* right), or it rewrites by a pattern the spellings in the domain of its  *)
(* map: what its regular expression does to the spellings it changes.      *)

\* Calculus::Parse with the Parse functions: a transliteration needs as many
\* letters on the right as on the left, the others a pattern.
Parses(f) ==
  CASE f.kind = "xlit" -> Len(f.left) = Len(f.right)
    [] f.kind \in {"xform", "erase", "derive", "fuzz", "abbrev"} -> DOMAIN f.map # {}
    [] OTHER -> FALSE

\* Projection::Load: one formula that cannot be parsed discards them all.
LoadAlgebra(formulas) ==
  IF \A k \in DOMAIN formulas : Parses(formulas[k]) THEN formulas ELSE << >>

\* Transliteration::Apply: the last letter given for one counts.
Transliterated(f, s) ==
  [i \in DOMAIN s |->
     LET k == SelectLastInSeq(f.left, LAMBDA c : c = s[i])
     IN  IF k = 0 THEN s[i] ELSE f.right[k]]

\* Transformation::Apply and Erasion::Apply.
Transformed(f, s) == f.map[s]

Respelt(f, s) == IF f.kind = "xlit" THEN Transliterated(f, s) ELSE Transformed(f, s)

\* Whether Calculation::Apply says it has modified the spelling.
Applies(f, s) ==
  IF f.kind = "xlit" THEN Range(s) \cap Range(f.left) # {}
  ELSE s \in DOMAIN f.map /\ (f.map[s] # s \/ f.kind = "erase")

\* Calculation::deletion and addition, and what Fuzzing::Apply and
\* Abbreviation::Apply do to the properties.
Deletes(f) == f.kind \in {"xlit", "xform", "erase"}
Adds(f)    == f.kind # "erase"

Worsened(f, props) ==
  LET type == CASE f.kind = "fuzz" -> FuzzySpelling [] f.kind = "abbrev" -> AbbreviatedSpelling
                [] OTHER -> NormalSpelling
  IN  [type     |-> Max({props.type, type}),
       halvings |-> props.halvings + IF f.kind \in {"fuzz", "abbrev"} THEN 1 ELSE 0]

\* Script::AddSyllable, of every syllable: each is spelt as it is written.
SyllabaryScript(syllabary) ==
  [s \in syllabary |-> [y \in {s} |-> [type |-> NormalSpelling, halvings |-> 0]]]

\* Script::Merge: of the ways in which a spelling comes to stand for a
\* syllable, the best type and the best credibility count.
Merged(ways) == [type     |-> Min({w.type : w \in ways}),
                 halvings |-> Min({w.halvings : w \in ways})]

\* One round of Projection::Apply over a script.
Round(script, f) ==
  LET kept(s)  == ~Applies(f, s) \/ ~Deletes(f)
      added    == {s \in DOMAIN script : Applies(f, s) /\ Adds(f) /\ Respelt(f, s) # << >>}
      origins(t) == {s \in added : Respelt(f, s) = t}
      ways(t, y) ==
        {script[s][y] : s \in {u \in {t} \cap DOMAIN script : kept(u) /\ y \in DOMAIN script[u]}}
          \cup {Worsened(f, script[s][y]) : s \in {u \in origins(t) : y \in DOMAIN script[u]}}
      spelt == {s \in DOMAIN script : kept(s)} \cup {Respelt(f, s) : s \in added}
      syllables(t) == UNION {DOMAIN script[s] : s \in origins(t) \cup ({t} \cap {u \in DOMAIN script : kept(u)})}
  IN  [t \in spelt |-> [y \in syllables(t) |-> Merged(ways(t, y))]]

\* Projection::Apply over the syllabary.  An algebra that leaves nothing is
\* not applied: the prism is then built without it (dict_compiler.cc).
Project(formulas, syllabary) ==
  LET script == Fold(Round, SyllabaryScript(syllabary), LoadAlgebra(formulas))
  IN  IF script = EmptyMap THEN SyllabaryScript(syllabary) ELSE script

-----------------------------------------------------------------------------
(* The prism: from spellings to the syllables they stand for.              *)

\* GetValue and QuerySpelling.
QuerySpelling(prism, s) == IF s \in DOMAIN prism THEN prism[s] ELSE EmptyMap

CommonPrefixSearch(prism, key) == {s \in DOMAIN prism : IsPrefix(s, key)}

\* ExpandSearch: the key's extensions breadth first, up to a limit (0: none).
ExpandSearch(prism, key, limit) ==
  LET found   == {s \in DOMAIN prism : IsPrefix(key, s)}
      nearer(s, t) == Len(s) < Len(t) \/ (Len(s) = Len(t) /\ Precedes(s, t))
      all     == Sorted(found, nearer)
  IN  IF limit = 0 THEN all ELSE SubSeq(all, 1, Min({limit, Len(all)}))

-----------------------------------------------------------------------------
(* The syllabifier.  A graph has the best type of spelling with which each *)
(* vertex is reached, and for each edge the syllables that it may be.      *)

\* The end of the delimiters that follow a position.
PastDelimiters(input, pos, delimiters) ==
  CHOOSE e \in pos..Len(input) :
    /\ \A k \in pos + 1..e : input[k] \in delimiters
    /\ e < Len(input) => input[e + 1] \notin delimiters

\* The edges out of a position.  Under strict spelling a spelling of the
\* whole input has to be a normal one.
EdgesFrom(prism, input, pos, opts) ==
  LET rest    == SubSeq(input, pos + 1, Len(input))
      reach(s) == PastDelimiters(input, pos + Len(s), opts.delimiters)
      fits(s, y) == \/ ~opts.strict \/ pos # 0 \/ reach(s) # Len(input)
                    \/ prism[s][y].type = NormalSpelling
      spelt(s) == {y \in DOMAIN prism[s] : fits(s, y)}
      found   == {s \in CommonPrefixSearch(prism, rest) : spelt(s) # {}}
      by(e)   == CHOOSE s \in found : reach(s) = e
  IN  [e \in {reach(s) : s \in found} |-> Restrict(prism[by(e)], spelt(by(e)))]

BestType(edge) == Best({edge[y].type : y \in DOMAIN edge})

\* The queue gives the vertices from left to right and the best type of each
\* first: a vertex is reached with the best of the worst types along a path.
Reach(graph, pos, out) ==
  LET via(e) == Max({BestType(out[e]), graph.vertices[pos]})
      seen(e) == IF e \in DOMAIN graph.vertices THEN {graph.vertices[e]} ELSE {}
  IN  [vertices |-> [e \in DOMAIN graph.vertices \cup DOMAIN out |->
                       IF e \in DOMAIN out THEN Best(seen(e) \cup {via(e)}) ELSE graph.vertices[e]],
       edges    |-> graph.edges @@ (pos :> out)]

Visit(prism, input, opts, graph, pos) ==
  IF pos \notin DOMAIN graph.vertices THEN graph
  ELSE Reach(graph, pos, EdgesFrom(prism, input, pos, opts))

Forward(prism, input, opts) ==
  Fold(LAMBDA graph, pos : Visit(prism, input, opts, graph, pos),
       [vertices |-> (0 :> NormalSpelling), edges |-> EmptyMap],
       [k \in 1..Len(input) |-> k - 1])

\* CheckOverlappedSpellings: where an edge that is not of abbreviations only
\* is also two edges, their joint is ambiguous.
Joints(edges, out) ==
  {joint \in DOMAIN out \cap DOMAIN edges :
     \E e \in DOMAIN out : /\ joint < e /\ BestType(out[e]) < AbbreviatedSpelling
                           /\ e \in DOMAIN edges[joint]}

\* The removal of what does not lead to the farthest vertex, and of spellings
\* worse than the way there (fuzzy spellings are immune).
Prune(farthest, last, graph, pos) ==
  LET good == {farthest} \cup {p \in DOMAIN graph.edges : p > pos}
      out  == graph.edges[pos]
      left(e) == {y \in DOMAIN out[e] : out[e][y].type <= last}
      kept == [e \in {d \in DOMAIN out \cap good : left(d) # {}} |-> Restrict(out[e], left(e))]
      joints == Joints(graph.edges, kept)
      marked == [v \in DOMAIN graph.vertices |->
                   IF v \in joints THEN AmbiguousSpelling ELSE graph.vertices[v]]
  IN  IF kept = EmptyMap \/ graph.vertices[pos] > last
      THEN [vertices |-> Restrict(marked, DOMAIN marked \ {pos}),
            edges    |-> Restrict(graph.edges, DOMAIN graph.edges \ {pos})]
      ELSE [vertices |-> marked, edges |-> [graph.edges EXCEPT ![pos] = kept]]

Backward(graph) ==
  LET farthest == Max(DOMAIN graph.vertices)
      last     == Max({graph.vertices[farthest], FuzzySpelling})
      before   == Sorted(DOMAIN graph.vertices \ {farthest}, LAMBDA p, q : p > q)
  IN  Fold(LAMBDA g, pos : Prune(farthest, last, g, pos),
           [graph EXCEPT !.edges = Restrict(@, DOMAIN graph.vertices \ {farthest})], before)

\* The completion of the last syllable: the first spelling that extends the
\* rest of the input, of those that are no abbreviations, counts for each.
CompletedWith(prism, graph, keys) ==
  LET has(k, y) == y \in DOMAIN prism[keys[k]] /\ prism[keys[k]][y].type < AbbreviatedSpelling
      extended == {y \in UNION {DOMAIN prism[s] : s \in Range(keys)} : \E k \in DOMAIN keys : has(k, y)}
      first(y) == Min({k \in DOMAIN keys : has(k, y)})
      spellings == [y \in extended |-> [type     |-> CompletedSpelling,
                                        halvings |-> prism[keys[first(y)]][y].halvings + 1]]
  IN  IF extended = {} THEN graph
      ELSE [graph EXCEPT !.interpreted = graph.input_length,
                         !.edges = (graph.interpreted :> (graph.input_length :> spellings)) @@ @]

Complete(prism, input, opts, graph) ==
  IF ~opts.completion \/ graph.interpreted = Len(input) THEN graph
  ELSE CompletedWith(prism, graph,
                     ExpandSearch(prism, SubSeq(input, graph.interpreted + 1, Len(input)), 512))

SyllableGraph(input, interpreted, graph) ==
  [input_length |-> Len(input), interpreted |-> interpreted,
   vertices |-> graph.vertices, edges |-> graph.edges]

Interpreted(input, graph) == SyllableGraph(input, Max(DOMAIN graph.vertices), Backward(graph))

BuildSyllableGraph(prism, input, opts) ==
  Complete(prism, input, opts, Interpreted(input, Forward(prism, input, opts)))

\* Transpose: the syllables that start at a position, in their order, with
\* the ends they may have, the farthest first.
Starting(graph, pos) ==
  IF pos \in DOMAIN graph.edges
  THEN UNION {DOMAIN graph.edges[pos][e] : e \in DOMAIN graph.edges[pos]} ELSE {}

EndsOf(graph, pos, y) ==
  Sorted({e \in DOMAIN graph.edges[pos] : y \in DOMAIN graph.edges[pos][e]}, LAMBDA d, e : d > e)
=============================================================================
