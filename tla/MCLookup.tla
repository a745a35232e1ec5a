------------------------------ MODULE MCLookup ------------------------------
(***************************************************************************)
(* Two letters, 1 and 2, and the delimiter 0 make every input ambiguous.   *)
(***************************************************************************)
EXTENDS Lookup

\* Characters.
A == 65
B == 66
C == 67
D == 68
E == 69
a == 97
b == 98

Row(text, code, weight, stem) ==
  [text |-> text, code |-> code, weight |-> [kind |-> IF weight = 0 THEN "none" ELSE "weight", n |-> weight],
   stem |-> stem, hash |-> FALSE]

Letter(upper, place) == [upper |-> upper, place |-> place]

MCSettings ==
  [name |-> "d", import_tables |-> << "d" >>, sort |-> "by_weight", use_preset_vocabulary |-> TRUE,
   max_phrase_length |-> 3, min_phrase_weight |-> 2, rules |-> << >>, exclude_patterns |-> {},
   tail_anchor |-> {}]

MCOptions ==
  [delimiters |-> {0}, delimiter |-> 0, completion |-> FALSE, strict |-> FALSE,
   disable_user_dict_for_patterns |-> {}, excluded_types |-> {}, charset |-> FALSE, rare |-> {},
   enable_encoder |-> FALSE, enable_sentence |-> TRUE, encode_commit_history |-> TRUE,
   max_phrase_length |-> 2, prefix |-> << >>, suffix |-> << >>]

File(rows) == [header |-> {"name", "version"}, columns |-> {"text", "code", "weight", "stem"}, rows |-> rows]

-----------------------------------------------------------------------------
\* The example of user_dictionary.cc: given aaa=A, b=B, ab=C, the pattern
\* derives aa from aaa; "AAAB" is longer than the index.
ScriptRows ==
  << Row(<< A >>, << <<1, 1, 1>> >>, 7, << >>), Row(<< B >>, << <<2>> >>, 3, << >>),
     Row(<< C >>, << <<1, 2>> >>, 15, << >>),
     Row(<< A, C >>, << >>, 0, << >>),
     Row(<< B, B, B, B >>, << <<2>>, <<2>>, <<2>>, <<2>> >>, 1, << >>) >>

ScriptPreset == << [text |-> << B, B >>, weight |-> 3], [text |-> << A, B >>, weight |-> 1] >>

ScriptAlgebra == << [kind |-> "derive", map |-> (<<1, 1, 1>> :> <<1, 1>>)],
                    [kind |-> "fuzz", map |-> (<<2>> :> <<1>>)],
                    [kind |-> "abbrev", map |-> (<<1, 2>> :> <<1>>)] >>

PlainScript ==
  [translator |-> "script", settings |-> MCSettings, preset |-> ScriptPreset,
   files |-> ("d" :> File(ScriptRows)), algebra |-> ScriptAlgebra, opts |-> MCOptions,
   opencc |-> EmptyMap, letters |-> {1, 2}, auto_commit |-> TRUE,
   max_input |-> 4, max_changes |-> 1]

\* Less of it, to learn more, and in the fluency editor.
LearningScript == [PlainScript EXCEPT !.auto_commit = FALSE, !.max_input = 2, !.max_changes = 3]

\* Strict spelling, completion, a simplifier and delimiters.
StrictScript ==
  [PlainScript EXCEPT !.opts = [MCOptions EXCEPT !.strict = TRUE, !.completion = TRUE],
                      !.opencc = (<< A >> :> << << A >>, << a >> >>) @@ (<< B, B >> :> << << b >> >>),
                      !.letters = {0, 1, 2}, !.max_input = 3]

-----------------------------------------------------------------------------
TableRows ==
  << [Row(NoComment, << >>, 0, << >>) EXCEPT !.hash = TRUE],
     Row(<< A >>, << <<1>> >>, 7, << >>), Row(<< B >>, << <<1, 2>> >>, 3, <<1, 1, 2>>),
     Row(<< C >>, << <<1, 2>> >>, 1, << >>), Row(<< D >>, << <<2, 2>> >>, 1, << >>),
     Row(<< E >>, << <<1, 2, 1>> >>, 1, << >>) >>

TableSettings ==
  [MCSettings EXCEPT !.use_preset_vocabulary = FALSE,
     !.rules = << [min |-> 2, max |-> 2,
                   formula |-> << Letter(TRUE, 0), Letter(FALSE, 0), Letter(TRUE, 25), Letter(FALSE, 25) >>] >>]

PlainTable ==
  [translator |-> "table", settings |-> TableSettings, preset |-> << >>,
   files |-> ("d" :> File(TableRows)), algebra |-> << >>,
   opts |-> [MCOptions EXCEPT !.completion = TRUE, !.enable_encoder = TRUE],
   opencc |-> EmptyMap, letters |-> {0, 1, 2}, auto_commit |-> TRUE,
   max_input |-> 3, max_changes |-> 1]

EagerTable ==
  [PlainTable EXCEPT !.max_changes = 2, !.opts = [MCOptions EXCEPT !.enable_encoder = TRUE, !.charset = TRUE, !.rare = {C}],
                     !.letters = {1, 2}]

ReverseTable ==
  [PlainScript EXCEPT !.translator = "reverse", !.opts = [MCOptions EXCEPT !.prefix = <<2>>],
                      !.max_input = 3]

MCSchemas == << PlainScript, LearningScript, StrictScript, PlainTable, EagerTable, ReverseTable >>
=============================================================================
