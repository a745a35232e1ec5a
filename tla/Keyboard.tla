------------------------------ MODULE Keyboard ------------------------------
(***************************************************************************)
(* All the processors of a schema, in the order of combo_pinyin, the one   *)
(* with the longest list: ascii_composer, chord_composer, recognizer,      *)
(* key_binder, speller, punctuator, selector, navigator, express_editor,   *)
(* and shape_processor after them (librime/src/gear), under the key events *)
(* of a keyboard with keys that stay down, modifiers and Caps Lock.        *)
(*                                                                         *)
(* A processor takes a turn - the context `c', the processors' own state   *)
(* `k', and `res', what has been made of the key so far - and returns the  *)
(* turn it leaves.  key_binder and chord_composer feed keys to the engine  *)
(* from within, so ProcessKeyEvent is recursive; they do not see those     *)
(* keys themselves while their flags redirecting_ and pass_thru_ are up.   *)
(***************************************************************************)
EXTENDS Engine

CONSTANTS
  upper,             \* what a letter key gives with Shift
  zws,               \* the zero width space, of whatever number of bytes
  dot, comma,        \* the keys key_binder may have taken for paging
  SwitchStyle,       \* ascii_composer/switch_key: from keys to styles
  GoodOldCapsLock,   \* ascii_composer/good_old_caps_lock
  SwitchKeys,        \* the Shift and Control keys of the keyboard
  Taps,              \* its keys, other than letters, that are let go at once
  BindingList,       \* key_binder/bindings, the preset's before the schema's
  ChordKeys,         \* chord_composer/alphabet
  MaxDown,           \* bound: so many keys are held down at once
  ChordOutput        \* algebra and output_format: from chords to key codes

ASSUME KeyboardAssumption ==
  /\ {upper, zws, dot, comma, "space"} \cup ChordKeys \subseteq Marks
  /\ GoodOldCapsLock \in BOOLEAN
  /\ DOMAIN ChordOutput = SUBSET ChordKeys \ {{}}

VARIABLES
  kb,       \* the members of the processors and the end of commit_history
  down,     \* the keys that are held down
  lock,     \* Caps Lock is on
  alone,    \* history: a switch key was pressed since the last event of another key
  spoiled   \* history: the front end stepped in while a chord was held

kbVars == << vars, kb, down, lock, alone, spoiled >>

IsShift(code) == code \in {"Shift_L", "Shift_R"}
Printable == Chars

KeyPress(code, mods) == [code |-> code, mods |-> mods, up |-> FALSE]

\* Text that goes to the application apart from any composition.
Direct(c) ==
  [c EXCEPT !.sink = Append(@, [input |-> << >>, caret |-> 0, segs |-> << >>, text |-> << >>])]

Turn(c, k) ==
  [c |-> c, k |-> k, res |-> "noop", redirecting |-> FALSE, passThru |-> FALSE]
Accepted(t, c) == [t EXCEPT !.c = c, !.res = "accepted"]
Rejected(t, c) == [t EXCEPT !.c = c, !.res = "rejected"]
Accept(t) == Accepted(t, t.c)
Reject(t) == Rejected(t, t.c)

\* ConcreteEngine::ProcessKeyEvent, below: what a key makes of a turn.
RECURSIVE ProcessKeyEvent(_, _, _)

\* A character key that is neither a command nor a release.
IsText(key) ==
  ~key.up /\ {"Control", "Alt"} \cap key.mods = {} /\ key.code \in Printable

-----------------------------------------------------------------------------
(* AsciiComposer.                                                          *)

\* SwitchAsciiMode.
SwitchAsciiMode(c, on, style, read) ==
  LET d == [c EXCEPT !.temp = FALSE]    \* connection_.disconnect()
  IN  SetOption(
        IF ~IsComposing(c) THEN c
        ELSE CASE style = "inline_ascii" -> [d EXCEPT !.temp = on]
               [] style = "commit_text"  -> ConfirmCurrentSelection(d, read)
               [] style = "commit_code"  -> Commit(ClearNonConfirmedComposition(d)),
        "ascii_mode", on)

IsAscii(c) == "ascii_mode" \in c.opts

\* ToggleAsciiModeWithKey.
Toggle(t, code, read) ==
  IF code \notin DOMAIN SwitchStyle THEN t
  ELSE [t EXCEPT !.c = SwitchAsciiMode(t.c, ~IsAscii(t.c), SwitchStyle[code], read),
                 !.k.caps = FALSE]

Released(t) == [t EXCEPT !.k.shift = FALSE, !.k.ctrl = FALSE]

\* ProcessCapsLock: the modifier tells the state before the key.
PressCapsLock(t, on, read) ==
  IF GoodOldCapsLock /\ ~t.k.caps /\ IsAscii(t.c) THEN Reject(t)
  ELSE Accepted([t EXCEPT !.k.caps = on],
                SwitchAsciiMode(t.c, on, SwitchStyle["Caps_Lock"], read))

ProcessCapsLock(t, key, read) ==
  LET on == "Lock" \notin key.mods
  IN  IF "Caps_Lock" \notin DOMAIN SwitchStyle THEN t
      ELSE IF key.code = "Caps_Lock"
        THEN IF key.up THEN Reject(t) ELSE PressCapsLock(Released(t), on, read)
      ELSE IF on THEN t
      ELSE IF ~GoodOldCapsLock /\ IsText(key) /\ key.code \in Letters \cup {upper}
        THEN [Accepted(t, Direct(t.c)) EXCEPT !.k.hist = "other"]
      ELSE Reject(t)

\* Fault: typing with Shift held does not tell it from tapping Shift.
AsciiKey_KeepsFlags(t, key) ==
  IF "Control" \in key.mods \/ ~IsAscii(t.c) THEN t
  ELSE IF ~IsComposing(t.c) THEN Rejected(t, t.c)
  ELSE IF ~key.up /\ key.code \in Printable
         THEN Accepted(t, PushInput(t.c, key.code))
  ELSE t

\* Fault: in ascii mode they go to the application always.
AsciiKey_Direct(t, key) ==
  IF "Control" \in key.mods \/ ~IsAscii(t.c) THEN Released(t) ELSE Reject(Released(t))

\* Other keys: in ascii mode they go to the input if there is any.
AsciiKey(t, key) ==
  IF "Control" \in key.mods \/ ~IsAscii(t.c) THEN Released(t)
  ELSE IF ~IsComposing(t.c) THEN Reject(Released(t))
  ELSE IF ~key.up /\ key.code \in Printable
         THEN Accepted(Released(t), PushInput(t.c, key.code))
  ELSE Released(t)

\* A switch key counts when it is let go.
SwitchKey(t, key, read) ==
  IF key.up
    THEN IF t.k.shift \/ t.k.ctrl THEN Reject(Released(Toggle(t, key.code, read))) ELSE t
  ELSE IF IsShift(key.code) THEN [t EXCEPT !.k.shift = TRUE]
                            ELSE [t EXCEPT !.k.ctrl = TRUE]

AsciiComposer(t, key, read) ==
  IF {"Shift", "Control"} \subseteq key.mods \/ "Alt" \in key.mods THEN Released(t)
  ELSE IF ProcessCapsLock(t, key, read).res # "noop" THEN ProcessCapsLock(t, key, read)
  ELSE IF key.code \in SwitchKeys THEN SwitchKey(t, key, read) ELSE AsciiKey(t, key)

-----------------------------------------------------------------------------
(* ChordComposer.                                                          *)

HasTag(c, tag) == c.segs # << >> /\ tag \in Last(c.segs).tags
Tag(c, tag)    == [c EXCEPT !.segs = SetLast(@, [Last(@) EXCEPT !.tags = @ \cup {tag}])]

\* UpdateChord once a chord is over.  The caret has stayed behind its segment.
EndChord(c) ==
  IF HasTag(c, "chord") THEN PopInput(c, c.caret - Last(c.segs).start)
  ELSE IF HasTag(c, "chord_prompt")
    THEN [c EXCEPT !.segs = SetLast(@, [Last(@) EXCEPT !.tags = @ \ {"chord_prompt"}])]
  ELSE c

\* UpdateChord while keys are held: the prompt needs a segment to be shown at.
ShowChord(c) ==
  IF HasTag(c, "chord") \/ HasTag(c, "chord_prompt") THEN c
  ELSE IF c.segs = << >> THEN Tag(PushInput(c, zws), "chord")
  ELSE Tag(c, "chord_prompt")

\* Fault: the chord is forgotten without its segment.
ClearChord_KeepsSegment(t) == [t EXCEPT !.k.chord = {}, !.k.pressed = {}]

ClearChord(t) ==
  [t EXCEPT !.c = EndChord(t.c), !.k.chord = {}, !.k.pressed = {}]

\* FinishChord: what the chord stands for is typed, and each key of it sent to
\* the application if nobody took it.
Emitted(t) ==
  IF t.res = "accepted" THEN t ELSE [t EXCEPT !.c = Direct(@), !.k.hist = "other"]

FinishChord(t, read) ==
  LET Type(u, code) == Emitted(ProcessKeyEvent(
                         [u EXCEPT !.res = "noop", !.passThru = TRUE], KeyPress(code, {}), read))
  IN  [FoldLeft(Type, ClearChord(t), ChordOutput[t.k.chord])
         EXCEPT !.passThru = FALSE, !.res = "accepted"]

\* DeleteLastSyllable, without delimiters: all of the last segment.
LastStart(c) == IF c.segs = << >> THEN 0 ELSE Last(c.segs).start
CanDeleteLastSyllable(c) == IsComposing(c) /\ c.caret > LastStart(c)
DeleteLastSyllable(c) == PopInput(c, c.caret - LastStart(c))

\* A key that is not for chords clears the one that is held.
CancelChord(t) == IF t.k.chord # {} THEN Accept(ClearChord(t)) ELSE ClearChord(t)

ChordComposer(t, key, read) ==
  IF t.passThru THEN t
  ELSE IF {"Shift", "Control", "Alt"} \cap key.mods # {} THEN CancelChord(t)
  ELSE IF t.k.chord = {} /\ key.code = "BackSpace" /\ ~key.up /\ CanDeleteLastSyllable(t.c)
    THEN Accepted(t, DeleteLastSyllable(t.c))
  ELSE IF key.code \notin ChordKeys THEN CancelChord(t)
  ELSE IF key.up
    THEN IF t.k.pressed = {key.code} THEN FinishChord(t, read)
         ELSE Accept([t EXCEPT !.k.pressed = @ \ {key.code}])
  ELSE Accepted([t EXCEPT !.k.pressed = @ \cup {key.code}, !.k.chord = @ \cup {key.code}],
                IF key.code \in t.k.chord THEN t.c ELSE ShowChord(t.c))

-----------------------------------------------------------------------------
(* Recognizer: a key that lets the input match a pattern belongs to it.    *)

Recognizer(t, key) ==
  IF /\ IsText(key) /\ key.code # "space"
     /\ GetMatch(t.c.segs, Append(t.c.input, key.code)) # 0
    THEN Accepted(t, PushInput(t.c, key.code)) ELSE t

-----------------------------------------------------------------------------
(* KeyBinder.                                                              *)

Conditions == << "paging", "has_menu", "composing", "always" >>
Rank(when) == SelectInSeq(Conditions, LAMBDA w : w = when)

\* KeyBindings::Bind, at std::lower_bound: before those of its condition.
Bind(bound, binding) ==
  LET n == Cardinality({i \in 1..Len(bound) : Rank(bound[i].when) < Rank(binding.when)})
  IN  InsertAt(bound, n + 1, binding)

\* LoadBindings: what is bound to a key, in the order of its conditions.
Bound(key) ==
  FoldLeft(Bind, << >>,
    SelectSeq(BindingList, LAMBDA b : b.accept = [code |-> key.code, mods |-> key.mods] /\ ~key.up))

\* calculate_conditions.
Holds(when, c) ==
  CASE when = "paging"    -> HasTag(c, "paging")
    [] when = "has_menu"  -> HasMenu(c) /\ ~IsAscii(c)
    [] when = "composing" -> IsComposing(c)
    [] when = "always"    -> TRUE

\* ReinterpretPagingKey: a period before a letter was meant as text, unless
\* period or comma has been used repeatedly; that it did turn a page is not
\* known, only that the input does not end in it.
IsReinterpreted(t, key) ==
  /\ ~key.up /\ t.k.last = dot /\ key.code \in Letters /\ key.mods = {}
  /\ IsComposing(t.c) /\ Last(t.c.input) # dot

ReinterpretPagingKey(t, key) ==
  IF key.up THEN t
  ELSE [t EXCEPT
         !.k.last = IF \/ key.mods # {} \/ key.code \notin {dot, comma}
                       \/ key.code = dot /\ @ \in {dot, comma}
                      THEN "none" ELSE key.code,
         !.c = IF IsReinterpreted(t, key) THEN PushInput(@, dot) ELSE @]

\* The bindings of a key that apply, the first of which is performed.
Applicable(t, key) == SelectSeq(Bound(key), LAMBDA b : Holds(b.when, t.c))

\* PerformKeyBinding: a key sent to the engine is not bound again.
PerformKeyBinding(t, binding, read) ==
  IF binding.toggle # "none"
    THEN Accepted(t, SetOption(t.c, binding.toggle, binding.toggle \notin t.c.opts))
    ELSE [ProcessKeyEvent([t EXCEPT !.redirecting = TRUE], binding.send, read)
            EXCEPT !.redirecting = FALSE, !.res = "accepted"]

Perform(t, bindings, read) ==
  IF bindings = << >> THEN t ELSE PerformKeyBinding(t, bindings[1], read)

Bindings(t, key, read) == Perform(t, Applicable(t, key), read)

KeyBinder(t, key, read) ==
  IF t.redirecting THEN t
  ELSE IF IsReinterpreted(t, key) THEN ReinterpretPagingKey(t, key)
  ELSE Bindings(ReinterpretPagingKey(t, key), key, read)

-----------------------------------------------------------------------------
(* Punctuator.                                                             *)

Definition(c, code) == Puncts["full_shape" \in c.opts][<< code >>]
IsDefined(c, code)  == << code >> \in DOMAIN Puncts["full_shape" \in c.opts]

\* AlternatePunct: the mark typed once more moves the highlight on.
IsAlternated(c, code) ==
  /\ Definition(c, code).kind = "list" /\ HasTag(c, "punct")
  /\ Last(c.segs).status > kVoid /\ Last(c.segs).menu # << >>
  /\ SubSeq(c.input, Last(c.segs).start + 1, Last(c.segs).end) = << code >>

AlternatePunct(c) ==
  [c EXCEPT !.segs = SetLast(@, [Last(@) EXCEPT
       !.sel = (@ + 1) % Len(Last(c.segs).menu), !.status = kGuess])]

\* PairPunct: opening and closing marks take turns, whichever the key.
CanPair(c) == HasTag(c, "punct") /\ Last(c.segs).status > kVoid /\ Len(Last(c.segs).menu) >= 2

PairPunct(t, read) ==
  IF ~CanPair(t.c) THEN t
  ELSE [t EXCEPT
         !.k.odd = 1 - @,
         !.c = ConfirmCurrentSelection(
                 MoveTo(@, (Last(@.segs).sel + t.k.odd) % 2), read)]

\* t has the mark in its input, save where it is alternated.
PunctKind(t, kind, read) ==
  CASE kind = "unique" -> [t EXCEPT !.c = ConfirmCurrentSelection(@, read)]
    [] kind = "commit" -> [t EXCEPT !.c = Commit(@)]
    [] kind = "pair"   -> PairPunct(t, read)
    [] OTHER           -> t

Punctuate(t, code, read) ==
  IF IsAlternated(t.c, code) THEN Accepted(t, AlternatePunct(t.c))
  ELSE Accept(PunctKind([t EXCEPT !.c = PushInput(@, code)], Definition(t.c, code).kind, read))

Punctuator(t, key, read) ==
  IF ~IsText(key) \/ (key.code = "space" /\ IsComposing(t.c)) THEN t
  ELSE IF key.code = dot /\ t.k.hist = "digit" THEN Rejected(t, t.c)    \* 3.14
  ELSE IF ~IsDefined(t.c, key.code) THEN t
  ELSE Punctuate(t, key.code, read)

-----------------------------------------------------------------------------
(* The processors of Engine.tla, by key.                                   *)

Speller(t, key, read) ==
  IF IsText(key) /\ key.code \in Letters THEN Accepted(t, Spell(t.c, key.code, read)) ELSE t

\* The selector has no eye for Control.
Selector(t, key, read) ==
  IF key.up \/ ~SelectorActs(t.c) THEN t
  ELSE CASE key.code = "Page_Up"   -> Accepted(t, PagedUp(t.c))
         [] key.code = "Page_Down" -> Accepted(t, PagedDown(t.c))
         [] key.code \in Digits    -> Accepted(t, SelectCandidateAt(t.c, IndexOfKey(key.code), read))
         [] OTHER -> t

Navigator(t, key) ==
  IF ~key.up /\ IsComposing(t.c) /\ key.code = "Left" THEN Accepted(t, GoneLeft(t.c)) ELSE t

\* ExpressEditor.
Editor(t, key, read) ==
  IF key.up \/ "Alt" \in key.mods THEN Rejected(t, t.c)
  ELSE IF "Control" \in key.mods THEN t
  ELSE IF key.code = "space"
    THEN IF IsComposing(t.c) THEN Accepted(t, Confirm(t.c, read)) ELSE t
  ELSE IF IsComposing(t.c) /\ key.code = "Return" THEN Accepted(t, CommitRawInput(t.c))
  ELSE IF IsComposing(t.c) /\ key.code = "BackSpace" THEN Accepted(t, RevertLastAction(t.c))
  ELSE IF key.code \in Printable THEN Rejected(t, Commit(t.c))
  ELSE t

-----------------------------------------------------------------------------
(* ConcreteEngine::ProcessKeyEvent.                                        *)

\* CommitHistory::Push of a key, the last record being all that counts here.
Recorded(k, key) ==
  IF key.up \/ key.mods # {} THEN k
  ELSE IF key.code \in {"BackSpace", "Return"} THEN [k EXCEPT !.hist = "empty"]
  ELSE IF key.code \in Printable
    THEN [k EXCEPT !.hist = IF key.code \in Digits THEN "digit" ELSE "other"]
  ELSE k

\* ShapeProcessor, on what is left of a key.
ShapeProcessor(t, key) ==
  IF "full_shape" \in t.c.opts /\ IsText(key) THEN Accepted(t, Direct(t.c)) ELSE t

Processors == << "ascii_composer", "chord_composer", "recognizer", "key_binder",
                 "speller", "punctuator", "selector", "navigator", "express_editor" >>

Process(t, name, key, read) ==
  CASE name = "ascii_composer" -> AsciiComposer(t, key, read)
    [] name = "chord_composer" -> ChordComposer(t, key, read)
    [] name = "recognizer"     -> Recognizer(t, key)
    [] name = "key_binder"     -> KeyBinder(t, key, read)
    [] name = "speller"        -> Speller(t, key, read)
    [] name = "punctuator"     -> Punctuator(t, key, read)
    [] name = "selector"       -> Selector(t, key, read)
    [] name = "navigator"      -> Navigator(t, key)
    [] name = "express_editor" -> Editor(t, key, read)

\* CommitHistory of what a processor has committed; the two that deliver keys
\* themselves have had the commits of those recorded.
Committed(t, before, name) ==
  IF name \notin {"chord_composer", "key_binder"} /\ Len(t.c.sink) > Len(before.c.sink)
    THEN [t EXCEPT !.k.hist = "other"] ELSE t

\* ShapeProcessor sees what no processor has accepted.
PostProcess(t, key) ==
  IF t.res = "accepted" THEN t ELSE ShapeProcessor([t EXCEPT !.k = Recorded(@, key)], key)

\* Down the list up to a processor that accepts the key or rejects it.
ProcessKeyEvent(t, key, read) ==
  LET Run(u, name) ==
        IF u.res = "noop" THEN Committed(Process(u, name, key, read), u, name) ELSE u
  IN  PostProcess(FoldLeft(Run, [t EXCEPT !.res = "noop"], Processors), key)

-----------------------------------------------------------------------------
(* The keyboard and the front end.                                         *)

NewAsciiComposer == [shift |-> FALSE, ctrl |-> FALSE, caps |-> FALSE]
NewChordComposer == [chord |-> {}, pressed |-> {}]
NewKeyBinder     == [last |-> "none"]
NewPunctuator    == [odd |-> 0]
NewHistory       == [hist |-> "empty"]

KeyboardInit ==
  /\ Init
  /\ kb = NewAsciiComposer @@ NewChordComposer @@ NewKeyBinder @@ NewPunctuator @@ NewHistory
  /\ down = {} /\ lock = FALSE
  /\ alone = FALSE /\ spoiled = FALSE

\* The modifiers as they were before the key.
Mods == (IF \E code \in down : IsShift(code) THEN {"Shift"} ELSE {})
          \cup (IF "Control_L" \in down THEN {"Control"} ELSE {})
          \cup (IF lock THEN {"Lock"} ELSE {})

\* The end of a step, with the histories; input is bounded by MaxInput.
Done(t, key) ==
  /\ Len(t.c.input) <= MaxInput
  /\ ctx' = t.c /\ kb' = t.k
  /\ handled' = (t.res = "accepted") /\ lastKey' = IF IsText(key) /\ key.code # dot THEN "text" ELSE "key"
  /\ alone' = (key.code \in SwitchKeys /\ (alone \/ ~key.up))
  /\ spoiled' = (Contains(t.c.input, zws) /\ spoiled)

\* A key event, with the keys held down and Caps Lock after it.
Event(key, held, on) == [key |-> key, down |-> held, lock |-> on]

Presses ==
  {Event(KeyPress(IF code \in Letters /\ "Shift" \in Mods THEN upper ELSE code, Mods),
         down \cup {code}, lock) :
     code \in {key \in (Letters \cup ChordKeys \cup SwitchKeys) \ down :
                /\ Cardinality(down) < MaxDown
                /\ key \in ChordKeys => Mods \subseteq {"Lock"}}}

Releases ==
  {Event([KeyPress(code, Mods) EXCEPT !.up = TRUE], down \ {code}, lock) : code \in down}

\* Other keys are let go at once; Shift changes what the space bar means.
QuickTaps ==
  {Event(KeyPress(code, Mods), down, lock) :
     code \in {key \in Taps :
                 Mods \subseteq {"Lock"} \/ (key = "space" /\ "Control" \notin Mods)}}

CapsLock == Event(KeyPress("Caps_Lock", Mods), down, ~lock)

KeyStroke ==
  \E event \in Presses \cup Releases \cup QuickTaps \cup {CapsLock}, read \in Reads :
    /\ Done(ProcessKeyEvent(Turn(Fresh, kb), event.key, read), event.key)
    /\ down' = event.down
    /\ lock' = event.lock

\* The front end commits, clears or switches an option.
SessionCall ==
  /\ \/ SessionCommit \/ SessionClear \/ OptionUpdate
  /\ kb' = [kb EXCEPT !.hist = IF ctx'.sink # << >> THEN "other" ELSE @]
  /\ spoiled' = (Contains(ctx'.input, zws) /\ (spoiled \/ kb.chord # {}))
  /\ UNCHANGED << down, lock, alone >>

KeyboardNext == KeyStroke \/ SessionCall

KeyboardSpec == KeyboardInit /\ [][KeyboardNext]_kbVars

-----------------------------------------------------------------------------
\* A character reaches the application - unhandled, or in full shape from
\* shape_processor - only when nothing is being composed, through inline
\* ascii mode, redirected keys, chords, patterns and punctuation: it does not
\* overtake the composition.  It does under Caps Lock, and as a period after
\* a digit (Punctuator takes it for a decimal point).
TextNotOvertaking ==
  /\ lastKey = "text" /\ ~lock
  /\ ~handled \/ \E i \in 1..Len(ctx.sink) : ctx.sink[i].text = << >>
  => ctx.input = << >>

\* Shift or Control switches ascii_mode when let go only if the key event
\* before it concerned such a key: typing in between, by whatever processor
\* the key is taken, makes it a modifier.
TapToggles ==
  [][IsAscii(ctx') # IsAscii(ctx) /\ down \ down' # {} =>
       down \ down' \subseteq SwitchKeys /\ alone]_kbVars

\* Ascii mode switched on for the sake of a composition ends with it, however
\* that ends: committed, erased, or cleared by the front end.
InlineAsciiEnds ==
  [][lock' = lock /\ ctx.temp /\ ~IsComposing(ctx') => ~ctx'.temp /\ ~IsAscii(ctx')]_kbVars

\* The zero width space that stands for a chord is gone when no chord is held,
\* unless the front end switched an option meanwhile, which takes the tag from
\* the segment.
ChordLeavesNoTrace ==
  Contains(ctx.input, zws) => kb.chord # {} \/ spoiled

=============================================================================
