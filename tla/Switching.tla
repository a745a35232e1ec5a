------------------------------ MODULE Switching ------------------------------
(***************************************************************************)
(* Schemas and options of the sessions, and the menu to choose them with:  *)
(* the switcher of a session (librime/src/switcher.cc, its two translators *)
(* gear/schema_list_translator.cc and gear/switch_translator.cc), what the *)
(* engine does when a schema is applied (engine.cc), how a session is made *)
(* (service.cc), and the user config user.yaml that all live sessions      *)
(* share in memory and that is saved when the last of them is gone.        *)
(*                                                                         *)
(* The engine's composition is only told from none (Engine.tla has it);    *)
(* with it ends the temporary ascii mode of gear/ascii_composer.cc.        *)
(***************************************************************************)
EXTENDS Config, Menu

CONSTANTS
  Sessions,
  SchemaList,    \* schema_list of default.yaml
  Switches,      \* for each schema its switches: their options, one for a toggle
  Components,    \* for each schema the options its components set on and off
  SaveOptions,   \* switcher/save_options
  SwitchStyles,  \* the styles of ascii_composer/switch_key
  MaxClock, MaxCalls   \* bounds on the seconds and on the choices that are made

Schemas == ToSet(SchemaList)
SwitchesOf(id) == UNION {ToSet(Switches[id][i].options) : i \in DOMAIN Switches[id]}
Options == UNION {SwitchesOf(id) : id \in Schemas}
NoReset == -1

ASSUME SwitchingAssumption ==
  /\ SchemaList # << >>
  /\ {MaxClock, MaxCalls} \subseteq Nat

VARIABLES
  sessions,   \* Service::sessions_, with what is gone in NoSession; `lapsing' is a
              \* history: the menu was opened in a temporary ascii mode
  data,       \* the user config in memory, if a session is live
  disk,       \* user.yaml
  clock,      \* time(NULL), as last read
  calls,      \* how many choices were made
  chosen      \* what the user last chose from the menu, of what is to be kept

swVars == << sessions, data, disk, clock, calls, chosen >>

NoSession == [live |-> FALSE]
Live      == {s \in Sessions : sessions[s].live}

OptionPath(name)   == << "option", name >>
PreviousPath       == << "previously_selected_schema" >>
AccessPath(schema) == << "schema_access_time", schema >>

IsToggle(switch) == Len(switch.options) = 1

AsciiMode == "ascii_mode"

-----------------------------------------------------------------------------
(* The options of an engine: the set of those that are on.                 *)

Set(opts, name, on) == IF on THEN opts \cup {name} ELSE opts \ {name}

\* A name that begins with an underscore.
IsTransient(name) == name \in {"_auto_commit", "_chord_typing"}

\* InitializeComponents: editors and the chord composer set options.
ComponentOptions(schema, opts) == (opts \ Components[schema].off) \cup Components[schema].on

\* InitializeOptions.
ResetOptions(schema, opts) ==
  LET Reset(o, switch) ==
        IF switch.reset = NoReset THEN o
        ELSE IF IsToggle(switch) THEN Set(o, switch.options[1], switch.reset # 0)
        ELSE (o \ ToSet(switch.options))
               \cup {switch.options[i] : i \in {switch.reset + 1} \cap 1..Len(switch.options)}
  IN  FoldLeft(Reset, opts, Switches[schema])

\* ConcreteEngine::ApplySchema.
Applied(schema, opts) ==
  ResetOptions(schema, ComponentOptions(schema, {o \in opts : ~IsTransient(o)}))

\* Fault: options are restored before the schema resets its own.
Attached_BeforeReset(schema, tree) ==
  Applied(schema, {o \in SaveOptions : GetBool(tree, OptionPath(o), FALSE)})

\* The constructors of a session: options of the schema, and Switcher::Attach.
Attached(schema, tree) ==
  LET opts  == Applied(schema, {})
      saved == {o \in SaveOptions : HasValue(tree, OptionPath(o))}
  IN  {o \in opts \cup saved : GetBool(tree, OptionPath(o), o \in opts)
                                 \/ (o \in opts /\ o \notin SaveOptions)}

\* Switcher::CreateSchema.
CreateSchema(tree) ==
  IF HasValue(tree, PreviousPath) /\ tree[PreviousPath] \in Schemas
    THEN tree[PreviousPath] ELSE SchemaList[1]

-----------------------------------------------------------------------------
(* The menu.  Its candidates carry out a command when they are selected.   *)

Command(type, keyword, quality) ==
  [type |-> type, start |-> 0, end |-> 0, quality |-> quality, text |-> keyword]

SchemaSelection(schema, quality) == Command("schema", schema, quality)

\* What was never selected, or will be, has the quality 0.
AccessTime(tree, schema, now) ==
  IF HasValue(tree, AccessPath(schema)) /\ tree[AccessPath(schema)] <= now
    THEN tree[AccessPath(schema)] ELSE 0

\* LoadSchemaList: the current schema, and the others, the last used first.
SchemaListTranslation(current, tree, now) ==
  LET rest   == SelectSeq(SchemaList, LAMBDA id : id # current)
      Time(i) == AccessTime(tree, rest[i], now)
      order  == SetToSortSeq(DOMAIN rest,
                  LAMBDA i, j : Time(i) > Time(j) \/ (Time(i) = Time(j) /\ i < j))
  IN  Translation("schema_list",
        << SchemaSelection(current, 0) >>
          \o [i \in DOMAIN order |-> SchemaSelection(rest[order[i]], Time(order[i]))])

\* GetSelectedOption: the first that is on, or the first.
GetSelectedOption(group, opts) ==
  LET k == SelectInSeq(group, LAMBDA o : o \in opts)
  IN  group[IF k = 0 THEN 1 ELSE k]

\* RadioGroup::SelectOption: what changes is set, and saved.
Engaged(opts, config) == [opts |-> opts, config |-> config]
SelectOption(group, option, eng) ==
  LET Choose(e, o) ==
        IF (o \in e.opts) = (o = option) THEN e
        ELSE Engaged(Set(e.opts, o, o = option),
                     IF o \in SaveOptions
                       THEN Modified(e.config, OptionPath(o), BoolText(o = option))
                       ELSE e.config)
  IN  FoldLeft(Choose, eng, group)

\* Fault: the options of a group are left as they are.
LoadSwitches_NoneSelected(schema, eng) == eng

\* LoadSwitches, its effect on the options ...
LoadSwitches(schema, eng) ==
  FoldLeft(LAMBDA e, switch :
             IF IsToggle(switch) THEN e
             ELSE SelectOption(switch.options, GetSelectedOption(switch.options, e.opts), e),
           eng, Switches[schema])

\* ... and the candidates: a toggle knows the state that it leads to.
SwitchTranslation(schema, opts) ==
  Translation("switch",
    FlattenSeq([i \in DOMAIN Switches[schema] |->
      LET switch == Switches[schema][i]
      IN  [j \in DOMAIN switch.options |->
             Command("switch", switch.options[j], 0) @@
               IF IsToggle(switch) THEN [target |-> switch.options[1] \notin opts]
                                   ELSE [group |-> switch.options]]]))

\* Switcher::Activate, by the hotkey.
MenuOf(schema, opts, tree, now) ==
  AllCandidates(EmptyMenu(<< SchemaListTranslation(schema, tree, now),
                             SwitchTranslation(schema, opts) >>))

-----------------------------------------------------------------------------
(* Actions of a session.  `now' is what a call to time() returns.          *)

Times == {t \in {clock, clock + 1} : t <= MaxClock}

Deactivated(x) == [x EXCEPT !.active = FALSE, !.menu = << >>, !.sel = 0, !.lapsing = FALSE]

\* Context::Clear or Commit of the engine, and what AsciiComposer makes of the
\* update: a temporary ascii mode (inline) is quit.
Ended(x) ==
  [x EXCEPT !.composing = FALSE, !.inline = FALSE,
            !.opts = IF x.inline THEN Set(@, AsciiMode, FALSE) ELSE @]

\* Fault: the menu stays open with the commands of the schema before.
ApplySchema_StaysOpen(x, schema) ==
  LET y == Ended(x) IN [y EXCEPT !.schema = schema, !.opts = Applied(schema, @)]

\* Switcher::ApplySchema, and the engine's.
ApplySchema(x, schema) ==
  LET y == Ended(Deactivated(x))
  IN  [y EXCEPT !.schema = schema, !.opts = Applied(schema, @)]

Update(s, x) == sessions' = [sessions EXCEPT ![s] = x]

Create(s) ==
  LET config == Opened(data, Live # {}, disk)
      schema == CreateSchema(config.tree)
  IN  /\ s \notin Live
      /\ data' = config
      /\ Update(s, [live |-> TRUE, schema |-> schema, opts |-> Attached(schema, config.tree),
                    composing |-> FALSE, inline |-> FALSE, active |-> FALSE, menu |-> << >>, sel |-> 0,
                    lapsing |-> FALSE])
      /\ UNCHANGED << disk, clock, calls, chosen >>

\* Fault: the config is saved only by the call that asks for it.
Released_NotSaved(config, file) == file

\* The last session takes the user config with it.
Released(config, file) == Saved(config, file)

Destroy(s) ==
  /\ s \in Live
  /\ Update(s, NoSession)
  /\ disk' = IF Live = {s} THEN Released(data, disk) ELSE disk
  /\ data' = IF Live = {s} THEN Loaded(NoItem) ELSE data
  /\ UNCHANGED << clock, calls, chosen >>

\* What was to be saved is lost, and the file if it was being written.
Crash ==
  /\ Live # {}
  /\ sessions' = [s \in Sessions |-> NoSession]
  /\ data' = Loaded(NoItem)
  /\ disk' \in {disk} \cup (IF data.modified /\ Cardinality(Live) = 1 THEN {NoItem} ELSE {})
  /\ chosen' = [o \in DOMAIN chosen |->
                  LET path == IF o = "schema" THEN PreviousPath ELSE OptionPath(o)
                  IN  IF HasValue(disk', path) THEN disk'[path] ELSE "none"]
  /\ UNCHANGED << clock, calls >>

Hotkey(s) ==
  /\ s \in Live /\ ~sessions[s].active
  /\ \E now \in Times :
       LET x   == sessions[s]
           eng == LoadSwitches(x.schema, Engaged(x.opts, data))
       IN  /\ Update(s, [x EXCEPT !.active = TRUE, !.opts = eng.opts, !.sel = 0,
                                  !.menu = MenuOf(x.schema, x.opts, data.tree, now),
                                  !.lapsing = x.inline /\ AsciiMode \in x.opts])
           /\ data' = eng.config /\ clock' = now
  /\ UNCHANGED << disk, calls, chosen >>

\* HighlightNextSchema, and the cursor keys: what is highlighted changes.
NextSchema(x) ==
  SelectInSeq([i \in 1..Len(x.menu) |-> i > x.sel + 1 /\ x.menu[i].type = "schema"],
              LAMBDA is : is)

Highlight(s) ==
  /\ s \in Live /\ sessions[s].active
  /\ LET x  == sessions[s]
         to == {IF NextSchema(x) = 0 THEN 0 ELSE NextSchema(x) - 1,   \* the hotkey again
                IF x.sel = 0 THEN 0 ELSE x.sel - 1,                   \* Up
                IF x.sel + 1 < Len(x.menu) THEN x.sel + 1 ELSE x.sel, \* Down
                0}                                                    \* Home and End
     IN  \E sel \in to : sel # x.sel /\ Update(s, [x EXCEPT !.sel = sel])
  /\ UNCHANGED << data, disk, clock, calls, chosen >>

\* SchemaSelection::Apply.
SelectSchema(s, schema) ==
  \E now \in Times :
    LET x == sessions[s]
    IN  /\ Update(s, Deactivated(IF schema = x.schema THEN x ELSE ApplySchema(x, schema)))
        /\ data' = Modified(Modified(data, PreviousPath, schema), AccessPath(schema), now)
        /\ clock' = now
        /\ chosen' = [chosen EXCEPT !["schema"] = schema]

\* Switch::Apply.
ApplySwitch(s, option, target) ==
  LET x == sessions[s]
  IN  /\ Update(s, Deactivated([x EXCEPT !.opts = Set(@, option, target)]))
      /\ data' = IF option \in SaveOptions
                   THEN Modified(data, OptionPath(option), BoolText(target)) ELSE data
      /\ chosen' = IF option \in DOMAIN chosen
                     THEN [chosen EXCEPT ![option] = BoolText(target)] ELSE chosen
      /\ UNCHANGED clock

\* RadioOption::Apply.
ApplyRadio(s, command) ==
  LET x   == sessions[s]
      eng == SelectOption(command.group, command.text, Engaged(x.opts, data))
  IN  /\ Update(s, Deactivated([x EXCEPT !.opts = eng.opts]))
      /\ data' = eng.config
      /\ UNCHANGED << clock, chosen >>

Counted == calls < MaxCalls /\ calls' = calls + 1 /\ UNCHANGED disk

\* Space, Return, or a number: OnSelect applies the command.
Confirm(s) ==
  /\ s \in Live /\ sessions[s].active
  /\ LET command == sessions[s].menu[sessions[s].sel + 1]
     IN  \/ command.type = "schema" /\ SelectSchema(s, command.text)
         \/ "target" \in DOMAIN command /\ ApplySwitch(s, command.text, command.target)
         \/ "group" \in DOMAIN command /\ ApplyRadio(s, command)
  /\ Counted

Escape(s) ==
  /\ s \in Live /\ sessions[s].active
  /\ Update(s, Deactivated(sessions[s]))
  /\ UNCHANGED << data, disk, clock, calls, chosen >>

\* Keys and calls that begin or end a composition of the engine.  All keys are
\* the switcher's while it is active; RimeCommitComposition and
\* RimeClearComposition are the engine's.
Compose(s) ==
  /\ s \in Live
  /\ \/ ~sessions[s].active /\ ~sessions[s].composing
        /\ Update(s, [sessions[s] EXCEPT !.composing = TRUE])
     \/ sessions[s].composing /\ Update(s, Ended(sessions[s]))
  /\ UNCHANGED << data, disk, clock, calls, chosen >>

\* AsciiComposer::SwitchAsciiMode: a temporary mode's connection is cut, the
\* key's style says what becomes of a composition, and the mode is set.
SwitchAsciiMode(x, on, style) ==
  LET y == IF ~x.composing THEN x
           ELSE [x EXCEPT !.inline = style = "inline_ascii" /\ on,
                          !.composing = style # "commit_code"]
  IN  [y EXCEPT !.opts = Set(@, AsciiMode, on)]

\* ToggleAsciiModeWithKey, or Caps Lock, which sets the mode and is never
\* inline.  Confirming a selection (commit_text) may commit all there is.
SwitchKey(s) ==
  /\ s \in Live /\ ~sessions[s].active
  /\ \E style \in SwitchStyles, on, committed \in BOOLEAN :
       LET x == SwitchAsciiMode(sessions[s], on, style)
       IN  /\ style = "inline_ascii" => on = (AsciiMode \notin sessions[s].opts)
           /\ Update(s, [x EXCEPT !.composing = @ /\ ~(committed /\ style = "commit_text")])
  /\ Counted /\ UNCHANGED << data, clock, chosen >>

\* A key bound to toggle an option, or an option the front end sets; while the
\* switcher is active both are its own context's.
SetOption(s) ==
  /\ s \in Live /\ ~sessions[s].active
  /\ \E o \in Options : \E on \in BOOLEAN :
       Update(s, [sessions[s] EXCEPT !.opts = Set(@, o, on)])
  /\ Counted /\ UNCHANGED << data, clock, chosen >>

\* A key bound to select `.next', the second of the schema list.
SelectNextSchema(s) ==
  /\ s \in Live /\ ~sessions[s].active /\ Len(SchemaList) > 1
  /\ \E now \in Times :
       SelectSchema(s, SchemaListTranslation(sessions[s].schema, data.tree, now).candies[2].text)
  /\ Counted

\* RimeSelectSchema.
ApiSelectSchema(s) ==
  /\ s \in Live
  /\ \E schema \in Schemas : Update(s, ApplySchema(sessions[s], schema))
  /\ Counted /\ UNCHANGED << data, clock, chosen >>

-----------------------------------------------------------------------------
Kept == {"schema"} \cup {o \in SaveOptions :
          \A id \in Schemas : \A i \in DOMAIN Switches[id] :
            o \in ToSet(Switches[id][i].options) => IsToggle(Switches[id][i])}

SwitchingInit ==
  /\ sessions = [s \in Sessions |-> NoSession]
  /\ data = Loaded(NoItem) /\ disk = NoItem
  /\ clock = 1 /\ calls = 0
  /\ chosen = [o \in Kept |-> "none"]

SwitchingNext ==
  \/ \E s \in Sessions :
       \/ Create(s) \/ Destroy(s) \/ Hotkey(s) \/ Highlight(s) \/ Confirm(s) \/ Escape(s)
       \/ Compose(s) \/ SwitchKey(s) \/ SetOption(s) \/ SelectNextSchema(s) \/ ApiSelectSchema(s)
  \/ Crash

SwitchingSpec == SwitchingInit /\ [][SwitchingNext]_swVars

-----------------------------------------------------------------------------
\* An open menu is complete and tells the truth, whatever the other session, the
\* front end or a binding did since: it has every schema and every switch of
\* the schema in use, which comes first; each switch leads away from the present
\* state of its option, and of each group exactly one option is on.  The one
\* exception is a menu opened in a temporary ascii mode that has ended since,
\* with the composition, by a call of the API: it offers to leave the mode that
\* has been left already.
OpenMenuIsTrue ==
  \A s \in Live : sessions[s].active =>
    LET x == sessions[s]
        Offered(type) == {x.menu[i].text : i \in {j \in DOMAIN x.menu : x.menu[j].type = type}}
        lapsed == x.lapsing /\ ~x.inline
    IN  /\ x.menu[1].text = x.schema
        /\ Offered("schema") = Schemas /\ Offered("switch") = SwitchesOf(x.schema)
        /\ \A i \in DOMAIN x.menu :
             /\ "target" \in DOMAIN x.menu[i] =>
                  IF lapsed /\ x.menu[i].text = AsciiMode
                    THEN ~x.menu[i].target /\ AsciiMode \notin x.opts
                    ELSE x.menu[i].target = (x.menu[i].text \notin x.opts)
             /\ "group" \in DOMAIN x.menu[i] =>
                  Cardinality(ToSet(x.menu[i].group) \cap x.opts) = 1

\* What was chosen from the menu comes back: a new session starts with the
\* schema and with the toggles to be saved that were last chosen in any
\* session, live or gone; after a crash with those that were on the disk.  Of
\* radio options this is not so: SelectOption saves only what it changes.
ChoiceComesBack ==
  [][\A s \in Sessions : ~sessions[s].live /\ sessions'[s].live =>
       \A o \in DOMAIN chosen : chosen[o] # "none" =>
         IF o = "schema" THEN sessions'[s].schema = chosen[o]
         ELSE (o \in sessions'[s].opts) = (chosen[o] = "true")]_swVars
=============================================================================
