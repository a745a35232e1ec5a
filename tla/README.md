# Formal models of the Rime input method engine

This directory models the core of this repository, the input method engine
*librime* and its front end *ibus-rime*, in TLA+.  TLC checks the modules on
small instances, and TLAPS proves the theorems in the `*Proofs` modules for
every value of the constants.  The source is the reference: every definition
is translated from the lines that `PROJECT.json` maps it to.

    tlc -workers 2 -config MCFluency.cfg MCHeldKey    # one run
    tlapm DeployerProofs.tla                          # one module's proofs

## 1. The system

A key typed by the user goes from ibus-rime (`ibus-rime/rime_engine.c`) through
the C API (`rime_api.cc`) to a *session* of the *service* (`service.cc`), whose
*engine* (`engine.cc`) hands it to a chain of *processors* (ascii composer,
chord composer, recognizer, key binder, speller, punctuator, selector,
navigator, editor, ...).  Processors call methods of the *context*
(`context.cc`), which holds the typed text, a caret and the *composition*; the
context notifies the engine, which *composes* anew: *segmentors* cut the text
before the caret into segments, *translators* give each a menu of candidates,
made lazily and passed through *filters*.  What is committed goes to a sink,
from which the front end fetches it, and to the user dictionaries, which learn.

What a translator knows it finds in a *dictionary*, a table compiled from text,
by way of the *spelling algebra* of the schema (kept in the *prism*) and of the
*syllabifier*, and in the user dictionary.  A *schema* is a config that says
which of all these a session has; the *switcher* lets the user change schema
and options.

Beside this, a *work thread* owned by the *deployer* (`deployer.cc`) patches
configs, rebuilds dictionaries and synchronises user data, while sessions are
kept out (*maintenance mode*) or not.

### Inventory

| component | state | operations | hard behaviour | correctness |
|---|---|---|---|---|
| segmentation and segmentors | vector of segments with status, menu, highlight; the input it is for | reset, add, forward, trim; a round of segmentors; translate | an in-place vector under loops and callbacks that assume it tiles the input; termination | tiling, complete, nothing selected is lost, the loop ends |
| context | input, caret, composition, options | push/pop/delete, select, confirm, reopen, refresh, clear, commit | methods notify the engine, whose handlers call back; order of mutation and notification | composition in sync with input and caret |
| engine and editing keys | the context; the sink | one handler per key | chains of context methods, early returns, two editors, auto-select | what is committed accounts for what was typed; keys get done; what is shown is what the keys mean |
| ascii composer, chord composer, key binder, recognizer, punctuator | flags over streams of press and release; alternation indices | process key event | missing releases, re-entrance, temporary modes, keys sent from within | modes and marks end with what they were for; text does not overtake |
| deployer | task queue, thread handle, maintenance flag | schedule, start, run, join | two threads; windows between look and act | one thread, first in first out, nothing lost, truthful messages |
| service and API | started flag, sessions | start, stop, create, find, clean up; start maintenance, sync, finalize | calls against the work thread, recovery outside maintenance | no session in maintenance, quiet after finalize |
| user dictionary, memory | entries with commits, weight, tick; one open transaction per db | learn on commit, revert on BackSpace, look up | sessions share a db and its transaction; delayed revert | a reverted commit leaves no trace; all that was learnt is found |
| user db synchronisation | a db per machine, snapshots in a shared directory | backup, merge, restore, upgrade, recover | machines in any order, repeated, crashes in between | merging loses no use and converges |
| deployment tasks | configs, custom files, tables, reverse dbs, prisms, and what each records of its sources | start maintenance, workspace update, schema update, config file update, symlinking | stale or half-written files taken for current; edits and crashes at any step | what is deployed is made from the present sources; nothing is touched twice |
| config, customizer | trees loaded from YAML, shared between those who opened a file | load, set, patch, save | shared data saved by the last to let go | an edit is neither lost nor applied under another's name |
| switcher, schemas | per session: schema, options, an open menu; the user config | hotkey, highlight, confirm, select, apply | options change under an open menu; two sessions share a config | an open menu is true, a choice comes back |
| menu, translations, filters | lazily merged streams | prepare a page | laziness and comparison while merging | lazy result = eager result |
| algebra, syllabifier, encoder, dictionaries | spellings, syllable graph, tables | build, look up | pruning, going back in scans, overlaps | against a reference definition |
| translators | a translation with cursors; what is to be learnt | query, next, memorize | searches widened on demand, sentences, constructed phrases | every word is found, no other; the preedit spells it |
| ibus-rime | the session of each input context | key events, properties | repeated keys, session lost in maintenance | see service |
| key names, modules, levers' wrappers, tools, data | - | - | - | not modelled, see section 7 |

What is hard to test is listed in `PROJECT.json` under `hazards`, each at its
line, with the properties that watch it.

## 2. Modules

`A <- B` reads "B extends A"; `PROJECT.json` maps each definition to its lines.

    Segments <- Segmentation                           MCSegmentation
    Segments <- Context <- Engine <- View              MCEngine
                  SegmentsProofs <- SegmentationProofs
                  SegmentsProofs <- EngineProofs
                           Engine <- HeldKey           MCHeldKey
                           Engine <- Keyboard          MCKeyboard
    Deployer <- Service                                MCDeployer, MCService
    Deployer <- LeftBehind                             MCLeftBehind
      (Deployer implements TaskQueue)                  DeployerProofs, ServiceProofs
    UserDict                                           MCUserDict, UserDictProofs
    UserDbSync                                         MCUserDbSync, UserDbSyncProofs
    Config, Menu <- Switching                          MCSwitching
    Deployment                                         MCDeployment, DeploymentProofs
    Spelling <- Collector <- Lexicon <- Script
             <- TableTranslator <- Lookup              MCLookup

**Segments** holds the data and the pure parts: segments as records, the
segmentors (ascii, matcher, affix, abc, punctuation, fallback) as the schemas
order them, `Reset`, `AddSegment`, `Forward`, `Trim` of `segmentation.cc`, and
what the translators make of a segment.  A dictionary is here the constant
`Lexicon`: for each code the lengths of the candidates it has, longest first; a
candidate is the length of input it stands for, its text is left out.  A pattern
of the recognizer is a first character, a body and an optional end.

**Segmentation** runs the loops of `ConcreteEngine::Compose` one turn per step
(`Reset`, `RunRound`, `Finish`, `TranslateAll`), between any two inputs, with the
in-place changes of `Context` as steps in between.  It asks whether the vector
of segments keeps tiling the input and whether the loop ends.

**Context** has one operator per method of `Context`, from a context to the
context it leaves with all that the notified handlers did: the notifications
are plain calls, so nothing can come in between.  `Rounds`, the loop of
`CalculateSegmentation` taken as a whole, is what the rounds, a recursive
function of their number, have made at the first number at which the loop is
over.  One thing the model keeps
nondeterministic: `OnSelect` reads `seg.end` through a reference that
`Forward` may have invalidated; what it reads is either answer (`read`) unless
the vector had room (`StableVector`).

**Engine** has one action per key handler of `speller`, `selector`,
`navigator`, `fluency_editor` and `express_editor`, in the order the schemas of
brise list them; `AutoCommit`, `MaxCodeLength`, `AutoSelect*` are the schema's
options, and `Guesses` the candidates that are no table entries, which the
speller does not select of itself.  **HeldKey** adds a user who at some moment holds a key down; the
auto-repeat is its only fairness.  **View** is what is made of the context for
the user: preedit, commit preview and page of candidates as
`RimeGetContext` returns them, and how ibus-rime divides them between inline
text, auxiliary text and table, where nothing is highlighted too.

**Keyboard** puts all the processors of `combo_pinyin` in a row and feeds them
presses and releases of keys that stay down, with modifiers and Caps Lock.  A
processor is an operator on a *turn*: the context, the processors' own members
and what has been made of the key so far.  `ProcessKeyEvent` is recursive, as it
is in the code: `key_binder` and `chord_composer` send keys to the engine from
within.

**Deployer** takes each access to the queue under `mutex_`, each message and
each task as a step, of the API thread or of the work thread.  A thread is
where it is in `Run` (`start`, `fetch`, `run`, `report`, `recheck`,
`quitting`, `exited`); it is still *working* for the API thread while
`quitting`, although it will not look at the queue again.  **TaskQueue** is what
it promises, a queue served one at a time, and **Service** is what calls it: an
API call is the list of operations it makes (`todo`), and between two of them
the work thread may do anything.  The front end calls as ibus-rime does.
**LeftBehind** adds to `Deployer` a history variable, `relied`: the tasks that had
been scheduled when `StartWork` was last turned away because a thread was at work.

**UserDict** is what sessions learn and forget: `OnCommit`, `OnDeleteEntry`,
`OnUnhandledKey` of `memory.cc` over a db whose one transaction they share.
Time is the age of the last commit and of each session's transaction, in
seconds up to the number from which it makes no difference.

**UserDbSync** is one dictionary on several machines: synchronizing, upgrading
and recovering in the steps in which they write files, and a machine that goes
down, fills its disk or fails to restore between any two of them.  The history
variables `best`, `gutted` and `round` are there for the properties; what a user
throws away by deleting a word twice does not count as lost (`best`).

**Config** is a tree of scalars by path, and the data of a file that all who
have it open share and the last one saves.  **Menu** is `Menu::Prepare`, the
merging of translations.  **Switching** uses both: sessions with a schema,
options and a switcher that may be open, over one `user.yaml`; an action per
way to open, use and leave the switcher, to set an option or to select a schema,
to make and destroy sessions, and a crash that loses what was not saved.  The
engine's composition is only told from none: with it ends, by whichever key or
call of the API, the temporary mode that a switch key of style `inline_ascii`
begins (`Ended`, `SwitchAsciiMode`).

**Deployment** is the life of the files.  A source has a revision; each deployed
file carries what the code records in it (the version, the checksum of the
custom file and of the dictionary files) and, for the properties, what it was
truly made from.  A deployment is a `job` that goes through its configs in the
steps in which the code writes files (`Compare`, `Copy`, `Patch`, `Compile`,
`BuildTable`, `BuildReverse`, `BuildPrism`): `default.yaml`, `symbols.yaml`, the
schemas listed and those they depend on.  Edits of any source, upgrades and
crashes come between any two, and a crash while a config is written leaves it
cut short at any of the places that make a difference to what is read of it
(`Cut`): before the version, before the customization, or within the names that
follow them.  A job skips what the records say is up to date, as the code does.

**Spelling**, **Collector**, **Lexicon**, **Script**, **TableTranslator** are the
pure part of a look-up: the algebra's script of spellings and the syllable graph
with its pruning; the compilation of dictionary sources into tables with the
phrase encoder; queries of the dictionary and of the user dictionary by graph
and by prefix; the translators with their lazy streams, sentences and what they
memorize.  **Lookup** makes a state machine of them, for schemas of six kinds: a
user types, erases, asks for more candidates, selects, commits and deletes.  The
last selection commits, or in the fluency editor (`auto_commit` is `FALSE`) waits
for a Space and more may be typed and selected before: then what is memorized and
recorded is divided where a selection was confirmed (`Memorized`, `Pushed`).

The definitions named `X_Y`, commented "Fault", are not part of the models: each
is `X` with a plausible mistake, used to check that the properties see it
(`mutants` in `PROJECT.json`).

## 3. Runs

| run | instance | what it shows |
|---|---|---|
| `segmentation` | inputs of up to 3 of a letter, a punctuation mark and a quote that begins and ends a reverse look-up; 3 codes; ascii mode on and off | `Tiling`, `FullySegmented` at every turn of the loop, `SelectionKept` by every reset and round, and `ComposeReturns` within as many rounds as there are characters |
| `fluency` | inputs of up to 3 of two letters and the marks 1 and 2, 6 codes with full, partial, equal and no candidates, pages of 2; any keys, then one held | `MenuIsCurrent`, `SelectionExact`, `CommitAccountsForInput`, `BackSpaceKeepsSelections`; and `SpaceCommits`, `BackSpaceErases` |
| `express` | the same with the express editor and a table schema's speller, which selects the only candidate and, when a letter overruns a word, that word; one candidate is a guess | `MenuIsCurrent`, `SelectionIsCommitted`, `PageIsTrue`, `HighlightAligned` |
| `keyboard` | one letter with two candidates, inputs of up to 2, pages of 1; two chord keys; Shift, Control and Caps Lock; up to 2 keys down | `TextNotOvertaking`, `ChordLeavesNoTrace`, `TapToggles`, `InlineAsciiEnds` |
| `deployer` | 2 kinds of tasks, 2 thread identities, 4 tasks in all | `OneWorker`, `NothingLost`, `MessageTruthful`, `ModeIsStable`, and that it implements `TaskQueue` (`ServesQueue`) |
| `left_behind` | the same with 3 tasks in all | violates `NothingLeftBehind`, see section 5 |
| `service` | 1 session, 6 tasks in all, damaged dictionaries | `FinalizedIsQuiet`, `DirectTaskAlone`, `MaintenanceWithoutSessions`, `SyncInMaintenanceAtFirst`, `UsesDeployer`, `CallsReturn` |
| `user_dict` | 2 sessions, 1 syllable, commits of up to 3, 2 edits | `RevertIsRecent`, `RevertIsLast` |
| `user_db` | 2 machines, 2 words, 2 edits, 1 fault | `BackedUpIsKept`, `AgreeAfterTwoRounds` |
| `switching` | 2 sessions, 2 schemas with toggles, `ascii_mode` among them, and a radio group, 3 switch styles, 3 choices | `OpenMenuIsTrue`, `ChoiceComesBack` |
| `deployment` | 3 schemas, of which one needs another and two share a dictionary and a third is the user's own; 3 edits, 1 crash | `EndsDeployed`, `LeavesDeployedAlone` |
| `lookup` | 6 schemas: three of the script translator (one in the fluency editor), two of the table translator, a reverse look-up; inputs of up to 2 to 4, 1 to 3 commits and deletions | `EveryWordIsFound`, `PreeditIsSpelt`, `EveryExtensionIsFound` |

**Bounds.** Three characters are the shortest input with a partial candidate, a
rest and a further word, so two selections can be reopened and one shortened, and
the shortest with a prefix, a code and a suffix; with two letters and two marks
every kind of segment meets every other. In `keyboard` two characters and two keys
down let a chord, a modifier and a letter overlap in every order, and pages of one
candidate let the paging keys come into their own. Four tasks let a thread find a
task at its last look, leave one behind, and let a second thread begin on two, and
`left_behind` needs no second thread; thread identities are reused after an exit,
so two are enough to tell "the thread I know" from "another". Six tasks are the
first start, a sync or a redeployment, and a recovery besides. Three syllables are
a phrase, a part of it and what is left. A second fault may destroy both copies of
a record, and `BackedUpIsKept` is about one. Two edits do not reach a word that is
deleted twice after it was backed up: that takes four, with which, for one word,
`user_db` passes as well; and `BackedUpIsKept` is proved for any number. In
`switching` three choices are one in each of two sessions and one that undoes, or
one that begins a temporary ascii mode and two after it; beside the current schema
there is one other, whose time of use is one second or none. In `deployment` three
edits let a source change before, during and after a deployment, and one crash
falls into any step of it; `EndsDeployed` and `LeavesDeployedAlone` are proved for
any number of both. In `lookup` four letters give the longest word of the table
one that is longer than its index, three letters of the other schemas all overlaps
of a syllable with its neighbours, and two are enough for two selections of which
one waits for the other; the table translator's first search is for one entry and
each next for twice as many (`InitialSearchLimit`, `ExpandingFactor`; 10 and 10 in
the code), so that three letters widen it twice.

**Symmetry and views.**  `user_db` uses symmetry of machines and words, and a view
without the snapshot in the trash once it is no longer going to be read;
`switching` uses symmetry of the sessions.  Both check safety only, where these
are sound.

**Deadlock** is checked in the runs of the engine, where a key can always come,
of the deployer, of `user_dict`, of `switching` and of `deployment`.  It is not in `service`,
where the front end exits, in `user_db`, where the bound on edits ends what a
dictionary that is in order can do, and in `lookup`, where the input may be full
and the changes used up.

**Fairness.**  `Deployer`: of each work thread, which the operating
system runs when it can run; a task that runs is taken to end.  `Service`: of the
work threads and of an API call begun, not of the front end, which need never
call anything.  `HeldKey`: of the auto-repeat, once a key is held.  The others
assume none: that `Compose` returns is an invariant, a bound on its rounds.

## 4. Proofs

TLAPS checks the following for every value of the constants that the named
assumptions allow.  An assumption is named in the module that declares the
constants, and TLC evaluates it in the runs.

**SegmentsProofs** holds what the pure parts do, as lemmas: that `Reset`,
`AddSegment`, `Forward`, `Trim` and each segmentor keep a composition *formed*
(`Formed`: nonempty segments but for the last, in order, without gap, with
candidates that stay within, up to a given end), what they leave of it, and when
they stop.  **SegmentationProofs** draws from them

* `AlwaysTiled`, `WholeSegmented`, `LoopsReturn` (`Tiling`, `FullySegmented`,
  `ComposeReturns`), `SelectionsKept` (`SelectionKept`), `OffersStayWithin` and
  `SegmentationTyped`.

The invariant is the type, `Formed`, and four things it needs: the segment that
the next round is to work on is open (`LastOpen`), what the loop works on is
undecided (`Undecided`), it is complete once the loop is over (`Whole`), and
each round has taken at least a character (`Bounded`).  `OfferWithin` is part of
`Formed` because a selection sets the end of its segment to that of a candidate.
Assumed: that the dictionary's lengths fit their codes (`LexiconAssumption`),
that letters and marks differ (`AlphabetAssumption`), and the forms of punctuation,
patterns and options.

**EngineProofs** is about `Engine` and `View`, the handlers of keys taken as a
whole.

* `EngineInvariance` and `AlwaysCovered`: between two keys the context is at rest
  (`Rest`): composed from the present input up to the caret, formed to its
  end, finished and translated; and a key let through leaves nothing behind.  Every
  handler is a chain of methods of `Context`, so that the proof has a lemma for
  each: from a context that is *ready* (`Ready`, what holds while a handler
  runs) to one at rest.  The loop of rounds is a recursive function of the number
  of rounds; that there is one is proved from its approximations, and that it
  ends, from the bound of `SegmentationProofs`.
* `MenusAreCurrent` (`MenuIsCurrent`): a segment kept from before a change still
  means what translating it would make of it (`Settled`), because what is kept
  is before the change and a segmentor that looks at a longer text finds the same
  beginning, or the segment is raw or of another kind that is shut.
* `SelectionsExact`, `SelectionsAreCommitted`, `CommitsAccountForInput`: what is
  selected is one of the segment's candidates and ends where it does
  (`Selectable`); what a commit says recites the segments one after another
  (`Recites`), and what it leaves in the input is what it did not say (`Leaves`).
  For `auto_select` the hard part is `OverrunSelectable`: what it selects was there
  before the last character, so the composition is that of the shorter text.
* `TextKeysDoNotOvertake` (`TextKeyNotOvertaking`), from the invariant; the runs ask
  it of all the processors together (`TextNotOvertaking`).
* `PagesAreTrue`: the page that is drawn is the page that the keys mean (`OnePage`).
* `HighlightsAligned`: the preview of the commit and the preedit, made by different
  walks over the segments, agree up to the last selection
  (`PreviewAsPreedit`), and the highlighted segment is the only one not chosen.

* `BackSpaceLeavesSelections` (`BackSpaceKeepsSelections`): the last segment is
  one that the letter has opened or made longer, so that nothing chosen reaches
  the letter (`ChosenWithin`) and the speller has left no selection to be
  reopened (`Typed`); BackSpace can then only erase, and composing the text
  without its last letter keeps the segments before the last (`Shrunk`).
* `BackSpaceGetsOn` and `SpaceGetsOn` are the reason why a key held down comes to
  an end.  The measure is the caret and, while that stays, the position up to
  which the composition is confirmed.  BackSpace lowers it (`Retreats`): a
  selection reopened is the last one, and composing anew chooses nothing beyond
  those before it (`ChosenWithin`).  Space raises it or commits (`Onward`): what
  it confirms begins after all that has been confirmed, and composing the
  same text keeps it (`ChosenKept`), but for raw text in the midst of the input,
  which the fallback segmentor may join to, and which is never what Space has just
  confirmed.  Both hold in either editor and with every speller of a plain
  schema, and for whatever `OnSelect` reads through its stale reference.

The hypotheses say where these hold.  `Plain` is a schema without recognizer
patterns and punctuation, with an affix segmentor (if any) whose tag is none of
`abc`, `raw` and `paging`, and in which nobody switches `ascii_mode`; the
instances of `fluency` and `express` are such.  `MenuIsCurrent`,
`SelectionIsCommitted`, `HighlightAligned`, `BackSpaceKeepsSelections` and the two
properties of a held key are proved of plain schemas; the others hold of all as long as `AutoSelect` is off.
The hypotheses are not there for the proof's sake: with patterns a menu may be
stale, and an overrun of `auto_select` may leave a composition that does not
tile (section 5).  `HighlightAligned` is about the express editor (`AutoCommit`),
and `BackSpaceKeepsSelections` about the fluency editor with a speller that
selects nothing of itself (neither `AutoSelect` nor `AutoSelectUnique`), as their
runs are.  That is what BackSpace does there: the express editor's takes back an
earlier selection with the letter, and a selection made by the letter itself is
what it undoes first.

**DeployerProofs**: `TypeCorrect`, `NeverTwoWorkers`, `NoTaskLost`,
`MessageIsTruthful`, `ModeStable`, and `ImplementsQueue`: the deployer refines
`TaskQueue`.  All rest on one inductive invariant, `IInv`, which adds to the
type invariant and to `OneWorker` and `NothingLost` what they need to be
preserved: a thread has a task in hand exactly while it is in `run` (`HandOK`;
without it the task between queue and results could be lost or be counted
twice), `failed` says whether one of the results since `base` is a failure
(`FailedOK`), and the message last sent is the one `failed` asked for
(`ToldOK`).  `OneWorker` is its heart: `StartWork` looks at the handle only, so
that a thread the handle has forgotten would be one too many.  The only
assumption on constants is `DeployerAssumption`: `NoWorker` is no worker.

**ServiceProofs**: `DeployerUsed`, by which `IInv` holds under the service too, then
`QuietWhenFinalized`, `DirectTaskIsAlone` and `NoSessionInMaintenance`.  The code
has no lock for these; the order of the operations within each call of the API
is all there is, and the inductive invariant `ServiceInv` states it of whatever
is left of the call in progress: stopping, starting and running a task directly
come first only when no thread works, and otherwise right after a join or after
one another (`Apart`); a start of the work thread in maintenance mode comes after
the sessions are gone (`Cleared`); a stopped service is started next, unless the
front end quits (`Restarted`).  Then that maintenance begins with no other call.
`SyncStaysInMaintenance` needs a second invariant, for as long as no recovery has
been scheduled (`AtFirst`): every start outside maintenance that is still to come
is announced by a recovery scheduled before it in the same call (`Announced`), and
every thread alive is in maintenance mode; after the first recovery the property
asks nothing more.  The assumptions are `DeployerAssumption` and that the tasks of
the API are among `Tasks`.

**DeploymentProofs**: `AllIsDeployed` (`EndsDeployed`), for any number of edits and
crashes.  The records in the files are all that a deployment goes by.  So the
invariant has two parts: what the records are worth, whatever comes between two
writes (`CopiesInv`; `BinariesInv`, by which a binary that claims to be of certain
sources has been made of them or of older ones of which it says so), and what is in
order, and stays so, while a deployment goes on in calm: the files already visited
(`KeptInv`) and the schemas still due, with all that they depend on
(`ClosureInv`).  The second is where the queue of dependencies is accounted for.

`DeployedIsLeftAlone` (`LeavesDeployedAlone`) is not a matter of what is required.
The code looks for the dependencies of a schema in the order of the schemas'
names, and only of those it has dealt with by then; so a later deployment,
whose list differs from the first only in what it finds up to date, might come to a
schema that the first one never saw, and write it.  The invariant gives each schema
the turn in which the first deployment has dealt with it, or one past the end
(`Turns`, `Follows` while that deployment goes on).  When it has ended, everything
with a turn before the end is in order, and what such a schema needs has its turn
right after, at the latest (`Closed`); so no later deployment, and none that a
crash made start again, comes to a schema before its turn (`Within`), and all it
comes to is in order.  That it has nothing to link either is `Linked`.  The two parts are
`TurnInv`, until the deployment has ended, and `AloneInv` from then on.  The
dependencies may be circular, or lead to names that come earlier.

Assumed are, for all of them, only the kinds of the constants: that configs and dictionaries have
names, the general configs (`default`, `symbols`) are no schemas (`NamesAssumption`), and that the bounds are
numbers and a revision of the custom file lists schemas (`PatchesAssumption`).

**UserDictProofs**: `ForgetsOnlyRecent` and `ForgetsOnlyLast`, from the invariant
that an open transaction is the one of the last commit, that it goes back to
the records from before that commit, and that no session's clock shows less
than its age (`TransactionOK`).  The clocks are needed because a session asks
its own, and the transaction may be another's.

**UserDbSyncProofs**: `BackedUpStays`.  What has been backed up a machine keeps
twice, in its snapshot (`InSnapshot`) and in its db or in the snapshot in the
trash that the db is to be restored from (`InDb`).  Each of the two is kept by
every step that is no fault, for its own reasons: the snapshot, because what
replaces it comes from a db that has merged it, or that is damaged and could
not merge anything but has never lost anything either; the db, because only a
fault damages it, and because it is removed only after the trash has it.  A
fault harms one of them, whichever it strikes, so that one is left after the
first (`Kept`).  `gutted` excludes the one fault that harms both.

`MachinesAgree` (`AgreeAfterTwoRounds`): the first round brings into the snapshots
all that any db has, and the second into every db all that any snapshot has.  What
makes it more than that is that the rounds overlap and that a backup goes on
writing what its machine has only just merged.  The invariant `Rounds` says that
no count is lost, in the db of a machine that has not synchronized or in the
snapshot of one that has (`Floor`); that a machine that has synchronized has heard
all the others, save for what they are going to tell again (`Once`, `Heard`), and one that
synchronizes, those it has merged (`Syncing`); and that once all have, a further
one has merged all that the others have told since, or has a snapshot that tells
as much still before it (`Late`), and has it all in the end (`Twice`).

The theorems need no assumption on constants.

**What is left to TLC.**  Liveness (`SpaceCommits`, `BackSpaceErases`, `CallsReturn`),
which TLAPS cannot prove under fairness; of the first two what each key press
does is proved, and what is left is that a key repeated gets the measure to its
end.  The invariants and action properties of `Keyboard` and of `Lookup`, which reach recursive operators (a processor that sends keys to the
engine; the graph, the encoder, the sentences), and those of `Switching`,
whose menu is a fold over the switches: both need induction over data.

## 5. What the checks found

`left_behind` is a run in which TLC finds violated what a comment says, that the
work thread does "double check if there is nothing left to do" before it quits
(`deployer.cc:100`): a task is scheduled between the last look at the queue and
the end of the thread, its `StartWork` is turned away because a thread is still
working (`deployer.cc:107`), and nobody runs it.  It is this window that the run
is about: a task that is merely scheduled relies on nobody, and were the last look
and the end of the thread one step, the property would hold (59 054 states).
What makes it harmless in most cases is that every later `StartWork` takes the task
up: nothing is lost (`NothingLost`).

Also met while modelling; no run is kept for these.

*Editing.*

* The BackSpace of the express editor takes back the letter and with it an earlier
  selection that the speller had confirmed; it reopens what is selected before
  it looks for something to erase.
* With full-width punctuation in front of a selection, toggling `full_shape`
  composes anew but keeps the segments up to the selection, whose menus are of
  the other shape.  Raw input confirmed in `ascii_mode` and reopened by
  BackSpace after the mode is off becomes one segment with the letters that
  follow, without being translated anew.  Both are outside of the instances
  and of `Plain`.
* Where a recognizer's pattern has dissolved the segments that `auto_select` goes
  back to, the composition it leaves may not tile the input.
* In the fluency editor, which selects without confirming, the inline text and the
  auxiliary text are not divided at the same place (`HighlightAligned`).
* The text after the caret is lost on a commit: `GetCommitText` uses the active
  input, while the commit history records the whole input.
* A partial guess that is not the last segment loses its tail in `GetCommitText`,
  and does not in `GetScriptText`.
* `ConfirmCurrentSelection` returns true for raw input that has no menu, which
  the comment at `context.h:47` does not say.
* An option set through the API while the switcher is open goes to the
  switcher's context and is lost with it (`rime_api.cc:354`).
* Committing or clearing the composition through the API under an open switcher
  ends a temporary ascii mode (`ascii_composer.cc:228`); the menu, made before,
  goes on to offer to leave the mode.  `OpenMenuIsTrue` names it as its one
  exception (`lapsed`).

*Service and user data.*

* When the work thread is recovering a dictionary outside maintenance mode, a
  sync joins it there and runs while sessions are served.  (Not before a first
  recovery: `SyncInMaintenanceAtFirst`.  After one it needs no recovery at work:
  tasks left behind are run by the thread of the next.)
* Two sessions share the transaction, not the clock: a BackSpace in one forgets
  what the other has learned.  A deletion goes into the transaction left open by
  the last commit, and goes with it.
* A db that a crash damages while it is being restored is not merged into by the
  next synchronization (`Open` does not repair), but it is backed up
  (`OpenReadOnly` does): what is left in it replaces the complete snapshot.
  `BackedUpIsKept` leaves this one case out (`gutted`).
* A deletion and a use of the same count never agree on two machines, since the
  merge compares absolute values and keeps its own side's sign.
* `merged_entries_` of `UserDbMerger` is never initialized; the tick after a merge
  of no entries is either one.
* Deleting an entry that is deleted already sets its commits to -1, whatever they
  were.  Two sessions that commit in turn can set `/tick` back.
* `Memory::OnCommit` does not save what it has collected when the loop ends at a
  segment that is not confirmed.
* `UserDictionary::Load` skips the recovery while a thread works and tries again
  only when the dictionary is next loaded.

*Deployment.*

* A crash while a config is being written may leave it cut short with the version
  and the signature of a complete one, which is taken for current from then on:
  a schema list without its end, a schema that no longer names its dictionary.
  One that has lost its head is made again by the next deployment.  The
  properties are about such configs too, by what is left of them; the one thing they
  do not ask of them is to be free of a former patch (`cut`, in `ConfigIsDerived`).
* `UpdateConfigFile`'s failure is not told from having nothing to update
  (`deployment_tasks.cc:270`).
* The settings dialog overwrites an edit of the custom file made since it was
  loaded (`custom_settings.cc:42`).

*Look-up.*

* `FetchMoreTableEntries` takes a widened search that brings nothing new for the
  end, although a wider one would bring more.
* `TableTranslator::MakeSentence` drops the user's words where the prism has no
  match, and uses the user dictionary where it is disabled for the pattern; the
  script translator's uses a word of the dictionary only where the user has none
  that ends there (`script_translator.cc:391`).
* `DictEntryIterator::Peek` returns null when all that remain are filtered out
  (`dictionary.cc:99`).
* Words of more than three syllables are listed at the longest end only;
  `DfsLookup` gives up the paths through abbreviations; the credibility of the
  last syllable is not counted (`table.cc:448`).
* A fuzzy spelling barred by `strict_spelling` returns as a completion
  (`syllabifier.cc:158` and `72`).
* `UpdateEntry` with a prefix overwrites an entry that has one afresh; deleting a
  sentence of the table translator makes an entry under a key without meaning
  (`memory.cc:109`).

## 6. Plan

What is left, most important first.

1. `Switching!OpenMenuIsTrue`, with the menu given as a function of a position,
   so that it can be proved.
2. A quick start after a crash (`rime_api.cc:84`), in `Deployment`.
3. Weights and ticks of the user dictionary; import and export.

## 7. Not modelled

* **Engine.**  Wording, the formatting of preedits, prompts and comments, commit
  formatters, the history translator and the reverse look-up filter; delimiters,
  finals and `use_space` of the speller; phrases with their own syllabification
  in the editor's `drop previous syllable`.
* **Deployment.**  The text of sources (a revision stands for it, a checksum for
  the set of revisions it is made from, both injective; an edit always raises
  the version, a custom file never returns to an earlier text); prisms shared by
  name (`dictionary.cc:290`); failing reads and writes other than crashes;
  `backup_config_files`, `cleanup_trash`, `installation_update`,
  `clean_old_log_files`; the settings dialog is one step.
* **Look-up.**  Weights are logarithms and distinct, so that sorting is stable; no
  weight is 2^20 times another; the quality by which menus merge translations; the
  text of candidates beyond its characters, which are code points; regular
  expressions are maps; `formula_p`; the uniquifier within a translator.
* **Libraries.**  Kyoto Cabinet (external: a transaction is committed or aborted
  as a whole, a repair brings back all or fails), boost threads, file systems,
  YAML, marisa, OpenCC.
* **Process.**  `SIGTERM`, whose handler runs `RimeFinalize` at any point of the main
  thread: C leaves the result undefined.  The notification handler called under
  the service's mutex; ibus-rime's does not call back.  Fields read by two threads
  without a lock (`deployer.h:34`).  A second process that holds a db open; the
  recovery of a db that is open; `tick_`; the text db (`text_db.cc:143`).
* Key names and key events, modules, registry and tickets, the wrappers of the
  levers API, the tools, samples and tests, and the data in brise, which the
  models use only as shapes of codes and of schemas.
