----------------------------- MODULE Deployment -----------------------------
(***************************************************************************)
(* What deployment makes of the files of the shared and the user directory *)
(* (librime/src/lever/deployment_tasks.cc, lever/customizer.cc and         *)
(* dict/dict_compiler.cc): copies of the configs patched by the user's     *)
(* custom files, and for the schemas' dictionaries the table, the reverse  *)
(* lookup db and the prism.  Each file records what it was made from, and  *)
(* the next deployment goes by these records; the process may die at any   *)
(* step and the user may edit a source at any time.                        *)
(*                                                                         *)
(* The text of a source is its revision and its checksum, which nothing    *)
(* else has; a custom file never returns to an earlier text.  Each schema  *)
(* has a prism of its own.  A file that cannot be written is left out.     *)
(***************************************************************************)
EXTENDS Integers, Sequences, SequencesExt, FiniteSets

CONSTANTS
  Names,          \* the ids of the schemas in the order of std::map
  DictOf,         \* the dictionary of a schema, or NoDict
  Dependencies,   \* schema/dependencies of a schema
  UserOnly,       \* the schemas without a shared copy
  ListedBy(_),    \* the schema_list of a patch of default.yaml; 0 is no patch
  Applies(_),     \* whether all items of a patch can be set
  NoDict, Prebuilt, MaxEdits, MaxCrashes

Schemas == ToSet(Names)
General == {"default", "symbols"}
Configs == General \cup Schemas
Dicts   == {DictOf[s] : s \in Schemas} \ {NoDict}

ASSUME NamesAssumption ==
  /\ Names \in Seq(STRING) /\ General \cap Schemas = {}
  /\ DictOf \in [Schemas -> STRING] /\ Dependencies \in [Schemas -> Seq(STRING)]
  /\ UserOnly \subseteq Schemas /\ Prebuilt \subseteq Dicts

ASSUME PatchesAssumption ==
  /\ MaxEdits \in Nat /\ MaxCrashes \in Nat
  /\ \A p \in 0..MaxEdits : ListedBy(p) \in Seq(STRING) /\ Applies(p) \in BOOLEAN

VARIABLES
  source,     \* the shared copy of a config: the version it declares
  lexicon,    \* the files of a dictionary, 0 when there is none
  custom,     \* <config>.custom.yaml, 0 when there is none
  dest,       \* the user's copy of a config
  table, reverse, prism,
  job,        \* the task that runs and where in it
  calm,       \* no source has been edited since workspace_update began
  settled,    \* it ended well and was calm, and no source has been edited since
  edits, crashes

files == <<dest, table, reverse, prism>>
sources == <<source, lexicon, custom>>
vars  == <<source, lexicon, custom, dest, table, reverse, prism,
           job, calm, settled, edits, crashes>>

\* The names that are looked for in a config besides that of a dictionary.
NamesIn(f) == IF f = "default" THEN ListedBy(0)
              ELSE IF f \in Schemas THEN Dependencies[f] ELSE << >>

Copied(f, version) == [version |-> version, patch |-> {}, customization |-> 0,
                       names |-> NamesIn(f), dict |-> TRUE, cut |-> FALSE]

\* What LoadFromFile makes of a missing file, or of one that is no YAML.
NoCopy == [version |-> 0, patch |-> {}, customization |-> 0,
           names |-> << >>, dict |-> FALSE, cut |-> FALSE]

\* What a crash leaves of a config: all that deployment reads in it, some of the
\* names that follow the version and the customization, the version alone or
\* nothing.  A name that is itself cut short is a lost one.
Cut(copy) ==
  LET Lost(names) == [copy EXCEPT !.cut = TRUE, !.names = names, !.dict = FALSE]
  IN  {[copy EXCEPT !.cut = TRUE], [NoCopy EXCEPT !.cut = TRUE],
       [Lost(<< >>) EXCEPT !.customization = 0]}
        \cup {Lost(SubSeq(copy.names, 1, n)) : n \in 0..Len(copy.names)}

\* A binary that Load refuses, for want of the metadata that are written last.
Missing == [sum |-> 0, of |-> 0, with |-> NoCopy]
Broken  == [Missing EXCEPT !.of = -1]
Built(sum, of, with) == [sum |-> sum, of |-> of, with |-> with]

Idle == [at |-> "idle", config |-> "default", seen |-> 0, queue |-> << >>,
         schemas |-> {}, next |-> 1, sum |-> 0, ok |-> TRUE, quick |-> FALSE]

Init ==
  /\ source = [f \in Configs |-> 1]
  /\ lexicon \in [Dicts -> {0, 1}]
  /\ custom = [f \in Configs |-> 0]
  /\ dest = [f \in Configs |-> IF f \in UserOnly THEN Copied(f, 1) ELSE NoCopy]
  /\ table = [d \in Dicts |-> Missing]
  /\ reverse = table
  /\ prism = [s \in Schemas |-> Missing]
  /\ job = Idle
  /\ calm = FALSE
  /\ settled = FALSE
  /\ edits = 0
  /\ crashes = 0

-----------------------------------------------------------------------------
(* The user and the installer of new data.                                 *)

Edited ==
  /\ edits < MaxEdits
  /\ edits' = edits + 1
  /\ calm' = FALSE
  /\ settled' = FALSE
  /\ UNCHANGED <<files, job, crashes>>

UpgradeConfig(f) ==
  /\ f \notin UserOnly
  /\ source' = [source EXCEPT ![f] = @ + 1]
  /\ Edited
  /\ UNCHANGED <<lexicon, custom>>

EditDict(d) ==
  /\ lexicon' = [lexicon EXCEPT ![d] = @ + 1]
  /\ Edited
  /\ UNCHANGED <<source, custom>>

\* By hand, or as SwitcherSettings::Select and CustomSettings::Save do.
Customize(f) ==
  /\ custom' = [custom EXCEPT ![f] = edits + 1]
  /\ Edited
  /\ UNCHANGED <<source, lexicon>>

RemoveCustom(f) ==
  /\ custom[f] # 0
  /\ custom' = [custom EXCEPT ![f] = 0]
  /\ Edited
  /\ UNCHANGED <<source, lexicon>>

-----------------------------------------------------------------------------
(* Customizer::UpdateConfigFile.  "updated" is what it returns: that there *)
(* was nothing to do and that something went wrong look the same.          *)

\* What comes after the update of a config: symbols.yaml after default.yaml.
After(updated) ==
  IF job.config \in Schemas THEN [job EXCEPT !.at = "compile", !.seen = 0]
  ELSE IF job.quick THEN IF updated THEN [Idle EXCEPT !.at = "begin"] ELSE Idle
  ELSE IF job.config = "default"
    THEN [job EXCEPT !.at = "config", !.config = "symbols", !.seen = 0]
  ELSE [job EXCEPT !.at = "link", !.config = "default", !.seen = 0]

\* source_version > dest_version, where the patched copy's version is the
\* copied one's with a suffix.
Redistribute(f) == f \notin UserOnly /\ source[f] > dest[f].version

NeedUpdate(f) == Redistribute(f) \/ dest[f].customization # custom[f]
IsDirty(f)    == dest[f].customization # 0
NeedCopy(f)   == Redistribute(f) \/ (IsDirty(f) /\ f \notin UserOnly)

Compare ==
  LET f == job.config
      steps == IF ~NeedUpdate(f) THEN After(FALSE)
               ELSE IF NeedCopy(f) THEN [job EXCEPT !.at = "copy", !.seen = custom[f]]
               ELSE IF custom[f] # 0 THEN [job EXCEPT !.at = "patch", !.seen = custom[f]]
               ELSE After(TRUE)
  IN  job.at = "config" /\ job' = steps /\ UNCHANGED <<sources, files, calm, settled, edits, crashes>>

Copy ==
  /\ job.at = "copy"
  /\ dest' = [dest EXCEPT ![job.config] = Copied(job.config, source[job.config])]
  /\ job' = IF job.seen # 0 THEN [job EXCEPT !.at = "patch"] ELSE After(TRUE)
  /\ UNCHANGED <<sources, table, reverse, prism, calm, settled, edits, crashes>>

\* The copy and the custom file are read again; the checksum is not.  Of the
\* names a patch sets, or brings back, the schema_list only.
Patched(f, copy, patch, seen) ==
  [copy EXCEPT !.patch = @ \cup {patch}, !.customization = seen,
               !.names = IF f = "default" /\ ListedBy(patch) # ListedBy(0)
                           THEN ListedBy(patch) ELSE @]

Patch_Unsigned ==    \* Fault: the customization that was applied is not recorded
  LET f == job.config
  IN  /\ job.at = "patch"
      /\ dest' = IF custom[f] # 0 /\ Applies(custom[f])
                   THEN [dest EXCEPT ![f] = Patched(f, @, custom[f], 0)] ELSE dest
      /\ job' = After(custom[f] # 0 /\ Applies(custom[f]))
      /\ UNCHANGED <<sources, table, reverse, prism, calm, settled, edits, crashes>>

Patch ==
  LET f == job.config
      applied == custom[f] # 0 /\ Applies(custom[f])
  IN  /\ job.at = "patch"
      /\ dest' = IF applied THEN [dest EXCEPT ![f] = Patched(f, @, custom[f], job.seen)] ELSE dest
      /\ job' = After(applied)
      /\ UNCHANGED <<sources, table, reverse, prism, calm, settled, edits, crashes>>

-----------------------------------------------------------------------------
(* RimeStartMaintenance and WorkspaceUpdate::Run.                          *)

\* Without a full check it is the update of default.yaml that tells whether
\* there is anything to do.
StartMaintenance(full) ==
  /\ job.at = "idle"
  /\ job' = IF full THEN [Idle EXCEPT !.at = "begin"]
            ELSE [Idle EXCEPT !.at = "config", !.quick = TRUE]
  /\ UNCHANGED <<sources, files, calm, settled, edits, crashes>>

BeginWorkspace ==
  /\ job.at = "begin"
  /\ job' = [job EXCEPT !.at = "config"]
  /\ calm' = TRUE
  /\ UNCHANGED <<sources, files, settled, edits, crashes>>

\* SymlinkingPrebuiltDictionaries: the shared binaries, made from the first
\* revisions, where the user has none.
LinkPrebuilt ==
  LET Linked(file, binary) == IF file = Missing THEN binary ELSE file
  IN  /\ job.at = "link"
      /\ table' = [d \in Dicts |->
           IF d \in Prebuilt THEN Linked(table[d], Built(1, 1, NoCopy)) ELSE table[d]]
      /\ reverse' = [d \in Dicts |->
           IF d \in Prebuilt THEN Linked(reverse[d], Built(1, 1, NoCopy)) ELSE reverse[d]]
      /\ prism' = [s \in Schemas |->
           IF DictOf[s] \in Prebuilt THEN Linked(prism[s], Built(1, 1, Copied(s, 1))) ELSE prism[s]]
      /\ job' = [job EXCEPT !.at = "list"]
      /\ UNCHANGED <<sources, dest, calm, settled, edits, crashes>>

Selection == dest["default"].names

HasSource(s) == s \in Schemas

\* A default.yaml without a list is a failure, one with a part of it is not.
ReadList ==
  /\ job.at = "list"
  /\ job' = IF dest["default"].cut /\ Selection = << >> THEN Idle
            ELSE [job EXCEPT !.at = "next", !.queue = Selection]
  /\ UNCHANGED <<sources, files, calm, settled, edits, crashes>>

\* SchemaUpdate::Run of the next schema: its file must tell the schema's id.
Update(s) ==
  IF s \in UserOnly /\ dest[s].version = 0
    THEN [job EXCEPT !.queue = Tail(@), !.schemas = @ \cup {s}, !.ok = FALSE]
    ELSE [job EXCEPT !.at = "config", !.config = s, !.queue = Tail(@),
                     !.schemas = @ \cup {s}]

\* Schemas without a file are passed over and no failure, and dependencies that
\* have been built are not built again.
NextSchema ==
  LET s == Head(job.queue)
  IN  /\ job.at = "next"
      /\ job.queue # << >>
      /\ job' = IF ~HasSource(s) \/ (job.next > 1 /\ s \in job.schemas)
                  THEN [job EXCEPT !.queue = Tail(@)] ELSE Update(s)
      /\ UNCHANGED <<sources, files, calm, settled, edits, crashes>>

\* The dependencies of the schemas, in the order of their names: what a
\* schema that comes before depends on is not looked for.
FindDependencies ==
  LET s == Names[job.next]
  IN  /\ job.at = "next"
      /\ job.queue = << >>
      /\ job.next <= Len(Names)
      /\ job' = [job EXCEPT !.next = @ + 1,
                   !.queue = IF s \in job.schemas THEN dest[s].names ELSE << >>]
      /\ UNCHANGED <<sources, files, calm, settled, edits, crashes>>

FinishWorkspace ==
  /\ job.at = "next"
  /\ job.queue = << >>
  /\ job.next > Len(Names)
  /\ job' = Idle
  /\ settled' = (settled \/ (job.ok /\ calm))
  /\ UNCHANGED <<sources, files, calm, edits, crashes>>

-----------------------------------------------------------------------------
(* DictCompiler::Compile of the dictionary of the schema job.config.       *)

Loads(file) == file # Missing /\ file # Broken
ThisDict    == DictOf[job.config]
NextUp      == [job EXCEPT !.at = "next", !.config = "default", !.sum = 0]

TableIsStale(sum) ==
  \/ ~Loads(table[ThisDict])
  \/ table[ThisDict].sum # sum
  \/ ~Loads(reverse[ThisDict])
  \/ reverse[ThisDict].sum # sum

PrismIsStale_OfDictOnly(sum) ==    \* Fault: an edit of the schema does not count
  ~Loads(prism[job.config]) \/ prism[job.config].sum # sum

PrismIsStale(sum) ==
  \/ ~Loads(prism[job.config])
  \/ prism[job.config].sum # sum
  \/ prism[job.config].with # dest[job.config]

\* The checksums are taken here; what they are of is read later.  A schema
\* that names no dictionary, or no longer does, is done.
Compile ==
  LET sum == lexicon[ThisDict]
  IN  /\ job.at = "compile"
      /\ job' = IF ThisDict = NoDict \/ ~dest[job.config].dict THEN NextUp
                ELSE IF sum = 0 THEN [NextUp EXCEPT !.ok = FALSE]
                ELSE IF TableIsStale(sum) THEN [job EXCEPT !.at = "table", !.sum = sum]
                ELSE IF PrismIsStale(sum) THEN [job EXCEPT !.at = "prism", !.sum = sum]
                ELSE NextUp
      /\ UNCHANGED <<sources, files, calm, settled, edits, crashes>>

BuildTable ==
  /\ job.at = "table"
  /\ table' = [table EXCEPT ![ThisDict] = Built(job.sum, lexicon[ThisDict], NoCopy)]
  /\ job' = [job EXCEPT !.at = "reverse"]
  /\ UNCHANGED <<sources, dest, reverse, prism, calm, settled, edits, crashes>>

\* From the vocabulary the table has been built from; whether the prism has to
\* be built as well was found out before.
BuildReverse ==
  /\ job.at = "reverse"
  /\ reverse' = [reverse EXCEPT ![ThisDict] = Built(job.sum, table[ThisDict].of, NoCopy)]
  /\ job' = IF PrismIsStale(job.sum) THEN [job EXCEPT !.at = "prism"] ELSE NextUp
  /\ UNCHANGED <<sources, dest, table, prism, calm, settled, edits, crashes>>

\* The syllabary is that of the table, the algebra that of the user's copy.
BuildPrism ==
  /\ job.at = "prism"
  /\ prism' = [prism EXCEPT ![job.config] =
                 Built(job.sum, table[ThisDict].of, dest[job.config])]
  /\ job' = NextUp
  /\ UNCHANGED <<sources, dest, table, reverse, calm, settled, edits, crashes>>

-----------------------------------------------------------------------------
(* The process dies.  The file it was writing may be gone, or cut short.   *)

Crash ==
  LET f == job.config
  IN  /\ crashes < MaxCrashes
      /\ job.at # "idle"
      /\ crashes' = crashes + 1
      /\ job' = Idle
      /\ dest' \in IF job.at = "copy"
                     THEN {dest} \cup {[dest EXCEPT ![f] = c] : c \in Cut(Copied(f, source[f]))}
                   ELSE IF job.at = "patch" /\ custom[f] # 0 /\ Applies(custom[f])
                     THEN {dest} \cup {[dest EXCEPT ![f] = c] :
                                         c \in Cut(Patched(f, dest[f], custom[f], job.seen))}
                   ELSE {dest}
      /\ table' \in IF job.at = "table"
                      THEN {[table EXCEPT ![ThisDict] = b] : b \in {Missing, Broken}} ELSE {table}
      /\ reverse' \in IF job.at = "reverse"
                        THEN {[reverse EXCEPT ![ThisDict] = b] : b \in {Missing, Broken}}
                        ELSE {reverse}
      /\ prism' \in IF job.at = "prism"
                      THEN {[prism EXCEPT ![f] = b] : b \in {Missing, Broken}} ELSE {prism}
      /\ UNCHANGED <<sources, calm, settled, edits>>

Next ==
  \/ \E f \in Configs : UpgradeConfig(f) \/ Customize(f) \/ RemoveCustom(f)
  \/ \E d \in Dicts : EditDict(d)
  \/ \E full \in BOOLEAN : StartMaintenance(full)
  \/ BeginWorkspace \/ LinkPrebuilt \/ ReadList \/ NextSchema
  \/ FindDependencies \/ FinishWorkspace
  \/ Compare \/ Copy \/ Patch
  \/ Compile \/ BuildTable \/ BuildReverse \/ BuildPrism
  \/ Crash

Spec == Init /\ [][Next]_vars

-----------------------------------------------------------------------------
\* The schemas that are to be deployed: the listed ones and what they need.
Required ==
  LET listed == {s \in ToSet(Selection) : HasSource(s)}
  IN  listed \cup {d \in UNION {ToSet(dest[s].names) : s \in listed} : HasSource(d)}

\* A copy is of the current version, and has the current patch and, where it
\* can be copied again, no other; a patch that does not apply is left out whole.
\* One that was cut short may have kept some of a former patch.
ConfigIsDerived(f) ==
  /\ f \notin UserOnly => dest[f].version = source[f]
  /\ custom[f] # 0 /\ Applies(custom[f]) => custom[f] \in dest[f].patch
  /\ f \notin UserOnly /\ ~dest[f].cut =>
       dest[f].patch \subseteq {r \in {custom[f]} : r # 0 /\ Applies(r)}

DictIsDerived(s) ==
  LET d == DictOf[s]
  IN  d # NoDict =>
        /\ table[d].of = lexicon[d]
        /\ reverse[d].of = lexicon[d]
        /\ prism[s].of = lexicon[d]
        /\ prism[s].with = dest[s]

\* After a workspace_update that reports no failure, and during which no source
\* was edited, every file it is about is made from the sources as they are,
\* whatever crashes, edits and unfinished deployments came before.  A config
\* that a crash cut short is one of them, by what is left of it: it is made
\* again if its head was lost, and otherwise may stay without its end.
EndsDeployed ==
  settled => /\ \A f \in General \cup Required : ConfigIsDerived(f)
             /\ \A s \in Required : dest[s].dict => DictIsDerived(s)

\* While no source is edited, the deployments that follow such a one write
\* nothing, and a crash in one of them breaks nothing: the records agree with
\* what the next deployment compares them to.
LeavesDeployedAlone == [][settled => UNCHANGED files]_vars
=============================================================================
