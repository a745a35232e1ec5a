-------------------------- MODULE DeploymentProofs --------------------------
(***************************************************************************)
(* That a deployment which ends well has derived every file it is about    *)
(* from the present sources (Deployment!EndsDeployed), for any schemas,    *)
(* dictionaries, dependencies and patches, and any number of edits and     *)
(* crashes; and that the deployments after it write nothing while no       *)
(* source is edited (Deployment!LeavesDeployedAlone).                      *)
(*                                                                         *)
(* The records in the files are all that a deployment has to go by, so the *)
(* invariant is in two parts: what the records are worth, whatever edits   *)
(* and crashes come between two writes (CopiesInv, BinariesInv); and what  *)
(* is in order, and stays so, while a deployment goes on in calm           *)
(* (KeptInv, ClosureInv).  That a later deployment comes to no other       *)
(* schemas than those in order takes the turns in which the first came to  *)
(* them (TurnInv, AloneInv).                                               *)
(***************************************************************************)
EXTENDS Deployment, TLAPS

Places == {"idle", "begin", "config", "copy", "patch", "link", "list", "next",
           "compile", "table", "reverse", "prism"}

CopyType == [version : Nat, patch : SUBSET (1..MaxEdits), customization : 0..MaxEdits,
             names : Seq(STRING), dict : BOOLEAN, cut : BOOLEAN]
FileType == [sum : Int, of : Int, with : CopyType]
JobType  == [at : Places, config : Configs, seen : 0..MaxEdits, queue : Seq(STRING),
             schemas : SUBSET Schemas, next : Nat \ {0}, sum : Nat,
             ok : BOOLEAN, quick : BOOLEAN]

TypeInv ==
  /\ source \in [Configs -> Nat \ {0}]
  /\ lexicon \in [Dicts -> Nat]
  /\ custom \in [Configs -> 0..MaxEdits]
  /\ dest \in [Configs -> CopyType]
  /\ table \in [Dicts -> FileType]
  /\ reverse \in [Dicts -> FileType]
  /\ prism \in [Schemas -> FileType]
  /\ job \in JobType
  /\ calm \in BOOLEAN
  /\ settled \in BOOLEAN
  /\ edits \in 0..MaxEdits
  /\ crashes \in 0..MaxCrashes

-----------------------------------------------------------------------------
(* Where a task may be with what in hand.                                  *)

Compiling == job.at \in {"table", "reverse", "prism"}
InSchemas == job.at = "next" \/ job.config \in Schemas

JobInv ==
  /\ job.at \in {"idle", "begin", "link", "list", "next"} => job.config = "default"
  /\ job.at = "compile" \/ Compiling => job.config \in Schemas
  /\ Compiling => ThisDict # NoDict /\ dest[job.config].dict
                  /\ job.sum # 0 /\ job.sum <= lexicon[ThisDict]
  /\ ~InSchemas => job.schemas = {} /\ job.next = 1 /\ job.queue = << >>
  /\ job.config \in Schemas => job.config \in job.schemas
  /\ job.quick => job.config = "default" /\ job.at \in {"config", "copy", "patch"}
  /\ settled => calm

-----------------------------------------------------------------------------
(* What a copy's records tell.  A shared config is copied again before     *)
(* each patch, so that a whole copy of it never has two.                   *)

\* The recorded patch has been applied, unless it has been replaced since.
Signed(copy, f) ==
  copy.customization = custom[f] /\ custom[f] # 0 =>
    /\ Applies(custom[f])
    /\ custom[f] \in copy.patch
    /\ f \notin UserOnly /\ ~copy.cut => copy.patch = {custom[f]}

SharedCopy(copy, f) ==
  f \notin UserOnly =>
    /\ copy.version <= source[f]
    /\ copy.customization = 0 /\ ~copy.cut => copy.patch = {}

Recorded(copy, f) == copy.customization <= edits /\ Signed(copy, f) /\ SharedCopy(copy, f)

CopiesInv ==
  /\ \A f \in Configs : custom[f] <= edits /\ Recorded(dest[f], f)
  /\ job.seen <= edits
  /\ job.at = "copy" => job.config \notin UserOnly
  /\ job.at = "patch" =>
       job.seen # 0 /\ (job.config \notin UserOnly => ~IsDirty(job.config))

-----------------------------------------------------------------------------
(* What a binary's records tell: it was made from the revision of the      *)
(* recorded checksum, or that is not the present revision.                 *)

Honest(file, d) == Loads(file) => file.of = file.sum \/ file.sum < lexicon[d]

BinariesInv ==
  /\ \A d \in Dicts : Honest(table[d], d) /\ Honest(reverse[d], d)
  /\ \A s \in Schemas : DictOf[s] # NoDict => Honest(prism[s], DictOf[s])
  /\ job.at \in {"reverse", "prism"} => Loads(table[ThisDict]) /\ table[ThisDict].sum = job.sum

-----------------------------------------------------------------------------
(* What is in order by its records, which is when nothing will be written. *)

ConfigDone(f) ==
  ~NeedUpdate(f) \/ (~NeedCopy(f) /\ (custom[f] # 0 => ~Applies(custom[f])))

TableFresh(d) ==
  Loads(table[d]) /\ table[d].sum = lexicon[d] /\ Loads(reverse[d]) /\ reverse[d].sum = lexicon[d]
PrismFresh(s) ==
  Loads(prism[s]) /\ prism[s].sum = lexicon[DictOf[s]] /\ prism[s].with = dest[s]
DictDone(s) == DictOf[s] # NoDict => TableFresh(DictOf[s]) /\ PrismFresh(s)

Done(f) == ConfigDone(f) /\ (f \in Schemas /\ dest[f].dict => DictDone(f))

\* The configs that the task has dealt with without a failure so far.
PastGeneral == job.at \in {"link", "list"} \/ InSchemas
Passed == IF ~job.ok THEN {}
          ELSE IF PastGeneral THEN General \cup (job.schemas \ {job.config})
          ELSE IF job.config = "symbols" THEN {"default"} ELSE {}
Deployed == IF settled THEN General \cup Required ELSE {}
Due == Passed \cup Deployed

KeptInv ==
  calm =>
    /\ \A f \in Due : Done(f)
    /\ job.at = "copy" => job.seen = custom[job.config] /\ NeedUpdate(job.config)
                          /\ NeedCopy(job.config)
    /\ job.at = "patch" => job.seen = custom[job.config] /\ NeedUpdate(job.config)
                           /\ ~NeedCopy(job.config)
    /\ job.at = "compile" \/ Compiling => ConfigDone(job.config)
    /\ Compiling => job.sum = lexicon[ThisDict]
    /\ job.at \in {"table", "reverse"} =>
         \A s \in Due \ General : ~dest[s].dict \/ DictOf[s] # ThisDict
    /\ job.at = "prism" => TableFresh(ThisDict) /\ job.config \notin Due

-----------------------------------------------------------------------------
(* That the schemas dealt with come to be the required ones.               *)

Listed == {s \in ToSet(Selection) : HasSource(s)}
Needs(s) == {d \in ToSet(dest[s].names) : HasSource(d)}

ClosureInv ==
  calm /\ InSchemas =>
    /\ job.next = 1 => Listed \subseteq job.schemas \cup ToSet(job.queue)
    /\ job.next > 1 =>
         /\ Listed \subseteq job.schemas
         /\ job.config \notin Listed
         /\ \A k \in 1..Len(Names) :
              k < job.next /\ Names[k] \in Listed =>
                Needs(Names[k]) \subseteq job.schemas \cup ToSet(job.queue)

IInv == TypeInv /\ JobInv /\ CopiesInv /\ BinariesInv /\ KeptInv /\ ClosureInv
-----------------------------------------------------------------------------
(* Constants and types.                                                    *)

LEMMA NamesAreSchemas ==
  /\ \A i \in 1..Len(Names) : Names[i] \in Schemas
  /\ \A s \in Schemas : \E i \in 1..Len(Names) : Names[i] = s
  /\ Len(Names) \in Nat
  /\ Schemas \subseteq STRING
BY NamesAssumption DEF Schemas, ToSet

LEMMA DictsOfSchemas ==
  ASSUME NEW s \in Schemas, DictOf[s] # NoDict
  PROVE  DictOf[s] \in Dicts
BY DEF Dicts

LEMMA ConfigsApart ==
  /\ "default" \in General /\ "symbols" \in General /\ "default" # "symbols"
  /\ \A f \in General : f \in {"default", "symbols"} /\ f \notin Schemas /\ f \notin UserOnly
  /\ \A f \in Configs : f \in General \/ f \in Schemas
  /\ General \subseteq Configs /\ Schemas \subseteq Configs
BY NamesAssumption DEF General, Configs

LEMMA NamesAreNames == \A f \in Configs : NamesIn(f) \in Seq(STRING)
<1> TAKE f \in Configs
<1>1. ListedBy(0) \in Seq(STRING) /\ << >> \in Seq(STRING)
  BY PatchesAssumption
<1>2. f \in Schemas => Dependencies[f] \in Seq(STRING)
  BY NamesAssumption
<1> QED
  BY <1>1, <1>2 DEF NamesIn

LEMMA CopiesAreCopies ==
  /\ \A f \in Configs : \A n \in Nat : Copied(f, n) \in CopyType
  /\ NoCopy \in CopyType
  /\ \A c \in CopyType : Cut(c) \subseteq CopyType
  /\ \A f : \A c \in CopyType : \A p \in 1..MaxEdits : \A n \in 0..MaxEdits :
       Patched(f, c, p, n) \in CopyType
<1>1. 0 \in 0..MaxEdits
  BY PatchesAssumption
<1>2. \A f \in Configs : \A n \in Nat : Copied(f, n) \in CopyType
  BY <1>1, NamesAreNames DEF Copied, CopyType
<1>3. NoCopy \in CopyType
  BY <1>1 DEF NoCopy, CopyType
<1>4. ASSUME NEW c \in CopyType PROVE Cut(c) \subseteq CopyType
  <2> DEFINE Lost(names) == [c EXCEPT !.cut = TRUE, !.names = names, !.dict = FALSE]
  <2>1. [c EXCEPT !.cut = TRUE] \in CopyType
    BY DEF CopyType
  <2>2. [NoCopy EXCEPT !.cut = TRUE] \in CopyType
    BY <1>3 DEF CopyType
  <2>3. \A names \in Seq(STRING) : Lost(names) \in CopyType
    BY DEF CopyType
  <2>4. c.names \in Seq(STRING) /\ << >> \in Seq(STRING)
    BY DEF CopyType
  <2>5. \A n \in 0..Len(c.names) : SubSeq(c.names, 1, n) \in Seq(STRING)
    BY <2>4
  <2>6. [Lost(<< >>) EXCEPT !.customization = 0] \in CopyType
    BY <1>1, <2>3, <2>4 DEF CopyType
  <2> QED
    BY <2>1, <2>2, <2>3, <2>5, <2>6 DEF Cut
<1>5. ASSUME NEW f, NEW c \in CopyType, NEW p \in 1..MaxEdits, NEW n \in 0..MaxEdits
      PROVE  Patched(f, c, p, n) \in CopyType
  <2>1. ListedBy(p) \in Seq(STRING)
    BY PatchesAssumption
  <2> QED
    BY <2>1 DEF CopyType, Patched
<1> QED
  BY <1>2, <1>3, <1>4, <1>5

LEMMA BinariesAreFiles ==
  /\ Missing \in FileType /\ Broken \in FileType
  /\ \A sum \in Int, of \in Int : \A with \in CopyType : Built(sum, of, with) \in FileType
BY CopiesAreCopies DEF FileType, Missing, Broken, Built

LEMMA IdleIsJob == Idle \in JobType
<1>1. 0 \in 0..MaxEdits
  BY PatchesAssumption
<1>2. << >> \in Seq(STRING)
  OBVIOUS
<1> QED
  BY <1>1, <1>2 DEF Idle, JobType, Places, Configs, General

LEMMA NamesAreRead ==
  ASSUME TypeInv, NEW f \in Configs
  PROVE  dest[f].names \in Seq(STRING)
BY DEF TypeInv, CopyType

LEMMA TasksAreJobs ==
  ASSUME job \in JobType
  PROVE  /\ After(TRUE) \in JobType /\ After(FALSE) \in JobType
         /\ NextUp \in JobType
         /\ \A s \in Schemas : job.queue # << >> => Update(s) \in JobType
<1>1. "default" \in Configs /\ "symbols" \in Configs /\ Schemas \subseteq Configs
  BY ConfigsApart
<1>2. 0 \in 0..MaxEdits
  BY PatchesAssumption
<1>3. [Idle EXCEPT !.at = "begin"] \in JobType
  BY IdleIsJob DEF JobType, Places
<1>4. After(TRUE) \in JobType /\ After(FALSE) \in JobType
  <2>1. [job EXCEPT !.at = "compile", !.seen = 0] \in JobType
    BY <1>2 DEF JobType, Places
  <2>2. \A at \in {"config", "link"} : \A f \in Configs :
          [job EXCEPT !.at = at, !.config = f, !.seen = 0] \in JobType
    BY <1>2 DEF JobType, Places
  <2> QED
    BY <2>1, <2>2, <1>1, <1>3, IdleIsJob DEF After
<1>5. NextUp \in JobType
  BY <1>1 DEF NextUp, JobType, Places
<1>6. ASSUME NEW s \in Schemas, job.queue # << >> PROVE Update(s) \in JobType
  <2>1. Tail(job.queue) \in Seq(STRING)
    BY <1>6 DEF JobType
  <2> QED
    BY <2>1, <1>1, <1>6 DEF Update, JobType, Places
<1> QED
  BY <1>4, <1>5, <1>6

LEMMA InitTyped == Init => TypeInv
<1> SUFFICES ASSUME Init PROVE TypeInv
  OBVIOUS
<1>1. Missing \in FileType /\ (\A f \in Configs : Copied(f, 1) \in CopyType) /\ NoCopy \in CopyType
  BY CopiesAreCopies, BinariesAreFiles
<1>2. 0 \in 0..MaxEdits /\ 0 \in 0..MaxCrashes
  BY PatchesAssumption
<1>3. lexicon \in [Dicts -> Nat] /\ source \in [Configs -> Nat \ {0}]
  BY DEF Init
<1>4. custom \in [Configs -> 0..MaxEdits] /\ dest \in [Configs -> CopyType]
  BY <1>1, <1>2 DEF Init
<1>5. table \in [Dicts -> FileType] /\ reverse \in [Dicts -> FileType]
      /\ prism \in [Schemas -> FileType]
  BY <1>1 DEF Init
<1> QED
  BY <1>2, <1>3, <1>4, <1>5, IdleIsJob DEF Init, TypeInv

\* What is in a file of a dictionary that the task is about.
LEMMA CompilingTyped ==
  ASSUME TypeInv, JobInv
  PROVE  /\ job.config \in Configs
         /\ job.at = "compile" \/ Compiling => job.config \in Schemas
         /\ Compiling => ThisDict \in Dicts
BY DictsOfSchemas DEF TypeInv, JobInv, JobType, Configs, Compiling, ThisDict

LEMMA CrashTyped ==
  ASSUME TypeInv, JobInv, CopiesInv, Crash
  PROVE  TypeInv'
<1> DEFINE f == job.config
<1>1. job \in JobType /\ f \in Configs /\ dest[f] \in CopyType
  BY DEF TypeInv, JobType
<1>2. Cut(Copied(f, source[f])) \subseteq CopyType
  BY <1>1, CopiesAreCopies DEF TypeInv
<1>3. custom[f] # 0 => Cut(Patched(f, dest[f], custom[f], job.seen)) \subseteq CopyType
  <2>1. custom[f] # 0 => custom[f] \in 1..MaxEdits
    BY <1>1, PatchesAssumption DEF TypeInv
  <2> QED
    BY <2>1, <1>1, CopiesAreCopies DEF JobType
<1>4. dest' \in [Configs -> CopyType]
  BY <1>1, <1>2, <1>3 DEF Crash, TypeInv
<1>5. table' \in [Dicts -> FileType] /\ reverse' \in [Dicts -> FileType]
      /\ prism' \in [Schemas -> FileType]
  BY BinariesAreFiles DEF Crash, TypeInv
<1>6. crashes' \in 0..MaxCrashes
  BY PatchesAssumption DEF Crash, TypeInv
<1> QED
  BY <1>4, <1>5, <1>6, IdleIsJob DEF Crash, TypeInv, sources

LEMMA StepTyped ==
  ASSUME TypeInv, JobInv, CopiesInv, Next
  PROVE  TypeInv'
<1>a. job \in JobType
  BY DEF TypeInv
<1> USE DEF sources, files
<1>b. ASSUME Edited
      PROVE  /\ edits' = edits + 1 /\ edits' \in 0..MaxEdits
             /\ calm' = FALSE /\ settled' = FALSE
             /\ dest' = dest /\ table' = table /\ reverse' = reverse /\ prism' = prism
             /\ job' = job /\ crashes' = crashes
  BY <1>b, PatchesAssumption DEF Edited, TypeInv
<1>1. ASSUME NEW f \in Configs, UpgradeConfig(f) PROVE TypeInv'
  BY <1>1, <1>b DEF UpgradeConfig, TypeInv
<1>2. ASSUME NEW f \in Configs, Customize(f) PROVE TypeInv'
  BY <1>2, <1>b DEF Customize, TypeInv
<1>3. ASSUME NEW f \in Configs, RemoveCustom(f) PROVE TypeInv'
  BY <1>3, <1>b, PatchesAssumption DEF RemoveCustom, TypeInv
<1>4. ASSUME NEW d \in Dicts, EditDict(d) PROVE TypeInv'
  BY <1>4, <1>b DEF EditDict, TypeInv
<1>5. ASSUME NEW full \in BOOLEAN, StartMaintenance(full) PROVE TypeInv'
  <2>1. job' \in JobType
    BY <1>5, IdleIsJob DEF StartMaintenance, JobType, Places
  <2> QED
    BY <2>1, <1>5 DEF StartMaintenance, TypeInv
<1>6. CASE BeginWorkspace
  BY <1>6, <1>a DEF BeginWorkspace, TypeInv, JobType, Places
<1>7. CASE LinkPrebuilt
  <2>1. Built(1, 1, NoCopy) \in FileType /\ (\A s \in Schemas : Built(1, 1, Copied(s, 1)) \in FileType)
    BY ConfigsApart, CopiesAreCopies, BinariesAreFiles
  <2>2. job' \in JobType
    BY <1>7, <1>a DEF LinkPrebuilt, JobType, Places
  <2> QED
    BY <2>1, <2>2, <1>7 DEF LinkPrebuilt, TypeInv
<1>8. CASE ReadList
  <2>1. job' \in JobType
    BY <1>8, <1>a, IdleIsJob, ConfigsApart, NamesAreRead DEF ReadList, Selection, JobType, Places
  <2> QED
    BY <2>1, <1>8 DEF ReadList, TypeInv
<1>9. CASE NextSchema
  <2>1. job' \in JobType
    <3>1. Tail(job.queue) \in Seq(STRING)
      BY <1>9, <1>a DEF NextSchema, JobType
    <3>2. [job EXCEPT !.queue = Tail(@)] \in JobType
      BY <3>1, <1>a DEF JobType
    <3> QED
      BY <3>2, <1>9, <1>a, TasksAreJobs DEF NextSchema, HasSource
  <2> QED
    BY <2>1, <1>9 DEF NextSchema, TypeInv
<1>10. CASE FindDependencies
  <2>1. job' \in JobType
    <3>1. Names[job.next] \in Schemas
      BY <1>10, <1>a, NamesAreSchemas DEF FindDependencies, JobType
    <3>2. dest[Names[job.next]].names \in Seq(STRING) /\ << >> \in Seq(STRING)
      BY <3>1, ConfigsApart, NamesAreRead
    <3>a. job.next + 1 \in Nat \ {0}
      BY <1>a DEF JobType
    <3>3. \A q \in Seq(STRING) : [job EXCEPT !.next = @ + 1, !.queue = q] \in JobType
      BY <3>a, <1>a DEF JobType
    <3> QED
      BY <3>2, <3>3, <1>10 DEF FindDependencies
  <2> QED
    BY <2>1, <1>10 DEF FindDependencies, TypeInv
<1>11. CASE FinishWorkspace
  BY <1>11, IdleIsJob, <1>a DEF FinishWorkspace, TypeInv, JobType
<1>12. CASE Compare
  <2>1. job' \in JobType
    <3>1. custom[job.config] \in 0..MaxEdits
      BY <1>a DEF TypeInv, JobType
    <3>2. [job EXCEPT !.at = "copy", !.seen = custom[job.config]] \in JobType
      BY <3>1, <1>a DEF JobType, Places
    <3>3. [job EXCEPT !.at = "patch", !.seen = custom[job.config]] \in JobType
      BY <3>1, <1>a DEF JobType, Places
    <3> QED
      BY <3>2, <3>3, <1>12, <1>a, TasksAreJobs DEF Compare
  <2> QED
    BY <2>1, <1>12 DEF Compare, TypeInv
<1>13. CASE Copy
  <2>1. job' \in JobType
    <3>1. [job EXCEPT !.at = "patch"] \in JobType
      BY <1>a DEF JobType, Places
    <3> QED
      BY <3>1, <1>13, <1>a, TasksAreJobs DEF Copy
  <2>2. Copied(job.config, source[job.config]) \in CopyType
    BY <1>a, CopiesAreCopies DEF TypeInv, JobType
  <2> QED
    BY <2>1, <2>2, <1>13 DEF Copy, TypeInv
<1>14. CASE Patch
  <2>1. job' \in JobType
    BY <1>14, <1>a, TasksAreJobs DEF Patch
  <2>2. custom[job.config] # 0 =>
          Patched(job.config, dest[job.config], custom[job.config], job.seen) \in CopyType
    <3>1. custom[job.config] # 0 => custom[job.config] \in 1..MaxEdits
      BY <1>a, PatchesAssumption DEF TypeInv, JobType
    <3> QED
      BY <3>1, <1>a, CopiesAreCopies DEF TypeInv, JobType
  <2> QED
    BY <2>1, <2>2, <1>14 DEF Patch, TypeInv
<1>15. CASE Compile
  <2>1. job' \in JobType
    <3>1. ThisDict # NoDict => lexicon[ThisDict] \in Nat
      BY <1>15, CompilingTyped, DictsOfSchemas DEF Compile, ThisDict, TypeInv
    <3>2. [NextUp EXCEPT !.ok = FALSE] \in JobType
      BY <1>a, TasksAreJobs DEF JobType
    <3>3. \A n \in Nat : /\ [job EXCEPT !.at = "table", !.sum = n] \in JobType
                        /\ [job EXCEPT !.at = "prism", !.sum = n] \in JobType
      BY <1>a DEF JobType, Places
    <3> QED
      BY <3>1, <3>2, <3>3, <1>15, <1>a, TasksAreJobs DEF Compile
  <2> QED
    BY <2>1, <1>15 DEF Compile, TypeInv
<1>16. CASE BuildTable
  <2>1. Built(job.sum, lexicon[ThisDict], NoCopy) \in FileType
    BY <1>16, <1>a, CompilingTyped, CopiesAreCopies, BinariesAreFiles
    DEF BuildTable, Compiling, TypeInv, JobType
  <2>2. job' \in JobType
    BY <1>16, <1>a DEF BuildTable, JobType, Places
  <2> QED
    BY <2>1, <2>2, <1>16 DEF BuildTable, TypeInv
<1>17. CASE BuildReverse
  <2>1. Built(job.sum, table[ThisDict].of, NoCopy) \in FileType
    <3>1. ThisDict \in Dicts
      BY <1>17, CompilingTyped DEF BuildReverse, Compiling
    <3>2. table[ThisDict] \in FileType
      BY <3>1 DEF TypeInv
    <3>3. table[ThisDict].of \in Int /\ job.sum \in Int
      BY <1>a, <3>2 DEF JobType, FileType
    <3> QED
      BY <3>3, CopiesAreCopies, BinariesAreFiles
  <2>2. job' \in JobType
    BY <1>17, <1>a, TasksAreJobs DEF BuildReverse, JobType, Places
  <2> QED
    BY <2>1, <2>2, <1>17 DEF BuildReverse, TypeInv
<1>18. CASE BuildPrism
  <2>1. Built(job.sum, table[ThisDict].of, dest[job.config]) \in FileType
    <3>1. table[ThisDict].of \in Int /\ job.sum \in Int /\ dest[job.config] \in CopyType
      BY SMTT(60), <1>18, <1>a, CompilingTyped DEF BuildPrism, Compiling, TypeInv, JobType, FileType
    <3> QED
      BY <3>1, BinariesAreFiles
  <2>2. job' \in JobType
    BY <1>18, <1>a, TasksAreJobs DEF BuildPrism
  <2> QED
    BY <2>1, <2>2, <1>18 DEF BuildPrism, TypeInv
<1> QED
  BY <1>1, <1>2, <1>3, <1>4, <1>5, <1>6, <1>7, <1>8, <1>9, <1>10, <1>11, <1>12, <1>13,
     <1>14, <1>15, <1>16, <1>17, <1>18, CrashTyped DEF Next

-----------------------------------------------------------------------------
(* Where the task may be.                                                  *)

\* What an edit leaves alone.
LEMMA EditsLeave ==
  ASSUME TypeInv, Edited
  PROVE  /\ edits' = edits + 1
         /\ calm' = FALSE /\ settled' = FALSE
         /\ dest' = dest /\ table' = table /\ reverse' = reverse /\ prism' = prism
         /\ job' = job
BY DEF Edited, files

\* The outcomes of the update of a config.
ToSymbols == [job EXCEPT !.at = "config", !.config = "symbols", !.seen = 0]
ToLink    == [job EXCEPT !.at = "link", !.config = "default", !.seen = 0]

LEMMA AfterCases ==
  ASSUME job \in JobType, NEW updated \in BOOLEAN
  PROVE  \/ job.config \in Schemas /\ After(updated) = [job EXCEPT !.at = "compile", !.seen = 0]
         \/ job.config \in General /\ After(updated) = [Idle EXCEPT !.at = "begin"]
         \/ job.config \in General /\ After(updated) = Idle
         \/ job.config = "default" /\ ~job.quick /\ After(updated) = ToSymbols
         \/ job.config = "symbols" /\ ~job.quick /\ After(updated) = ToLink
<1>1. job.config \in Schemas \/ (job.config \in General /\ job.config \notin Schemas)
  BY ConfigsApart DEF JobType
<1>2. CASE job.config \in Schemas
  BY <1>2 DEF After
<1>3. CASE job.config = "default" /\ ~job.quick
  BY <1>1, <1>3, ConfigsApart DEF After, ToSymbols
<1>4. CASE job.config = "symbols" /\ ~job.quick
  BY <1>1, <1>4, ConfigsApart DEF After, ToLink
<1>5. CASE job.config \in General /\ job.quick
  BY <1>5, ConfigsApart DEF After
<1> QED
  BY <1>1, <1>2, <1>3, <1>4, <1>5, ConfigsApart

\* Where they lead.
LEMMA Leads ==
  ASSUME job \in JobType
  PROVE  /\ ToSymbols.at = "config" /\ ToSymbols.config = "symbols"
         /\ ToLink.at = "link" /\ ToLink.config = "default"
         /\ \A next \in {ToSymbols, ToLink} :
              /\ next.seen = 0 /\ next.schemas = job.schemas /\ next.next = job.next
              /\ next.queue = job.queue /\ next.ok = job.ok /\ next.quick = job.quick
              /\ next.sum = job.sum
BY DEF ToSymbols, ToLink, JobType

LEMMA IdleInOrder ==
  /\ Idle.at = "idle" /\ Idle.config = "default" /\ Idle.schemas = {} /\ Idle.next = 1
  /\ Idle.queue = << >> /\ Idle.seen = 0 /\ Idle.ok = TRUE /\ ~Idle.quick
  /\ LET begin == [Idle EXCEPT !.at = "begin"]
     IN  /\ begin.at = "begin" /\ begin.config = "default" /\ begin.schemas = {}
         /\ begin.next = 1 /\ begin.queue = << >> /\ begin.seen = 0 /\ ~begin.quick
BY DEF Idle

LEMMA AfterUnread ==
  ASSUME job \in JobType, NEW updated \in BOOLEAN, NEW j, j = After(updated)
  PROVE  j.at \notin {"copy", "patch"} /\ j.seen = 0
<1>1. CASE j = [job EXCEPT !.at = "compile", !.seen = 0]
  BY <1>1 DEF JobType
<1>2. CASE j \in {ToSymbols, ToLink}
  BY <1>2, Leads
<1>3. CASE j = [Idle EXCEPT !.at = "begin"] \/ j = Idle
  BY <1>3, IdleInOrder
<1> QED
  BY <1>1, <1>2, <1>3, AfterCases

LEMMA AfterInOrder ==
  ASSUME TypeInv, JobInv, job.at \in {"config", "copy", "patch"}, NEW updated \in BOOLEAN,
         job' = After(updated), settled' = settled, calm' = calm
  PROVE  JobInv'
<1>1. job \in JobType
  BY DEF TypeInv
<1>2. CASE job' = [job EXCEPT !.at = "compile", !.seen = 0] /\ job.config \in Schemas
  <2>1. /\ job'.at = "compile" /\ job'.config = job.config /\ job'.schemas = job.schemas
        /\ job'.quick = job.quick
    BY <1>1, <1>2 DEF JobType
  <2>2. job.config # "default"
    BY <1>2, ConfigsApart
  <2> QED
    BY <1>2, <2>1, <2>2 DEF JobInv, Compiling, InSchemas
<1>3. CASE job' \in {ToSymbols, ToLink} /\ job.config \in General /\ ~job.quick
  <2>1. ~InSchemas /\ ~job'.quick
    BY <1>1, <1>3, ConfigsApart, Leads DEF InSchemas
  <2>2. /\ job'.at \in {"config", "link"} /\ job'.config \in General
        /\ job'.at = "link" => job'.config = "default"
        /\ job'.schemas = {} /\ job'.next = 1 /\ job'.queue = << >>
    BY <1>1, <1>3, <2>1, ConfigsApart, Leads DEF JobInv
  <2> QED
    BY <2>1, <2>2, ConfigsApart DEF JobInv, Compiling, InSchemas
<1>4. CASE job' = [Idle EXCEPT !.at = "begin"]
  BY <1>4, IdleInOrder, ConfigsApart DEF JobInv, Compiling, InSchemas
<1>5. CASE job' = Idle
  BY <1>5, IdleInOrder, ConfigsApart DEF JobInv, Compiling, InSchemas
<1>6. \/ job.config \in Schemas /\ job' = [job EXCEPT !.at = "compile", !.seen = 0]
      \/ job' \in {ToSymbols, ToLink} /\ job.config \in General /\ ~job.quick
      \/ job' = [Idle EXCEPT !.at = "begin"] \/ job' = Idle
  BY <1>1, AfterCases, ConfigsApart
<1> QED
  BY <1>2, <1>3, <1>4, <1>5, <1>6

LEMMA NextUpInOrder ==
  ASSUME TypeInv, JobInv, job.at = "compile" \/ Compiling,
         NEW ok \in BOOLEAN, job' = [NextUp EXCEPT !.ok = ok],
         settled' = settled, calm' = calm
  PROVE  JobInv'
<1>1. /\ job'.at = "next" /\ job'.config = "default" /\ job'.quick = job.quick
  BY DEF TypeInv, JobType, NextUp
<1>2. "default" \notin Schemas /\ job.config \notin General /\ ~job.quick
  BY ConfigsApart DEF JobInv
<1> QED
  BY <1>1, <1>2 DEF JobInv, Compiling, InSchemas

LEMMA StepInOrder ==
  ASSUME TypeInv, JobInv, Next
  PROVE  JobInv'
<1>a. job \in JobType
  BY DEF TypeInv
<1> USE DEF sources, files
<1>1. ASSUME NEW f \in Configs, UpgradeConfig(f) \/ Customize(f) \/ RemoveCustom(f) PROVE JobInv'
  <2>1. Edited /\ lexicon' = lexicon
    BY <1>1 DEF UpgradeConfig, Customize, RemoveCustom
  <2> QED
    BY <2>1, EditsLeave DEF JobInv, Compiling, InSchemas, ThisDict
<1>2. ASSUME NEW d \in Dicts, EditDict(d) PROVE JobInv'
  <2>1. Edited
    BY <1>2 DEF EditDict
  <2>2. Compiling => job.sum <= lexicon'[ThisDict]
    BY <1>2, <1>a, CompilingTyped DEF EditDict, TypeInv, JobInv, JobType
  <2> QED
    BY <2>1, <2>2, EditsLeave DEF JobInv, Compiling, InSchemas, ThisDict
<1>3. ASSUME NEW full \in BOOLEAN, StartMaintenance(full) PROVE JobInv'
  BY <1>3, ConfigsApart DEF StartMaintenance, Idle, JobInv, Compiling, InSchemas
<1>4. CASE BeginWorkspace
  BY <1>4, <1>a DEF BeginWorkspace, JobInv, JobType, Compiling, InSchemas
<1>5. CASE LinkPrebuilt
  BY <1>5, <1>a DEF LinkPrebuilt, JobInv, JobType, Compiling, InSchemas
<1>6. CASE ReadList
  BY <1>6, <1>a, IdleInOrder, ConfigsApart DEF ReadList, JobInv, JobType, Compiling, InSchemas
<1>7. CASE NextSchema
  <2>1. ASSUME NEW s \in Schemas, job' = Update(s) PROVE JobInv'
    <3>1. s # "default"
      BY ConfigsApart
    <3>2. CASE job' = [job EXCEPT !.queue = Tail(@), !.schemas = @ \cup {s}, !.ok = FALSE]
      BY <3>2, <1>7, <1>a DEF NextSchema, JobInv, JobType, Compiling, InSchemas
    <3>3. CASE job' = [job EXCEPT !.at = "config", !.config = s, !.queue = Tail(@),
                                  !.schemas = @ \cup {s}]
      BY <3>1, <3>3, <1>7, <1>a DEF NextSchema, JobInv, JobType, Compiling, InSchemas
    <3> QED
      BY <2>1, <3>2, <3>3 DEF Update
  <2>2. CASE job' = [job EXCEPT !.queue = Tail(@)]
    BY <2>2, <1>7, <1>a DEF NextSchema, JobInv, JobType, Compiling, InSchemas
  <2> QED
    BY <2>1, <2>2, <1>7 DEF NextSchema, HasSource
<1>8. CASE FindDependencies
  <2>1. PICK q : job' = [job EXCEPT !.next = @ + 1, !.queue = q]
    BY <1>8 DEF FindDependencies
  <2> QED
    BY <2>1, <1>8, <1>a DEF FindDependencies, JobInv, JobType, Compiling, InSchemas
<1>9. CASE FinishWorkspace
  BY <1>9, IdleInOrder, ConfigsApart DEF FinishWorkspace, JobInv, Compiling, InSchemas, TypeInv
<1>10. CASE Compare
  <2>1. CASE job' \in {After(TRUE), After(FALSE)}
    BY <2>1, <1>10, AfterInOrder DEF Compare
  <2>2. ASSUME NEW at \in {"copy", "patch"}, NEW seen,
               job' = [job EXCEPT !.at = at, !.seen = seen]
        PROVE  JobInv'
    BY <2>2, <1>10, <1>a DEF Compare, JobInv, JobType, Compiling, InSchemas
  <2> QED
    BY <2>1, <2>2, <1>10 DEF Compare
<1>11. CASE Copy
  <2>1. CASE job' = [job EXCEPT !.at = "patch"]
    BY <2>1, <1>11, <1>a DEF Copy, JobInv, JobType, Compiling, InSchemas
  <2> QED
    BY <2>1, <1>11, AfterInOrder DEF Copy
<1>12. CASE Patch
  BY <1>12, AfterInOrder DEF Patch
<1>13. CASE Compile
  <2>1. CASE job' = NextUp
    <3>1. NextUp = [NextUp EXCEPT !.ok = job.ok]
      BY <1>a DEF NextUp, JobType
    <3> QED
      BY <2>1, <3>1, <1>13, <1>a, NextUpInOrder DEF Compile, JobType
  <2>2. CASE job' = [NextUp EXCEPT !.ok = FALSE]
    BY <2>2, <1>13, NextUpInOrder DEF Compile
  <2>3. ASSUME NEW at \in {"table", "prism"}, ThisDict # NoDict, dest[job.config].dict,
               lexicon[ThisDict] # 0,
               job' = [job EXCEPT !.at = at, !.sum = lexicon[ThisDict]]
        PROVE  JobInv'
    <3>1. lexicon[ThisDict] \in Nat
      BY <2>3, <1>13, CompilingTyped, DictsOfSchemas DEF Compile, ThisDict, TypeInv
    <3>2. UNCHANGED <<dest, lexicon, settled, calm>>
      BY <1>13 DEF Compile
    <3> QED
      BY <2>3, <3>1, <3>2, <1>13, <1>a
      DEF Compile, JobInv, JobType, Compiling, InSchemas, ThisDict
  <2> QED
    BY <2>1, <2>2, <2>3, <1>13 DEF Compile
<1>14. CASE BuildTable
  BY <1>14, <1>a DEF BuildTable, JobInv, JobType, Compiling, InSchemas, ThisDict
<1>15. CASE BuildReverse
  <2>1. CASE job' = NextUp
    <3>1. NextUp = [NextUp EXCEPT !.ok = job.ok]
      BY <1>a DEF NextUp, JobType
    <3> QED
      BY <2>1, <3>1, <1>15, <1>a, NextUpInOrder DEF BuildReverse, Compiling, JobType
  <2>2. CASE job' = [job EXCEPT !.at = "prism"]
    BY <2>2, <1>15, <1>a DEF BuildReverse, JobInv, JobType, Compiling, InSchemas, ThisDict
  <2> QED
    BY <2>1, <2>2, <1>15 DEF BuildReverse
<1>16. CASE BuildPrism
  <2>1. NextUp = [NextUp EXCEPT !.ok = job.ok]
    BY <1>a DEF NextUp, JobType
  <2> QED
    BY <2>1, <1>16, <1>a, NextUpInOrder DEF BuildPrism, Compiling, JobType
<1>17. CASE Crash
  BY <1>17, IdleInOrder, ConfigsApart DEF Crash, JobInv, Compiling, InSchemas
<1> QED
  BY <1>1, <1>2, <1>3, <1>4, <1>5, <1>6, <1>7, <1>8, <1>9, <1>10, <1>11, <1>12, <1>13,
     <1>14, <1>15, <1>16, <1>17 DEF Next

-----------------------------------------------------------------------------
(* What the copies' records tell.                                          *)

\* Of a copy just made, and of what a crash leaves of a copy.
LEMMA FreshCopyRecorded ==
  ASSUME TypeInv, NEW f \in Configs
  PROVE  Recorded(Copied(f, source[f]), f) /\ Recorded(NoCopy, f)
<1>1. source[f] \in Nat /\ edits \in Nat /\ 0 \in 0..MaxEdits
  BY PatchesAssumption DEF TypeInv
<1> QED
  BY <1>1 DEF Recorded, Signed, SharedCopy, Copied, NoCopy

LEMMA CutCopyRecorded ==
  ASSUME TypeInv, NEW f \in Configs, NEW copy \in CopyType, Recorded(copy, f), NEW c \in Cut(copy)
  PROVE  Recorded(c, f)
<1> DEFINE Lost(names) == [copy EXCEPT !.cut = TRUE, !.names = names, !.dict = FALSE]
<1>a. edits \in Nat /\ custom[f] \in Nat
  BY DEF TypeInv
<1>b. ASSUME c.cut, c.version = copy.version, c.patch = copy.patch,
             c.customization \in {copy.customization, 0}
      PROVE  Recorded(c, f)
  BY <1>a, <1>b DEF Recorded, Signed, SharedCopy
<1>1. CASE c = [copy EXCEPT !.cut = TRUE]
  BY <1>1, <1>b DEF CopyType
<1>2. CASE c = [NoCopy EXCEPT !.cut = TRUE]
  <2>1. /\ c.customization = NoCopy.customization /\ c.patch = NoCopy.patch
        /\ c.version = NoCopy.version /\ c.cut
    BY <1>2 DEF NoCopy
  <2> QED
    BY <2>1, FreshCopyRecorded DEF Recorded, Signed, SharedCopy
<1>3. CASE c = [Lost(<< >>) EXCEPT !.customization = 0]
  BY <1>3, <1>b DEF CopyType
<1>4. ASSUME NEW names, c = Lost(names) PROVE Recorded(c, f)
  BY <1>4, <1>b DEF CopyType
<1> QED
  BY <1>1, <1>2, <1>3, <1>4 DEF Cut

LEMMA PatchedRecorded ==
  ASSUME TypeInv, CopiesInv, job.at = "patch", custom[job.config] # 0,
         Applies(custom[job.config])
  PROVE  Recorded(Patched(job.config, dest[job.config], custom[job.config], job.seen), job.config)
<1> DEFINE f == job.config
           c == Patched(f, dest[f], custom[f], job.seen)
<1>1. f \in Configs /\ dest[f] \in CopyType /\ Recorded(dest[f], f)
  BY DEF TypeInv, JobType, CopiesInv
<1>2. /\ c.customization = job.seen /\ c.patch = dest[f].patch \cup {custom[f]}
      /\ c.version = dest[f].version /\ c.cut = dest[f].cut
  BY <1>1 DEF Patched, CopyType
<1>3. f \notin UserOnly /\ ~dest[f].cut => dest[f].patch = {}
  BY <1>1 DEF CopiesInv, IsDirty, Recorded, SharedCopy
<1>4. custom[f] \in 0..MaxEdits
  BY <1>1 DEF TypeInv
<1> QED
  BY <1>1, <1>2, <1>3, <1>4 DEF CopiesInv, Recorded, Signed, SharedCopy

\* A step of the task that writes no config, and one that writes one.
LEMMA CopiesKept ==
  ASSUME CopiesInv, UNCHANGED <<source, custom, dest, edits>>,
         job'.at \notin {"copy", "patch"}, job'.seen <= edits
  PROVE  CopiesInv'
BY DEF CopiesInv, Recorded, Signed, SharedCopy

LEMMA CopyWritten ==
  ASSUME TypeInv, CopiesInv, UNCHANGED <<source, custom, edits>>,
         NEW f \in Configs, NEW copy, Recorded(copy, f), dest' = [dest EXCEPT ![f] = copy]
  PROVE  \A g \in Configs : (custom[g] <= edits /\ Recorded(dest[g], g))'
<1> TAKE g \in Configs
<1>1. Recorded(dest'[g], g)
  BY DEF CopiesInv, TypeInv
<1> QED
  BY <1>1 DEF CopiesInv, Recorded, Signed, SharedCopy

LEMMA EditRecorded ==
  ASSUME TypeInv, CopiesInv, Edited, UNCHANGED lexicon,
         NEW f \in Configs, UpgradeConfig(f) \/ Customize(f) \/ RemoveCustom(f)
  PROVE  CopiesInv'
<1>a. edits \in Nat
  BY DEF TypeInv
<1>1. edits' = edits + 1 /\ dest' = dest /\ job' = job
  BY EditsLeave
<1>2. ASSUME NEW g \in Configs PROVE (custom[g] <= edits /\ Recorded(dest[g], g))'
  <2>1. /\ custom[g] <= edits /\ Recorded(dest[g], g) /\ source[g] \in Nat
        /\ custom[g] \in Nat /\ dest[g] \in CopyType
    BY DEF CopiesInv, TypeInv
  <2>2. source'[g] >= source[g]
    BY <2>1 DEF UpgradeConfig, Customize, RemoveCustom, TypeInv
  <2>3. custom'[g] \in {custom[g], edits + 1, 0}
    BY <2>1 DEF UpgradeConfig, Customize, RemoveCustom, TypeInv
  <2>4. SharedCopy(dest[g], g)'
    <3>1. source[g] \in Nat /\ source'[g] \in Nat /\ dest[g].version \in Nat
      <4>1. source' \in [Configs -> Nat]
        BY DEF UpgradeConfig, Customize, RemoveCustom, TypeInv
      <4> QED
        BY <2>1, <4>1 DEF CopyType
    <3>2. dest'[g] = dest[g] /\ SharedCopy(dest[g], g)
      BY <2>1, <1>1 DEF Recorded
    <3> QED
      BY <2>2, <3>1, <3>2 DEF SharedCopy
  <2>5. Signed(dest[g], g)'
    BY <2>1, <2>3, <1>a, <1>1 DEF Recorded, Signed, CopyType
  <2> QED
    BY <2>1, <2>3, <2>4, <2>5, <1>a, <1>1 DEF Recorded, CopyType
<1>3. job.seen \in Nat
  BY DEF TypeInv, JobType
<1> QED
  BY <1>a, <1>1, <1>2, <1>3 DEF CopiesInv, IsDirty

LEMMA StepRecorded ==
  ASSUME TypeInv, JobInv, CopiesInv, Next
  PROVE  CopiesInv'
<1>a. job \in JobType /\ edits \in Nat /\ 0 <= edits
  BY DEF TypeInv
<1>b. ASSUME UNCHANGED <<source, custom, edits, dest>>,
             job' \in {After(TRUE), After(FALSE), NextUp, Idle, [NextUp EXCEPT !.ok = FALSE]},
             job.at \notin {"copy", "patch"} \/ job' \notin {NextUp, [NextUp EXCEPT !.ok = FALSE]}
      PROVE  CopiesInv'
  <2>1. job'.at \notin {"copy", "patch"} /\ job'.seen <= edits
    <3>1. CASE job' \in {NextUp, [NextUp EXCEPT !.ok = FALSE]}
      BY <3>1, <1>a DEF NextUp, JobType, CopiesInv
    <3>2. CASE job' = Idle
      BY <3>2, <1>a, IdleInOrder
    <3>3. ASSUME NEW u \in BOOLEAN, job' = After(u) PROVE job'.at \notin {"copy", "patch"} /\ job'.seen <= edits
      <4>1. job'.at \notin {"copy", "patch"} /\ job'.seen = 0
        BY <3>3, <1>a, AfterUnread
      <4> QED
        BY <4>1, <1>a
    <3> QED
      BY <3>1, <3>2, <3>3, <1>b
  <2> QED
    BY <2>1, <1>b, CopiesKept
<1> USE DEF sources, files
<1>1. ASSUME NEW f \in Configs, UpgradeConfig(f) \/ Customize(f) \/ RemoveCustom(f)
      PROVE  CopiesInv'
  <2>1. Edited /\ UNCHANGED lexicon
    BY <1>1 DEF UpgradeConfig, Customize, RemoveCustom
  <2> QED
    BY <1>1, <2>1, EditRecorded
<1>2. ASSUME NEW d \in Dicts, EditDict(d) PROVE CopiesInv'
  <2>1. Edited /\ UNCHANGED <<source, custom>>
    BY <1>2 DEF EditDict
  <2>2. edits' = edits + 1 /\ dest' = dest /\ job' = job
    BY <2>1, EditsLeave
  <2>3. ASSUME NEW f \in Configs PROVE (custom[f] <= edits /\ Recorded(dest[f], f))'
    <3>1. /\ custom[f] <= edits /\ Recorded(dest[f], f) /\ custom[f] \in Nat
          /\ dest[f].customization \in Nat
      BY DEF CopiesInv, TypeInv, CopyType
    <3>2. Signed(dest[f], f)' /\ SharedCopy(dest[f], f)'
      BY <2>1, <2>2, <3>1 DEF Recorded, Signed, SharedCopy
    <3> QED
      BY <1>a, <2>1, <2>2, <3>1, <3>2 DEF Recorded
  <2>4. job.seen \in Nat /\ IsDirty(job.config)' = IsDirty(job.config)
    BY <1>a, <2>1, <2>2 DEF JobType, IsDirty
  <2> QED
    BY <1>a, <2>2, <2>3, <2>4 DEF CopiesInv
<1>3. ASSUME NEW full \in BOOLEAN, StartMaintenance(full) PROVE CopiesInv'
  BY <1>3, <1>a, CopiesKept DEF StartMaintenance, Idle
<1>4. CASE BeginWorkspace
  BY <1>4, <1>a, CopiesKept DEF BeginWorkspace, JobType, CopiesInv
<1>5. CASE LinkPrebuilt
  BY <1>5, <1>a, CopiesKept DEF LinkPrebuilt, JobType, CopiesInv
<1>6. CASE ReadList
  BY <1>6, <1>a, CopiesKept, IdleInOrder DEF ReadList, JobType, CopiesInv
<1>7. CASE NextSchema
  <2>1. job'.at \notin {"copy", "patch"} /\ job'.seen = job.seen
    BY <1>7, <1>a DEF NextSchema, Update, JobType
  <2> QED
    BY <2>1, <1>7, CopiesKept DEF NextSchema, CopiesInv
<1>8. CASE FindDependencies
  BY <1>8, <1>a, CopiesKept DEF FindDependencies, JobType, CopiesInv
<1>9. CASE FinishWorkspace
  BY <1>9, <1>a, CopiesKept, IdleInOrder DEF FinishWorkspace
<1>10. CASE Compare
  <2> DEFINE f == job.config
  <2>1. f \in Configs /\ custom[f] <= edits /\ UNCHANGED <<source, custom, edits, dest>>
    BY <1>10, <1>a DEF Compare, JobType, CopiesInv
  <2>2. CASE job' \in {After(TRUE), After(FALSE)}
    BY <2>1, <2>2, <1>10, <1>b DEF Compare
  <2>3. CASE job' = [job EXCEPT !.at = "copy", !.seen = custom[f]] /\ NeedCopy(f)
    BY <2>1, <2>3, <1>a
    DEF CopiesInv, Recorded, Signed, SharedCopy, NeedCopy, Redistribute, IsDirty, JobType
  <2>4. CASE job' = [job EXCEPT !.at = "patch", !.seen = custom[f]] /\ ~NeedCopy(f) /\ custom[f] # 0
    BY <2>1, <2>4, <1>a
    DEF CopiesInv, Recorded, Signed, SharedCopy, NeedCopy, Redistribute, IsDirty, JobType
  <2> QED
    BY <2>2, <2>3, <2>4, <1>10 DEF Compare
<1>11. CASE Copy
  <2> DEFINE f == job.config
  <2>1. f \in Configs /\ UNCHANGED <<source, custom, edits>> /\ dest' = [dest EXCEPT ![f] = Copied(f, source[f])]
    BY <1>11, <1>a DEF Copy, JobType
  <2>2. \A g \in Configs : (custom[g] <= edits /\ Recorded(dest[g], g))'
    BY <2>1, FreshCopyRecorded, CopyWritten
  <2>3. CASE job' = [job EXCEPT !.at = "patch"] /\ job.seen # 0
    <3>1. dest'[f].customization = 0
      BY <2>1 DEF Copied, TypeInv
    <3> QED
      BY <2>1, <2>2, <2>3, <3>1, <1>a DEF CopiesInv, IsDirty, JobType
  <2>4. CASE job' = After(TRUE)
    <3>1. job'.at \notin {"copy", "patch"} /\ job'.seen = 0
      BY <2>4, <1>a, AfterUnread
    <3> QED
      BY <2>1, <2>2, <3>1, <1>a DEF CopiesInv
  <2> QED
    BY <2>3, <2>4, <1>11 DEF Copy
<1>12. CASE Patch
  <2> DEFINE f == job.config
  <2>1. f \in Configs /\ UNCHANGED <<source, custom, edits>>
    BY <1>12, <1>a DEF Patch, JobType
  <2>2. \A g \in Configs : (custom[g] <= edits /\ Recorded(dest[g], g))'
    <3>1. CASE custom[f] # 0 /\ Applies(custom[f])
      <4>1. dest' = [dest EXCEPT ![f] = Patched(f, dest[f], custom[f], job.seen)]
        BY <1>12, <3>1, <2>1 DEF Patch, TypeInv
      <4> QED
        BY <2>1, <3>1, <4>1, <1>12, PatchedRecorded, CopyWritten DEF Patch
    <3>2. CASE ~(custom[f] # 0 /\ Applies(custom[f]))
      BY <2>1, <3>2, <1>12 DEF Patch, CopiesInv, Recorded, Signed, SharedCopy
    <3> QED
      BY <3>1, <3>2
  <2>3. job'.at \notin {"copy", "patch"} /\ job'.seen <= edits'
    <3>1. PICK u \in BOOLEAN : job' = After(u)
      BY <1>12 DEF Patch
    <3>2. job'.at \notin {"copy", "patch"} /\ job'.seen = 0
      BY <3>1, <1>a, AfterUnread
    <3> QED
      BY <2>1, <3>2, <1>a
  <2> QED
    BY <2>1, <2>2, <2>3 DEF CopiesInv
<1>13. CASE Compile
  <2>1. job'.at \notin {"copy", "patch"} /\ job'.seen = job.seen
    BY <1>13, <1>a DEF Compile, NextUp, JobType
  <2> QED
    BY <2>1, <1>13, CopiesKept DEF Compile, CopiesInv
<1>14. CASE BuildTable
  BY <1>14, <1>a, CopiesKept DEF BuildTable, JobType, CopiesInv
<1>15. CASE BuildReverse
  BY <1>15, <1>a, CopiesKept DEF BuildReverse, NextUp, JobType, CopiesInv
<1>16. CASE BuildPrism
  BY <1>16, <1>a, CopiesKept DEF BuildPrism, NextUp, JobType, CopiesInv
<1>17. CASE Crash
  <2> DEFINE f == job.config
  <2>1. f \in Configs /\ UNCHANGED <<source, custom, edits>> /\ dest[f] \in CopyType
        /\ Recorded(dest[f], f) /\ Copied(f, source[f]) \in CopyType
    BY <1>17, <1>a, CopiesAreCopies DEF Crash, JobType, TypeInv, CopiesInv
  <2>2. \A g \in Configs : (custom[g] <= edits /\ Recorded(dest[g], g))'
    <3>1. CASE dest' = dest
      BY <2>1, <3>1 DEF CopiesInv, Recorded, Signed, SharedCopy
    <3>2. ASSUME NEW c \in Cut(Copied(f, source[f])), dest' = [dest EXCEPT ![f] = c]
          PROVE  \A g \in Configs : (custom[g] <= edits /\ Recorded(dest[g], g))'
      BY <2>1, <3>2, FreshCopyRecorded, CutCopyRecorded, CopyWritten
    <3>3. ASSUME job.at = "patch", custom[f] # 0, Applies(custom[f]),
                 NEW c \in Cut(Patched(f, dest[f], custom[f], job.seen)),
                 dest' = [dest EXCEPT ![f] = c]
          PROVE  \A g \in Configs : (custom[g] <= edits /\ Recorded(dest[g], g))'
      <4>1. custom[f] \in 1..MaxEdits
        BY <2>1, <3>3, PatchesAssumption DEF TypeInv
      <4>2. Patched(f, dest[f], custom[f], job.seen) \in CopyType
        BY <2>1, <4>1, <1>a, CopiesAreCopies DEF JobType
      <4> QED
        BY <2>1, <3>3, <4>2, PatchedRecorded, CutCopyRecorded, CopyWritten
    <3> QED
      BY <3>1, <3>2, <3>3, <1>17 DEF Crash
  <2>3. job' = Idle
    BY <1>17 DEF Crash
  <2> QED
    BY <2>1, <2>2, <2>3, <1>a, IdleInOrder DEF CopiesInv
<1> QED
  BY <1>1, <1>2, <1>3, <1>4, <1>5, <1>6, <1>7, <1>8, <1>9, <1>10, <1>11, <1>12, <1>13,
     <1>14, <1>15, <1>16, <1>17 DEF Next

-----------------------------------------------------------------------------
(* What the binaries' records tell.                                        *)

LEMMA OnlyWholeFilesLoad ==
  /\ ~Loads(Missing) /\ ~Loads(Broken)
  /\ \A sum, of, with : sum # 0 =>
       /\ Loads(Built(sum, of, with))
       /\ Built(sum, of, with).sum = sum
       /\ Built(sum, of, with).of = of
       /\ Built(sum, of, with).with = with
<1>1. Missing.sum = 0 /\ Broken.sum = 0
  BY DEF Missing, Broken
<1>2. ~Loads(Missing) /\ ~Loads(Broken)
  BY DEF Loads
<1> QED
  BY <1>1, <1>2 DEF Loads, Built

LEMMA BinariesKept ==
  ASSUME BinariesInv, UNCHANGED <<lexicon, table, reverse, prism>>,
         job'.at \notin {"reverse", "prism"}
  PROVE  BinariesInv'
BY DEF BinariesInv, Honest

LEMMA StepHonest ==
  ASSUME TypeInv, JobInv, BinariesInv, Next
  PROVE  BinariesInv'
<1>a. job \in JobType
  BY DEF TypeInv
<1>b. ASSUME UNCHANGED <<lexicon, table, reverse, prism>>,
             job' \in {After(TRUE), After(FALSE), NextUp, Idle, [NextUp EXCEPT !.ok = FALSE]}
      PROVE  BinariesInv'
  <2>1. CASE job' \in {NextUp, [NextUp EXCEPT !.ok = FALSE]}
    BY <2>1, <1>a, <1>b, BinariesKept DEF NextUp, JobType
  <2>2. CASE job' = Idle
    BY <2>2, <1>b, BinariesKept, IdleInOrder
  <2>3. ASSUME NEW u \in BOOLEAN, job' = After(u) PROVE BinariesInv'
    <3>1. job'.at \notin {"reverse", "prism"}
      <4>1. CASE job' = [job EXCEPT !.at = "compile", !.seen = 0]
        BY <4>1, <1>a DEF JobType
      <4>2. CASE job' \in {ToSymbols, ToLink}
        BY <4>2, <1>a, Leads
      <4>3. CASE job' \in {[Idle EXCEPT !.at = "begin"], Idle}
        BY <4>3, IdleInOrder
      <4> QED
        BY <2>3, <4>1, <4>2, <4>3, <1>a, AfterCases
    <3> QED
      BY <3>1, <1>b, BinariesKept
  <2> QED
    BY <1>b, <2>1, <2>2, <2>3
<1> USE DEF sources, files
<1>1. ASSUME NEW f \in Configs, UpgradeConfig(f) \/ Customize(f) \/ RemoveCustom(f)
      PROVE  BinariesInv'
  <2>1. Edited /\ lexicon' = lexicon
    BY <1>1 DEF UpgradeConfig, Customize, RemoveCustom
  <2> QED
    BY <2>1, EditsLeave DEF BinariesInv, Honest, ThisDict
<1>2. ASSUME NEW d \in Dicts, EditDict(d) PROVE BinariesInv'
  <2>1. Edited
    BY <1>2 DEF EditDict
  <2>2. \A e \in Dicts : lexicon[e] \in Nat /\ lexicon'[e] \in Nat /\ lexicon[e] <= lexicon'[e]
    BY <1>2 DEF EditDict, TypeInv
  <2>3. ASSUME NEW file \in FileType, NEW e \in Dicts, Honest(file, e)
        PROVE  Honest(file, e)'
    BY <2>2, <2>3 DEF Honest, FileType
  <2>4. \A e \in Dicts : table[e] \in FileType /\ reverse[e] \in FileType
    BY DEF TypeInv
  <2>5. \A s \in Schemas : prism[s] \in FileType
    BY DEF TypeInv
  <2>6. \A e \in Dicts : Honest(table[e], e)' /\ Honest(reverse[e], e)'
    BY <2>1, <2>3, <2>4, EditsLeave DEF BinariesInv, Honest
  <2>7. \A s \in Schemas : DictOf[s] # NoDict => Honest(prism[s], DictOf[s])'
    BY <2>1, <2>3, <2>5, EditsLeave, DictsOfSchemas DEF BinariesInv, Honest
  <2> QED
    BY <2>1, <2>6, <2>7, EditsLeave DEF BinariesInv, ThisDict
<1>3. ASSUME NEW full \in BOOLEAN, StartMaintenance(full) PROVE BinariesInv'
  BY <1>3, BinariesKept DEF StartMaintenance, Idle
<1>4. CASE BeginWorkspace
  BY <1>4, <1>a, BinariesKept DEF BeginWorkspace, JobType
<1>5. CASE LinkPrebuilt
  <2>1. \A with : \A d \in Dicts : Honest(Built(1, 1, with), d)'
    BY DEF Honest, Built
  <2>2. \A d \in Dicts : Honest(table[d], d)' /\ Honest(reverse[d], d)'
    BY <2>1, <1>5 DEF LinkPrebuilt, BinariesInv, Honest
  <2>3. \A s \in Schemas : DictOf[s] # NoDict => Honest(prism[s], DictOf[s])'
    BY <2>1, <1>5, DictsOfSchemas DEF LinkPrebuilt, BinariesInv, Honest
  <2>4. job'.at = "list"
    BY <1>5, <1>a DEF LinkPrebuilt, JobType
  <2> QED
    BY <2>2, <2>3, <2>4 DEF BinariesInv
<1>6. CASE ReadList
  BY <1>6, <1>a, BinariesKept, IdleInOrder DEF ReadList, JobType
<1>7. CASE NextSchema
  <2>1. job'.at \notin {"reverse", "prism"}
    BY <1>7, <1>a DEF NextSchema, Update, JobType
  <2> QED
    BY <2>1, <1>7, BinariesKept DEF NextSchema
<1>8. CASE FindDependencies
  BY <1>8, <1>a, BinariesKept DEF FindDependencies, JobType
<1>9. CASE FinishWorkspace
  BY <1>9, <1>b DEF FinishWorkspace
<1>10. CASE Compare
  <2>1. CASE job' \in {After(TRUE), After(FALSE)}
    BY <2>1, <1>10, <1>b DEF Compare
  <2>2. CASE job' \notin {After(TRUE), After(FALSE)}
    <3>1. job'.at \in {"copy", "patch"}
      BY <2>2, <1>10, <1>a DEF Compare, JobType
    <3> QED
      BY <3>1, <1>10, BinariesKept DEF Compare
  <2> QED
    BY <2>1, <2>2
<1>11. CASE Copy
  <2>1. CASE job' = [job EXCEPT !.at = "patch"]
    BY <2>1, <1>11, <1>a, BinariesKept DEF Copy, JobType
  <2> QED
    BY <2>1, <1>11, <1>b DEF Copy
<1>12. CASE Patch
  BY <1>12, <1>b DEF Patch
<1>13. CASE Compile
  <2>1. CASE job' \in {NextUp, [NextUp EXCEPT !.ok = FALSE]}
    BY <2>1, <1>13, <1>b DEF Compile
  <2>2. CASE job' = [job EXCEPT !.at = "table", !.sum = lexicon[ThisDict]]
    BY <2>2, <1>13, <1>a, BinariesKept DEF Compile, JobType
  <2>3. CASE job' = [job EXCEPT !.at = "prism", !.sum = lexicon[ThisDict]]
             /\ ~TableIsStale(lexicon[ThisDict])
    BY <2>3, <1>13, <1>a DEF Compile, TableIsStale, BinariesInv, Honest, ThisDict, JobType
  <2> QED
    BY <2>1, <2>2, <2>3, <1>13 DEF Compile
<1>14. CASE BuildTable
  <2> DEFINE new == Built(job.sum, lexicon[ThisDict], NoCopy)
  <2>1. ThisDict \in Dicts /\ job.sum # 0 /\ job.sum <= lexicon[ThisDict]
        /\ job.sum \in Nat /\ lexicon[ThisDict] \in Nat
    BY <1>14, <1>a, CompilingTyped DEF BuildTable, Compiling, JobInv, JobType, TypeInv
  <2>2. Loads(new) /\ new.sum = job.sum /\ new.of = lexicon[ThisDict]
    BY <2>1, OnlyWholeFilesLoad
  <2>3. table' = [table EXCEPT ![ThisDict] = new] /\ UNCHANGED <<lexicon, reverse, prism>>
        /\ job' = [job EXCEPT !.at = "reverse"] /\ ThisDict' = ThisDict
    BY <1>14, <1>a DEF BuildTable, ThisDict, JobType
  <2>4. table'[ThisDict] = new /\ \A d \in Dicts \ {ThisDict} : table'[d] = table[d]
    BY <2>1, <2>3 DEF TypeInv
  <2>5. \A d \in Dicts : Honest(table[d], d)'
    BY <2>1, <2>2, <2>3, <2>4 DEF BinariesInv, Honest
  <2> QED
    BY <2>2, <2>3, <2>4, <2>5, <1>a DEF BinariesInv, Honest, JobType
<1>15. CASE BuildReverse
  <2> DEFINE new == Built(job.sum, table[ThisDict].of, NoCopy)
  <2>1. ThisDict \in Dicts /\ job.sum # 0
    BY <1>15, CompilingTyped DEF BuildReverse, Compiling, JobInv
  <2>2. Loads(new) /\ new.sum = job.sum /\ new.of = table[ThisDict].of
    BY <2>1, OnlyWholeFilesLoad
  <2>3. reverse' = [reverse EXCEPT ![ThisDict] = new] /\ UNCHANGED <<lexicon, table, prism>>
        /\ ThisDict' \in {ThisDict, DictOf["default"]}
    BY <1>15, <1>a DEF BuildReverse, ThisDict, NextUp, JobType
  <2>4. reverse'[ThisDict] = new /\ \A d \in Dicts \ {ThisDict} : reverse'[d] = reverse[d]
    BY <2>1, <2>3 DEF TypeInv
  <2>5. Honest(new, ThisDict)
    BY <2>1, <2>2, <1>15 DEF BuildReverse, BinariesInv, Honest
  <2>6. \A d \in Dicts : Honest(reverse[d], d)'
    BY <2>3, <2>4, <2>5 DEF BinariesInv, Honest
  <2>7. job'.at \in {"reverse", "prism"} => job'.sum = job.sum /\ ThisDict' = ThisDict
    BY <1>15, <1>a DEF BuildReverse, ThisDict, NextUp, JobType
  <2> QED
    BY <2>3, <2>6, <2>7, <1>15 DEF BuildReverse, BinariesInv, Honest
<1>16. CASE BuildPrism
  <2> DEFINE new == Built(job.sum, table[ThisDict].of, dest[job.config])
  <2>1. job.config \in Schemas /\ ThisDict \in Dicts /\ job.sum # 0
    BY <1>16, CompilingTyped DEF BuildPrism, Compiling, JobInv
  <2>2. Loads(new) /\ new.sum = job.sum /\ new.of = table[ThisDict].of
    BY <2>1, OnlyWholeFilesLoad
  <2>3. prism' = [prism EXCEPT ![job.config] = new] /\ UNCHANGED <<lexicon, table, reverse>>
    BY <1>16 DEF BuildPrism
  <2>4. prism'[job.config] = new /\ \A s \in Schemas \ {job.config} : prism'[s] = prism[s]
    BY <2>1, <2>3 DEF TypeInv
  <2>5. Honest(new, ThisDict)
    BY <2>1, <2>2, <1>16 DEF BuildPrism, BinariesInv, Honest
  <2>6. \A s \in Schemas : DictOf[s] # NoDict => Honest(prism[s], DictOf[s])'
    BY <2>3, <2>4, <2>5 DEF BinariesInv, Honest, ThisDict
  <2>7. job'.at = "next"
    BY <1>16, <1>a DEF BuildPrism, NextUp, JobType
  <2> QED
    BY <2>3, <2>6, <2>7 DEF BinariesInv, Honest
<1>17. CASE Crash
  <2>1. lexicon' = lexicon /\ job' = Idle
    BY <1>17 DEF Crash
  <2>2. \A d \in Dicts : /\ table'[d] \in {table[d], Missing, Broken}
                         /\ reverse'[d] \in {reverse[d], Missing, Broken}
    BY <1>17 DEF Crash, TypeInv
  <2>3. \A s \in Schemas : prism'[s] \in {prism[s], Missing, Broken}
    BY <1>17 DEF Crash, TypeInv
  <2>4. \A d : Honest(Missing, d) /\ Honest(Broken, d)
    BY OnlyWholeFilesLoad DEF Honest
  <2> QED
    BY <2>1, <2>2, <2>3, <2>4, IdleInOrder DEF BinariesInv, Honest
<1> QED
  BY <1>1, <1>2, <1>3, <1>4, <1>5, <1>6, <1>7, <1>8, <1>9, <1>10, <1>11, <1>12, <1>13,
     <1>14, <1>15, <1>16, <1>17 DEF Next

-----------------------------------------------------------------------------
(* That the schemas dealt with come to be the required ones.               *)

LEMMA SelectionKept ==
  ASSUME dest'["default"] = dest["default"]
  PROVE  Selection' = Selection /\ Listed' = Listed
BY DEF Selection, Listed, HasSource

LEMMA NeedsKept ==
  ASSUME dest' = dest
  PROVE  Listed' = Listed /\ \A s : Needs(s)' = Needs(s)
BY DEF Listed, Selection, Needs, HasSource

LEMMA RequiredIsClosed ==
  Required = Listed \cup UNION {Needs(s) : s \in Listed}
BY DEF Required, Listed, Needs, HasSource

LEMMA RequiredKept ==
  ASSUME dest'["default"] = dest["default"], \A f \in Listed : dest'[f] = dest[f]
  PROVE  Required' = Required
<1>1. Selection' = Selection /\ Listed' = Listed
  BY SelectionKept
<1>2. \A s \in Listed : dest'[s].names = dest[s].names
  OBVIOUS
<1> QED
  BY <1>1, <1>2 DEF Required, Listed, HasSource

LEMMA HeadAndTail ==
  ASSUME NEW q \in Seq(STRING), q # << >>
  PROVE  ToSet(q) = {Head(q)} \cup ToSet(Tail(q))
<1>1. /\ DOMAIN q = 1..Len(q) /\ Head(q) = q[1] /\ Len(q) \in Nat \ {0}
      /\ DOMAIN Tail(q) = 1..(Len(q) - 1)
      /\ \A i \in 1..(Len(q) - 1) : Tail(q)[i] = q[i + 1]
  OBVIOUS
<1>2. ASSUME NEW i \in 1..Len(q) PROVE q[i] \in {Head(q)} \cup ToSet(Tail(q))
  <2>1. CASE i = 1
    BY <1>1, <2>1
  <2>2. CASE i # 1
    <3>1. i - 1 \in 1..(Len(q) - 1) /\ Tail(q)[i - 1] = q[i]
      BY <1>1, <2>2
    <3> QED
      BY <1>1, <3>1 DEF ToSet
  <2> QED
    BY <2>1, <2>2
<1>3. {Head(q)} \cup ToSet(Tail(q)) \subseteq ToSet(q)
  BY <1>1 DEF ToSet
<1> QED
  BY <1>1, <1>2, <1>3 DEF ToSet

\* A step that leaves the walk over the schemas where it is.
LEMMA ClosureKept ==
  ASSUME JobInv, ClosureInv, calm' = calm, job.config \in Schemas,
         job'.queue = job.queue, job'.schemas = job.schemas, job'.next = job.next,
         job'.config \in {job.config, "default"},
         \A f \in {"default"} \cup Schemas : f # job.config => dest'[f] = dest[f]
  PROVE  ClosureInv'
<1>1. Listed' = Listed /\ "default" \notin Listed
  BY SelectionKept, ConfigsApart DEF Listed, HasSource
<1>2. InSchemas
  BY DEF InSchemas
<1>3. ASSUME calm, job.next > 1, NEW s \in Listed PROVE Needs(s)' = Needs(s)
  <2>1. s # job.config /\ s \in Schemas
    BY <1>2, <1>3 DEF ClosureInv, Listed, HasSource
  <2> QED
    BY <2>1 DEF Needs, HasSource
<1> QED
  BY <1>1, <1>2, <1>3 DEF ClosureInv

LEMMA StepCloses ==
  ASSUME TypeInv, JobInv, ClosureInv, Next
  PROVE  ClosureInv'
<1>a. job \in JobType
  BY DEF TypeInv
<1>b. ASSUME ~InSchemas' PROVE ClosureInv'
  BY <1>b DEF ClosureInv
<1> USE DEF sources, files
<1>1. ASSUME Edited PROVE ClosureInv'
  BY <1>1 DEF Edited, ClosureInv
<1>2. ASSUME NEW full \in BOOLEAN, StartMaintenance(full) PROVE ClosureInv'
  BY <1>2, <1>b, ConfigsApart DEF StartMaintenance, Idle, InSchemas
<1>3. CASE BeginWorkspace
  BY <1>3, <1>a, <1>b, ConfigsApart DEF BeginWorkspace, JobInv, JobType, InSchemas
<1>4. CASE LinkPrebuilt
  BY <1>4, <1>a, <1>b, ConfigsApart DEF LinkPrebuilt, JobInv, JobType, InSchemas
<1>5. CASE ReadList
  <2>1. CASE job' = Idle
    BY <2>1, <1>b, IdleInOrder, ConfigsApart DEF InSchemas
  <2>2. CASE job' = [job EXCEPT !.at = "next", !.queue = Selection]
    <3>1. job.next = 1
      BY <1>5, ConfigsApart DEF ReadList, JobInv, InSchemas
    <3>2. job'.next = 1 /\ job'.queue = Selection
      BY <2>2, <3>1, <1>a DEF JobType
    <3>3. Listed' \subseteq ToSet(Selection)
      BY <1>5, SelectionKept DEF ReadList, Listed
    <3> QED
      BY <3>2, <3>3 DEF ClosureInv
  <2> QED
    BY <1>5, <2>1, <2>2 DEF ReadList
<1>6. CASE NextSchema
  <2> DEFINE s == Head(job.queue)
  <2>1. ToSet(job.queue) = {s} \cup ToSet(Tail(job.queue))
    <3>1. job.queue \in Seq(STRING) /\ job.queue # << >>
      BY <1>6, <1>a DEF NextSchema, JobType
    <3> QED
      BY <3>1, HeadAndTail DEF s
  <2>2. calm' = calm /\ dest' = dest /\ InSchemas /\ job.config = "default"
    BY <1>6 DEF NextSchema, InSchemas, JobInv
  <2>3. Listed' = Listed /\ \A t : Needs(t)' = Needs(t)
    BY <2>2, NeedsKept
  <2>4. job'.queue = Tail(job.queue) /\ job'.next = job.next
        /\ \/ job'.schemas = job.schemas /\ job'.config = "default"
              /\ (~HasSource(s) \/ (job.next > 1 /\ s \in job.schemas))
           \/ job'.schemas = job.schemas \cup {s} /\ job'.config \in {"default", s}
              /\ HasSource(s) /\ (job.next = 1 \/ s \notin job.schemas)
    <3>1. job.next = 1 \/ job.next > 1
      BY <1>a DEF JobType
    <3>2. CASE ~HasSource(s) \/ (job.next > 1 /\ s \in job.schemas)
      BY <3>2, <1>6, <1>a, <2>2 DEF NextSchema, JobType
    <3>3. CASE ~(~HasSource(s) \/ (job.next > 1 /\ s \in job.schemas))
      <4>1. job' = Update(s)
        BY <3>3, <1>6 DEF NextSchema
      <4> QED
        BY <3>1, <3>3, <4>1, <1>a, <2>2 DEF Update, JobType
    <3> QED
      BY <3>2, <3>3
  <2>5. "default" \notin Listed /\ \A t \in Listed : HasSource(t)
    BY ConfigsApart DEF Listed, HasSource
  <2>6. \A t : \A d \in Needs(t) : HasSource(d)
    BY DEF Needs
  <2> HIDE DEF s
  <2>7. ASSUME calm, job.next = 1 PROVE Listed \subseteq job'.schemas \cup ToSet(job'.queue)
    BY <2>1, <2>2, <2>4, <2>5, <2>7 DEF ClosureInv
  <2>8. ASSUME calm, job.next > 1
        PROVE  /\ Listed \subseteq job'.schemas /\ job'.config \notin Listed
               /\ job.schemas \cup ToSet(job.queue) \subseteq
                    job'.schemas \cup ToSet(job'.queue) \cup {x \in {s} : ~HasSource(s)}
    BY <2>1, <2>2, <2>4, <2>5, <2>8 DEF ClosureInv
  <2>9. ASSUME calm, job.next > 1, NEW k \in 1..Len(Names), k < job.next,
               Names[k] \in Listed
        PROVE  Needs(Names[k]) \subseteq job'.schemas \cup ToSet(job'.queue)
    <3>1. Needs(Names[k]) \subseteq job.schemas \cup ToSet(job.queue)
      BY <2>2, <2>9 DEF ClosureInv
    <3> QED
      BY <2>6, <2>8, <2>9, <3>1
  <2> QED
    BY <2>2, <2>3, <2>4, <2>7, <2>8, <2>9 DEF ClosureInv
<1>7. CASE FindDependencies
  <2> DEFINE s == Names[job.next]
  <2>1. calm' = calm /\ dest' = dest /\ InSchemas /\ job.config = "default" /\ job.queue = << >>
        /\ job.next \in 1..Len(Names)
    BY <1>7, <1>a, NamesAreSchemas DEF FindDependencies, InSchemas, JobInv, JobType
  <2>2. Listed' = Listed /\ \A t : Needs(t)' = Needs(t)
    BY <2>1, NeedsKept
  <2>3. /\ job'.next = job.next + 1 /\ job'.schemas = job.schemas /\ job'.config = "default"
        /\ s \in job.schemas => job'.queue = dest[s].names
    BY <1>7, <1>a, <2>1 DEF FindDependencies, JobType
  <2>4. ToSet(<< >>) = {} /\ "default" \notin Listed
    BY ConfigsApart DEF Listed, HasSource, ToSet
  <2>5. job.next \in Nat \ {0}
    BY <1>a DEF JobType
  <2>6. ASSUME calm PROVE Listed \subseteq job.schemas
    <3>1. CASE job.next = 1
      BY <2>1, <2>4, <2>6, <3>1 DEF ClosureInv
    <3>2. CASE job.next > 1
      BY <2>1, <2>6, <3>2 DEF ClosureInv
    <3> QED
      BY <2>5, <3>1, <3>2
  <2>7. ASSUME calm, NEW k \in 1..Len(Names), k < job.next + 1,
               Names[k] \in Listed
        PROVE  Needs(Names[k]) \subseteq job'.schemas \cup ToSet(job'.queue)
    <3>1. CASE k = job.next
      BY <2>3, <2>6, <2>7, <3>1 DEF Needs
    <3>2. CASE k < job.next
      <4>1. job.next > 1
        BY <2>5, <3>2
      <4> QED
        BY <2>1, <2>3, <2>4, <2>7, <3>2, <4>1 DEF ClosureInv
    <3> QED
      BY <2>5, <2>7, <3>1, <3>2
  <2>8. job'.next # 1 /\ job'.next > 1
    BY <2>3, <2>5
  <2> HIDE DEF s
  <2> QED
    BY <2>1, <2>2, <2>3, <2>4, <2>6, <2>7, <2>8 DEF ClosureInv
<1>8. CASE FinishWorkspace
  BY <1>8, <1>b, IdleInOrder, ConfigsApart DEF FinishWorkspace, InSchemas
<1>9. ASSUME NEW u \in BOOLEAN, job' = After(u), calm' = calm,
             \A f \in {"default"} \cup Schemas : f # job.config => dest'[f] = dest[f],
             job.at \in {"config", "copy", "patch"}
      PROVE  ClosureInv'
  <2>1. CASE job.config \in Schemas /\ job' = [job EXCEPT !.at = "compile", !.seen = 0]
    BY <1>9, <2>1, <1>a, ClosureKept DEF JobType
  <2>2. CASE job' \in {ToSymbols, ToLink, [Idle EXCEPT !.at = "begin"], Idle}
    <3>1. job'.at # "next" /\ job'.config \in General
      BY <2>2, <1>a, Leads, IdleInOrder, ConfigsApart
    <3> QED
      BY <3>1, <1>b, ConfigsApart DEF InSchemas
  <2> QED
    BY <1>9, <1>a, <2>1, <2>2, AfterCases
<1>10. ASSUME NEW at \in {"copy", "patch"}, NEW seen, job' = [job EXCEPT !.at = at, !.seen = seen],
              calm' = calm,
              \A f \in {"default"} \cup Schemas : f # job.config => dest'[f] = dest[f]
       PROVE  ClosureInv'
  <2>1. /\ job'.at = at /\ job'.config = job.config /\ job'.queue = job.queue
        /\ job'.schemas = job.schemas /\ job'.next = job.next
    BY <1>10, <1>a DEF JobType
  <2>2. CASE job.config \notin Schemas
    BY <2>1, <2>2, <1>b, <1>10 DEF InSchemas
  <2> QED
    BY <2>1, <2>2, <1>10, ClosureKept
<1>11. CASE Compare
  <2>1. calm' = calm /\ dest' = dest /\ job.at = "config"
    BY <1>11 DEF Compare
  <2>2. CASE job' \in {After(TRUE), After(FALSE)}
    BY <2>1, <2>2, <1>9
  <2>3. CASE job' \notin {After(TRUE), After(FALSE)}
    <3>1. PICK at \in {"copy", "patch"} : job' = [job EXCEPT !.at = at, !.seen = custom[job.config]]
      BY <2>3, <1>11 DEF Compare
    <3> QED
      BY <3>1, <2>1, <1>10
  <2> QED
    BY <2>2, <2>3
<1>12. CASE Copy
  <2>1. calm' = calm /\ job.at = "copy"
        /\ \A f \in {"default"} \cup Schemas : f # job.config => dest'[f] = dest[f]
    BY <1>12, ConfigsApart DEF Copy, TypeInv
  <2>2. CASE job' = [job EXCEPT !.at = "patch"]
    <3>1. [job EXCEPT !.at = "patch"] = [job EXCEPT !.at = "patch", !.seen = job.seen]
      BY <1>a DEF JobType
    <3> QED
      BY <2>1, <2>2, <3>1, <1>10
  <2> QED
    BY <2>1, <2>2, <1>12, <1>9 DEF Copy
<1>13. CASE Patch
  <2>1. calm' = calm /\ job.at = "patch"
        /\ \A f \in {"default"} \cup Schemas : f # job.config => dest'[f] = dest[f]
    BY <1>13, ConfigsApart DEF Patch, TypeInv
  <2> QED
    BY <2>1, <1>13, <1>9 DEF Patch
<1>14. CASE Compile \/ BuildTable \/ BuildReverse \/ BuildPrism
  <2>1. calm' = calm /\ dest' = dest /\ job.config \in Schemas
    BY <1>14 DEF Compile, BuildTable, BuildReverse, BuildPrism, JobInv, Compiling
  <2>2. /\ job'.queue = job.queue /\ job'.schemas = job.schemas /\ job'.next = job.next
        /\ job'.config \in {job.config, "default"}
    BY ZenonT(60), <1>14, <1>a DEF Compile, BuildTable, BuildReverse, BuildPrism, NextUp, JobType
  <2> QED
    BY <2>1, <2>2, ClosureKept
<1>15. CASE Crash
  BY <1>15, <1>b, IdleInOrder, ConfigsApart DEF Crash, InSchemas
<1> QED
  BY <1>1, <1>2, <1>3, <1>4, <1>5, <1>6, <1>7, <1>8, <1>11, <1>12, <1>13, <1>14, <1>15
  DEF Next, UpgradeConfig, Customize, RemoveCustom, EditDict

-----------------------------------------------------------------------------
(* That what is in order stays so.                                         *)

\* The files that f is in order by.
SameFiles(f) ==
  /\ dest'[f] = dest[f]
  /\ f \in Schemas /\ dest[f].dict /\ DictOf[f] # NoDict =>
       /\ table'[DictOf[f]] = table[DictOf[f]]
       /\ reverse'[DictOf[f]] = reverse[DictOf[f]]
       /\ prism'[f] = prism[f]

LEMMA ConfigDoneKept ==
  ASSUME UNCHANGED <<source, custom>>, NEW f, dest'[f] = dest[f]
  PROVE  ConfigDone(f)' = ConfigDone(f)
BY DEF ConfigDone, NeedUpdate, NeedCopy, Redistribute, IsDirty

LEMMA DoneKept ==
  ASSUME UNCHANGED <<source, lexicon, custom>>, NEW f, SameFiles(f), Done(f)
  PROVE  Done(f)'
<1>1. ConfigDone(f)'
  BY ConfigDoneKept DEF Done, SameFiles
<1> QED
  BY <1>1 DEF Done, SameFiles, DictDone, TableFresh, PrismFresh

LEMMA DeployedKept ==
  ASSUME settled' = settled, \A f \in Due : dest'[f] = dest[f]
  PROVE  Deployed' = Deployed
<1>1. CASE settled
  <2>1. General \cup Listed \subseteq Due
    BY <1>1, RequiredIsClosed DEF Due, Deployed
  <2>2. Required' = Required
    BY <2>1, RequiredKept, ConfigsApart
  <2> QED
    BY <1>1, <2>2 DEF Deployed
<1>2. CASE ~settled
  BY <1>2 DEF Deployed
<1> QED
  BY <1>1, <1>2

\* What a step has to show of the configs that are due after it.
LEMMA DueKept ==
  ASSUME calm, KeptInv, UNCHANGED <<source, lexicon, custom, settled>>,
         \A f \in Due : SameFiles(f),
         \A f \in Passed' : f \in Due \/ Done(f)'
  PROVE  Due' \subseteq Due \cup Passed' /\ \A f \in Due' : Done(f)'
<1>1. Deployed' = Deployed
  BY DeployedKept DEF SameFiles
<1>2. \A f \in Due : Done(f)'
  BY DoneKept DEF KeptInv
<1> QED
  BY <1>1, <1>2 DEF Due

\* A step between two configs that writes no file.
Quiet == job'.at \in {"idle", "begin", "config", "link", "list", "next"}

LEMMA QuietStep ==
  ASSUME \A f \in Due' : Done(f)', Quiet
  PROVE  KeptInv'
BY DEF KeptInv, Quiet, Compiling

\* The configs dealt with are what they were, and maybe the one at hand.
LEMMA PassedBy ==
  ASSUME TypeInv, JobInv
  PROVE  /\ job.config \in General => Passed \subseteq General \cup job.schemas
         /\ job.schemas \subseteq Schemas
         /\ \A f \in General : f \notin Schemas /\ f \notin job.schemas
         /\ job.config \in Schemas /\ job.ok =>
              Passed = General \cup (job.schemas \ {job.config})
         /\ ~PastGeneral => Passed \subseteq {"default"}
BY ConfigsApart DEF Passed, TypeInv, JobType, PastGeneral, InSchemas

\* A config in order by its records is not written.
LEMMA ConfigInHand ==
  ASSUME calm, KeptInv, job.at = "copy" \/ (job.at = "patch" /\ custom[job.config] # 0
                                             /\ Applies(custom[job.config]))
  PROVE  job.config \notin Due
BY DEF KeptInv, Done, ConfigDone

\* The steps of workspace_update itself.
LEMMA WorkspaceKeeps ==
  ASSUME TypeInv, JobInv, KeptInv, ClosureInv,
         \/ \E full \in BOOLEAN : StartMaintenance(full)
         \/ BeginWorkspace \/ LinkPrebuilt \/ ReadList
         \/ NextSchema \/ FindDependencies \/ FinishWorkspace
  PROVE  KeptInv'
<1>a. job \in JobType /\ settled \in BOOLEAN
  BY DEF TypeInv
<1>b. ASSUME calm, UNCHANGED <<source, lexicon, custom, dest, table, reverse, prism, settled>>,
             Passed' \subseteq Passed, Quiet
      PROVE  KeptInv'
  <2>1. \A f \in Due : SameFiles(f)
    BY <1>b DEF SameFiles
  <2>2. \A f \in Due' : Done(f)'
    BY <1>b, <2>1, DueKept DEF Due
  <2> QED
    BY <1>b, <2>2, QuietStep
<1>c. ASSUME ~calm' PROVE KeptInv'
  BY <1>c DEF KeptInv
<1> USE DEF sources, files
<1>1. ASSUME NEW full \in BOOLEAN, StartMaintenance(full) PROVE KeptInv'
  <2>1. Passed' = {} /\ Quiet
    BY <1>1, ConfigsApart DEF StartMaintenance, Idle, Passed, PastGeneral, InSchemas, Quiet
  <2> QED
    BY <1>1, <2>1, <1>b, <1>c DEF StartMaintenance
<1>2. CASE BeginWorkspace
  <2>1. Passed' = {} /\ Quiet
    BY <1>2, <1>a, ConfigsApart
    DEF BeginWorkspace, JobInv, JobType, Passed, PastGeneral, InSchemas, Quiet
  <2>2. CASE calm
    BY <1>2, <2>1, <2>2, <1>b DEF BeginWorkspace
  <2>3. CASE ~calm
    <3>1. ~settled'
      BY <1>2, <2>3 DEF BeginWorkspace, JobInv
    <3>2. Due' = {}
      BY <2>1, <3>1 DEF Due, Deployed
    <3> QED
      BY <2>1, <3>2, QuietStep
  <2> QED
    BY <2>2, <2>3
<1>3. CASE LinkPrebuilt
  <2>1. Passed' \subseteq Passed /\ Quiet
    BY <1>3, <1>a DEF LinkPrebuilt, JobInv, JobType, Passed, PastGeneral, InSchemas, Quiet
  <2>2. ASSUME calm, NEW f \in Due PROVE SameFiles(f)
    <3>1. Done(f)
      BY <2>2 DEF KeptInv
    <3>2. ASSUME f \in Schemas, dest[f].dict, DictOf[f] # NoDict
          PROVE  /\ table'[DictOf[f]] = table[DictOf[f]]
                 /\ reverse'[DictOf[f]] = reverse[DictOf[f]]
                 /\ prism'[f] = prism[f]
      <4>1. DictOf[f] \in Dicts
        BY <3>2, DictsOfSchemas
      <4>2. /\ table[DictOf[f]] # Missing /\ reverse[DictOf[f]] # Missing
            /\ prism[f] # Missing
        BY <3>1, <3>2, OnlyWholeFilesLoad DEF Done, DictDone, TableFresh, PrismFresh
      <4> QED
        BY <3>2, <4>1, <4>2, <1>3 DEF LinkPrebuilt
    <3> QED
      BY <3>2, <1>3 DEF SameFiles, LinkPrebuilt
  <2>3. CASE calm
    <3>1. \A f \in Due' : Done(f)'
      BY <1>3, <2>1, <2>2, <2>3, DueKept DEF LinkPrebuilt, Due
    <3> QED
      BY <2>1, <3>1, QuietStep
  <2> QED
    BY <1>3, <2>3, <1>c DEF LinkPrebuilt
<1>4. CASE ReadList
  <2>1. CASE job' = Idle
    <3>1. Passed' = {} /\ Quiet
      BY <2>1, IdleInOrder, ConfigsApart DEF Passed, PastGeneral, InSchemas, Quiet
    <3> QED
      BY <1>4, <3>1, <1>b, <1>c DEF ReadList
  <2>2. CASE job' = [job EXCEPT !.at = "next", !.queue = Selection]
    <3>1. Passed' \subseteq Passed /\ Quiet
      BY <1>4, <2>2, <1>a DEF ReadList, JobInv, JobType, Passed, PastGeneral, InSchemas, Quiet
    <3> QED
      BY <1>4, <3>1, <1>b, <1>c DEF ReadList
  <2> QED
    BY <1>4, <2>1, <2>2 DEF ReadList
<1>5. CASE NextSchema
  <2>1. job.config = "default" /\ PastGeneral
    BY <1>5 DEF NextSchema, JobInv, PastGeneral, InSchemas
  <2>2. Passed' \subseteq Passed /\ Quiet
    <3>1. CASE job' = [job EXCEPT !.queue = Tail(@)]
      BY <1>5, <2>1, <3>1, <1>a DEF NextSchema, JobType, Passed, PastGeneral, InSchemas, Quiet
    <3>2. ASSUME NEW s \in Schemas, job' = Update(s)
          PROVE  Passed' \subseteq Passed /\ Quiet
      <4>1. job.schemas \subseteq Schemas /\ "default" \notin Schemas
        BY PassedBy, ConfigsApart
      <4>2. CASE job' = [job EXCEPT !.queue = Tail(@), !.schemas = @ \cup {s}, !.ok = FALSE]
        BY <1>5, <4>2, <1>a DEF NextSchema, JobType, Passed, Quiet
      <4>3. CASE job' = [job EXCEPT !.at = "config", !.config = s, !.queue = Tail(@),
                                    !.schemas = @ \cup {s}]
        <5>1. Passed' \subseteq (IF job.ok THEN General \cup job.schemas ELSE {})
          BY <3>2, <4>3, <1>a DEF JobType, Passed, PastGeneral, InSchemas
        <5>2. Passed = (IF job.ok THEN General \cup job.schemas ELSE {})
          BY <2>1, <4>1 DEF Passed
        <5>3. Quiet
          BY <4>3, <1>a DEF Quiet, JobType
        <5> QED
          BY <5>1, <5>2, <5>3
      <4> QED
        BY <3>2, <4>2, <4>3 DEF Update
    <3> QED
      BY <1>5, <3>1, <3>2 DEF NextSchema, HasSource
  <2> QED
    BY <1>5, <2>2, <1>b, <1>c DEF NextSchema
<1>6. CASE FindDependencies
  <2>1. Passed' \subseteq Passed /\ Quiet
    BY <1>6, <1>a DEF FindDependencies, JobType, Passed, PastGeneral, InSchemas, Quiet
  <2> QED
    BY <1>6, <2>1, <1>b, <1>c DEF FindDependencies
<1>7. CASE FinishWorkspace
  <2>1. Passed' = {} /\ Quiet
    BY <1>7, IdleInOrder, ConfigsApart DEF FinishWorkspace, Passed, PastGeneral, InSchemas, Quiet
  <2>2. CASE settled' = settled
    BY <1>7, <2>1, <2>2, <1>b, <1>c DEF FinishWorkspace
  <2>3. CASE settled' # settled
    <3>1. job.ok /\ calm /\ settled'
      BY <1>7, <2>3, <1>a DEF FinishWorkspace
    <3>2. job.config = "default" /\ InSchemas
      BY <1>7 DEF FinishWorkspace, JobInv, InSchemas
    <3>3. job.queue = << >> /\ ToSet(<< >>) = {} /\ job.next > Len(Names) /\ Len(Names) \in Nat
          /\ job.next \in Nat \ {0}
      BY <1>7, <1>a, NamesAreSchemas DEF FinishWorkspace, ToSet, JobType
    <3>4. Listed \subseteq job.schemas
      <4>1. CASE job.next = 1
        BY <3>1, <3>2, <3>3, <4>1 DEF ClosureInv
      <4>2. CASE job.next > 1
        BY <3>1, <3>2, <4>2 DEF ClosureInv
      <4> QED
        BY <3>3, <4>1, <4>2
    <3>5. ASSUME NEW s \in Listed PROVE Needs(s) \subseteq job.schemas
      <4>1. PICK k \in 1..Len(Names) : Names[k] = s
        BY NamesAreSchemas DEF Listed, HasSource
      <4>2. k < job.next /\ job.next > 1
        BY <3>3, <4>1
      <4> QED
        BY <3>1, <3>2, <3>3, <3>5, <4>1, <4>2 DEF ClosureInv
    <3>6. Required \subseteq job.schemas
      BY <3>4, <3>5, RequiredIsClosed
    <3>7. Passed = General \cup job.schemas
      BY <3>1, <3>2, PassedBy, ConfigsApart DEF Passed, PastGeneral
    <3>8. Required' = Required
      BY <1>7, RequiredKept DEF FinishWorkspace
    <3>9. Due' \subseteq Due
      BY <2>1, <3>1, <3>6, <3>7, <3>8 DEF Due, Deployed
    <3>10. \A f \in Due' : Done(f)'
      <4>1. \A f : SameFiles(f)
        BY <1>7 DEF FinishWorkspace, SameFiles
      <4> QED
        BY <1>7, <3>1, <3>9, <4>1, DoneKept DEF FinishWorkspace, KeptInv
    <3> QED
      BY <2>1, <3>10, QuietStep
  <2> QED
    BY <2>2, <2>3
<1> QED
  BY <1>1, <1>2, <1>3, <1>4, <1>5, <1>6, <1>7

\* What the end of the update of a config adds: a general one, once it is done.
LEMMA AfterUpdate ==
  ASSUME TypeInv, JobInv, NEW u \in BOOLEAN, job' = After(u), calm, KeptInv,
         job.at \in {"config", "copy", "patch"},
         UNCHANGED <<source, lexicon, custom, settled>>,
         \A g \in Due : SameFiles(g),
         NEW f, f = job.config, ConfigDone(f)'
  PROVE  KeptInv'
<1>a. job \in JobType
  BY DEF TypeInv
<1>1. CASE job.config \in Schemas /\ job' = [job EXCEPT !.at = "compile", !.seen = 0]
  <2>1. Passed' = Passed /\ job'.at = "compile" /\ job'.config = job.config
    BY <1>1, <1>a DEF Passed, PastGeneral, InSchemas, JobType
  <2>2. \A g \in Due' : Done(g)'
    BY <2>1, DueKept DEF Due
  <2>3. ConfigDone(job.config)'
    BY <2>1 DEF ConfigDone, NeedUpdate, NeedCopy, Redistribute, IsDirty
  <2> QED
    BY <2>1, <2>2, <2>3 DEF KeptInv, Compiling
<1>2. CASE \/ job.config = "default" /\ job' = ToSymbols
           \/ job.config = "symbols" /\ job' = ToLink
  <2>1. job.schemas = {} /\ job.config \in General /\ job.config \notin Schemas
    BY <1>2, ConfigsApart DEF JobInv, InSchemas
  <2>2. Quiet
    BY <1>2, <1>a, Leads DEF Quiet
  <2>3. Passed' \subseteq Passed \cup {job.config}
    <3>1. CASE job.config = "default" /\ job' = ToSymbols
      BY <1>a, <3>1, Leads, ConfigsApart DEF Passed, PastGeneral, InSchemas
    <3>2. CASE job.config = "symbols" /\ job' = ToLink
      BY <1>a, <2>1, <3>2, Leads, ConfigsApart DEF Passed, PastGeneral, InSchemas
    <3> QED
      BY <1>2, <3>1, <3>2
  <2>4. Done(f)'
    BY <2>1 DEF Done
  <2>5. \A g \in Due' : Done(g)'
    BY <2>3, <2>4, DueKept DEF Due
  <2> QED
    BY <2>2, <2>5, QuietStep
<1>3. CASE job' \in {[Idle EXCEPT !.at = "begin"], Idle}
  <2>1. Passed' = {} /\ Quiet
    BY <1>3, IdleInOrder, ConfigsApart DEF Passed, PastGeneral, InSchemas, Quiet
  <2>2. \A g \in Due' : Done(g)'
    BY <2>1, DueKept DEF Due
  <2> QED
    BY <2>1, <2>2, QuietStep
<1> QED
  BY <1>1, <1>2, <1>3, <1>a, AfterCases, ConfigsApart

\* A config that is written is not due, and no other is.
LEMMA ConfigWritten ==
  ASSUME TypeInv, job.config \notin Due, NEW copy,
         \/ dest' = dest
         \/ dest' = [dest EXCEPT ![job.config] = copy],
         UNCHANGED <<table, reverse, prism>>
  PROVE  \A f \in Due : SameFiles(f)
<1>1. Due \subseteq Configs
  BY ConfigsApart DEF Due, Passed, Deployed, TypeInv, JobType, Required, HasSource
<1> QED
  BY <1>1 DEF SameFiles, TypeInv

LEMMA ConfigKeeps ==
  ASSUME TypeInv, JobInv, CopiesInv, KeptInv, Compare \/ Copy \/ Patch
  PROVE  KeptInv'
<1> PICK f : f = job.config
  OBVIOUS
<1>a. job \in JobType /\ f \in Configs /\ dest[f] \in CopyType /\ source[f] \in Nat
      /\ custom[f] \in Nat
  BY DEF TypeInv, JobType
<1>b. UNCHANGED <<source, lexicon, custom, table, reverse, prism, settled, calm>>
  BY DEF Compare, Copy, Patch, sources, files
<1> USE DEF sources, files
<1>1. ASSUME ~calm PROVE KeptInv'
  BY <1>1, <1>b DEF KeptInv
<1>2. ASSUME calm, Compare PROVE KeptInv'
  <2>1. dest' = dest /\ \A g : SameFiles(g)
    BY <1>2 DEF Compare, SameFiles
  <2>2. ASSUME NEW at \in {"copy", "patch"}, job' = [job EXCEPT !.at = at, !.seen = custom[f]],
               NeedUpdate(f), at = "copy" <=> NeedCopy(f)
        PROVE  KeptInv'
    <3>1. /\ job'.at = at /\ job'.config = f /\ job'.seen = custom[f]
          /\ job'.schemas = job.schemas /\ job'.ok = job.ok
      BY <2>2, <1>a DEF JobType
    <3>2. Passed' = Passed
      BY <1>2, <3>1 DEF Compare, Passed, PastGeneral, InSchemas
    <3>3. \A g \in Due' : Done(g)'
      BY <1>2, <1>b, <2>1, <3>2, DueKept DEF Due
    <3>4. /\ NeedUpdate(f)' = NeedUpdate(f) /\ NeedCopy(f)' = NeedCopy(f)
      BY <1>b, <2>1, <3>1 DEF NeedUpdate, NeedCopy, Redistribute, IsDirty
    <3>5. NeedUpdate(job.config)' = NeedUpdate(f)' /\ NeedCopy(job.config)' = NeedCopy(f)'
          /\ custom'[job'.config] = custom[f]
      BY <1>b, <2>1, <3>1 DEF NeedUpdate, NeedCopy, Redistribute, IsDirty
    <3> QED
      BY <2>2, <3>1, <3>3, <3>4, <3>5 DEF KeptInv, Compiling
  <2>3. ASSUME NEW u \in BOOLEAN, job' = After(u), ConfigDone(f) PROVE KeptInv'
    <3>1. ConfigDone(f)'
      BY <1>b, <2>1, <2>3, ConfigDoneKept
    <3> QED
      BY <1>2, <1>b, <2>1, <2>3, <3>1, AfterUpdate DEF Compare
  <2>4. CASE ~NeedUpdate(f)
    BY <1>2, <2>3, <2>4 DEF Compare, ConfigDone
  <2>5. CASE NeedUpdate(f) /\ NeedCopy(f)
    BY <1>2, <2>2, <2>5 DEF Compare
  <2>6. CASE NeedUpdate(f) /\ ~NeedCopy(f) /\ custom[f] # 0
    BY <1>2, <2>2, <2>6 DEF Compare
  <2>7. CASE NeedUpdate(f) /\ ~NeedCopy(f) /\ custom[f] = 0
    BY <1>2, <2>3, <2>7 DEF Compare, ConfigDone
  <2> QED
    BY <2>4, <2>5, <2>6, <2>7
<1>3. ASSUME calm, Copy PROVE KeptInv'
  <2>1. f \notin Due /\ dest' = [dest EXCEPT ![f] = Copied(f, source[f])]
    BY <1>3, ConfigInHand DEF Copy
  <2>2. \A g \in Due : SameFiles(g)
    BY <1>b, <2>1, ConfigWritten
  <2>3. /\ dest'[f].version = source[f] /\ dest'[f].customization = 0
    BY <2>1, <1>a DEF Copied, TypeInv
  <2>4. ~Redistribute(f)' /\ ~IsDirty(f)'
    BY <1>a, <1>b, <2>3 DEF Redistribute, IsDirty
  <2>5. job.seen = custom[f]
    BY <1>3 DEF Copy, KeptInv
  <2>6. CASE custom[f] # 0
    <3>1. job' = [job EXCEPT !.at = "patch"]
      BY <1>3, <2>5, <2>6 DEF Copy
    <3>2. /\ job'.at = "patch" /\ job'.config = f /\ job'.seen = custom[f]
          /\ job'.schemas = job.schemas /\ job'.ok = job.ok
      BY <3>1, <2>5, <1>a DEF JobType
    <3>3. Passed' = Passed
      BY <1>3, <3>2 DEF Copy, Passed, PastGeneral, InSchemas
    <3>4. \A g \in Due' : Done(g)'
      BY <1>3, <1>b, <2>2, <3>3, DueKept DEF Due
    <3>5. NeedUpdate(job.config)' /\ ~NeedCopy(job.config)'
      BY <1>b, <2>3, <2>4, <2>6, <3>2 DEF NeedUpdate, NeedCopy, Redistribute, IsDirty
    <3> QED
      BY <1>b, <3>2, <3>4, <3>5 DEF KeptInv, Compiling
  <2>7. CASE custom[f] = 0
    <3>1. ConfigDone(f)'
      BY <1>b, <2>3, <2>4, <2>7 DEF ConfigDone, NeedUpdate
    <3>2. job' = After(TRUE)
      BY <1>3, <2>5, <2>7 DEF Copy
    <3> QED
      BY <1>3, <1>b, <2>2, <3>1, <3>2, AfterUpdate DEF Copy
  <2> QED
    BY <2>6, <2>7
<1>4. ASSUME calm, Patch PROVE KeptInv'
  <2>1. /\ job.seen = custom[f] /\ custom[f] # 0 /\ NeedUpdate(f) /\ ~NeedCopy(f)
    BY <1>4 DEF Patch, KeptInv, CopiesInv
  <2>2. CASE Applies(custom[f])
    <3>1. f \notin Due
      BY <1>4, <2>1, <2>2, ConfigInHand DEF Patch
    <3>2. dest' = [dest EXCEPT ![f] = Patched(f, dest[f], custom[f], job.seen)]
      BY <1>4, <2>1, <2>2, <1>a DEF Patch, TypeInv
    <3>3. \A g \in Due : SameFiles(g)
      BY <1>b, <3>1, <3>2, ConfigWritten
    <3>4. dest'[f].customization = custom[f] /\ dest'[f].version = dest[f].version
      BY <2>1, <3>2, <1>a DEF Patched, CopyType, TypeInv
    <3>5. ConfigDone(f)'
      BY <1>b, <2>1, <3>4 DEF ConfigDone, NeedUpdate, NeedCopy, Redistribute
    <3> QED
      BY <1>4, <1>b, <2>1, <2>2, <3>3, <3>5, AfterUpdate DEF Patch
  <2>3. CASE ~Applies(custom[f])
    <3>1. dest' = dest /\ \A g \in Due : SameFiles(g)
      BY <1>4, <2>3 DEF Patch, SameFiles
    <3>2. ConfigDone(f)
      BY <2>1, <2>3 DEF ConfigDone
    <3>3. ConfigDone(f)'
      BY <1>b, <3>1, <3>2, ConfigDoneKept
    <3> QED
      BY <1>4, <1>b, <2>1, <2>3, <3>1, <3>3, AfterUpdate DEF Patch
  <2> QED
    BY <2>2, <2>3
<1> QED
  BY <1>1, <1>2, <1>3, <1>4

\* What the end of a dictionary adds: the config at hand, once all is in order.
LEMMA AfterCompile ==
  ASSUME TypeInv, JobInv, job.at = "compile" \/ Compiling, calm, KeptInv,
         NEW ok \in BOOLEAN, job' = [NextUp EXCEPT !.ok = ok], ok => job.ok,
         UNCHANGED <<source, lexicon, custom, settled>>,
         \A g \in Due : SameFiles(g),
         NEW f, f = job.config, ok => Done(f)'
  PROVE  KeptInv'
<1>1. /\ job'.at = "next" /\ job'.config = "default" /\ job'.schemas = job.schemas /\ job'.ok = ok
  BY DEF NextUp, TypeInv, JobType
<1>2. f \in Schemas /\ "default" \notin job.schemas
  BY PassedBy, ConfigsApart DEF JobInv
<1>3. Passed' \subseteq Passed \cup {g \in {f} : ok}
  <2>1. CASE ok
    <3>1. Passed' = General \cup (job.schemas \ {"default"})
      BY <1>1, <2>1 DEF Passed, PastGeneral, InSchemas
    <3>2. Passed = General \cup (job.schemas \ {f})
      BY <1>2, <2>1, PassedBy
    <3> QED
      BY <1>2, <2>1, <3>1, <3>2
  <2>2. CASE ~ok
    BY <1>1, <2>2 DEF Passed
  <2> QED
    BY <2>1, <2>2
<1>4. \A g \in Due' : Done(g)'
  BY <1>3, DueKept DEF Due
<1> QED
  BY <1>1, <1>4, QuietStep DEF Quiet

LEMMA DictConfig ==
  ASSUME TypeInv, JobInv, KeptInv, calm, Compile \/ BuildTable \/ BuildReverse \/ BuildPrism
  PROVE  /\ job.config \in Schemas
         /\ ConfigDone(job.config)
         /\ Compiling => ThisDict \in Dicts /\ ThisDict # NoDict /\ job.sum # 0
                         /\ job.sum = lexicon[ThisDict] /\ dest[job.config].dict
         /\ UNCHANGED <<source, lexicon, custom, dest, settled, calm>>
<1>1. job.at = "compile" \/ Compiling
  BY DEF Compile, BuildTable, BuildReverse, BuildPrism, Compiling
<1>2. UNCHANGED <<source, lexicon, custom, dest, settled, calm>>
  BY DEF Compile, BuildTable, BuildReverse, BuildPrism, sources, files
<1> QED
  BY <1>1, <1>2, CompilingTyped DEF JobInv, KeptInv

LEMMA CompileKeeps ==
  ASSUME TypeInv, JobInv, BinariesInv, KeptInv, Compile
  PROVE  KeptInv'
<1> PICK f : f = job.config
  OBVIOUS
<1> PICK d : d = ThisDict
  OBVIOUS
<1>a. job \in JobType
  BY DEF TypeInv
<1>b. /\ job.at = "compile" /\ calm' = calm
      /\ UNCHANGED <<source, lexicon, custom, dest, table, reverse, prism, settled>>
  BY DEF Compile, sources, files
<1>c. \A g : SameFiles(g)
  BY <1>b DEF SameFiles
<1>1. CASE ~calm
  BY <1>1, <1>b DEF KeptInv
<1>2. CASE calm
  <2>1. f \in Schemas /\ f \notin General /\ ConfigDone(f)
    BY <1>2, DictConfig, ConfigsApart
  <2>2. ASSUME job' = NextUp, dest[f].dict => DictDone(f) PROVE KeptInv'
    <3>1. Done(f)'
      BY <1>b, <1>c, <2>1, <2>2, DoneKept DEF Done
    <3>2. NextUp = [NextUp EXCEPT !.ok = job.ok] /\ job.ok \in BOOLEAN
      BY <1>a DEF NextUp, JobType
    <3> QED
      BY <1>2, <1>b, <1>c, <2>2, <3>1, <3>2, AfterCompile
  <2>3. CASE ThisDict = NoDict \/ ~dest[f].dict
    BY <2>2, <2>3 DEF Compile, DictDone, ThisDict
  <2>4. CASE ThisDict # NoDict /\ dest[f].dict /\ lexicon[ThisDict] = 0
    BY <1>2, <1>b, <1>c, <2>4, AfterCompile DEF Compile
  <2>5. ASSUME NEW at \in {"table", "prism"}, ThisDict # NoDict, dest[f].dict,
               job' = [job EXCEPT !.at = at, !.sum = lexicon[ThisDict]],
               at = "table" => TableIsStale(lexicon[ThisDict]),
               at = "prism" => ~TableIsStale(lexicon[ThisDict]) /\ PrismIsStale(lexicon[ThisDict])
        PROVE  KeptInv'
    <3>1. /\ job'.at = at /\ job'.config = f /\ job'.sum = lexicon[d]
          /\ job'.schemas = job.schemas /\ job'.ok = job.ok
      BY <2>5, <1>a DEF JobType
    <3>2. Passed' = Passed /\ ThisDict' = d
      BY <1>b, <3>1 DEF Passed, PastGeneral, InSchemas, ThisDict
    <3>3. \A g \in Due' : Done(g)' /\ g \in Due
      BY <1>2, <1>b, <1>c, <3>2, DueKept DEF Due
    <3>4. ConfigDone(job.config)'
      BY <1>b, <2>1, <3>1 DEF ConfigDone, NeedUpdate, NeedCopy, Redistribute, IsDirty
    <3>5. ASSUME at = "table", NEW s \in Due' \ General
          PROVE  ~dest'[s].dict \/ DictOf[s] # d
      <4>1. Done(s) /\ s \in Schemas
        <5>1. Done(s) /\ s \notin General /\ s \in Due
          BY <1>2, <3>3, <3>5 DEF KeptInv
        <5>2. Passed \subseteq General \cup Schemas
          BY <2>1, PassedBy DEF Passed
        <5>3. Deployed \subseteq General \cup Schemas
          BY DEF Deployed, Required, HasSource
        <5> QED
          BY <5>1, <5>2, <5>3 DEF Due
      <4>2. ~TableFresh(d)
        BY <2>5, <3>5 DEF TableIsStale, TableFresh
      <4> QED
        BY <1>b, <2>5, <4>1, <4>2 DEF Done, DictDone
    <3>6. ASSUME at = "prism" PROVE TableFresh(d)' /\ f \notin Due'
      <4>1. TableFresh(d)
        BY <2>5, <3>6 DEF TableIsStale, TableFresh
      <4>2. TableFresh(d)'
        BY <1>b, <4>1 DEF TableFresh
      <4>3. ~PrismFresh(f)
        BY <2>5, <3>6 DEF PrismIsStale, PrismFresh, ThisDict
      <4> QED
        BY <1>2, <2>1, <2>5, <3>3, <4>2, <4>3 DEF KeptInv, Done, DictDone, ThisDict
    <3>7. TableFresh(ThisDict)' <=> TableFresh(d)'
      BY <3>2 DEF TableFresh
    <3> QED
      BY <1>b, <3>1, <3>2, <3>3, <3>4, <3>5, <3>6, <3>7 DEF KeptInv, Compiling
  <2>6. CASE /\ ThisDict # NoDict /\ dest[f].dict /\ lexicon[ThisDict] # 0
             /\ ~TableIsStale(lexicon[ThisDict]) /\ ~PrismIsStale(lexicon[ThisDict])
    BY <2>2, <2>6 DEF Compile, DictDone, TableIsStale, PrismIsStale, TableFresh, PrismFresh, ThisDict
  <2> QED
    BY <2>2, <2>3, <2>4, <2>5, <2>6 DEF Compile
<1> QED
  BY <1>1, <1>2

LEMMA BuildTableKeeps ==
  ASSUME TypeInv, JobInv, KeptInv, BuildTable
  PROVE  KeptInv'
<1> PICK f : f = job.config
  OBVIOUS
<1> PICK d : d = ThisDict
  OBVIOUS
<1>1. CASE ~calm
  BY <1>1 DEF KeptInv, BuildTable
<1>2. CASE calm
  <2>1. /\ f \in Schemas /\ f \notin General /\ ConfigDone(f) /\ d \in Dicts
        /\ job.sum = lexicon[d] /\ job.at = "table"
        /\ UNCHANGED <<source, lexicon, custom, dest, settled, calm, reverse, prism>>
    BY <1>2, DictConfig, ConfigsApart DEF BuildTable, Compiling
  <2>2. /\ job'.at = "reverse" /\ job'.config = f /\ job'.sum = job.sum
        /\ job'.schemas = job.schemas /\ job'.ok = job.ok
    BY DEF BuildTable, TypeInv, JobType
  <2>3. Passed' = Passed /\ ThisDict' = d
    BY <2>1, <2>2 DEF Passed, PastGeneral, InSchemas, ThisDict
  <2>4. \A s \in Due \ General : ~dest[s].dict \/ DictOf[s] # d
    BY <1>2, <2>1 DEF KeptInv
  <2>5. ASSUME NEW g \in Due PROVE SameFiles(g)
    <3>1. \A e \in Dicts \ {d} : table'[e] = table[e]
      BY DEF BuildTable, TypeInv
    <3> QED
      BY <2>1, <2>4, <3>1, DictsOfSchemas, ConfigsApart DEF SameFiles
  <2>6. \A g \in Due' : Done(g)' /\ g \in Due
    BY <1>2, <2>1, <2>3, <2>5, DueKept DEF Due
  <2>7. ConfigDone(job.config)'
    BY <2>1, <2>2 DEF ConfigDone, NeedUpdate, NeedCopy, Redistribute, IsDirty
  <2> QED
    BY <2>1, <2>2, <2>3, <2>4, <2>6, <2>7 DEF KeptInv, Compiling
<1> QED
  BY <1>1, <1>2

LEMMA BuildReverseKeeps ==
  ASSUME TypeInv, JobInv, BinariesInv, KeptInv, BuildReverse
  PROVE  KeptInv'
<1> PICK f : f = job.config
  OBVIOUS
<1> PICK d : d = ThisDict
  OBVIOUS
<1>1. CASE ~calm
  BY <1>1 DEF KeptInv, BuildReverse
<1>2. CASE calm
  <2>1. /\ f \in Schemas /\ f \notin General /\ ConfigDone(f) /\ d \in Dicts /\ d # NoDict
        /\ job.sum = lexicon[d] /\ job.sum # 0 /\ job.at = "reverse" /\ dest[f].dict
        /\ UNCHANGED <<source, lexicon, custom, dest, settled, calm, table, prism>>
    BY <1>2, DictConfig, ConfigsApart DEF BuildReverse, Compiling
  <2>2. \A s \in Due \ General : ~dest[s].dict \/ DictOf[s] # d
    BY <1>2, <2>1 DEF KeptInv
  <2>3. ASSUME NEW g \in Due PROVE SameFiles(g)
    <3>1. \A e \in Dicts \ {d} : reverse'[e] = reverse[e]
      BY DEF BuildReverse, TypeInv
    <3> QED
      BY <2>1, <2>2, <3>1, DictsOfSchemas, ConfigsApart DEF SameFiles
  <2>4. TableFresh(d)'
    <3>1. reverse'[d] = Built(job.sum, table[d].of, NoCopy)
      BY <2>1 DEF BuildReverse, TypeInv
    <3>2. Loads(reverse'[d]) /\ reverse'[d].sum = lexicon[d]
      BY <2>1, <3>1, OnlyWholeFilesLoad
    <3>3. Loads(table[d]) /\ table[d].sum = lexicon[d]
      BY <2>1 DEF BinariesInv
    <3> QED
      BY <2>1, <3>2, <3>3 DEF TableFresh
  <2>5. CASE PrismIsStale(job.sum)
    <3>1. job' = [job EXCEPT !.at = "prism"]
      BY <2>5 DEF BuildReverse
    <3>2. /\ job'.at = "prism" /\ job'.config = f /\ job'.sum = job.sum
          /\ job'.schemas = job.schemas /\ job'.ok = job.ok
      BY <3>1 DEF TypeInv, JobType
    <3>3. Passed' = Passed /\ ThisDict' = d
      BY <2>1, <3>2 DEF Passed, PastGeneral, InSchemas, ThisDict
    <3>4. \A g \in Due' : Done(g)' /\ g \in Due
      BY <1>2, <2>1, <2>3, <3>3, DueKept DEF Due
    <3>5. ConfigDone(job.config)'
      BY <2>1, <3>2 DEF ConfigDone, NeedUpdate, NeedCopy, Redistribute, IsDirty
    <3>6. f \notin Due'
      BY <2>1, <2>2, <3>4 DEF ThisDict
    <3>7. TableFresh(ThisDict)'
      BY <2>4, <3>3 DEF TableFresh
    <3> QED
      BY <2>1, <3>2, <3>3, <3>4, <3>5, <3>6, <3>7 DEF KeptInv, Compiling
  <2>6. CASE ~PrismIsStale(job.sum)
    <3>1. job' = [NextUp EXCEPT !.ok = job.ok] /\ job.ok \in BOOLEAN
      BY <2>6 DEF BuildReverse, NextUp, TypeInv, JobType
    <3>2. PrismFresh(f)'
      BY <2>1, <2>6 DEF PrismIsStale, PrismFresh, ThisDict
    <3>3. ConfigDone(f)'
      BY <2>1, ConfigDoneKept
    <3>4. DictOf[f] = d
      BY DEF ThisDict
    <3>5. Done(f)'
      BY <2>4, <3>2, <3>3, <3>4 DEF Done, DictDone
    <3>6. Compiling
      BY <2>1 DEF Compiling
    <3> QED
      BY <1>2, <2>1, <2>3, <3>1, <3>5, <3>6, AfterCompile
  <2> QED
    BY <2>5, <2>6
<1> QED
  BY <1>1, <1>2

LEMMA BuildPrismKeeps ==
  ASSUME TypeInv, JobInv, KeptInv, BuildPrism
  PROVE  KeptInv'
<1> PICK f : f = job.config
  OBVIOUS
<1> PICK d : d = ThisDict
  OBVIOUS
<1>1. CASE ~calm
  BY <1>1 DEF KeptInv, BuildPrism
<1>2. CASE calm
  <2>1. /\ f \in Schemas /\ f \notin General /\ ConfigDone(f) /\ d = DictOf[f]
        /\ job.sum = lexicon[d] /\ job.sum # 0 /\ job.at = "prism" /\ Compiling
        /\ UNCHANGED <<source, lexicon, custom, dest, settled, calm, table, reverse>>
    BY <1>2, DictConfig, ConfigsApart DEF BuildPrism, Compiling, ThisDict
  <2>2. f \notin Due /\ TableFresh(d)
    BY <1>2, <2>1 DEF KeptInv
  <2>3. \A g \in Due : SameFiles(g)
    BY <2>1, <2>2 DEF SameFiles, BuildPrism, TypeInv
  <2>4. PrismFresh(f)'
    <3>1. prism'[f] = Built(job.sum, table[d].of, dest[f])
      BY <2>1 DEF BuildPrism, TypeInv
    <3> QED
      BY <2>1, <3>1, OnlyWholeFilesLoad DEF PrismFresh
  <2>5. ConfigDone(f)' /\ TableFresh(d)'
    BY <2>1, <2>2, ConfigDoneKept DEF TableFresh
  <2>6. Done(f)'
    BY <2>1, <2>4, <2>5 DEF Done, DictDone
  <2>7. job' = [NextUp EXCEPT !.ok = job.ok] /\ job.ok \in BOOLEAN
    BY DEF BuildPrism, NextUp, TypeInv, JobType
  <2> QED
    BY <1>2, <2>1, <2>3, <2>6, <2>7, AfterCompile
<1> QED
  BY <1>1, <1>2

\* A crash harms only what is being written.
LEMMA CrashKeeps ==
  ASSUME TypeInv, JobInv, CopiesInv, KeptInv, Crash
  PROVE  KeptInv'
<1> PICK f : f = job.config
  OBVIOUS
<1>1. UNCHANGED <<source, lexicon, custom, settled, calm>> /\ job' = Idle
  BY DEF Crash, sources
<1>2. CASE ~calm
  BY <1>1, <1>2 DEF KeptInv
<1>3. CASE calm
  <2>1. Passed' = {} /\ Quiet
    BY <1>1, IdleInOrder, ConfigsApart DEF Passed, PastGeneral, InSchemas, Quiet
  <2>2. ASSUME NEW g \in Due PROVE dest'[g] = dest[g]
    <3>1. CASE dest' = dest
      BY <3>1
    <3>2. CASE dest' # dest
      <4>1. job.at = "copy" \/ (job.at = "patch" /\ custom[f] # 0 /\ Applies(custom[f]))
        BY <3>2 DEF Crash
      <4>2. g # f
        BY <1>3, <4>1, ConfigInHand
      <4>3. PICK c : dest' = [dest EXCEPT ![f] = c]
        BY <3>2 DEF Crash
      <4> QED
        BY <4>2, <4>3, ConfigWritten DEF TypeInv
    <3> QED
      BY <3>1, <3>2
  <2>3. ASSUME NEW g \in Due, g \in Schemas, dest[g].dict, DictOf[g] # NoDict
        PROVE  /\ table'[DictOf[g]] = table[DictOf[g]]
               /\ reverse'[DictOf[g]] = reverse[DictOf[g]]
               /\ prism'[g] = prism[g]
    <3>1. DictOf[g] \in Dicts /\ g \notin General
      BY <2>3, DictsOfSchemas, ConfigsApart
    <3>2. job.at \in {"table", "reverse"} => DictOf[g] # ThisDict
      BY <1>3, <2>3, <3>1 DEF KeptInv
    <3>3. job.at = "prism" => g # f
      BY <1>3, <2>3 DEF KeptInv
    <3>4. table'[DictOf[g]] = table[DictOf[g]]
      BY <3>1, <3>2 DEF Crash, TypeInv
    <3>5. reverse'[DictOf[g]] = reverse[DictOf[g]]
      BY <3>1, <3>2 DEF Crash, TypeInv
    <3>6. prism'[g] = prism[g]
      BY <2>3, <3>3 DEF Crash, TypeInv
    <3> QED
      BY <3>4, <3>5, <3>6
  <2>4. \A g \in Due : SameFiles(g)
    BY <2>2, <2>3 DEF SameFiles
  <2>5. \A g \in Due' : Done(g)'
    BY <1>1, <1>3, <2>1, <2>4, DueKept DEF Due
  <2> QED
    BY <2>1, <2>5, QuietStep
<1> QED
  BY <1>2, <1>3

-----------------------------------------------------------------------------
(* The theorems.                                                           *)

LEMMA InitInOrder == Init => IInv
<1> SUFFICES ASSUME Init PROVE IInv
  OBVIOUS
<1>1. TypeInv
  BY InitTyped
<1>2. JobInv
  BY IdleInOrder, ConfigsApart DEF Init, JobInv, Compiling, InSchemas
<1>3. CopiesInv
  <2>1. ASSUME NEW f \in Configs PROVE custom[f] <= edits /\ Recorded(dest[f], f)
    <3>1. custom[f] = 0 /\ edits = 0 /\ source[f] = 1 /\ dest[f] \in {Copied(f, source[f]), NoCopy}
      BY DEF Init
    <3> QED
      BY <1>1, <3>1, FreshCopyRecorded
  <2> QED
    BY <2>1, IdleInOrder DEF Init, CopiesInv
<1>4. BinariesInv
  BY OnlyWholeFilesLoad, IdleInOrder, DictsOfSchemas DEF Init, BinariesInv, Honest
<1>5. KeptInv /\ ClosureInv
  BY DEF Init, KeptInv, ClosureInv
<1> QED
  BY <1>1, <1>2, <1>3, <1>4, <1>5 DEF IInv

LEMMA StepKeeps ==
  ASSUME TypeInv, JobInv, CopiesInv, BinariesInv, KeptInv, ClosureInv, Next
  PROVE  KeptInv'
<1>1. ASSUME Edited PROVE KeptInv'
  BY <1>1 DEF Edited, KeptInv
<1> QED
  BY <1>1, WorkspaceKeeps, ConfigKeeps, CompileKeeps, BuildTableKeeps, BuildReverseKeeps,
     BuildPrismKeeps, CrashKeeps
  DEF Next, UpgradeConfig, Customize, RemoveCustom, EditDict

LEMMA Stutter ==
  ASSUME IInv, UNCHANGED vars
  PROVE  IInv'
<1> USE DEF vars
<1>1. TypeInv'
  BY DEF IInv, TypeInv
<1>2. JobInv'
  BY DEF IInv, JobInv, Compiling, InSchemas, ThisDict
<1>3. CopiesInv'
  BY DEF IInv, CopiesInv, Recorded, Signed, SharedCopy, IsDirty
<1>4. BinariesInv'
  BY DEF IInv, BinariesInv, Honest, ThisDict
<1>5. Due' = Due
  <2>1. Passed' = Passed
    BY DEF Passed, PastGeneral, InSchemas
  <2>2. Required' = Required
    BY RequiredKept
  <2> QED
    BY <2>1, <2>2 DEF Due, Deployed
<1>6. KeptInv'
  <2>1. \A f : SameFiles(f)
    BY DEF SameFiles
  <2>2. calm => \A f \in Due' : Done(f)'
    BY <1>5, <2>1, DoneKept DEF IInv, KeptInv
  <2>3. TableFresh(ThisDict)' <=> TableFresh(ThisDict)
    BY DEF TableFresh, ThisDict
  <2>4. /\ NeedUpdate(job.config)' <=> NeedUpdate(job.config)
        /\ NeedCopy(job.config)' <=> NeedCopy(job.config)
        /\ ConfigDone(job.config)' <=> ConfigDone(job.config)
    BY DEF ConfigDone, NeedUpdate, NeedCopy, Redistribute, IsDirty
  <2> QED
    BY <1>5, <2>2, <2>3, <2>4 DEF IInv, KeptInv, Compiling, ThisDict
<1>7. ClosureInv'
  BY NeedsKept DEF IInv, ClosureInv, InSchemas
<1> QED
  BY <1>1, <1>2, <1>3, <1>4, <1>6, <1>7 DEF IInv

\* The invariant that the theorems rest on: the types, where the task is, what
\* the records are worth, and what is in order.
THEOREM Invariance == Spec => []IInv
<1>1. Init => IInv
  BY InitInOrder
<1>2. IInv /\ [Next]_vars => IInv'
  <2>1. IInv /\ Next => IInv'
    BY StepTyped, StepInOrder, StepRecorded, StepHonest, StepKeeps, StepCloses DEF IInv
  <2> QED
    BY <2>1, Stutter
<1> QED
  BY <1>1, <1>2, PTL DEF Spec

\* The variables of the workspace and of the task keep their types.
THEOREM DeploymentTyped == Spec => []TypeInv
<1>1. IInv => TypeInv
  BY DEF IInv
<1> QED
  BY <1>1, Invariance, PTL

LEMMA DoneIsDerived ==
  ASSUME TypeInv, CopiesInv, BinariesInv, NEW f \in Configs, Done(f)
  PROVE  ConfigIsDerived(f) /\ (f \in Schemas /\ dest[f].dict => DictIsDerived(f))
<1>1. dest[f] \in CopyType /\ source[f] \in Nat /\ Recorded(dest[f], f)
  BY DEF TypeInv, CopiesInv
<1>2. ConfigIsDerived(f)
  <2>1. ~Redistribute(f)
    BY DEF Done, ConfigDone, NeedUpdate, NeedCopy
  <2>2. f \notin UserOnly => dest[f].version = source[f]
    BY <1>1, <2>1 DEF Redistribute, Recorded, SharedCopy, CopyType
  <2>3. CASE dest[f].customization = custom[f]
    BY <1>1, <2>2, <2>3 DEF ConfigIsDerived, Recorded, Signed, SharedCopy
  <2>4. CASE ~NeedCopy(f) /\ (custom[f] # 0 => ~Applies(custom[f]))
    BY <1>1, <2>2, <2>4 DEF ConfigIsDerived, NeedCopy, IsDirty, Recorded, SharedCopy
  <2> QED
    BY <2>3, <2>4 DEF Done, ConfigDone, NeedUpdate
<1>3. ASSUME f \in Schemas, dest[f].dict, DictOf[f] # NoDict
      PROVE  /\ table[DictOf[f]].of = lexicon[DictOf[f]]
             /\ reverse[DictOf[f]].of = lexicon[DictOf[f]]
             /\ prism[f].of = lexicon[DictOf[f]] /\ prism[f].with = dest[f]
  <2>1. DictOf[f] \in Dicts
    BY <1>3, DictsOfSchemas
  <2>2. lexicon[DictOf[f]] \in Nat
    BY <2>1 DEF TypeInv
  <2>3. TableFresh(DictOf[f]) /\ PrismFresh(f)
    BY <1>3 DEF Done, DictDone
  <2>4. /\ Honest(table[DictOf[f]], DictOf[f]) /\ Honest(reverse[DictOf[f]], DictOf[f])
        /\ Honest(prism[f], DictOf[f])
    BY <1>3, <2>1 DEF BinariesInv
  <2> QED
    BY <2>2, <2>3, <2>4 DEF TableFresh, PrismFresh, Honest
<1> QED
  BY <1>2, <1>3 DEF DictIsDerived

\* Whatever the schemas and their dictionaries are, and however many edits and
\* crashes came before: once a deployment in calm has ended well, the general
\* configs, the listed schemas, those they need and the dictionaries these name
\* are derived from the sources as they are, and so is a config that a crash has
\* cut short, but for its end (deployment_tasks.cc:110, customizer.cc:26 and
\* dict_compiler.cc:32).
THEOREM AllIsDeployed == Spec => []EndsDeployed
<1>1. IInv => EndsDeployed
  <2> SUFFICES ASSUME IInv, settled PROVE EndsDeployed
    BY DEF EndsDeployed
  <2>1. \A f \in General \cup Required : Done(f) /\ f \in Configs
    BY ConfigsApart DEF IInv, JobInv, KeptInv, Due, Deployed, Required, HasSource
  <2>2. \A s \in Required : s \in Schemas
    BY DEF Required, HasSource
  <2> QED
    BY <2>1, <2>2, DoneIsDerived DEF IInv, EndsDeployed
<1> QED
  BY <1>1, Invariance, PTL

-----------------------------------------------------------------------------
(* That the deployments which follow one that ended well write nothing.    *)
(*                                                                         *)
(* Such a deployment may come to schemas that the first did not need, and  *)
(* only the order of the names decides: what a schema depends on is looked *)
(* for in that schema's turn, if it has been dealt with by then.  So each  *)
(* schema is given the turn in which the first deployment has dealt with   *)
(* it, and no later deployment comes to a schema before its turn.          *)

End == Len(Names) + 1
Turns == [Schemas -> Nat \ {0}]

\* The turns as the first deployment in calm gives them.
Follows(turn) ==
  /\ \A s \in Schemas : IF s \in job.schemas THEN turn[s] <= job.next ELSE turn[s] > End
  /\ job.next > 1 =>
       /\ \A s \in Listed : turn[s] = 1
       /\ job.config \in Schemas => turn[job.config] = job.next
       /\ \A k \in 1..Len(Names) :
            k < job.next /\ turn[Names[k]] <= k =>
              \A d \in Needs(Names[k]) :
                turn[d] <= k + 1 \/ (d \in ToSet(job.queue) /\ job.next = k + 1)

\* What a deployment that goes by the turns comes to is in order.
Closed(turn) ==
  /\ \A s \in Listed : turn[s] = 1
  /\ \A k \in 1..Len(Names) : turn[Names[k]] <= k =>
       \A d \in Needs(Names[k]) : turn[d] <= k + 1
  /\ \A s \in Schemas : turn[s] <= End => Done(s)

\* The task has come to no schema before its turn.
Within(turn) ==
  InSchemas => \A s \in Schemas : s \in job.schemas \cup ToSet(job.queue) => turn[s] <= job.next

\* The binaries that LinkPrebuilt would put in place are there.
Linked ==
  /\ \A d \in Prebuilt : table[d] # Missing /\ reverse[d] # Missing
  /\ \A s \in Schemas : DictOf[s] \in Prebuilt => prism[s] # Missing

TurnInv ==
  /\ job.next <= End
  /\ job.at = "list" \/ InSchemas \/ settled => Linked
  /\ calm /\ ~settled /\ InSchemas => \E turn \in Turns : Follows(turn)

AloneInv ==
  settled => /\ job.at \notin {"copy", "table", "reverse", "prism"}
             /\ \E turn \in Turns : Closed(turn) /\ Within(turn)

\* The config at hand is in order, be it a required one or not.
LEMMA InHandIsDone ==
  ASSUME TypeInv, JobInv, KeptInv, TurnInv, AloneInv, settled
  PROVE  Done(job.config)
<1>1. calm
  BY DEF JobInv
<1>2. CASE job.config \in General
  BY <1>1, <1>2 DEF KeptInv, Due, Deployed
<1>3. CASE job.config \in Schemas
  <2>1. PICK turn \in Turns : Closed(turn) /\ Within(turn)
    BY DEF AloneInv
  <2>2. job.config \in job.schemas /\ job.config \in Schemas /\ InSchemas
    BY <1>3, PassedBy DEF JobInv, InSchemas
  <2>3. turn[job.config] <= job.next /\ job.next <= End
    BY <2>1, <2>2 DEF Within, TurnInv
  <2>4. turn[job.config] \in Nat /\ job.next \in Nat
    BY <2>2 DEF Turns, TypeInv, JobType
  <2>5. End \in Nat
    BY NamesAreSchemas DEF End
  <2> QED
    BY <2>1, <2>2, <2>3, <2>4, <2>5 DEF Closed
<1> QED
  BY <1>2, <1>3, ConfigsApart DEF TypeInv, JobType

\* A patch at hand is one that does not apply.
LEMMA NothingToPatch ==
  ASSUME TypeInv, JobInv, KeptInv, TurnInv, AloneInv, settled, job.at = "patch"
  PROVE  ~(custom[job.config] # 0 /\ Applies(custom[job.config]))
BY InHandIsDone DEF JobInv, KeptInv, Done, ConfigDone

\* While the workspace is deployed, no step writes a file.
LEMMA NothingWritten ==
  ASSUME TypeInv, JobInv, KeptInv, TurnInv, AloneInv, settled, Next
  PROVE  UNCHANGED files
<1> USE DEF files
<1>1. ASSUME Edited PROVE UNCHANGED files
  BY <1>1 DEF Edited
<1>2. CASE \/ \E full \in BOOLEAN : StartMaintenance(full)
           \/ BeginWorkspace \/ ReadList \/ NextSchema \/ FindDependencies
           \/ FinishWorkspace \/ Compare \/ Compile
  BY <1>2 DEF StartMaintenance, BeginWorkspace, ReadList, NextSchema, FindDependencies,
              FinishWorkspace, Compare, Compile
<1>3. CASE LinkPrebuilt
  <2>1. Linked
    BY DEF TurnInv
  <2>2. /\ \A d \in Dicts : table'[d] = table[d] /\ reverse'[d] = reverse[d]
        /\ \A s \in Schemas : prism'[s] = prism[s]
    BY <1>3, <2>1 DEF LinkPrebuilt, Linked
  <2>3. /\ table' \in [Dicts -> {table'[d] : d \in Dicts}]
        /\ reverse' \in [Dicts -> {reverse'[d] : d \in Dicts}]
        /\ prism' \in [Schemas -> {prism'[s] : s \in Schemas}]
    BY <1>3 DEF LinkPrebuilt
  <2> QED
    BY <1>3, <2>2, <2>3 DEF LinkPrebuilt, TypeInv
<1>4. CASE Copy \/ BuildTable \/ BuildReverse \/ BuildPrism
  BY <1>4 DEF AloneInv, Copy, BuildTable, BuildReverse, BuildPrism
<1>5. CASE Patch
  BY <1>5, NothingToPatch DEF Patch
<1>6. CASE Crash
  BY <1>6, NothingToPatch DEF AloneInv, Crash
<1> QED
  BY <1>1, <1>2, <1>3, <1>4, <1>5, <1>6
  DEF Next, UpgradeConfig, Customize, RemoveCustom, EditDict

LEMMA ClosedKept ==
  ASSUME UNCHANGED sources, UNCHANGED files, NEW turn, Closed(turn)
  PROVE  Closed(turn)'
<1> USE DEF sources, files
<1>1. Listed' = Listed /\ \A s : Needs(s)' = Needs(s)
  BY NeedsKept
<1>2. \A s : SameFiles(s)
  BY DEF SameFiles
<1>3. \A s \in Schemas : turn[s] <= End => Done(s)'
  BY <1>2, DoneKept DEF Closed
<1> QED
  BY <1>1, <1>3 DEF Closed

\* Where the update of a config leads.
LEMMA AfterFields ==
  ASSUME job \in JobType, NEW u \in BOOLEAN, NEW next, next = After(u)
  PROVE  /\ next.next \in {job.next, 1}
         /\ next.at \in {"compile", "config", "link", "begin", "idle"}
         /\ job.config \in General => next.config \in General /\ next.at # "compile"
         /\ job.config \in Schemas => next.config = job.config
<1>1. CASE next = [job EXCEPT !.at = "compile", !.seen = 0] /\ job.config \in Schemas
  BY <1>1, ConfigsApart DEF JobType
<1>2. CASE next \in {ToSymbols, ToLink} /\ job.config \in General
  BY <1>2, Leads, ConfigsApart
<1>3. CASE next \in {[Idle EXCEPT !.at = "begin"], Idle} /\ job.config \in General
  BY <1>3, IdleInOrder, ConfigsApart
<1> QED
  BY <1>1, <1>2, <1>3, AfterCases, ConfigsApart

\* No turn is beyond that of the last name.
LEMMA StepInTurn ==
  ASSUME TypeInv, JobInv, TurnInv, Next
  PROVE  job'.next <= End
<1>a. job \in JobType /\ End \in Nat /\ 1 <= End
  BY NamesAreSchemas DEF TypeInv, End
<1>b. job.next \in Nat /\ job.next <= End
  BY <1>a DEF TurnInv, JobType
<1>1. CASE job'.next = job.next \/ job'.next = 1
  BY <1>1, <1>a, <1>b
<1>2. CASE FindDependencies
  <2>1. job'.next = job.next + 1 /\ job.next <= Len(Names)
    BY <1>2, <1>a DEF FindDependencies, JobType
  <2> QED
    BY <2>1, <1>b, NamesAreSchemas DEF End
<1>3. CASE \/ \E full \in BOOLEAN : StartMaintenance(full)
           \/ BeginWorkspace \/ LinkPrebuilt \/ ReadList \/ FinishWorkspace \/ Crash
  BY <1>3, <1>1, <1>a, IdleInOrder
  DEF StartMaintenance, BeginWorkspace, LinkPrebuilt, ReadList, FinishWorkspace, Crash, JobType, Idle
<1>4. CASE NextSchema
  BY <1>4, <1>1, <1>a DEF NextSchema, Update, JobType
<1>5. CASE Compare \/ Copy \/ Patch
  <2>1. \/ job' \in {After(TRUE), After(FALSE)}
        \/ \E at, seen : job' = [job EXCEPT !.at = at, !.seen = seen]
        \/ \E at : job' = [job EXCEPT !.at = at]
    BY <1>5 DEF Compare, Copy, Patch
  <2>2. ASSUME NEW u \in BOOLEAN, job' = After(u) PROVE job'.next \in {job.next, 1}
    BY <2>2, <1>a, AfterFields
  <2> QED
    BY <2>1, <2>2, <1>1, <1>a DEF JobType
<1>6. CASE Compile \/ BuildTable \/ BuildReverse \/ BuildPrism
  BY <1>6, <1>1, <1>a DEF Compile, BuildTable, BuildReverse, BuildPrism, NextUp, JobType
<1>7. CASE job' = job
  BY <1>7, <1>1
<1> QED
  BY <1>2, <1>3, <1>4, <1>5, <1>6, <1>7
  DEF Next, UpgradeConfig, Customize, RemoveCustom, EditDict, Edited

\* The binaries are linked before a deployment comes to the schemas, and those
\* that are built afterwards are not missing either.
LEMMA StepLinks ==
  ASSUME TypeInv, JobInv, KeptInv, TurnInv, AloneInv, Next
  PROVE  job'.at = "list" \/ InSchemas' \/ settled' => Linked'
<1>a. job \in JobType
  BY DEF TypeInv
<1>b. ASSUME UNCHANGED files, Linked PROVE Linked'
  BY <1>b DEF Linked, files
<1>c. CASE settled
  BY <1>b, <1>c, NothingWritten DEF TurnInv
<1>d. ASSUME UNCHANGED files, job.at = "list" \/ InSchemas PROVE Linked'
  BY <1>b, <1>d DEF TurnInv
<1>e. ASSUME job'.at \notin {"list", "next"}, job'.config \in General, settled' = settled, ~settled
      PROVE  ~(job'.at = "list" \/ InSchemas' \/ settled')
  BY <1>e, ConfigsApart DEF InSchemas
<1> USE DEF files
<1>1. ASSUME Edited, ~settled PROVE job'.at = "list" \/ InSchemas' \/ settled' => Linked'
  BY <1>1, <1>d DEF Edited, InSchemas
<1>2. CASE LinkPrebuilt
  <2>1. /\ \A of, with : Built(1, of, with) # Missing
        /\ Prebuilt \subseteq Dicts
    BY NamesAssumption DEF Built, Missing
  <2> QED
    BY <1>2, <2>1 DEF LinkPrebuilt, Linked
<1>3. CASE ~settled /\ \E full \in BOOLEAN : StartMaintenance(full)
  BY <1>3, <1>e, ConfigsApart DEF StartMaintenance, Idle
<1>4. CASE ~settled /\ (BeginWorkspace \/ Crash)
  BY <1>4, <1>e, <1>a, IdleInOrder, ConfigsApart DEF BeginWorkspace, Crash, JobInv, JobType
<1>5. CASE ReadList \/ NextSchema \/ FindDependencies \/ FinishWorkspace \/ Compile
  BY <1>5, <1>d DEF ReadList, NextSchema, FindDependencies, FinishWorkspace, Compile, InSchemas,
                    JobInv
<1>6. CASE ~settled /\ (Compare \/ Copy \/ Patch)
  <2>1. UNCHANGED <<table, reverse, prism, settled>> /\ job.at \in {"config", "copy", "patch"}
    BY <1>6 DEF Compare, Copy, Patch
  <2>2. CASE job.config \in Schemas
    BY <2>1, <2>2 DEF TurnInv, InSchemas, Linked
  <2>3. CASE job.config \in General
    <3>1. \/ \E u \in BOOLEAN : job' = After(u)
          \/ \E at \in {"copy", "patch"} : \E seen : job' = [job EXCEPT !.at = at, !.seen = seen]
          \/ job' = [job EXCEPT !.at = "patch"]
      BY <1>6 DEF Compare, Copy, Patch
    <3>2. job'.at \notin {"list", "next"} /\ job'.config \in General
      BY <3>1, <2>3, <1>a, AfterFields DEF JobType
    <3> QED
      BY <2>1, <3>2, <1>6, <1>e
  <2> QED
    BY <1>a, <2>2, <2>3, ConfigsApart DEF JobType
<1>7. CASE BuildTable \/ BuildReverse \/ BuildPrism
  <2>1. InSchemas /\ Linked /\ job.sum # 0
    BY <1>7 DEF BuildTable, BuildReverse, BuildPrism, JobInv, Compiling, InSchemas, TurnInv
  <2>2. \A of, with : Built(job.sum, of, with) # Missing
    BY <2>1 DEF Built, Missing
  <2>3. Prebuilt \subseteq Dicts
    BY NamesAssumption
  <2> QED
    BY <1>7, <2>1, <2>2, <2>3 DEF BuildTable, BuildReverse, BuildPrism, Linked, TypeInv
<1> QED
  BY <1>c, <1>1, <1>2, <1>3, <1>4, <1>5, <1>6, <1>7
  DEF Next, UpgradeConfig, Customize, RemoveCustom, EditDict

\* A step that leaves the walk over the schemas where it is.
LEMMA FollowsKept ==
  ASSUME TypeInv, JobInv, job.config \in Schemas,
         job'.queue = job.queue, job'.schemas = job.schemas, job'.next = job.next,
         job'.config \in {job.config, "default"},
         \A f \in {"default"} \cup Schemas : f # job.config => dest'[f] = dest[f],
         NEW turn \in Turns, Follows(turn)
  PROVE  Follows(turn)'
<1>1. Listed' = Listed
  BY SelectionKept, ConfigsApart
<1>2. job.next \in Nat /\ \A k \in 1..Len(Names) : Names[k] \in Schemas
  BY NamesAreSchemas DEF TypeInv, JobType
<1>3. ASSUME job.next > 1, NEW k \in 1..Len(Names), k < job.next, turn[Names[k]] <= k
      PROVE  \A d \in Needs(Names[k])' :
               turn[d] <= k + 1 \/ (d \in ToSet(job.queue) /\ job.next = k + 1)
  <2>1. turn[job.config] = job.next
    BY <1>3 DEF Follows
  <2>2. turn[Names[k]] \in Nat /\ Names[k] \in Schemas
    BY <1>2 DEF Turns
  <2>3. Names[k] # job.config
    BY <1>2, <1>3, <2>1, <2>2
  <2>4. Needs(Names[k])' = Needs(Names[k])
    BY <2>2, <2>3 DEF Needs, HasSource
  <2> QED
    BY <1>3, <2>4 DEF Follows
<1>4. job'.config \in Schemas => job'.config = job.config
  BY ConfigsApart
<1> QED
  BY <1>1, <1>3, <1>4 DEF Follows

\* The turn of a schema is that in which the first deployment deals with it.
LEMMA NextFollows ==
  ASSUME TypeInv, JobInv, TurnInv, NextSchema, NEW turn \in Turns, Follows(turn)
  PROVE  \E given \in Turns : Follows(given)'
<1> PICK s : s = Head(job.queue)
  OBVIOUS
<1>1. /\ dest' = dest /\ job.config = "default" /\ job \in JobType
      /\ ToSet(job.queue) = {s} \cup ToSet(Tail(job.queue))
  <2>1. job.queue \in Seq(STRING) /\ job.queue # << >>
    BY DEF NextSchema, TypeInv, JobType
  <2> QED
    BY <2>1, HeadAndTail DEF NextSchema, files, JobInv, TypeInv
<1>2. Listed' = Listed /\ \A t : Needs(t)' = Needs(t)
  BY <1>1, NeedsKept
<1>3. /\ job.next \in Nat \ {0} /\ End \in Nat /\ job.next <= End
      /\ \A t \in Schemas : turn[t] \in Nat \ {0}
      /\ \A k \in 1..Len(Names) : Names[k] \in Schemas
      /\ Listed \subseteq Schemas /\ \A t : Needs(t) \subseteq Schemas
  BY <1>1, NamesAreSchemas DEF JobType, End, Turns, TurnInv, Listed, Needs, HasSource
<1>4. CASE job' = [job EXCEPT !.queue = Tail(@)] /\ (~HasSource(s) \/ (job.next > 1 /\ s \in job.schemas))
  <2>1. /\ job'.queue = Tail(job.queue) /\ job'.schemas = job.schemas /\ job'.next = job.next
        /\ job'.config = "default"
    BY <1>1, <1>4 DEF JobType
  <2>2. ASSUME job.next > 1, NEW k \in 1..Len(Names), k < job.next, turn[Names[k]] <= k,
               NEW d \in Needs(Names[k])
        PROVE  turn[d] <= k + 1 \/ (d \in ToSet(Tail(job.queue)) /\ job.next = k + 1)
    <3>1. turn[d] <= k + 1 \/ (d \in ToSet(job.queue) /\ job.next = k + 1)
      BY <2>2 DEF Follows
    <3>2. CASE d = s /\ job.next = k + 1
      BY <1>3, <1>4, <3>2 DEF Follows, HasSource
    <3>3. CASE d # s \/ job.next # k + 1
      BY <1>1, <3>1, <3>3
    <3> QED
      BY <3>2, <3>3
  <2>3. Follows(turn)'
    BY <1>1, <1>2, <2>1, <2>2 DEF Follows
  <2> QED
    BY <2>3
<1>5. CASE s \in Schemas /\ job' = Update(s) /\ (job.next = 1 \/ s \notin job.schemas)
  <2>1. /\ job'.queue = Tail(job.queue) /\ job'.schemas = job.schemas \cup {s}
        /\ job'.next = job.next /\ job'.config \in {"default", s}
    BY <1>1, <1>5 DEF Update, JobType
  <2>2. PICK given \in Turns :
          /\ given[s] <= job.next
          /\ \A t \in Schemas : t # s => given[t] = turn[t]
          /\ s \notin job.schemas => given[s] = job.next
    <3>1. CASE s \in job.schemas
      BY <1>5, <3>1 DEF Follows
    <3>2. CASE s \notin job.schemas
      <4> DEFINE given == [turn EXCEPT ![s] = job.next]
      <4>1. given \in Turns
        BY <1>3 DEF Turns
      <4>2. given[s] = job.next /\ \A t \in Schemas : t # s => given[t] = turn[t]
        BY <1>5 DEF Turns
      <4>3. given[s] <= job.next
        BY <1>3, <4>2
      <4> QED
        BY <4>1, <4>2, <4>3
    <3> QED
      BY <3>1, <3>2
  <2>3. s \notin job.schemas => given[s] = job.next /\ turn[s] > End
    BY <1>5, <2>2 DEF Follows
  <2>4. \A t \in Schemas : IF t \in job.schemas \cup {s} THEN given[t] <= job.next ELSE given[t] > End
    BY <2>2 DEF Follows
  <2>5. ASSUME job.next > 1, NEW t \in Listed PROVE given[t] = 1
    <3>1. turn[t] = 1
      BY <2>5 DEF Follows
    <3>2. t # s
      BY <1>3, <1>5, <2>3, <2>5, <3>1
    <3> QED
      BY <1>3, <2>2, <3>1, <3>2
  <2>6. ASSUME job.next > 1, NEW k \in 1..Len(Names), k < job.next, given[Names[k]] <= k,
               NEW d \in Needs(Names[k])
        PROVE  given[d] <= k + 1 \/ (d \in ToSet(Tail(job.queue)) /\ job.next = k + 1)
    <3>1. given[s] = job.next /\ turn[s] > End
      BY <1>5, <2>3, <2>6
    <3>2. Names[k] # s /\ Names[k] \in Schemas
      BY <1>3, <2>6, <3>1
    <3>3. turn[d] <= k + 1 \/ (d \in ToSet(job.queue) /\ job.next = k + 1)
      BY <2>2, <2>6, <3>2 DEF Follows
    <3>4. CASE d = s
      <4>1. ~(turn[s] <= k + 1)
        BY <1>3, <1>5, <2>6, <3>1
      <4> QED
        BY <1>3, <3>1, <3>3, <3>4, <4>1
    <3>5. CASE d # s
      BY <1>1, <1>3, <2>2, <3>3, <3>5
    <3> QED
      BY <3>4, <3>5
  <2>7. job.next > 1 /\ job'.config \in Schemas => given[job'.config] = job.next
    BY <1>5, <2>1, <2>3, ConfigsApart
  <2>8. Follows(given)'
    BY <1>1, <1>2, <2>1, <2>4, <2>5, <2>6, <2>7 DEF Follows
  <2> QED
    BY <2>2, <2>8
<1> QED
  BY <1>3, <1>4, <1>5 DEF NextSchema, HasSource

\* Each schema of the list has the first turn, and what a schema depends on the
\* next turn after its name's.
LEMMA FindFollows ==
  ASSUME TypeInv, JobInv, ClosureInv, TurnInv, calm, FindDependencies,
         NEW turn \in Turns, Follows(turn)
  PROVE  Follows(turn)'
<1> PICK n : n = job.next
  OBVIOUS
<1>1. /\ dest' = dest /\ job.config = "default" /\ job \in JobType /\ job.queue = << >>
      /\ InSchemas /\ ToSet(<< >>) = {}
  BY DEF FindDependencies, files, JobInv, TypeInv, ToSet, InSchemas
<1>2. Listed' = Listed /\ \A t : Needs(t)' = Needs(t)
  BY <1>1, NeedsKept
<1>3. /\ n \in Nat \ {0} /\ n \in 1..Len(Names) /\ End \in Nat /\ n < End
      /\ \A t \in Schemas : turn[t] \in Nat \ {0}
      /\ \A k \in 1..Len(Names) : Names[k] \in Schemas
      /\ Listed \subseteq Schemas
  BY <1>1, NamesAreSchemas DEF FindDependencies, JobType, End, Turns, Listed, HasSource
<1>4. /\ job'.schemas = job.schemas /\ job'.next = n + 1 /\ job'.config = "default"
      /\ Names[n] \in job.schemas => job'.queue = dest[Names[n]].names
  BY <1>1 DEF FindDependencies, JobType
<1>5. \A t \in Schemas : IF t \in job.schemas THEN turn[t] <= n + 1 ELSE turn[t] > End
  BY <1>3 DEF Follows
<1>6. ASSUME NEW t \in Listed PROVE turn[t] = 1
  <2>1. CASE n = 1
    <3>1. t \in job.schemas
      BY <1>1, <1>6, <2>1 DEF ClosureInv
    <3> QED
      BY <1>3, <2>1, <3>1 DEF Follows
  <2>2. CASE n > 1
    BY <2>2 DEF Follows
  <2> QED
    BY <1>3, <2>1, <2>2
<1>7. ASSUME NEW k \in 1..Len(Names), k < n + 1, turn[Names[k]] <= k,
             NEW d \in Needs(Names[k])
      PROVE  turn[d] <= k + 1 \/ (d \in ToSet(job'.queue) /\ n + 1 = k + 1)
  <2>1. CASE k = n
    <3>1. Names[n] \in job.schemas
      BY <1>3, <1>7, <2>1 DEF Follows
    <3> QED
      BY <1>4, <1>7, <2>1, <3>1 DEF Needs
  <2>2. CASE k < n
    <3>1. n > 1
      BY <1>3, <2>2
    <3> QED
      BY <1>1, <1>7, <2>2, <3>1 DEF Follows
  <2> QED
    BY <1>3, <1>7, <2>1, <2>2
<1> QED
  BY <1>1, <1>2, <1>4, <1>5, <1>6, <1>7, ConfigsApart DEF Follows

\* The turns are given while the first deployment goes over the schemas.
LEMMA StepFollows ==
  ASSUME TypeInv, JobInv, ClosureInv, TurnInv, Next, calm', ~settled', InSchemas'
  PROVE  \E turn \in Turns : Follows(turn)'
<1> USE DEF sources, files
<1>a. job \in JobType
  BY DEF TypeInv
<1>b. ASSUME calm, ~settled, job.config \in Schemas,
             job'.queue = job.queue, job'.schemas = job.schemas, job'.next = job.next,
             job'.config \in {job.config, "default"},
             \A f \in {"default"} \cup Schemas : f # job.config => dest'[f] = dest[f]
      PROVE  \E turn \in Turns : Follows(turn)'
  <2>1. PICK turn \in Turns : Follows(turn)
    BY <1>b DEF TurnInv, InSchemas
  <2> QED
    BY <1>b, <2>1, FollowsKept
<1>1. ASSUME Edited PROVE FALSE
  BY <1>1 DEF Edited
<1>2. CASE \/ \E full \in BOOLEAN : StartMaintenance(full)
           \/ BeginWorkspace \/ LinkPrebuilt \/ FinishWorkspace \/ Crash
  BY ZenonT(60), <1>2, <1>a, IdleInOrder, ConfigsApart
  DEF StartMaintenance, BeginWorkspace, LinkPrebuilt, FinishWorkspace, Crash, InSchemas, Idle,
      JobInv, JobType
<1>3. CASE ReadList
  <2>1. job' = [job EXCEPT !.at = "next", !.queue = Selection]
    BY <1>3, IdleInOrder, ConfigsApart DEF ReadList, InSchemas
  <2>2. job'.next = 1 /\ job'.schemas = {}
    BY <1>3, <2>1, <1>a, ConfigsApart DEF ReadList, JobInv, InSchemas, JobType
  <2>3. PICK turn : turn = [s \in Schemas |-> End + 1]
    OBVIOUS
  <2>4. End \in Nat
    BY NamesAreSchemas DEF End
  <2>5. turn \in Turns /\ \A s \in Schemas : turn[s] > End
    BY <2>3, <2>4 DEF Turns
  <2> QED
    BY <2>2, <2>5 DEF Follows
<1>4. CASE NextSchema \/ FindDependencies
  <2>1. calm /\ ~settled /\ InSchemas
    BY <1>4 DEF NextSchema, FindDependencies, InSchemas, TypeInv
  <2>2. PICK turn \in Turns : Follows(turn)
    BY <2>1 DEF TurnInv
  <2> QED
    BY <1>4, <2>1, <2>2, NextFollows, FindFollows
<1>5. CASE Compare \/ Copy \/ Patch
  <2>1. /\ calm /\ ~settled
        /\ \A f \in {"default"} \cup Schemas : f # job.config => dest'[f] = dest[f]
    BY <1>5, ConfigsApart DEF Compare, Copy, Patch, files, TypeInv
  <2>2. \/ \E u \in BOOLEAN : job' = After(u)
        \/ \E at \in {"copy", "patch"} : \E seen : job' = [job EXCEPT !.at = at, !.seen = seen]
        \/ job' = [job EXCEPT !.at = "patch"]
    BY <1>5 DEF Compare, Copy, Patch
  <2>3. job.config \in Schemas
    <3>1. CASE \E u \in BOOLEAN : job' = After(u)
      BY <3>1, <1>a, AfterFields, ConfigsApart DEF InSchemas, JobType
    <3>2. CASE ~\E u \in BOOLEAN : job' = After(u)
      BY <2>2, <3>2, <1>a DEF InSchemas, JobType
    <3> QED
      BY <3>1, <3>2
  <2>4. /\ job'.queue = job.queue /\ job'.schemas = job.schemas /\ job'.next = job.next
        /\ job'.config = job.config
    <3>1. CASE \E u \in BOOLEAN : job' = After(u)
      <4>1. job' = [job EXCEPT !.at = "compile", !.seen = 0]
        BY <2>3, <3>1 DEF After
      <4> QED
        BY <4>1, <1>a DEF JobType
    <3>2. CASE ~\E u \in BOOLEAN : job' = After(u)
      BY <2>2, <3>2, <1>a DEF JobType
    <3> QED
      BY <3>1, <3>2
  <2> QED
    BY <2>1, <2>3, <2>4, <1>b
<1>6. CASE Compile \/ BuildTable \/ BuildReverse \/ BuildPrism
  <2>1. calm /\ ~settled /\ dest' = dest /\ job.config \in Schemas
    BY <1>6 DEF Compile, BuildTable, BuildReverse, BuildPrism, JobInv, Compiling, TypeInv
  <2>2. /\ job'.queue = job.queue /\ job'.schemas = job.schemas /\ job'.next = job.next
        /\ job'.config \in {job.config, "default"}
    BY ZenonT(60), <1>6, <1>a DEF Compile, BuildTable, BuildReverse, BuildPrism, NextUp, JobType
  <2> QED
    BY <2>1, <2>2, <1>b
<1> QED
  BY <1>1, <1>2, <1>3, <1>4, <1>5, <1>6
  DEF Next, UpgradeConfig, Customize, RemoveCustom, EditDict

\* Once the first deployment has ended well, the turns hold whatever comes next.
LEMMA FinishCloses ==
  ASSUME TypeInv, JobInv, KeptInv, ClosureInv, TurnInv, FinishWorkspace, ~settled, settled'
  PROVE  AloneInv'
<1>1. /\ calm /\ job.ok /\ job.config = "default" /\ InSchemas /\ job \in JobType
      /\ job.queue = << >> /\ ToSet(<< >>) = {}
  BY DEF FinishWorkspace, JobInv, InSchemas, TypeInv, ToSet
<1>2. PICK turn \in Turns : Follows(turn)
  BY <1>1 DEF TurnInv
<1>3. /\ job.next \in Nat /\ End \in Nat /\ job.next = End /\ End = Len(Names) + 1
      /\ Len(Names) \in Nat
      /\ \A s \in Schemas : turn[s] \in Nat \ {0}
      /\ Listed \subseteq Schemas
  BY <1>1, <1>2, NamesAreSchemas DEF FinishWorkspace, JobType, End, Turns, TurnInv, Listed, HasSource
<1>4. ASSUME NEW s \in Listed PROVE turn[s] = 1
  <2>1. CASE job.next = 1
    <3>1. s \in job.schemas
      BY <1>1, <1>4, <2>1 DEF ClosureInv
    <3> QED
      BY <1>2, <1>3, <1>4, <2>1, <3>1 DEF Follows
  <2>2. CASE job.next > 1
    BY <1>2, <1>4, <2>2 DEF Follows
  <2> QED
    BY <1>3, <2>1, <2>2
<1>5. ASSUME NEW k \in 1..Len(Names), turn[Names[k]] <= k,
             NEW d \in Needs(Names[k])
      PROVE  turn[d] <= k + 1
  <2>1. k < job.next /\ job.next > 1
    BY <1>3
  <2> QED
    BY <1>1, <1>2, <1>5, <2>1 DEF Follows
<1>6. ASSUME NEW s \in Schemas, turn[s] <= End PROVE Done(s)
  <2>1. s \in job.schemas
    BY <1>2, <1>3, <1>6 DEF Follows
  <2>2. Passed = General \cup job.schemas
    BY <1>1, PassedBy, ConfigsApart DEF Passed, PastGeneral
  <2> QED
    BY <1>1, <2>1, <2>2 DEF KeptInv, Due
<1>7. Closed(turn)
  BY <1>4, <1>5, <1>6 DEF Closed
<1>8. Closed(turn)'
  BY <1>7, ClosedKept DEF FinishWorkspace
<1>9. job'.at = "idle" /\ ~InSchemas'
  BY IdleInOrder, ConfigsApart DEF FinishWorkspace, InSchemas
<1> QED
  BY <1>2, <1>8, <1>9 DEF AloneInv, Within

\* The deployments that follow go by the same turns.
LEMMA StepWithin ==
  ASSUME TypeInv, JobInv, TurnInv, Next, settled', NEW turn \in Turns, Closed(turn), Within(turn)
  PROVE  Within(turn)'
<1>a. job \in JobType /\ job.next \in Nat \ {0} /\ \A s \in Schemas : turn[s] \in Nat \ {0}
  BY DEF TypeInv, JobType, Turns
<1>b. ASSUME job'.queue = job.queue, job'.schemas = job.schemas, job'.next = job.next, InSchemas
      PROVE  Within(turn)'
  BY <1>b DEF Within
<1>c. ASSUME ~InSchemas' PROVE Within(turn)'
  BY <1>c DEF Within
<1> USE DEF sources, files
<1>1. ASSUME Edited PROVE FALSE
  BY <1>1 DEF Edited
<1>2. CASE \/ \E full \in BOOLEAN : StartMaintenance(full)
           \/ BeginWorkspace \/ LinkPrebuilt \/ FinishWorkspace \/ Crash
  BY ZenonT(60), <1>2, <1>a, <1>c, IdleInOrder, ConfigsApart
  DEF StartMaintenance, BeginWorkspace, LinkPrebuilt, FinishWorkspace, Crash, InSchemas, Idle,
      JobInv, JobType
<1>3. CASE ReadList
  <2>1. CASE job' = Idle
    BY <2>1, <1>c, IdleInOrder, ConfigsApart DEF InSchemas
  <2>2. CASE job' = [job EXCEPT !.at = "next", !.queue = Selection]
    <3>1. job'.next = 1 /\ job'.schemas = {} /\ job'.queue = Selection
      BY <1>3, <2>2, <1>a, ConfigsApart DEF ReadList, JobInv, InSchemas, JobType
    <3>2. \A s \in Schemas : s \in ToSet(Selection) => turn[s] = 1
      BY DEF Closed, Listed, HasSource
    <3> QED
      BY <3>1, <3>2 DEF Within
  <2> QED
    BY <1>3, <2>1, <2>2 DEF ReadList
<1>4. CASE NextSchema
  <2> PICK s : s = Head(job.queue)
    OBVIOUS
  <2>1. job.queue \in Seq(STRING) /\ job.queue # << >> /\ InSchemas
    BY <1>4, <1>a DEF NextSchema, JobType, InSchemas
  <2>2. ToSet(job.queue) = {s} \cup ToSet(Tail(job.queue))
    BY <2>1, HeadAndTail
  <2>3. job'.queue = Tail(job.queue) /\ job'.next = job.next
        /\ job'.schemas \subseteq job.schemas \cup {s}
    BY <1>4, <1>a DEF NextSchema, Update, JobType
  <2> QED
    BY <2>1, <2>2, <2>3 DEF Within
<1>5. CASE FindDependencies
  <2> PICK n : n = job.next
    OBVIOUS
  <2>1. n \in 1..Len(Names) /\ job.queue = << >> /\ InSchemas /\ ToSet(<< >>) = {}
    BY <1>5, <1>a, NamesAreSchemas DEF FindDependencies, InSchemas, ToSet
  <2>2. job'.next = n + 1 /\ job'.schemas = job.schemas
        /\ \/ job'.queue = << >>
           \/ Names[n] \in job.schemas /\ job'.queue = dest[Names[n]].names
    BY <1>5, <1>a DEF FindDependencies, JobType
  <2>3. ASSUME NEW s \in Schemas, s \in job.schemas PROVE turn[s] <= n + 1
    BY <1>a, <2>1, <2>3 DEF Within
  <2>4. ASSUME NEW s \in Schemas, s \in ToSet(job'.queue) PROVE turn[s] <= n + 1
    <3>1. Names[n] \in job.schemas /\ job'.queue = dest[Names[n]].names
      BY <2>1, <2>2, <2>4
    <3>2. s \in Needs(Names[n]) /\ turn[Names[n]] <= n
      BY <2>1, <2>4, <3>1, NamesAreSchemas DEF Needs, HasSource, Within
    <3> QED
      BY <2>1, <3>1, <3>2 DEF Closed
  <2> QED
    BY <2>2, <2>3, <2>4 DEF Within
<1>6. CASE Compare \/ Copy \/ Patch
  <2>1. \/ \E u \in BOOLEAN : job' = After(u)
        \/ \E at \in {"copy", "patch"} : \E seen : job' = [job EXCEPT !.at = at, !.seen = seen]
        \/ job' = [job EXCEPT !.at = "patch"]
    BY <1>6 DEF Compare, Copy, Patch
  <2>2. CASE job.config \in General
    <3>1. ~InSchemas'
      <4>1. CASE \E u \in BOOLEAN : job' = After(u)
        BY <2>2, <4>1, <1>a, AfterFields, ConfigsApart DEF InSchemas
      <4>2. CASE ~\E u \in BOOLEAN : job' = After(u)
        BY <2>1, <2>2, <4>2, <1>a, ConfigsApart DEF InSchemas, JobType
      <4> QED
        BY <4>1, <4>2
    <3> QED
      BY <3>1, <1>c
  <2>3. CASE job.config \in Schemas
    <3>1. job'.queue = job.queue /\ job'.schemas = job.schemas /\ job'.next = job.next
      <4>1. CASE \E u \in BOOLEAN : job' = After(u)
        <5>1. job' = [job EXCEPT !.at = "compile", !.seen = 0]
          BY <2>3, <4>1 DEF After
        <5> QED
          BY <5>1, <1>a DEF JobType
      <4>2. CASE ~\E u \in BOOLEAN : job' = After(u)
        BY <2>1, <4>2, <1>a DEF JobType
      <4> QED
        BY <4>1, <4>2
    <3> QED
      BY <2>3, <3>1, <1>b DEF InSchemas
  <2> QED
    BY <1>a, <2>2, <2>3, ConfigsApart DEF JobType
<1>7. CASE Compile \/ BuildTable \/ BuildReverse \/ BuildPrism
  <2>1. InSchemas
    BY <1>7 DEF Compile, BuildTable, BuildReverse, BuildPrism, JobInv, Compiling, InSchemas
  <2>2. job'.queue = job.queue /\ job'.schemas = job.schemas /\ job'.next = job.next
    BY ZenonT(60), <1>7, <1>a DEF Compile, BuildTable, BuildReverse, BuildPrism, NextUp, JobType
  <2> QED
    BY <2>1, <2>2, <1>b
<1> QED
  BY <1>1, <1>2, <1>3, <1>4, <1>5, <1>6, <1>7
  DEF Next, UpgradeConfig, Customize, RemoveCustom, EditDict

\* What is in order is neither compared nor compiled for long.
LEMMA StepLeaves ==
  ASSUME TypeInv, JobInv, KeptInv, TurnInv, AloneInv, Next, settled, settled'
  PROVE  job'.at \notin {"copy", "table", "reverse", "prism"}
<1>a. job \in JobType /\ calm /\ job.at \notin {"copy", "table", "reverse", "prism"}
  BY DEF TypeInv, JobInv, AloneInv
<1>b. Done(job.config)
  BY InHandIsDone
<1>1. ASSUME Edited PROVE FALSE
  BY <1>1 DEF Edited
<1>2. CASE \/ \E full \in BOOLEAN : StartMaintenance(full)
           \/ BeginWorkspace \/ LinkPrebuilt \/ ReadList \/ NextSchema \/ FindDependencies
           \/ FinishWorkspace \/ Crash
  BY ZenonT(60), <1>2, <1>a, IdleInOrder
  DEF StartMaintenance, BeginWorkspace, LinkPrebuilt, ReadList, NextSchema, FindDependencies,
      FinishWorkspace, Crash, Update, Idle, JobType
<1>3. CASE Compare
  <2>1. CASE \E u \in BOOLEAN : job' = After(u)
    BY <2>1, <1>a, AfterFields
  <2>2. CASE ~\E u \in BOOLEAN : job' = After(u)
    <3>1. job' = [job EXCEPT !.at = "patch", !.seen = custom[job.config]]
      BY <1>3, <1>b, <2>2 DEF Compare, Done, ConfigDone
    <3> QED
      BY <3>1, <1>a DEF JobType
  <2> QED
    BY <2>1, <2>2
<1>4. CASE Patch
  <2>1. \E u \in BOOLEAN : job' = After(u)
    BY <1>4 DEF Patch
  <2> QED
    BY <2>1, <1>a, AfterFields
<1>5. CASE Compile
  <2>1. job.config \in Schemas
    BY <1>5, <1>a, DictConfig
  <2>2. dest[job.config].dict /\ ThisDict # NoDict =>
          ~TableIsStale(lexicon[ThisDict]) /\ ~PrismIsStale(lexicon[ThisDict])
    BY <1>b, <2>1
    DEF Done, DictDone, TableFresh, PrismFresh, ThisDict, TableIsStale, PrismIsStale
  <2>3. job' \in {NextUp, [NextUp EXCEPT !.ok = FALSE]}
    BY <1>5, <2>2 DEF Compile
  <2> QED
    BY <2>3, <1>a DEF NextUp, JobType
<1>6. CASE Copy \/ BuildTable \/ BuildReverse \/ BuildPrism
  BY <1>6, <1>a DEF Copy, BuildTable, BuildReverse, BuildPrism
<1> QED
  BY <1>1, <1>2, <1>3, <1>4, <1>5, <1>6
  DEF Next, UpgradeConfig, Customize, RemoveCustom, EditDict

LEMMA StepAlone ==
  ASSUME IInv, TurnInv, AloneInv, Next
  PROVE  TurnInv' /\ AloneInv'
<1>1. TurnInv'
  <2>1. job'.next <= End
    BY StepInTurn DEF IInv
  <2>2. job'.at = "list" \/ InSchemas' \/ settled' => Linked'
    BY StepLinks DEF IInv
  <2>3. calm' /\ ~settled' /\ InSchemas' => \E turn \in Turns : Follows(turn)'
    BY StepFollows DEF IInv
  <2> QED
    BY <2>1, <2>2, <2>3 DEF TurnInv, End, Turns
<1>2. AloneInv'
  <2>1. CASE ~settled'
    BY <2>1 DEF AloneInv
  <2>2. CASE settled' /\ ~settled
    <3>1. FinishWorkspace
      BY <2>2
      DEF Next, UpgradeConfig, Customize, RemoveCustom, EditDict, Edited, StartMaintenance,
          BeginWorkspace, LinkPrebuilt, ReadList, NextSchema, FindDependencies, Compare, Copy,
          Patch, Compile, BuildTable, BuildReverse, BuildPrism, Crash, IInv, TypeInv
    <3> QED
      BY <2>2, <3>1, FinishCloses DEF IInv
  <2>3. CASE settled' /\ settled
    <3>1. PICK turn \in Turns : Closed(turn) /\ Within(turn)
      BY <2>3 DEF AloneInv
    <3>2. UNCHANGED files
      BY <2>3, NothingWritten DEF IInv
    <3>3. UNCHANGED sources
      BY <2>3
      DEF Next, UpgradeConfig, Customize, RemoveCustom, EditDict, Edited, StartMaintenance,
          BeginWorkspace, LinkPrebuilt, ReadList, NextSchema, FindDependencies, FinishWorkspace,
          Compare, Copy, Patch, Compile, BuildTable, BuildReverse, BuildPrism, Crash, sources
    <3>4. Closed(turn)'
      BY <3>1, <3>2, <3>3, ClosedKept
    <3>5. Within(turn)'
      BY <2>3, <3>1, StepWithin DEF IInv
    <3>6. job'.at \notin {"copy", "table", "reverse", "prism"}
      BY <2>3, StepLeaves DEF IInv
    <3> QED
      BY <3>1, <3>4, <3>5, <3>6 DEF AloneInv, Turns
  <2> QED
    BY <2>1, <2>2, <2>3
<1> QED
  BY <1>1, <1>2

LEMMA StutterAlone ==
  ASSUME TurnInv, AloneInv, UNCHANGED vars
  PROVE  TurnInv' /\ AloneInv'
<1> USE DEF vars
<1>1. Listed' = Listed /\ \A s : Needs(s)' = Needs(s)
  BY NeedsKept
<1>2. \A turn : Follows(turn) => Follows(turn)'
  BY <1>1 DEF Follows
<1>3. \A turn : Within(turn) => Within(turn)'
  BY DEF Within, InSchemas
<1>4. \A turn : Closed(turn) => Closed(turn)'
  BY ClosedKept DEF sources, files
<1>5. (InSchemas' <=> InSchemas) /\ (Linked' <=> Linked)
  BY DEF InSchemas, Linked
<1>6. TurnInv'
  BY <1>2, <1>5 DEF TurnInv, End, Turns
<1>7. AloneInv'
  BY <1>3, <1>4 DEF AloneInv, Turns
<1> QED
  BY <1>6, <1>7

\* Once a deployment in calm has ended well, none of the deployments that follow
\* writes a file while no source is edited, in whatever order the schemas are
\* named and depend on each other, and nor does a crash in one of them break any:
\* their records agree with what they are compared to (customizer.cc:26,
\* dict_compiler.cc:32 and deployment_tasks.cc:110).
THEOREM DeployedIsLeftAlone == Spec => LeavesDeployedAlone
<1>1. Init => TurnInv /\ AloneInv
  <2>1. Init => job.next = 1 /\ job.at = "idle" /\ ~InSchemas /\ ~settled
    BY IdleInOrder, ConfigsApart DEF Init, InSchemas
  <2>2. 1 <= End
    BY NamesAreSchemas DEF End
  <2> QED
    BY <2>1, <2>2 DEF TurnInv, AloneInv
<1>2. IInv /\ (TurnInv /\ AloneInv) /\ [Next]_vars => (TurnInv /\ AloneInv)'
  BY StepAlone, StutterAlone
<1>3. IInv /\ (TurnInv /\ AloneInv) /\ [Next]_vars => [settled => UNCHANGED files]_vars
  BY NothingWritten DEF IInv
<1> QED
  BY <1>1, <1>2, <1>3, Invariance, PTL DEF Spec, LeavesDeployedAlone
=============================================================================
