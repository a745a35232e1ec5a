----------------------------- MODULE UserDbSync -----------------------------
(***************************************************************************)
(* One user dictionary on several machines (librime/src/lever/             *)
(* user_dict_manager.cc, librime/src/lever/userdb_recovery_task.cc,        *)
(* librime/src/dict/user_db.cc).  Each machine has a db file and writes a  *)
(* snapshot of it into a directory they all read: synchronizing merges     *)
(* every snapshot into the db and then backs the db up.  A db of an older  *)
(* version is upgraded by removing it and restoring it from a snapshot in  *)
(* the trash; a db found damaged is repaired, or recreated and restored    *)
(* from the machine's own snapshot.                                        *)
(*                                                                         *)
(* These tasks run one at a time and without sessions (Service.tla).  A    *)
(* record's commits are its number of uses, negative once it is deleted; 0 *)
(* stands for no record.  Weights and ticks only order candidates and are   *)
(* left out.  Repair is the db library's: it brings everything back, or    *)
(* fails.                                                                  *)
(***************************************************************************)
EXTENDS Integers, FiniteSets

CONSTANTS
  Machines, Words,
  MaxEdits,      \* bound on the uses and deletions of a behaviour
  MaxFaults      \* bound on its crashes and failures

ASSUME SyncAssumption == MaxEdits \in Nat /\ MaxFaults \in Nat

VARIABLES
  db,        \* the db file of each machine
  snap,      \* its snapshot in the sync directory
  trash,     \* its snapshot in the trash
  op,        \* the task it is running
  edits,     \* how often words have been used or deleted, anywhere
  faults,    \* how many crashes and failures there have been
  best,      \* the most uses of a word its complete snapshots have held, but for
             \* those the user has thrown away by deleting it
  gutted,    \* the machines whose db was damaged while it was filled again
  round      \* how often it has synchronized since anything else was done:
             \* 0, 1, or 2 for once more after all the others had

vars == << db, snap, trash, op, edits, faults, best, gutted, round >>

NoUse  == [w \in Words |-> 0]
Abs(n) == IF n < 0 THEN -n ELSE n
Larger(m, n) == IF m < n THEN n ELSE m
Smaller(m, n) == IF m < n THEN m ELSE n

Absent     == [state |-> "absent", old |-> FALSE, commits |-> NoUse]
EmptyDb    == [Absent EXCEPT !.state = "sound"]
NoSnapshot == [readable |-> FALSE, old |-> FALSE, commits |-> NoUse]
Snapshot(d) == [readable |-> TRUE, old |-> d.old, commits |-> d.commits]

\* What can be left of it when not everything is written.
CutShort(d) ==
  {NoSnapshot} \cup
  {[Snapshot(d) EXCEPT !.commits = [w \in Words |-> IF w \in part THEN @[w] ELSE 0]] :
     part \in SUBSET Words}

Idle     == [task |-> "none", left |-> {}, counts |-> FALSE, late |-> FALSE]
Task(task) == [Idle EXCEPT !.task = task]

\* Whatever is done besides synchronizing, the rounds start anew.
StartAnew(tasks) ==
  /\ op' = [n \in Machines |-> [tasks[n] EXCEPT !.counts = FALSE]]
  /\ round' = [n \in Machines |-> 0]

Init ==
  /\ db \in [Machines -> {EmptyDb, [EmptyDb EXCEPT !.old = TRUE]}]
  /\ snap  = [m \in Machines |-> NoSnapshot]
  /\ trash = [m \in Machines |-> NoSnapshot]
  /\ op    = [m \in Machines |-> Idle]
  /\ edits = 0 /\ faults = 0
  /\ best  = [m \in Machines |-> NoUse]
  /\ gutted = {}
  /\ round = [m \in Machines |-> 0]

-----------------------------------------------------------------------------
(* Class UserDbMerger.                                                     *)

\* The commits of a record after Put: those of the side that has more, with
\* their sign.
Put(ours, theirs) == IF Abs(ours) < Abs(theirs) THEN theirs ELSE ours

\* Merging the records of the words in part; all of them are merged unless a
\* fault strikes.
Merged(d, s, part) ==
  [d EXCEPT !.commits = [w \in Words |-> IF w \in part THEN Put(@[w], s.commits[w]) ELSE @[w]]]

\* UserDictManager::Restore, given the db file it opens or creates.
Restored(d, s) == Merged(d, s, Words)

-----------------------------------------------------------------------------
(* Sessions.                                                               *)

Free(m) == op[m].task = "none"

\* UserDictionary::Load: the file is created, or handed over for recovery.
Load(m) ==
  /\ Free(m)
  /\ \/ /\ db[m].state = "absent"
        /\ db' = [db EXCEPT ![m] = EmptyDb]
        /\ StartAnew(op)
     \/ /\ db[m].state = "damaged"
        /\ StartAnew([op EXCEPT ![m] = Task("repair")])
        /\ db' = db
  /\ UNCHANGED << snap, trash, edits, faults, best, gutted >>

\* UserDictionary::UpdateEntry
Edit(m, w, commits) ==
  /\ Free(m) /\ db[m].state = "sound" /\ edits < MaxEdits
  /\ db' = [db EXCEPT ![m].commits[w] = commits]
  /\ edits' = edits + 1
  /\ StartAnew(op)
  /\ UNCHANGED << snap, trash, faults, gutted >>

Use(m, w) ==
  /\ Edit(m, w, Abs(db[m].commits[w]) + 1)
  /\ UNCHANGED best

\* A word deleted again, from a table that has it too, loses its uses.
Delete(m, w) ==
  LET commits == IF db[m].commits[w] > 1 THEN -db[m].commits[w] ELSE -1
  IN  /\ Edit(m, w, commits)
      /\ best' = [best EXCEPT ![m][w] = Smaller(@, Abs(commits))]

-----------------------------------------------------------------------------
(* UserDictManager::Synchronize.                                           *)

Begin(m, owners) ==
  /\ Free(m) /\ db[m].state # "absent"
  /\ op' = [op EXCEPT ![m] =
              [task |-> "sync", left |-> owners, counts |-> TRUE,
               late |-> \A n \in Machines : round[n] > 0]]
  /\ UNCHANGED << db, snap, trash, edits, faults, best, gutted, round >>

\* Fault: a machine leaves out its own snapshot.
StartSync_OthersOnly(m) == Begin(m, Machines \ {m})

\* Fault: it looks for snapshots in its own directory.
StartSync_OwnOnly(m) == Begin(m, {m})

\* Only dictionaries that have a file are synchronized.
StartSync(m) == Begin(m, Machines)

\* A snapshot that is not there is passed over, and so is one that cannot be
\* read or merged: its failure is reported, not acted upon.
Merge(m, n) ==
  /\ op[m].task = "sync" /\ n \in op[m].left
  /\ IF snap[n].readable /\ db[m].state = "sound"
       THEN db' = [db EXCEPT ![m] = Restored(@, snap[n])]
       ELSE db' = db
  /\ op' = [op EXCEPT ![m].left = @ \ {n}]
  /\ UNCHANGED << snap, trash, edits, faults, best, gutted, round >>

\* OpenReadOnly repairs a damaged file, or fails.
Backup(m) ==
  /\ op[m].task = "sync" /\ op[m].left = {}
  /\ op' = [op EXCEPT ![m] = Idle]
  /\ \/ /\ db' = [db EXCEPT ![m].state = "sound"]
        /\ snap' = [snap EXCEPT ![m] = Snapshot(db[m])]
        /\ best' = [best EXCEPT ![m] = [w \in Words |-> Larger(@[w], Abs(db[m].commits[w]))]]
        /\ round' = [round EXCEPT ![m] =
                       IF db[m].state = "damaged" \/ ~op[m].counts THEN @
                       ELSE IF op[m].late THEN 2 ELSE Larger(@, 1)]
     \/ /\ db[m].state = "damaged"
        /\ UNCHANGED << db, snap, best, round >>
  /\ UNCHANGED << trash, edits, faults, gutted >>

-----------------------------------------------------------------------------
(* UserDictManager::UpgradeUserDict.                                       *)

\* That a snapshot could not be written to the end goes unnoticed.
BackupToTrash(m) ==
  /\ Free(m) /\ db[m].state # "absent" /\ db[m].old
  /\ db' = [db EXCEPT ![m].state = "sound"]
  /\ \/ /\ trash' = [trash EXCEPT ![m] = Snapshot(db[m])]
        /\ UNCHANGED faults
     \/ /\ faults < MaxFaults /\ faults' = faults + 1
        /\ \E s \in CutShort(db[m]) : trash' = [trash EXCEPT ![m] = s]
  /\ StartAnew([op EXCEPT ![m] = Task("remove")])
  /\ UNCHANGED << snap, edits, best, gutted >>

Remove(m) ==
  /\ op[m].task = "remove"
  /\ db' = [db EXCEPT ![m] = Absent]
  /\ StartAnew([op EXCEPT ![m] = Task("restore")])
  /\ UNCHANGED << snap, trash, edits, faults, best, gutted >>

RestoreFromTrash(m) ==
  /\ op[m].task = "restore"
  /\ db' = IF trash[m].readable THEN [db EXCEPT ![m] = Restored(EmptyDb, trash[m])] ELSE db
  /\ StartAnew([op EXCEPT ![m] = Idle])
  /\ UNCHANGED << snap, trash, edits, faults, best, gutted >>

-----------------------------------------------------------------------------
(* UserDbRecoveryTask::Run.                                                *)

Repair(m) ==
  /\ op[m].task = "repair"
  /\ db' = [db EXCEPT ![m].state = "sound"]
  /\ StartAnew([op EXCEPT ![m] = Idle])
  /\ UNCHANGED << snap, trash, edits, faults, best, gutted >>

\* Repair did not work: the file is renamed and a new one created.
Recreate(m) ==
  /\ op[m].task = "repair"
  /\ db' = [db EXCEPT ![m] = EmptyDb]
  /\ StartAnew([op EXCEPT ![m] = Task("reload")])
  /\ UNCHANGED << snap, trash, edits, faults, best, gutted >>

Reloaded(s, part) ==
  [state |-> "sound", old |-> s.old, commits |-> [w \in Words |-> IF w \in part THEN s.commits[w] ELSE 0]]

\* RestoreUserDataFromSnapshot, from the machine's own snapshot: the records
\* are copied, not merged, and so is the version.
Reload(m) ==
  /\ op[m].task = "reload"
  /\ db' = IF snap[m].readable
             THEN [db EXCEPT ![m] = Reloaded(snap[m], Words)]
             ELSE db
  /\ StartAnew([op EXCEPT ![m] = Idle])
  /\ UNCHANGED << snap, trash, edits, faults, best, gutted >>

-----------------------------------------------------------------------------
(* Faults.                                                                 *)

Fault(m) ==
  /\ faults < MaxFaults
  /\ faults' = faults + 1
  /\ StartAnew([op EXCEPT ![m] = Idle])
  /\ UNCHANGED << edits, best >>

\* A file open for writing when the machine goes down may be damaged.
Downed(d) == {d, [d EXCEPT !.state = "damaged"]}

\* The machine goes down with sessions open, or between two steps of a task.
Crash(m) ==
  /\ Fault(m)
  /\ \/ db' = db
     \/ Free(m) /\ db[m].state = "sound" /\ db' = [db EXCEPT ![m].state = "damaged"]
  /\ UNCHANGED << snap, trash, gutted >>

\* It goes down while records are being put: those of a part of the words
\* are there.
CrashInMerge(m) ==
  /\ Fault(m)
  /\ op[m].task = "sync" /\ db[m].state = "sound"
  /\ \E n \in op[m].left, part \in SUBSET Words :
       /\ snap[n].readable
       /\ \E d \in Downed(Merged(db[m], snap[n], part)) : db' = [db EXCEPT ![m] = d]
  /\ UNCHANGED << snap, trash, gutted >>

\* It goes down while a db is filled again.
CrashInRefill(m) ==
  /\ Fault(m)
  /\ \E part \in SUBSET Words :
     \E refilled \in (IF op[m].task = "restore" /\ trash[m].readable THEN {Merged(EmptyDb, trash[m], part)} ELSE {})
                    \cup (IF op[m].task = "reload" /\ snap[m].readable
                          THEN {Reloaded(snap[m], part)} ELSE {}) :
     \E d \in Downed(refilled) :
       /\ db' = [db EXCEPT ![m] = d]
       /\ gutted' = IF d.state = "damaged" THEN gutted \cup {m} ELSE gutted
  /\ UNCHANGED << snap, trash >>

\* It goes down, or its disk is full, while the snapshot is written, which
\* replaces the one before.
CrashInBackup(m) ==
  /\ Fault(m)
  /\ op[m].task = "sync" /\ op[m].left = {} /\ db[m].state = "sound"
  /\ \E s \in CutShort(db[m]) : snap' = [snap EXCEPT ![m] = s]
  /\ UNCHANGED << db, trash, gutted >>

\* The db cannot be restored after it has been removed.
RestoreFails(m) ==
  /\ op[m].task = "restore"
  /\ Fault(m)
  /\ UNCHANGED << db, snap, trash, gutted >>

Next ==
  \E m \in Machines :
    \/ Load(m) \/ \E w \in Words : Use(m, w) \/ Delete(m, w)
    \/ StartSync(m) \/ \E n \in Machines : Merge(m, n)
    \/ Backup(m)
    \/ BackupToTrash(m) \/ Remove(m) \/ RestoreFromTrash(m)
    \/ Repair(m) \/ Recreate(m) \/ Reload(m)
    \/ Crash(m) \/ CrashInMerge(m) \/ CrashInRefill(m) \/ CrashInBackup(m) \/ RestoreFails(m)

Spec == Init /\ [][Next]_vars

-----------------------------------------------------------------------------
\* How many uses of a word a machine still has on record: in its snapshot, in
\* its db, or in the snapshot it is about to restore.
OnRecord(m, w) ==
  Larger(IF snap[m].readable THEN Abs(snap[m].commits[w]) ELSE 0,
  Larger(IF db[m].state = "sound" THEN Abs(db[m].commits[w]) ELSE 0,
         IF op[m].task = "restore" THEN Abs(trash[m].commits[w]) ELSE 0))

\* What a machine has once backed up it never loses to a single fault,
\* wherever in using, synchronizing, upgrading or recovering it strikes, and
\* whatever is done afterwards; unless the fault damages the db while it is
\* being filled again.  (The next synchronization cannot merge into such a
\* db, and then repairs it and puts what is left of it in the place of the
\* snapshot.)
BackedUpIsKept ==
  faults <= 1 =>
    \A m \in Machines \ gutted, w \in Words : best[m][w] <= OnRecord(m, w)

\* When every machine has synchronized, and then synchronized again, in any
\* order and overlapping, they agree on how often each word has been used.
\* (They need not agree on what is deleted.)
AgreeAfterTwoRounds ==
  \A m, n \in Machines :
    round[m] = 2 /\ round[n] = 2 =>
      \A w \in Words : Abs(db[m].commits[w]) = Abs(db[n].commits[w])
=============================================================================
