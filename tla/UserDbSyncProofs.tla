-------------------------- MODULE UserDbSyncProofs --------------------------
(***************************************************************************)
(* Proofs for any machines and words and any number of uses: that what a   *)
(* machine has backed up it keeps, since no single fault, wherever it      *)
(* strikes, loses it; and that machines which have synchronized twice      *)
(* agree, whatever came before.                                            *)
(*                                                                         *)
(* The reason for the first is that a machine keeps everything twice.  Its *)
(* snapshot has it, and so has its db or what its db is to be restored     *)
(* from; either is put right from the other.  As long as there has been no *)
(* fault both are complete, and a fault harms only one.                    *)
(*                                                                         *)
(* The reason for the second is that the first round brings into the       *)
(* snapshots all that the dbs have, and what the snapshots tell, others    *)
(* have as well, so that later backups tell nothing new.                   *)
(***************************************************************************)
EXTENDS UserDbSync, TLAPS

Dbs   == [state : {"absent", "sound", "damaged"}, old : BOOLEAN, commits : [Words -> Int]]
Snaps == {s \in [readable : BOOLEAN, old : BOOLEAN, commits : [Words -> Int]] :
            s.readable = FALSE => \A w \in Words : s.commits[w] = 0}
Ops   == [task : {"none", "sync", "remove", "restore", "repair", "reload"},
          left : SUBSET Machines, counts : BOOLEAN, late : BOOLEAN]

Types ==
  /\ db \in [Machines -> Dbs]
  /\ snap \in [Machines -> Snaps] /\ trash \in [Machines -> Snaps]
  /\ op \in [Machines -> Ops]
  /\ edits \in Nat /\ faults \in Nat
  /\ best \in [Machines -> [Words -> Nat]]
  /\ gutted \in SUBSET Machines
  /\ round \in [Machines -> 0..2]

\* The snapshot has it.  When it is written it is from a db that has merged
\* it, or that was damaged and still has everything.
InSnapshot(m) ==
  /\ \A w \in Words : best[m][w] <= Abs(snap[m].commits[w])
  /\ db[m].state = "damaged" => \A w \in Words : best[m][w] <= Abs(db[m].commits[w])
  /\ op[m].task = "sync" =>
       /\ db[m].state # "absent"
       /\ m \notin op[m].left /\ db[m].state = "sound" =>
            \A w \in Words : Abs(snap[m].commits[w]) <= Abs(db[m].commits[w])

\* The db has it, or the snapshot in the trash from which it is restored.
InDb(m) ==
  /\ op[m].task \in {"none", "sync", "remove", "restore"}
  /\ op[m].task = "restore" => db[m].state = "absent"
  /\ op[m].task # "restore" =>
       db[m].state = "sound" /\ \A w \in Words : best[m][w] <= Abs(db[m].commits[w])
  /\ op[m].task \in {"remove", "restore"} =>
       trash[m].readable = TRUE /\ \A w \in Words : best[m][w] <= Abs(trash[m].commits[w])

Kept ==
  /\ faults = 0 => gutted = {} /\ \A m \in Machines : InSnapshot(m) /\ InDb(m)
  /\ faults = 1 => \A m \in Machines \ gutted : InSnapshot(m) \/ InDb(m)

SInv == Types /\ Kept

-----------------------------------------------------------------------------
(* Records, dbs and snapshots.                                             *)

\* Of two records Put leaves the one with more uses.
LEMMA PutFacts ==
  ASSUME NEW a \in Int, NEW b \in Int
  PROVE  /\ Put(a, b) \in Int /\ Abs(a) \in Nat /\ Abs(b) \in Nat
         /\ Abs(a) <= Abs(Put(a, b)) /\ Abs(b) <= Abs(Put(a, b))
  BY DEF Put, Abs

LEMMA CountFacts ==
  ASSUME NEW w \in Words
  PROVE  /\ \A d \in Dbs : Abs(d.commits[w]) \in Nat
         /\ \A s \in Snaps : Abs(s.commits[w]) \in Nat
<1>1. /\ \A d \in Dbs : d.commits[w] \in Int
      /\ \A s \in Snaps : s.commits[w] \in Int
  BY DEF Dbs, Snaps
<1> QED BY <1>1 DEF Abs

LEMMA MergeFacts ==
  ASSUME NEW d \in Dbs, NEW s \in Snaps, NEW part \in SUBSET Words
  PROVE  /\ Merged(d, s, part) \in Dbs
         /\ Merged(d, s, part).state = d.state
         /\ \A w \in Words :
              /\ Abs(d.commits[w]) <= Abs(Merged(d, s, part).commits[w])
              /\ w \in part => Abs(s.commits[w]) <= Abs(Merged(d, s, part).commits[w])
<1> DEFINE both == [w \in Words |-> IF w \in part THEN Put(d.commits[w], s.commits[w])
                                                  ELSE d.commits[w]]
<1>1. d.commits \in [Words -> Int] /\ s.commits \in [Words -> Int]
  BY DEF Dbs, Snaps
<1>2. Merged(d, s, part) = [d EXCEPT !.commits = both]
  BY DEF Merged
<1>3. \A w \in Words :
        /\ both[w] \in Int
        /\ Abs(d.commits[w]) <= Abs(both[w])
        /\ w \in part => Abs(s.commits[w]) <= Abs(both[w])
  <2> SUFFICES ASSUME NEW w \in Words
               PROVE  /\ both[w] \in Int
                      /\ Abs(d.commits[w]) <= Abs(both[w])
                      /\ w \in part => Abs(s.commits[w]) <= Abs(both[w])
    OBVIOUS
  <2>1. d.commits[w] \in Int /\ s.commits[w] \in Int
    BY <1>1
  <2>2. CASE w \in part
    BY <2>1, <2>2, PutFacts
  <2>3. CASE w \notin part
    <3>1. both[w] = d.commits[w]
      BY <2>3
    <3>2. Abs(d.commits[w]) \in Nat
      BY <2>1, PutFacts
    <3> QED BY <2>1, <2>3, <3>1, <3>2
  <2> QED BY <2>2, <2>3
<1>4. both \in [Words -> Int]
  BY <1>3
<1> HIDE DEF both
<1>5. Merged(d, s, part).commits = both /\ Merged(d, s, part).state = d.state
      /\ Merged(d, s, part) \in Dbs
  BY <1>2, <1>4 DEF Dbs
<1> QED BY <1>3, <1>5

LEMMA SnapshotFacts ==
  ASSUME NEW d \in Dbs
  PROVE  /\ Snapshot(d) \in Snaps /\ Snapshot(d).readable = TRUE
         /\ Snapshot(d).commits = d.commits
         /\ CutShort(d) \subseteq Snaps
<1>1. Snapshot(d) \in Snaps /\ Snapshot(d).readable = TRUE /\ Snapshot(d).commits = d.commits
  BY DEF Dbs, Snaps, Snapshot
<1>2. NoSnapshot \in Snaps
  BY DEF Snaps, NoSnapshot, NoUse
<1>3. ASSUME NEW part \in SUBSET Words
      PROVE  [Snapshot(d) EXCEPT !.commits = [w \in Words |-> IF w \in part THEN @[w] ELSE 0]] \in Snaps
  <2> DEFINE some == [w \in Words |-> IF w \in part THEN Snapshot(d).commits[w] ELSE 0]
             cut  == [Snapshot(d) EXCEPT !.commits = [w \in Words |-> IF w \in part THEN @[w] ELSE 0]]
  <2>1. some \in [Words -> Int]
    BY <1>1 DEF Dbs
  <2>2. cut = [Snapshot(d) EXCEPT !.commits = some]
    OBVIOUS
  <2> HIDE DEF some, cut
  <2>3. cut \in Snaps
    BY <1>1, <2>1, <2>2 DEF Snaps
  <2> QED BY <2>3 DEF cut
<1> QED BY <1>1, <1>2, <1>3 DEF CutShort

LEMMA ReloadFacts ==
  ASSUME NEW s \in Snaps, NEW part \in SUBSET Words
  PROVE  Reloaded(s, part) \in Dbs /\ Reloaded(s, part).state = "sound"
<1> DEFINE some == [w \in Words |-> IF w \in part THEN s.commits[w] ELSE 0]
<1>1. some \in [Words -> Int]
  BY DEF Snaps
<1> HIDE DEF some
<1>2. Reloaded(s, part) = [state |-> "sound", old |-> s.old, commits |-> some]
  BY DEF Reloaded, some
<1> QED BY <1>1, <1>2 DEF Dbs, Snaps

LEMMA EmptyFacts ==
  /\ Absent \in Dbs /\ EmptyDb \in Dbs /\ [EmptyDb EXCEPT !.old = TRUE] \in Dbs
  /\ NoSnapshot \in Snaps
  /\ Absent.state = "absent" /\ EmptyDb.state = "sound"
  /\ [EmptyDb EXCEPT !.old = TRUE].state = "sound"
<1>1. NoUse \in [Words -> Int] /\ \A w \in Words : NoUse[w] = 0
  BY DEF NoUse
<1>2. NoSnapshot \in Snaps
  BY <1>1 DEF NoSnapshot, Snaps
<1>3. Absent \in Dbs /\ Absent.state = "absent"
  BY <1>1 DEF Absent, Dbs
<1>4. EmptyDb \in Dbs /\ EmptyDb.state = "sound"
  BY <1>3 DEF EmptyDb, Dbs
<1>5. [EmptyDb EXCEPT !.old = TRUE] \in Dbs /\ [EmptyDb EXCEPT !.old = TRUE].state = "sound"
  BY <1>4 DEF Dbs
<1> QED BY <1>2, <1>3, <1>4, <1>5

LEMMA DownedFacts ==
  ASSUME NEW d \in Dbs, NEW e \in Downed(d)
  PROVE  e \in Dbs /\ e.commits = d.commits /\ e.state \in {d.state, "damaged"}
  BY DEF Downed, Dbs

LEMMA TaskFacts ==
  /\ Idle \in Ops /\ Idle.task = "none" /\ Idle.left = {}
  /\ \A task \in {"remove", "restore", "repair", "reload"} :
       Task(task) \in Ops /\ Task(task).task = task /\ Task(task).left = {}
  BY DEF Idle, Task, Ops

LEMMA StartAnewFacts ==
  ASSUME NEW tasks \in [Machines -> Ops], StartAnew(tasks)
  PROVE  /\ op' \in [Machines -> Ops] /\ round' \in [Machines -> 0..2]
         /\ \A k \in Machines : op'[k].task = tasks[k].task /\ op'[k].left = tasks[k].left
<1>1. ASSUME NEW k \in Machines
      PROVE  /\ op'[k] \in Ops
             /\ op'[k].task = tasks[k].task /\ op'[k].left = tasks[k].left
  <2>1. op'[k] = [tasks[k] EXCEPT !.counts = FALSE] /\ tasks[k] \in Ops
    BY DEF StartAnew
  <2> QED BY <2>1 DEF Ops
<1>2. op' = [k \in Machines |-> op'[k]] /\ round' = [k \in Machines |-> 0]
  BY DEF StartAnew
<1> QED BY <1>1, <1>2

-----------------------------------------------------------------------------
(* Steps: those that keep both copies, and those that may harm one.        *)

\* Nothing of machine k changes but in how it counts its rounds.
Same(k) ==
  /\ db'[k] = db[k] /\ snap'[k] = snap[k] /\ trash'[k] = trash[k] /\ best'[k] = best[k]
  /\ op'[k].task = op[k].task /\ op'[k].left = op[k].left

OthersSame(m) == \A k \in Machines : k # m => Same(k)

Keeps(m) ==
  /\ Types' /\ OthersSame(m)
  /\ faults' = faults /\ gutted' = gutted
  /\ InSnapshot(m) => InSnapshot(m)'
  /\ InDb(m) => InDb(m)'

Harms(m) ==
  /\ Types' /\ OthersSame(m)
  /\ faults' = faults + 1 /\ gutted \subseteq gutted'
  /\ InSnapshot(m) /\ InDb(m) => InSnapshot(m)' \/ InDb(m)' \/ m \in gutted'

\* One copy is enough after the first fault, and there were two before it.
LEMMA KeptStep ==
  ASSUME Types, Kept, NEW m \in Machines, Keeps(m) \/ Harms(m)
  PROVE  Kept'
<1>1. ASSUME NEW k \in Machines, Same(k)
      PROVE  /\ InSnapshot(k) => InSnapshot(k)'
             /\ InDb(k) => InDb(k)'
  BY <1>1 DEF Same, InSnapshot, InDb
<1>2. CASE Keeps(m)
  BY <1>1, <1>2 DEF Keeps, OthersSame, Kept
<1>3. CASE Harms(m)
  <2>1. CASE faults = 0
    BY <1>1, <1>3, <2>1 DEF Harms, OthersSame, Kept
  <2>2. CASE faults # 0
    BY <1>3, <2>2 DEF Harms, Kept, Types
  <2> QED BY <2>1, <2>2
<1> QED BY <1>2, <1>3

LEMMA MoveOn ==
  ASSUME Types, NEW m \in Machines, NEW o \in Ops, StartAnew([op EXCEPT ![m] = o])
  PROVE  /\ op' \in [Machines -> Ops] /\ round' \in [Machines -> 0..2]
         /\ op'[m].task = o.task /\ op'[m].left = o.left
         /\ \A k \in Machines : k # m => op'[k].task = op[k].task /\ op'[k].left = op[k].left
<1> DEFINE tasks == [op EXCEPT ![m] = o]
<1>1. /\ tasks \in [Machines -> Ops] /\ tasks[m] = o
      /\ \A k \in Machines : k # m => tasks[k] = op[k]
  BY DEF Types
<1> HIDE DEF tasks
<1>2. /\ op' \in [Machines -> Ops] /\ round' \in [Machines -> 0..2]
      /\ \A k \in Machines : op'[k].task = tasks[k].task /\ op'[k].left = tasks[k].left
  BY <1>1, StartAnewFacts DEF tasks
<1> QED BY <1>1, <1>2

LEMMA LoadKeeps ==
  ASSUME Types, NEW m \in Machines, Load(m)
  PROVE  Keeps(m)
<1>1. /\ UNCHANGED << snap, trash, edits, faults, best, gutted >> /\ op[m].task = "none"
  BY DEF Load, Free
<1>2. CASE db[m].state = "absent" /\ db' = [db EXCEPT ![m] = EmptyDb] /\ StartAnew(op)
  <2>1. /\ op' \in [Machines -> Ops] /\ round' \in [Machines -> 0..2]
        /\ \A k \in Machines : op'[k].task = op[k].task /\ op'[k].left = op[k].left
    BY <1>2, StartAnewFacts DEF Types
  <2>2. db' \in [Machines -> Dbs] /\ db'[m].state = "sound"
        /\ \A k \in Machines : k # m => db'[k] = db[k]
    BY <1>2, EmptyFacts DEF Types
  <2> QED
    BY <1>1, <1>2, <2>1, <2>2 DEF Keeps, Types, OthersSame, Same, InSnapshot, InDb
<1>3. CASE db[m].state = "damaged" /\ StartAnew([op EXCEPT ![m] = Task("repair")]) /\ db' = db
  <2>1. /\ op' \in [Machines -> Ops] /\ round' \in [Machines -> 0..2]
        /\ op'[m].task = "repair"
        /\ \A k \in Machines : k # m => op'[k].task = op[k].task /\ op'[k].left = op[k].left
    BY <1>3, MoveOn, TaskFacts
  <2> QED
    BY <1>1, <1>3, <2>1 DEF Keeps, Types, OthersSame, Same, InSnapshot, InDb
<1> QED BY <1>2, <1>3 DEF Load

LEMMA EditFacts ==
  ASSUME Types, NEW m \in Machines, NEW w \in Words, NEW commits \in Int, Edit(m, w, commits)
  PROVE  /\ op' \in [Machines -> Ops] /\ round' \in [Machines -> 0..2]
         /\ \A k \in Machines : op'[k].task = op[k].task /\ op'[k].left = op[k].left
         /\ op[m].task = "none" /\ db[m].state = "sound"
         /\ db' \in [Machines -> Dbs] /\ db'[m].state = "sound"
         /\ db'[m].commits[w] = commits
         /\ \A v \in Words : v # w => db'[m].commits[v] = db[m].commits[v]
         /\ \A k \in Machines : k # m => db'[k] = db[k]
         /\ edits' \in Nat
<1>1. /\ op' \in [Machines -> Ops] /\ round' \in [Machines -> 0..2]
      /\ \A k \in Machines : op'[k].task = op[k].task /\ op'[k].left = op[k].left
  BY StartAnewFacts DEF Types, Edit
<1>2. db[m] \in Dbs /\ db[m].commits \in [Words -> Int]
  BY DEF Types, Dbs
<1> DEFINE changed == [db[m].commits EXCEPT ![w] = commits]
<1>3. changed \in [Words -> Int] /\ changed[w] = commits
      /\ \A v \in Words : v # w => changed[v] = db[m].commits[v]
  BY <1>2
<1>4. db' = [db EXCEPT ![m] = [db[m] EXCEPT !.commits = changed]]
  BY DEF Edit
<1> HIDE DEF changed
<1>5. /\ [db[m] EXCEPT !.commits = changed] \in Dbs
      /\ [db[m] EXCEPT !.commits = changed].commits = changed
      /\ [db[m] EXCEPT !.commits = changed].state = db[m].state
  BY <1>2, <1>3 DEF Dbs
<1>6. /\ db' \in [Machines -> Dbs] /\ db'[m].commits = changed /\ db'[m].state = db[m].state
      /\ \A k \in Machines : k # m => db'[k] = db[k]
  BY <1>4, <1>5 DEF Types
<1> QED BY <1>1, <1>3, <1>6 DEF Edit, Free, Types

LEMMA UseKeeps ==
  ASSUME Types, NEW m \in Machines, NEW w \in Words, Use(m, w)
  PROVE  Keeps(m)
<1>1. db[m].commits[w] \in Int /\ Abs(db[m].commits[w]) + 1 \in Int
      /\ Abs(db[m].commits[w]) <= Abs(Abs(db[m].commits[w]) + 1)
      /\ Abs(db[m].commits[w]) \in Nat
  <2>1. db[m].commits[w] \in Int
    BY DEF Types, Dbs
  <2> QED BY <2>1 DEF Abs
<1> DEFINE more == Abs(db[m].commits[w]) + 1
<1>2. /\ op' \in [Machines -> Ops] /\ round' \in [Machines -> 0..2]
      /\ \A k \in Machines : op'[k].task = op[k].task /\ op'[k].left = op[k].left
      /\ op[m].task = "none" /\ db[m].state = "sound"
      /\ db' \in [Machines -> Dbs] /\ db'[m].state = "sound" /\ db'[m].commits[w] = more
      /\ \A v \in Words : v # w => db'[m].commits[v] = db[m].commits[v]
      /\ \A k \in Machines : k # m => db'[k] = db[k]
      /\ edits' \in Nat /\ Edit(m, w, more)
  BY <1>1, EditFacts DEF Use
<1>3. UNCHANGED << snap, trash, faults, best, gutted >>
  BY DEF Use, Edit
<1>4. Types' /\ OthersSame(m)
  BY <1>2, <1>3 DEF Types, OthersSame, Same
<1>5. InSnapshot(m) => InSnapshot(m)'
  BY <1>2, <1>3 DEF InSnapshot
<1>6. InDb(m) => InDb(m)'
  <2> SUFFICES ASSUME InDb(m), NEW v \in Words PROVE best[m][v] <= Abs(db'[m].commits[v])
    BY <1>2, <1>3 DEF InDb
  <2>1. best[m][v] <= Abs(db[m].commits[v]) /\ best[m][v] \in Nat
    BY <1>2 DEF InDb, Types
  <2>2. CASE v = w
    BY <1>1, <1>2, <2>1, <2>2 DEF Abs
  <2>3. CASE v # w
    BY <1>2, <2>1, <2>3
  <2> QED BY <2>2, <2>3
<1> QED BY <1>3, <1>4, <1>5, <1>6 DEF Keeps

LEMMA DeleteKeeps ==
  ASSUME Types, NEW m \in Machines, NEW w \in Words, Delete(m, w)
  PROVE  Keeps(m)
<1> DEFINE less == IF db[m].commits[w] > 1 THEN -db[m].commits[w] ELSE -1
<1>1. less \in Int /\ Abs(less) \in Nat
  <2>1. db[m].commits[w] \in Int
    BY DEF Types, Dbs
  <2> QED BY <2>1 DEF Abs
<1>2. Edit(m, w, less) /\ best' = [best EXCEPT ![m][w] = Smaller(@, Abs(less))]
  BY DEF Delete
<1> HIDE DEF less
<1>3. /\ op' \in [Machines -> Ops] /\ round' \in [Machines -> 0..2]
      /\ \A k \in Machines : op'[k].task = op[k].task /\ op'[k].left = op[k].left
      /\ op[m].task = "none" /\ db[m].state = "sound"
      /\ db' \in [Machines -> Dbs] /\ db'[m].state = "sound" /\ db'[m].commits[w] = less
      /\ \A v \in Words : v # w => db'[m].commits[v] = db[m].commits[v]
      /\ \A k \in Machines : k # m => db'[k] = db[k]
      /\ edits' \in Nat
  BY <1>1, <1>2, EditFacts
<1>4. UNCHANGED << snap, trash, faults, gutted >>
  BY <1>2 DEF Edit
<1>5. /\ best' \in [Machines -> [Words -> Nat]]
      /\ \A k \in Machines : k # m => best'[k] = best[k]
      /\ \A v \in Words : v # w => best'[m][v] = best[m][v]
      /\ best'[m][w] <= best[m][w] /\ best'[m][w] <= Abs(less)
  <2>1. best[m] \in [Words -> Nat] /\ best[m][w] \in Nat
    BY DEF Types
  <2>2. /\ Smaller(best[m][w], Abs(less)) \in Nat
        /\ Smaller(best[m][w], Abs(less)) <= best[m][w]
        /\ Smaller(best[m][w], Abs(less)) <= Abs(less)
    BY <1>1, <2>1 DEF Smaller
  <2> QED BY <1>2, <2>1, <2>2 DEF Types
<1>6. Types' /\ OthersSame(m)
  BY <1>3, <1>4, <1>5 DEF Types, OthersSame, Same
<1>7. \A v \in Words : best'[m][v] \in Nat /\ best[m][v] \in Nat /\ best'[m][v] <= best[m][v]
  BY SMTT(60), <1>5 DEF Types
<1>8. InSnapshot(m) => InSnapshot(m)'
  <2>1. \A v \in Words : Abs(snap[m].commits[v]) \in Nat
    BY ZenonT(60), PutFacts DEF Types, Snaps
  <2> QED BY <1>3, <1>4, <1>7, <2>1 DEF InSnapshot
<1>9. InDb(m) => InDb(m)'
  <2> SUFFICES ASSUME InDb(m), NEW v \in Words PROVE best'[m][v] <= Abs(db'[m].commits[v])
    BY <1>3 DEF InDb
  <2>1. CASE v = w
    BY <1>3, <1>5, <2>1
  <2>2. CASE v # w
    BY <1>3, <1>5, <2>2 DEF InDb
  <2> QED BY <2>1, <2>2
<1> QED BY <1>4, <1>6, <1>8, <1>9 DEF Keeps

LEMMA StartSyncKeeps ==
  ASSUME Types, NEW m \in Machines, StartSync(m)
  PROVE  Keeps(m)
<1> DEFINE o == [task |-> "sync", left |-> Machines, counts |-> TRUE,
                 late |-> \A n \in Machines : round[n] > 0]
<1>1. o \in Ops /\ o.task = "sync" /\ o.left = Machines
  BY DEF Ops
<1>2. /\ UNCHANGED << db, snap, trash, edits, faults, best, gutted, round >>
      /\ db[m].state # "absent" /\ op[m].task = "none"
      /\ op' = [op EXCEPT ![m] = o]
  BY DEF StartSync, Begin, Free
<1> HIDE DEF o
<1>3. /\ op' \in [Machines -> Ops] /\ op'[m].task = "sync" /\ op'[m].left = Machines
      /\ \A k \in Machines : k # m => op'[k] = op[k]
  BY <1>1, <1>2 DEF Types
<1> QED BY <1>2, <1>3 DEF Keeps, Types, OthersSame, Same, InSnapshot, InDb

LEMMA MergeKeeps ==
  ASSUME Types, NEW m \in Machines, NEW n \in Machines, Merge(m, n)
  PROVE  Keeps(m)
<1>1. /\ op[m].task = "sync" /\ n \in op[m].left
      /\ UNCHANGED << snap, trash, edits, faults, best, gutted, round >>
      /\ op' = [op EXCEPT ![m] = [op[m] EXCEPT !.left = @ \ {n}]]
  BY DEF Merge
<1>2. op' \in [Machines -> Ops] /\ op'[m].task = "sync" /\ op'[m].left = op[m].left \ {n}
      /\ \A k \in Machines : k # m => op'[k] = op[k]
  <2>1. op[m] \in Ops /\ op[m].left \ {n} \in SUBSET Machines
    BY DEF Types, Ops
  <2>2. /\ [op[m] EXCEPT !.left = @ \ {n}] \in Ops
        /\ [op[m] EXCEPT !.left = @ \ {n}].task = "sync"
        /\ [op[m] EXCEPT !.left = @ \ {n}].left = op[m].left \ {n}
    BY <1>1, <2>1 DEF Ops
  <2> QED BY <1>1, <2>2 DEF Types
<1>3. db[m] \in Dbs /\ snap[n] \in Snaps /\ snap[m] \in Snaps /\ db[m].commits \in [Words -> Int]
      /\ snap[m].commits \in [Words -> Int]
  BY DEF Types, Dbs, Snaps
<1>4. \A v \in Words : /\ best[m][v] \in Nat /\ Abs(db[m].commits[v]) \in Nat
                        /\ Abs(snap[m].commits[v]) \in Nat
  BY <1>3, PutFacts DEF Types
<1>5. CASE snap[n].readable /\ db[m].state = "sound"
  <2> DEFINE d == Merged(db[m], snap[n], Words)
  <2>1. /\ d \in Dbs /\ d.state = "sound"
        /\ \A v \in Words : /\ Abs(db[m].commits[v]) <= Abs(d.commits[v])
                             /\ Abs(snap[n].commits[v]) <= Abs(d.commits[v])
    BY <1>3, <1>5, MergeFacts
  <2>2. db' = [db EXCEPT ![m] = d]
    BY <1>5 DEF Merge, Restored
  <2> HIDE DEF d
  <2>3. /\ db' \in [Machines -> Dbs] /\ db'[m] = d
        /\ \A k \in Machines : k # m => db'[k] = db[k]
    BY <2>1, <2>2 DEF Types
  <2>4. \A v \in Words : Abs(d.commits[v]) \in Nat
    BY <2>1, PutFacts DEF Dbs
  <2>5. Types' /\ OthersSame(m)
    BY <1>1, <1>2, <2>3 DEF Types, OthersSame, Same
  <2>6. InDb(m) => InDb(m)'
    BY <1>1, <1>2, <1>4, <2>1, <2>3, <2>4 DEF InDb
  <2>7. ASSUME InSnapshot(m) PROVE InSnapshot(m)'
    <3>1. ASSUME m \notin op'[m].left, NEW v \in Words
          PROVE  Abs(snap[m].commits[v]) <= Abs(d.commits[v])
      <4>1. CASE n = m
        BY <2>1, <4>1
      <4>2. CASE n # m
        BY <1>1, <1>2, <1>4, <1>5, <2>1, <2>4, <2>7, <3>1, <4>2 DEF InSnapshot
      <4> QED BY <4>1, <4>2
    <3> QED BY <1>1, <1>2, <2>1, <2>3, <2>7, <3>1 DEF InSnapshot
  <2> QED BY <1>1, <2>5, <2>6, <2>7 DEF Keeps
<1>6. CASE ~(snap[n].readable /\ db[m].state = "sound")
  <2>1. db' = db
    BY <1>6 DEF Merge
  <2>2. Types' /\ OthersSame(m)
    BY <1>1, <1>2, <2>1 DEF Types, OthersSame, Same
  <2>3. InDb(m) => InDb(m)'
    BY <1>1, <1>2, <2>1 DEF InDb
  <2>4. ASSUME InSnapshot(m) PROVE InSnapshot(m)'
    <3>1. ASSUME n = m, db[m].state = "sound", NEW v \in Words
          PROVE  Abs(snap[m].commits[v]) <= Abs(db[m].commits[v])
      <4>1. snap[m].commits[v] = 0
        BY <1>3, <1>6, <3>1 DEF Snaps
      <4> QED BY <1>4, <4>1 DEF Abs
    <3> QED BY <1>1, <1>2, <2>1, <2>4, <3>1 DEF InSnapshot
  <2> QED BY <1>1, <2>2, <2>3, <2>4 DEF Keeps
<1> QED BY <1>5, <1>6

LEMMA BackupKeeps ==
  ASSUME Types, NEW m \in Machines, Backup(m)
  PROVE  Keeps(m)
<1>1. /\ op[m].task = "sync" /\ op[m].left = {} /\ op' = [op EXCEPT ![m] = Idle]
      /\ UNCHANGED << trash, edits, faults, gutted >>
  BY DEF Backup
<1>2. op' \in [Machines -> Ops] /\ op'[m].task = "none" /\ op'[m].left = {}
      /\ \A k \in Machines : k # m => op'[k] = op[k]
  BY <1>1, TaskFacts DEF Types
<1>3. db[m] \in Dbs /\ snap[m] \in Snaps /\ db[m].commits \in [Words -> Int]
      /\ snap[m].commits \in [Words -> Int] /\ best[m] \in [Words -> Nat]
  BY DEF Types, Dbs, Snaps
<1>4. \A v \in Words : /\ best[m][v] \in Nat /\ Abs(db[m].commits[v]) \in Nat
                        /\ Abs(snap[m].commits[v]) \in Nat
  BY <1>3, PutFacts
<1>5. CASE /\ db' = [db EXCEPT ![m].state = "sound"]
           /\ snap' = [snap EXCEPT ![m] = Snapshot(db[m])]
           /\ best' = [best EXCEPT ![m] = [w \in Words |-> Larger(@[w], Abs(db[m].commits[w]))]]
           /\ round' = [round EXCEPT ![m] =
                          IF db[m].state = "damaged" \/ ~op[m].counts THEN @
                          ELSE IF op[m].late THEN 2 ELSE Larger(@, 1)]
  <2>1. /\ db' \in [Machines -> Dbs] /\ db'[m].state = "sound" /\ db'[m].commits = db[m].commits
        /\ \A k \in Machines : k # m => db'[k] = db[k]
    <3>1. /\ [db[m] EXCEPT !.state = "sound"] \in Dbs
          /\ [db[m] EXCEPT !.state = "sound"].state = "sound"
          /\ [db[m] EXCEPT !.state = "sound"].commits = db[m].commits
      BY <1>3 DEF Dbs
    <3> QED BY <1>5, <3>1 DEF Types
  <2>2. /\ snap' \in [Machines -> Snaps] /\ snap'[m].commits = db[m].commits
        /\ \A k \in Machines : k # m => snap'[k] = snap[k]
    BY <1>3, <1>5, SnapshotFacts DEF Types
  <2>3. /\ best' \in [Machines -> [Words -> Nat]]
        /\ \A v \in Words : best'[m][v] = Larger(best[m][v], Abs(db[m].commits[v]))
        /\ \A k \in Machines : k # m => best'[k] = best[k]
    <3>1. [w \in Words |-> Larger(best[m][w], Abs(db[m].commits[w]))] \in [Words -> Nat]
      BY <1>4 DEF Larger
    <3> QED BY <1>5, <3>1 DEF Types
  <2>4. round' \in [Machines -> 0..2]
    BY <1>5 DEF Types, Larger
  <2>5. Types' /\ OthersSame(m)
    BY <1>1, <1>2, <2>1, <2>2, <2>3, <2>4 DEF Types, OthersSame, Same
  <2>6. (\A v \in Words : best[m][v] <= Abs(db[m].commits[v]))
          => \A v \in Words : best'[m][v] <= Abs(db[m].commits[v])
    BY <1>4, <2>3 DEF Larger
  <2>7. InDb(m) => InDb(m)'
    BY <1>1, <1>2, <2>1, <2>6 DEF InDb
  <2>8. ASSUME InSnapshot(m) PROVE InSnapshot(m)'
    <3>1. \A v \in Words : best[m][v] <= Abs(db[m].commits[v])
      <4>1. CASE db[m].state = "damaged"
        BY <2>8, <4>1 DEF InSnapshot
      <4>2. CASE db[m].state = "sound"
        BY <1>1, <1>4, <2>8, <4>2 DEF InSnapshot
      <4> QED BY <1>1, <1>3, <2>8, <4>1, <4>2 DEF InSnapshot, Dbs
    <3> QED BY <1>2, <2>1, <2>2, <2>6, <3>1 DEF InSnapshot
  <2> QED BY <1>1, <2>5, <2>7, <2>8 DEF Keeps
<1>6. CASE db[m].state = "damaged" /\ UNCHANGED << db, snap, best, round >>
  BY <1>1, <1>2, <1>6 DEF Keeps, Types, OthersSame, Same, InSnapshot, InDb
<1> QED BY <1>5, <1>6 DEF Backup

LEMMA RemoveKeeps ==
  ASSUME Types, NEW m \in Machines, Remove(m)
  PROVE  Keeps(m)
<1>1. /\ op[m].task = "remove" /\ UNCHANGED << snap, trash, edits, faults, best, gutted >>
  BY DEF Remove
<1>2. /\ db' \in [Machines -> Dbs] /\ db'[m].state = "absent"
      /\ \A k \in Machines : k # m => db'[k] = db[k]
  BY EmptyFacts DEF Remove, Types
<1>3. /\ op' \in [Machines -> Ops] /\ round' \in [Machines -> 0..2] /\ op'[m].task = "restore"
      /\ \A k \in Machines : k # m => op'[k].task = op[k].task /\ op'[k].left = op[k].left
  BY MoveOn, TaskFacts DEF Remove
<1> QED BY <1>1, <1>2, <1>3 DEF Keeps, Types, OthersSame, Same, InSnapshot, InDb

LEMMA RestoreKeeps ==
  ASSUME Types, NEW m \in Machines, RestoreFromTrash(m)
  PROVE  Keeps(m)
<1>1. /\ op[m].task = "restore" /\ UNCHANGED << snap, trash, edits, faults, best, gutted >>
  BY DEF RestoreFromTrash
<1>2. /\ op' \in [Machines -> Ops] /\ round' \in [Machines -> 0..2] /\ op'[m].task = "none"
      /\ \A k \in Machines : k # m => op'[k].task = op[k].task /\ op'[k].left = op[k].left
  BY MoveOn, TaskFacts DEF RestoreFromTrash
<1>3. \A v \in Words : best[m][v] \in Nat /\ Abs(trash[m].commits[v]) \in Nat
  BY PutFacts DEF Types, Snaps
<1>4. CASE trash[m].readable
  <2> DEFINE d == Merged(EmptyDb, trash[m], Words)
  <2>1. /\ d \in Dbs /\ d.state = "sound"
        /\ \A v \in Words : Abs(trash[m].commits[v]) <= Abs(d.commits[v])
    BY MergeFacts, EmptyFacts DEF Types
  <2>2. db' = [db EXCEPT ![m] = d]
    BY <1>4 DEF RestoreFromTrash, Restored
  <2> HIDE DEF d
  <2>3. /\ db' \in [Machines -> Dbs] /\ db'[m] = d
        /\ \A k \in Machines : k # m => db'[k] = db[k]
    BY <2>1, <2>2 DEF Types
  <2>4. \A v \in Words : Abs(d.commits[v]) \in Nat
    BY <2>1, PutFacts DEF Dbs
  <2>5. Types' /\ OthersSame(m)
    BY <1>1, <1>2, <2>3 DEF Types, OthersSame, Same
  <2>6. InDb(m) => InDb(m)'
    BY <1>1, <1>2, <1>3, <2>1, <2>3, <2>4 DEF InDb
  <2>7. InSnapshot(m) => InSnapshot(m)'
    BY <1>1, <1>2, <2>1, <2>3 DEF InSnapshot
  <2> QED BY <1>1, <2>5, <2>6, <2>7 DEF Keeps
<1>5. CASE ~trash[m].readable
  <2>1. db' = db
    BY <1>5 DEF RestoreFromTrash
  <2> QED
    BY <1>1, <1>2, <1>5, <2>1 DEF Keeps, Types, OthersSame, Same, InSnapshot, InDb
<1> QED BY <1>4, <1>5

LEMMA RecoveryKeeps ==
  ASSUME Types, NEW m \in Machines, Repair(m) \/ Recreate(m) \/ Reload(m)
  PROVE  Keeps(m)
<1>1. /\ op[m].task \in {"repair", "reload"}
      /\ UNCHANGED << snap, trash, edits, faults, best, gutted >>
  BY DEF Repair, Recreate, Reload
<1>2. /\ op' \in [Machines -> Ops] /\ round' \in [Machines -> 0..2]
      /\ op'[m].task \in {"none", "reload"}
      /\ \A k \in Machines : k # m => op'[k].task = op[k].task /\ op'[k].left = op[k].left
  BY MoveOn, TaskFacts DEF Repair, Recreate, Reload
<1>3. /\ db' \in [Machines -> Dbs]
      /\ db'[m].state = "damaged" => db'[m] = db[m]
      /\ \A k \in Machines : k # m => db'[k] = db[k]
  <2>1. CASE Repair(m)
    <3>1. /\ [db[m] EXCEPT !.state = "sound"] \in Dbs
          /\ [db[m] EXCEPT !.state = "sound"].state = "sound"
      BY DEF Types, Dbs
    <3> QED BY <2>1, <3>1 DEF Repair, Types
  <2>2. CASE Recreate(m)
    BY <2>2, EmptyFacts DEF Recreate, Types
  <2>3. CASE Reload(m) /\ snap[m].readable
    <3>1. Reloaded(snap[m], Words) \in Dbs /\ Reloaded(snap[m], Words).state = "sound"
      BY ReloadFacts DEF Types
    <3> QED BY <2>3, <3>1 DEF Reload, Types
  <2>4. CASE Reload(m) /\ ~snap[m].readable
    BY <2>4 DEF Reload, Types
  <2> QED BY <2>1, <2>2, <2>3, <2>4
<1>4. Types' /\ OthersSame(m)
  BY <1>1, <1>2, <1>3 DEF Types, OthersSame, Same
<1>5. InSnapshot(m) => InSnapshot(m)'
  BY <1>1, <1>2, <1>3 DEF InSnapshot
<1> QED BY <1>1, <1>4, <1>5 DEF Keeps, InDb

\* The snapshot in the trash may be cut short; then the other one is not.
LEMMA BackupToTrashFacts ==
  ASSUME Types, NEW m \in Machines, BackupToTrash(m)
  PROVE  Keeps(m) \/ Harms(m)
<1>1. /\ op[m].task = "none" /\ db[m].state # "absent"
      /\ UNCHANGED << snap, edits, best, gutted >>
  BY DEF BackupToTrash, Free
<1>2. /\ op' \in [Machines -> Ops] /\ round' \in [Machines -> 0..2] /\ op'[m].task = "remove"
      /\ \A k \in Machines : k # m => op'[k].task = op[k].task /\ op'[k].left = op[k].left
  BY MoveOn, TaskFacts DEF BackupToTrash
<1>3. db[m] \in Dbs
  BY DEF Types
<1>4. /\ db' \in [Machines -> Dbs] /\ db'[m].state = "sound" /\ db'[m].commits = db[m].commits
      /\ \A k \in Machines : k # m => db'[k] = db[k]
  <2>1. /\ [db[m] EXCEPT !.state = "sound"] \in Dbs
        /\ [db[m] EXCEPT !.state = "sound"].state = "sound"
        /\ [db[m] EXCEPT !.state = "sound"].commits = db[m].commits
    BY <1>3 DEF Dbs
  <2> QED BY <2>1 DEF BackupToTrash, Types
<1>5. InSnapshot(m) => InSnapshot(m)'
  BY <1>1, <1>2, <1>4 DEF InSnapshot
<1>6. CASE trash' = [trash EXCEPT ![m] = Snapshot(db[m])] /\ UNCHANGED faults
  <2>1. /\ trash' \in [Machines -> Snaps] /\ trash'[m].commits = db[m].commits
        /\ trash'[m].readable = TRUE
        /\ \A k \in Machines : k # m => trash'[k] = trash[k]
    BY <1>3, <1>6, SnapshotFacts DEF Types
  <2>2. InDb(m) => InDb(m)'
    BY <1>1, <1>2, <1>4, <2>1 DEF InDb
  <2> QED
    BY <1>1, <1>2, <1>4, <1>5, <1>6, <2>1, <2>2 DEF Keeps, Types, OthersSame, Same
<1>7. ASSUME NEW s \in CutShort(db[m]), trash' = [trash EXCEPT ![m] = s], faults' = faults + 1
      PROVE  Harms(m)
  <2>1. trash' \in [Machines -> Snaps] /\ \A k \in Machines : k # m => trash'[k] = trash[k]
    BY <1>3, <1>7, SnapshotFacts DEF Types
  <2> QED BY <1>1, <1>2, <1>4, <1>5, <1>7, <2>1 DEF Harms, Types, OthersSame, Same
<1> QED BY <1>6, <1>7 DEF BackupToTrash

-----------------------------------------------------------------------------
(* Faults.                                                                 *)

LEMMA FaultFacts ==
  ASSUME Types, NEW m \in Machines, Fault(m)
  PROVE  /\ op' \in [Machines -> Ops] /\ round' \in [Machines -> 0..2] /\ op'[m].task = "none"
         /\ \A k \in Machines : k # m => op'[k].task = op[k].task /\ op'[k].left = op[k].left
         /\ faults' = faults + 1 /\ UNCHANGED << edits, best >>
  BY MoveOn, TaskFacts DEF Fault

\* The db is left whole, or damaged with all it had, and the snapshot stays.
LEMMA DbMayBeDamaged ==
  ASSUME Types, NEW m \in Machines, Fault(m), NEW d \in Dbs, db' = [db EXCEPT ![m] = d],
         UNCHANGED << snap, trash, gutted >>,
         InDb(m) /\ d.state = "damaged" =>
           \A w \in Words : best[m][w] <= Abs(d.commits[w])
  PROVE  Harms(m)
<1>1. /\ op' \in [Machines -> Ops] /\ round' \in [Machines -> 0..2] /\ op'[m].task = "none"
      /\ \A k \in Machines : k # m => op'[k].task = op[k].task /\ op'[k].left = op[k].left
      /\ faults' = faults + 1 /\ UNCHANGED << edits, best >>
  BY FaultFacts
<1>2. /\ db' \in [Machines -> Dbs] /\ db'[m] = d
      /\ \A k \in Machines : k # m => db'[k] = db[k]
  BY DEF Types
<1>3. Types' /\ OthersSame(m)
  BY <1>1, <1>2 DEF Types, OthersSame, Same
<1>4. InSnapshot(m) /\ InDb(m) => InSnapshot(m)'
  BY <1>1, <1>2 DEF InSnapshot
<1> QED BY <1>1, <1>3, <1>4 DEF Harms

LEMMA CrashHarms ==
  ASSUME Types, NEW m \in Machines, Crash(m)
  PROVE  Harms(m)
<1>1. Fault(m) /\ UNCHANGED << snap, trash, gutted >> /\ db[m] \in Dbs
  BY DEF Crash, Types
<1>2. CASE db' = db
  <2>1. db' = [db EXCEPT ![m] = db[m]]
    BY <1>2 DEF Types
  <2>2. InDb(m) /\ db[m].state = "damaged" => \A w \in Words : best[m][w] <= Abs(db[m].commits[w])
    <3>1. CASE op[m].task = "restore"
      BY <3>1 DEF InDb
    <3>2. CASE op[m].task # "restore"
      BY <3>2 DEF InDb
    <3> QED BY <3>1, <3>2
  <2> QED BY <1>1, <2>1, <2>2, DbMayBeDamaged
<1>3. CASE Free(m) /\ db[m].state = "sound" /\ db' = [db EXCEPT ![m].state = "damaged"]
  <2> DEFINE d == [db[m] EXCEPT !.state = "damaged"]
  <2>1. d \in Dbs /\ d.commits = db[m].commits
    BY <1>1 DEF Dbs
  <2>2. db' = [db EXCEPT ![m] = d]
    BY <1>3
  <2>3. InDb(m) => \A w \in Words : best[m][w] <= Abs(db[m].commits[w])
    BY <1>3 DEF InDb, Free
  <2> HIDE DEF d
  <2> QED BY <1>1, <2>1, <2>2, <2>3, DbMayBeDamaged
<1> QED BY <1>2, <1>3 DEF Crash

LEMMA CrashInMergeHarms ==
  ASSUME Types, NEW m \in Machines, CrashInMerge(m)
  PROVE  Harms(m)
<1>1. PICK n \in op[m].left, part \in SUBSET Words :
        \E d \in Downed(Merged(db[m], snap[n], part)) : db' = [db EXCEPT ![m] = d]
  BY DEF CrashInMerge
<1>2. PICK d \in Downed(Merged(db[m], snap[n], part)) : db' = [db EXCEPT ![m] = d]
  BY <1>1
<1>3. /\ Fault(m) /\ UNCHANGED << snap, trash, gutted >> /\ op[m].task = "sync"
      /\ db[m] \in Dbs /\ snap[n] \in Snaps
  BY DEF CrashInMerge, Types, Ops
<1>4. /\ d \in Dbs
      /\ \A w \in Words : Abs(db[m].commits[w]) <= Abs(d.commits[w])
  BY <1>2, <1>3, MergeFacts, DownedFacts
<1>5. ASSUME InDb(m), NEW w \in Words
      PROVE  best[m][w] <= Abs(d.commits[w])
  <2>1. best[m][w] <= Abs(db[m].commits[w])
    BY <1>3, <1>5 DEF InDb
  <2>2. best[m][w] \in Nat /\ Abs(db[m].commits[w]) \in Nat /\ Abs(d.commits[w]) \in Nat
    BY <1>3, <1>4, PutFacts DEF Types, Dbs
  <2> QED BY <1>4, <2>1, <2>2
<1> QED BY <1>2, <1>3, <1>4, <1>5, DbMayBeDamaged

LEMMA CrashInRefillHarms ==
  ASSUME Types, NEW m \in Machines, CrashInRefill(m)
  PROVE  Harms(m)
<1> DEFINE Refilled(part) ==
             (IF op[m].task = "restore" /\ trash[m].readable THEN {Merged(EmptyDb, trash[m], part)} ELSE {})
             \cup (IF op[m].task = "reload" /\ snap[m].readable
                   THEN {Reloaded(snap[m], part)} ELSE {})
<1>1. PICK part \in SUBSET Words :
        \E refilled \in Refilled(part) : \E d \in Downed(refilled) :
          /\ db' = [db EXCEPT ![m] = d]
          /\ gutted' = IF d.state = "damaged" THEN gutted \cup {m} ELSE gutted
  BY DEF CrashInRefill
<1>2. PICK refilled \in Refilled(part) : \E d \in Downed(refilled) :
          /\ db' = [db EXCEPT ![m] = d]
          /\ gutted' = IF d.state = "damaged" THEN gutted \cup {m} ELSE gutted
  BY <1>1
<1>3. PICK d \in Downed(refilled) :
          /\ db' = [db EXCEPT ![m] = d]
          /\ gutted' = IF d.state = "damaged" THEN gutted \cup {m} ELSE gutted
  BY <1>2
<1>4. refilled \in Dbs
  <2>1. Merged(EmptyDb, trash[m], part) \in Dbs /\ Reloaded(snap[m], part) \in Dbs
    BY MergeFacts, EmptyFacts, ReloadFacts DEF Types
  <2> QED BY <1>2, <2>1
<1>5. d \in Dbs
  BY <1>3, <1>4, DownedFacts
<1>6. Fault(m) /\ UNCHANGED << snap, trash >>
  BY DEF CrashInRefill
<1>7. CASE d.state = "damaged"
  <2>1. /\ op' \in [Machines -> Ops] /\ round' \in [Machines -> 0..2]
        /\ \A k \in Machines : k # m => op'[k].task = op[k].task /\ op'[k].left = op[k].left
        /\ faults' = faults + 1 /\ UNCHANGED << edits, best >>
    BY <1>6, FaultFacts
  <2>2. /\ db' \in [Machines -> Dbs] /\ \A k \in Machines : k # m => db'[k] = db[k]
        /\ gutted' = gutted \cup {m}
    BY <1>3, <1>5, <1>7 DEF Types
  <2> QED BY <1>6, <2>1, <2>2 DEF Harms, Types, OthersSame, Same
<1>8. CASE d.state # "damaged"
  BY <1>3, <1>5, <1>6, <1>8, DbMayBeDamaged
<1> QED BY <1>7, <1>8

LEMMA CrashInBackupHarms ==
  ASSUME Types, NEW m \in Machines, CrashInBackup(m)
  PROVE  Harms(m)
<1>1. PICK s \in CutShort(db[m]) : snap' = [snap EXCEPT ![m] = s]
  BY DEF CrashInBackup
<1>2. /\ Fault(m) /\ UNCHANGED << db, trash, gutted >> /\ op[m].task = "sync"
      /\ db[m] \in Dbs /\ db[m].state = "sound"
  BY DEF CrashInBackup, Types
<1>3. /\ snap' \in [Machines -> Snaps] /\ \A k \in Machines : k # m => snap'[k] = snap[k]
  BY <1>1, <1>2, SnapshotFacts DEF Types
<1>4. /\ op' \in [Machines -> Ops] /\ round' \in [Machines -> 0..2] /\ op'[m].task = "none"
      /\ \A k \in Machines : k # m => op'[k].task = op[k].task /\ op'[k].left = op[k].left
      /\ faults' = faults + 1 /\ UNCHANGED << edits, best >>
  BY <1>2, FaultFacts
<1>5. Types' /\ OthersSame(m)
  BY <1>2, <1>3, <1>4 DEF Types, OthersSame, Same
<1>6. InDb(m) => InDb(m)'
  BY <1>2, <1>4 DEF InDb
<1> QED BY <1>2, <1>4, <1>5, <1>6 DEF Harms

LEMMA RestoreFailsHarms ==
  ASSUME Types, NEW m \in Machines, RestoreFails(m)
  PROVE  Harms(m)
<1>1. /\ op' \in [Machines -> Ops] /\ round' \in [Machines -> 0..2] /\ op'[m].task = "none"
      /\ \A k \in Machines : k # m => op'[k].task = op[k].task /\ op'[k].left = op[k].left
      /\ faults' = faults + 1 /\ UNCHANGED << edits, best >>
  BY FaultFacts DEF RestoreFails
<1>2. UNCHANGED << db, snap, trash, gutted >> /\ op[m].task = "restore"
  BY DEF RestoreFails
<1> QED BY <1>1, <1>2 DEF Harms, Types, OthersSame, Same, InSnapshot

-----------------------------------------------------------------------------
(* The theorem.                                                            *)

LEMMA SyncInit == Init => SInv
<1> SUFFICES ASSUME Init PROVE SInv
  OBVIOUS
<1>1. Types
  <2>1. NoUse \in [Words -> Nat]
    BY DEF NoUse
  <2>2. /\ db \in [Machines -> Dbs]
        /\ snap \in [Machines -> Snaps] /\ trash \in [Machines -> Snaps]
        /\ op \in [Machines -> Ops]
    BY EmptyFacts, TaskFacts DEF Init
  <2> QED BY <2>1, <2>2 DEF Init, Types
<1>2. ASSUME NEW m \in Machines
      PROVE  InSnapshot(m) /\ InDb(m)
  <2>1. /\ db[m].state = "sound" /\ op[m].task = "none"
        /\ \A w \in Words : best[m][w] = 0
    BY EmptyFacts, TaskFacts DEF Init, NoUse
  <2>2. \A w \in Words : Abs(db[m].commits[w]) \in Nat /\ Abs(snap[m].commits[w]) \in Nat
    BY <1>1, CountFacts DEF Types
  <2> QED BY <2>1, <2>2 DEF InSnapshot, InDb
<1> QED BY <1>1, <1>2 DEF Init, SInv, Kept

LEMMA SyncStep == SInv /\ [Next]_vars => SInv'
<1> SUFFICES ASSUME SInv, [Next]_vars PROVE SInv'
  OBVIOUS
<1>1. Types /\ Kept
  BY DEF SInv
<1>2. CASE Next
  <2>1. PICK m \in Machines :
          \/ Load(m) \/ (\E w \in Words : Use(m, w) \/ Delete(m, w))
          \/ StartSync(m) \/ (\E n \in Machines : Merge(m, n))
          \/ Backup(m)
          \/ BackupToTrash(m) \/ Remove(m) \/ RestoreFromTrash(m)
          \/ Repair(m) \/ Recreate(m) \/ Reload(m)
          \/ Crash(m) \/ CrashInMerge(m) \/ CrashInRefill(m) \/ CrashInBackup(m) \/ RestoreFails(m)
    BY <1>2 DEF Next
  <2>2. Keeps(m) \/ Harms(m)
    BY <1>1, <2>1, LoadKeeps, UseKeeps, DeleteKeeps, StartSyncKeeps, MergeKeeps, BackupKeeps,
       BackupToTrashFacts, RemoveKeeps, RestoreKeeps, RecoveryKeeps, CrashHarms,
       CrashInMergeHarms, CrashInRefillHarms, CrashInBackupHarms, RestoreFailsHarms
  <2> QED BY <1>1, <2>2, KeptStep DEF SInv, Keeps, Harms
<1>3. CASE UNCHANGED vars
  BY <1>1, <1>3 DEF vars, SInv, Types, Kept, InSnapshot, InDb
<1> QED BY <1>2, <1>3

\* What a machine has once backed up it never loses to a single fault.
THEOREM BackedUpStays == Spec => []BackedUpIsKept
<1>1. SInv => BackedUpIsKept
  <2> SUFFICES ASSUME SInv, faults <= 1, NEW m \in Machines \ gutted, NEW w \in Words
               PROVE  best[m][w] <= OnRecord(m, w)
    BY DEF BackedUpIsKept
  <2>1. /\ snap[m] \in Snaps /\ trash[m] \in Snaps /\ db[m] \in Dbs /\ best[m][w] \in Nat
        /\ Abs(snap[m].commits[w]) \in Nat /\ Abs(db[m].commits[w]) \in Nat
        /\ Abs(trash[m].commits[w]) \in Nat
    BY CountFacts DEF SInv, Types
  <2>2. InSnapshot(m) \/ InDb(m)
    BY DEF SInv, Types, Kept
  <2>3. ~snap[m].readable => Abs(snap[m].commits[w]) = 0
    BY <2>1 DEF Snaps, Abs
  <2>4. CASE InSnapshot(m)
    BY <2>1, <2>3, <2>4 DEF InSnapshot, OnRecord, Larger
  <2>5. CASE InDb(m)
    <3>1. CASE op[m].task = "restore"
      BY <2>1, <2>5, <3>1 DEF InDb, OnRecord, Larger
    <3>2. CASE op[m].task # "restore"
      BY <2>1, <2>5, <3>2 DEF InDb, OnRecord, Larger
    <3> QED BY <3>1, <3>2
  <2> QED BY <2>2, <2>4, <2>5
<1> QED BY <1>1, SyncInit, SyncStep, PTL DEF Spec

-----------------------------------------------------------------------------
(* Rounds of synchronizing.  While nothing else is done, no count of uses   *)
(* is lost: it stays in the db of a machine that has not synchronized yet,  *)
(* and in the snapshot of one that has (Floor).                             *)

Uses(m, w) == Abs(db[m].commits[w])
Told(m, w) == Abs(snap[m].commits[w])
Floor(m, w) == IF round[m] = 0 THEN Uses(m, w) ELSE Told(m, w)

\* What the snapshot of k tells, m has merged, or else k will tell it again.
Heard(m, k, w) == Told(k, w) <= Uses(m, w) \/ Told(k, w) <= Uses(k, w)

\* A machine that has synchronized has heard every other, and whatever it has
\* is still told by one that has, or had by one that has not.
Once(m) ==
  round[m] > 0 =>
    /\ db[m].state = "sound"
    /\ \A w \in Words :
         /\ Told(m, w) <= Uses(m, w)
         /\ \E n \in Machines : Uses(m, w) <= Floor(n, w)
         /\ \A k \in Machines : Heard(m, k, w)

\* One that synchronizes has heard those it has merged.
Syncing(m) ==
  op[m].task = "sync" /\ op[m].counts =>
    /\ db[m].state # "absent"
    /\ db[m].state = "sound" => \A k \in Machines \ op[m].left, w \in Words : Heard(m, k, w)

\* One that does so after all the others had has merged all that those have
\* told since, or has still to merge a snapshot that tells as much.
Late(m) ==
  op[m].task = "sync" /\ op[m].counts /\ op[m].late =>
    /\ \A k \in Machines : round[k] > 0
    /\ \A k \in Machines \ op[m].left, w \in Words :
         \/ Told(k, w) <= Uses(m, w)
         \/ \E j \in op[m].left : Told(k, w) <= Told(j, w)

\* And then it has all that any snapshot tells.
Twice(m) ==
  round[m] = 2 =>
    /\ \A k \in Machines : round[k] > 0
    /\ \A k \in Machines, w \in Words : Told(k, w) <= Uses(m, w)

Rounds == \A m \in Machines : Once(m) /\ Syncing(m) /\ Late(m) /\ Twice(m)

LEMMA UsesFacts ==
  ASSUME Types, NEW m \in Machines, NEW w \in Words
  PROVE  Uses(m, w) \in Nat /\ Told(m, w) \in Nat /\ Floor(m, w) \in Nat
  BY CountFacts DEF Types, Uses, Told, Floor

\* Whatever else is done, the rounds start anew.
LEMMA NewRounds ==
  ASSUME Types, NEW tasks \in [Machines -> Ops], StartAnew(tasks)
  PROVE  Rounds'
<1> SUFFICES ASSUME NEW m \in Machines
             PROVE  Once(m)' /\ Syncing(m)' /\ Late(m)' /\ Twice(m)'
  BY DEF Rounds
<1>1. tasks[m] \in Ops /\ op'[m] = [tasks[m] EXCEPT !.counts = FALSE]
  BY DEF StartAnew
<1>2. round'[m] = 0 /\ op'[m].counts = FALSE
  BY <1>1 DEF StartAnew, Ops
<1>3. Once(m)' /\ Twice(m)'
  BY <1>2 DEF Once, Twice
<1>4. Syncing(m)' /\ Late(m)'
  BY <1>2 DEF Syncing, Late
<1> QED BY <1>3, <1>4

LEMMA StartSyncRounds ==
  ASSUME Types, Rounds, NEW m \in Machines, StartSync(m)
  PROVE  Rounds'
<1>1. /\ UNCHANGED << db, snap, round >>
      /\ db[m].state # "absent"
      /\ op'[m].task = "sync" /\ op'[m].left = Machines
      /\ op'[m].late => \A n \in Machines : round[n] > 0
      /\ \A k \in Machines : k # m => op'[k] = op[k]
  BY DEF StartSync, Begin, Types
<1>2. \A k \in Machines, w \in Words :
        Uses(k, w)' = Uses(k, w) /\ Told(k, w)' = Told(k, w) /\ Floor(k, w)' = Floor(k, w)
  BY <1>1 DEF Uses, Told, Floor
<1> SUFFICES ASSUME NEW k \in Machines
             PROVE  Once(k)' /\ Syncing(k)' /\ Late(k)' /\ Twice(k)'
  BY DEF Rounds
<1>3. Once(k) /\ Syncing(k) /\ Late(k) /\ Twice(k)
  BY DEF Rounds
<1>4. Once(k)' /\ Twice(k)'
  BY <1>1, <1>2, <1>3 DEF Once, Twice, Heard
<1>5. Syncing(k)'
  BY <1>1, <1>2, <1>3 DEF Syncing, Heard
<1>6. Late(k)'
  <2>1. CASE k = m
    BY <1>1, <2>1 DEF Late
  <2>2. CASE k # m
    <3>1. op'[k] = op[k] /\ round' = round
      BY <1>1, <2>2
    <3>2. Late(k) /\ op[k].left \subseteq Machines
      BY <1>3 DEF Types, Ops
    <3> QED BY <1>2, <3>1, <3>2 DEF Late
  <2> QED BY <2>1, <2>2
<1> QED BY <1>4, <1>5, <1>6

\* What a merge does to the counts: it takes over those that are greater.
LEMMA MergeCounts ==
  ASSUME Types, NEW m \in Machines, NEW n \in Machines, Merge(m, n)
  PROVE  /\ UNCHANGED << snap, round >>
         /\ n \in op[m].left
         /\ op'[m].task = "sync" /\ op'[m].left = op[m].left \ {n}
         /\ op'[m].counts = op[m].counts /\ op'[m].late = op[m].late
         /\ \A k \in Machines : k # m => op'[k] = op[k] /\ db'[k] = db[k]
         /\ db'[m].state = db[m].state
         /\ \A w \in Words :
              /\ Uses(m, w) <= Uses(m, w)'
              /\ Uses(m, w)' = Uses(m, w) \/ (Uses(m, w)' = Told(n, w) /\ db[m].state = "sound")
              /\ db[m].state = "sound" => Told(n, w) <= Uses(m, w)'
<1>1. /\ UNCHANGED << snap, round >>
      /\ n \in op[m].left
      /\ op'[m].task = "sync" /\ op'[m].left = op[m].left \ {n}
      /\ op'[m].counts = op[m].counts /\ op'[m].late = op[m].late
      /\ \A k \in Machines : k # m => op'[k] = op[k]
  BY DEF Merge, Types, Ops
<1>2. /\ \A k \in Machines : k # m => db'[k] = db[k]
      /\ snap[n].readable /\ db[m].state = "sound" => db'[m] = Merged(db[m], snap[n], Words)
      /\ ~(snap[n].readable /\ db[m].state = "sound") => db'[m] = db[m]
  BY DEF Merge, Types, Restored
<1>3. db[m] \in Dbs /\ snap[n] \in Snaps
  BY DEF Types
<1>4. \A w \in Words : Uses(m, w) \in Nat /\ Told(n, w) \in Nat
  BY UsesFacts
<1>5. CASE snap[n].readable /\ db[m].state = "sound"
  <2>1. /\ db'[m].state = db[m].state
        /\ \A w \in Words : Uses(m, w) <= Uses(m, w)' /\ Told(n, w) <= Uses(m, w)'
    BY <1>2, <1>3, <1>5, MergeFacts DEF Uses, Told
  <2>2. ASSUME NEW w \in Words
        PROVE  Uses(m, w)' \in {Uses(m, w), Told(n, w)}
    <3>1. db'[m].commits[w] = Put(db[m].commits[w], snap[n].commits[w])
      BY <1>2, <1>3, <1>5 DEF Merged, Dbs
    <3> QED BY <3>1 DEF Put, Uses, Told
  <2>3. ASSUME NEW w \in Words
        PROVE  /\ Uses(m, w) <= Uses(m, w)' /\ Told(n, w) <= Uses(m, w)'
               /\ Uses(m, w)' = Uses(m, w) \/ Uses(m, w)' = Told(n, w)
    BY <2>1, <2>2
  <2> QED BY <1>1, <1>2, <1>5, <2>1, <2>3
<1>6. CASE ~(snap[n].readable /\ db[m].state = "sound")
  <2>1. db'[m] = db[m] /\ \A w \in Words : Uses(m, w)' = Uses(m, w)
    BY <1>2, <1>6 DEF Uses
  <2>2. db[m].state = "sound" => \A w \in Words : Told(n, w) = 0
    BY <1>3, <1>6 DEF Snaps, Told, Abs
  <2>3. ASSUME NEW w \in Words
        PROVE  /\ Uses(m, w) <= Uses(m, w)' /\ Uses(m, w)' = Uses(m, w)
               /\ db[m].state = "sound" => Told(n, w) <= Uses(m, w)'
    BY <1>4, <2>1, <2>2
  <2> QED BY <1>1, <1>2, <2>1, <2>3
<1> QED BY <1>5, <1>6

\* A merge keeps the invariant.
LEMMA MergeRounds ==
  ASSUME Types, Rounds, NEW m \in Machines, NEW n \in Machines, Merge(m, n)
  PROVE  Rounds'
<1>1. /\ UNCHANGED << snap, round >>
      /\ n \in op[m].left
      /\ op'[m].task = "sync" /\ op'[m].left = op[m].left \ {n}
      /\ op'[m].counts = op[m].counts /\ op'[m].late = op[m].late
      /\ \A k \in Machines : k # m => op'[k] = op[k] /\ db'[k] = db[k]
      /\ db'[m].state = db[m].state
  BY MergeCounts
<1>2. \A w \in Words :
        /\ Uses(m, w) <= Uses(m, w)'
        /\ Uses(m, w)' = Uses(m, w) \/ (Uses(m, w)' = Told(n, w) /\ db[m].state = "sound")
        /\ db[m].state = "sound" => Told(n, w) <= Uses(m, w)'
  BY MergeCounts
<1>3. op[m].task = "sync" /\ op[m].left \subseteq Machines
  BY DEF Merge, Types, Ops
<1>4. \A k \in Machines, w \in Words :
        /\ k # m => Uses(k, w)' = Uses(k, w)
        /\ Told(k, w)' = Told(k, w)
        /\ Uses(k, w) \in Nat /\ Told(k, w) \in Nat /\ Floor(k, w) \in Nat
  BY <1>1, UsesFacts DEF Uses, Told
<1>5. \A k \in Machines, w \in Words :
        /\ Uses(k, w)' \in Nat /\ Uses(k, w) <= Uses(k, w)'
        /\ Floor(k, w)' \in Nat /\ Floor(k, w) <= Floor(k, w)'
  BY <1>1, <1>2, <1>4 DEF Floor
<1>6. ASSUME NEW k \in Machines, NEW w \in Words, NEW j \in Machines, Heard(k, j, w)
      PROVE  Heard(k, j, w)'
  BY <1>4, <1>5, <1>6 DEF Heard
<1> SUFFICES ASSUME NEW k \in Machines
             PROVE  Once(k)' /\ Syncing(k)' /\ Late(k)' /\ Twice(k)'
  BY DEF Rounds
<1>7. Once(k) /\ Syncing(k) /\ Late(k) /\ Twice(k) /\ round[n] \in 0..2
  BY DEF Rounds, Types
<1>8. Once(k)'
  <2> SUFFICES ASSUME round[k] > 0, NEW w \in Words
               PROVE  /\ Told(k, w)' <= Uses(k, w)'
                      /\ \E j \in Machines : Uses(k, w)' <= Floor(j, w)'
                      /\ \A j \in Machines : Heard(k, j, w)'
    <3>1. round'[k] = round[k] /\ (round[k] > 0 => db'[k].state = "sound")
      BY <1>1, <1>7 DEF Once
    <3> QED BY <3>1 DEF Once
  <2>1. /\ db[k].state = "sound" /\ Told(k, w) <= Uses(k, w)
        /\ \E j \in Machines : Uses(k, w) <= Floor(j, w)
        /\ \A j \in Machines : Heard(k, j, w)
    BY <1>7 DEF Once
  <2>2. \E j \in Machines : Uses(k, w) <= Floor(j, w)'
    BY <1>4, <1>5, <2>1
  <2>3. CASE Uses(k, w)' = Uses(k, w)
    BY <1>1, <1>4, <1>6, <2>1, <2>2, <2>3
  <2>4. CASE Uses(k, w)' # Uses(k, w)
    <3>1. k = m /\ Uses(k, w)' = Told(n, w)
      BY <1>2, <1>4, <2>4
    <3>2. Heard(k, n, w)
      BY <2>1
    <3>3. Told(n, w) <= Uses(n, w)
      BY <1>4, <1>5, <2>4, <3>1, <3>2 DEF Heard
    <3>4. Told(n, w) <= Floor(n, w)
      BY <1>4, <3>3 DEF Floor
    <3>5. Uses(k, w)' <= Floor(n, w)'
      BY <1>4, <1>5, <3>1, <3>4
    <3> QED BY <1>1, <1>4, <1>5, <1>6, <2>1, <3>5
  <2> QED BY <2>3, <2>4
<1>9. Syncing(k)'
  <2>1. CASE k = m
    <3>1. ASSUME op[k].counts, db[k].state = "sound", NEW j \in Machines \ (op[k].left \ {n}), NEW w \in Words
          PROVE  Heard(k, j, w)'
      <4>1. CASE j = n
        BY <1>2, <1>4, <2>1, <3>1, <4>1 DEF Heard
      <4>2. CASE j # n
        <5>1. Heard(k, j, w)
          BY <1>3, <1>7, <2>1, <3>1, <4>2 DEF Syncing
        <5> QED BY <1>6, <5>1
      <4> QED BY <4>1, <4>2
    <3> QED BY <1>1, <1>3, <1>7, <2>1, <3>1 DEF Syncing
  <2>2. CASE k # m
    BY <1>1, <1>6, <1>7, <2>2 DEF Syncing
  <2> QED BY <2>1, <2>2
<1>10. Late(k)'
  <2> SUFFICES ASSUME op[k].task = "sync", op[k].counts, op[k].late,
                      NEW j \in Machines \ op'[k].left, NEW w \in Words
               PROVE  \/ Told(j, w) <= Uses(k, w)'
                      \/ \E i \in op'[k].left : Told(j, w) <= Told(i, w)
    <3>1. op'[k].left \subseteq Machines
      BY <1>1, <1>3 DEF Types, Ops
    <3>2. /\ op'[k].task = op[k].task /\ op'[k].counts = op[k].counts
          /\ op'[k].late = op[k].late
      BY <1>1, <1>3
    <3>3. Late(k)' <=>
            (op[k].task = "sync" /\ op[k].counts /\ op[k].late =>
              /\ \A i \in Machines : round[i] > 0
              /\ \A j \in Machines \ op'[k].left, w \in Words :
                   \/ Told(j, w)' <= Uses(k, w)'
                   \/ \E i \in op'[k].left : Told(j, w)' <= Told(i, w)')
      BY <1>1, <3>2 DEF Late
    <3>4. Late(k) => (op[k].task = "sync" /\ op[k].counts /\ op[k].late =>
                        \A i \in Machines : round[i] > 0)
      BY DEF Late
    <3> QED BY <1>4, <1>7, <3>1, <3>3, <3>4
  <2>1. \A i \in Machines : round[i] > 0
    BY <1>7 DEF Late
  <2>2. CASE k # m
    <3>1. op'[k] = op[k] /\ Uses(k, w)' = Uses(k, w)
      BY <1>1, <1>4, <2>2
    <3>2. \/ Told(j, w) <= Uses(k, w)
          \/ \E i \in op[k].left : Told(j, w) <= Told(i, w)
      BY <1>7, <3>1 DEF Late
    <3> QED BY <2>1, <3>1, <3>2
  <2>3. CASE k = m /\ j = n
    <3>1. db[m].state = "sound"
      BY <1>7, <2>1, <2>3 DEF Once
    <3> QED BY <1>2, <2>1, <2>3, <3>1
  <2>4. CASE k = m /\ j # n
    <3>1. db[m].state = "sound"
      BY <1>7, <2>1, <2>4 DEF Once
    <3>2. Told(n, w) <= Uses(m, w)' /\ Uses(m, w) <= Uses(m, w)'
      BY <1>2, <3>1
    <3>3. Told(j, w) <= Uses(m, w) \/ \E i \in op[m].left : Told(j, w) <= Told(i, w)
      BY <1>1, <1>7, <2>4 DEF Late
    <3>4. CASE Told(j, w) <= Uses(m, w)
      BY <1>4, <1>5, <2>1, <2>4, <3>2, <3>4
    <3>5. ASSUME NEW i \in op[m].left, Told(j, w) <= Told(i, w)
          PROVE  Told(j, w) <= Uses(m, w)' \/ i \in op'[m].left
      BY <1>1, <1>3, <1>4, <1>5, <3>2, <3>5
    <3> QED BY <2>1, <2>4, <3>3, <3>4, <3>5
  <2> QED BY <2>2, <2>3, <2>4
<1>11. Twice(k)'
  BY <1>1, <1>4, <1>5, <1>7 DEF Twice
<1> QED BY <1>8, <1>9, <1>10, <1>11

\* What a backup does: the snapshot tells all that the db has, and if the sync
\* counts the machine is one round further.
LEMMA BackupCounts ==
  ASSUME Types, NEW m \in Machines, Backup(m)
  PROVE  /\ op[m].task = "sync" /\ op[m].left = {} /\ op'[m].task = "none"
         /\ \A k \in Machines : k # m => /\ op'[k] = op[k] /\ db'[k] = db[k]
                                       /\ snap'[k] = snap[k] /\ round'[k] = round[k]
         /\ db'[m].commits = db[m].commits
         /\ \/ UNCHANGED << db, snap, round >> /\ db[m].state = "damaged"
            \/ /\ db'[m].state = "sound"
               /\ snap'[m].commits = db[m].commits
               /\ \/ round'[m] = round[m]
                  \/ /\ op[m].counts /\ db[m].state # "damaged"
                     /\ \/ op[m].late /\ round'[m] = 2
                        \/ round'[m] = (IF round[m] = 2 THEN 2 ELSE 1)
<1>1. /\ op[m].task = "sync" /\ op[m].left = {} /\ op'[m].task = "none"
      /\ \A k \in Machines : k # m => op'[k] = op[k]
  BY DEF Backup, Types, Idle
<1>2. CASE db[m].state = "damaged" /\ UNCHANGED << db, snap, best, round >>
  BY <1>1, <1>2
<1>3. CASE /\ db' = [db EXCEPT ![m].state = "sound"]
           /\ snap' = [snap EXCEPT ![m] = Snapshot(db[m])]
           /\ round' = [round EXCEPT ![m] =
                          IF db[m].state = "damaged" \/ ~op[m].counts THEN @
                          ELSE IF op[m].late THEN 2 ELSE Larger(@, 1)]
  <2>1. db[m] \in Dbs /\ round[m] \in 0..2
    BY DEF Types
  <2>2. /\ \A k \in Machines : k # m => /\ db'[k] = db[k] /\ snap'[k] = snap[k]
                                       /\ round'[k] = round[k]
        /\ db'[m].state = "sound" /\ db'[m].commits = db[m].commits
        /\ snap'[m].commits = db[m].commits
    BY <1>3, <2>1, SnapshotFacts DEF Types, Dbs
  <2>3. round'[m] = IF db[m].state = "damaged" \/ ~op[m].counts THEN round[m]
                    ELSE IF op[m].late THEN 2 ELSE Larger(round[m], 1)
    BY <1>3 DEF Types
  <2>4. Larger(round[m], 1) = (IF round[m] = 2 THEN 2 ELSE 1)
    BY <2>1 DEF Larger
  <2> QED BY <1>1, <2>2, <2>3, <2>4
<1> QED BY <1>2, <1>3 DEF Backup

\* A backup keeps the invariant.
LEMMA BackupRounds ==
  ASSUME Types, Rounds, NEW m \in Machines, Backup(m)
  PROVE  Rounds'
<1>1. /\ op[m].task = "sync" /\ op[m].left = {} /\ op'[m].task = "none"
      /\ \A k \in Machines : k # m => /\ op'[k] = op[k] /\ db'[k] = db[k]
                                    /\ snap'[k] = snap[k] /\ round'[k] = round[k]
      /\ db'[m].commits = db[m].commits
  BY BackupCounts
<1>2. /\ \A k \in Machines, w \in Words :
           Uses(k, w)' = Uses(k, w) /\ (k # m => Told(k, w)' = Told(k, w))
      /\ \A k \in Machines, w \in Words :
           Uses(k, w) \in Nat /\ Told(k, w) \in Nat /\ Floor(k, w) \in Nat
      /\ \A k \in Machines : round[k] \in 0..2 /\ op[k].left \subseteq Machines
  BY <1>1, UsesFacts DEF Uses, Told, Types, Ops
<1>3. \A k \in Machines : Once(k) /\ Syncing(k) /\ Late(k) /\ Twice(k)
  BY DEF Rounds
<1> SUFFICES ASSUME NEW k \in Machines
             PROVE  Once(k)' /\ Syncing(k)' /\ Late(k)' /\ Twice(k)'
  BY DEF Rounds
<1>4. CASE UNCHANGED << db, snap, round >>
  <2>1. \A j \in Machines, w \in Words :
          Told(j, w)' = Told(j, w) /\ Floor(j, w)' = Floor(j, w)
    BY <1>2, <1>4 DEF Told, Floor
  <2>2. Once(k)' /\ Twice(k)'
    BY <1>2, <1>3, <1>4, <2>1 DEF Once, Twice, Heard
  <2>3. CASE k = m
    BY <1>1, <2>2, <2>3 DEF Syncing, Late
  <2>4. CASE k # m
    <3>1. op'[k] = op[k]
      BY <1>1, <2>4
    <3>2. Syncing(k)'
      BY <1>2, <1>3, <1>4, <2>1, <3>1 DEF Syncing, Heard
    <3>3. Late(k)'
      BY <1>2, <1>3, <1>4, <2>1, <3>1 DEF Late
    <3> QED BY <2>2, <3>2, <3>3
  <2> QED BY <2>3, <2>4
<1>5. CASE /\ db'[m].state = "sound"
           /\ snap'[m].commits = db[m].commits
           /\ \/ round'[m] = round[m]
              \/ /\ op[m].counts /\ db[m].state # "damaged"
                 /\ \/ op[m].late /\ round'[m] = 2
                    \/ round'[m] = (IF round[m] = 2 THEN 2 ELSE 1)
  <2>1. \A w \in Words : Told(m, w)' = Uses(m, w)
    BY <1>5 DEF Uses, Told
  <2>2. \A j \in Machines : round[j] > 0 => db[j].state = "sound" /\ \A w \in Words : Told(j, w) <= Uses(j, w)
    BY <1>3 DEF Once
  <2>3. \A j \in Machines, w \in Words : Floor(j, w) <= Floor(j, w)'
    BY <1>1, <1>2, <2>1, <2>2 DEF Floor
  <2>4. ASSUME NEW i \in Machines, NEW j \in Machines, NEW w \in Words, Heard(i, j, w)
        PROVE  Heard(i, j, w)'
    BY <1>2, <2>1, <2>4 DEF Heard
  <2>5. CASE k # m
    <3>1. /\ op'[k] = op[k] /\ db'[k] = db[k] /\ round'[k] = round[k]
          /\ \A w \in Words : Told(k, w)' = Told(k, w) /\ Uses(k, w)' = Uses(k, w)
      BY <1>1, <1>2, <2>5
    <3>2. Once(k)'
      <4> SUFFICES ASSUME round[k] > 0, NEW w \in Words
                   PROVE  \E n \in Machines : Uses(k, w) <= Floor(n, w)'
        BY <1>3, <2>2, <2>4, <3>1 DEF Once
      <4>1. PICK n \in Machines : Uses(k, w) <= Floor(n, w)
        BY <1>3 DEF Once
      <4>2. Floor(n, w)' \in Nat
        BY <1>2, <2>1 DEF Floor
      <4> QED BY <1>2, <2>3, <4>1, <4>2
    <3>3. Syncing(k)'
      BY <1>3, <2>4, <3>1 DEF Syncing
    <3>4. ASSUME \A i \in Machines : round[i] > 0
          PROVE  /\ \A i \in Machines : round'[i] > 0
                 /\ \A w \in Words : \E i \in Machines : Told(m, w)' <= Told(i, w)
                 /\ \A i \in Machines, w \in Words : Told(i, w) <= Told(i, w)'
      <4>1. \A i \in Machines : round'[i] > 0
        BY <1>1, <1>2, <1>5, <3>4
      <4>2. ASSUME NEW w \in Words
            PROVE  \E i \in Machines : Told(m, w)' <= Told(i, w)
        BY <1>3, <2>1, <3>4 DEF Once, Floor
      <4>3. ASSUME NEW i \in Machines, NEW w \in Words
            PROVE  Told(i, w) <= Told(i, w)'
        BY <1>2, <2>1, <2>2, <3>4
      <4> QED BY <4>1, <4>2, <4>3
    <3>5. Late(k)'
      <4> SUFFICES ASSUME op[k].task = "sync", op[k].counts, op[k].late,
                          NEW j \in Machines \ op[k].left, NEW w \in Words
                   PROVE  \/ Told(j, w)' <= Uses(k, w)
                          \/ \E i \in op[k].left : Told(j, w)' <= Told(i, w)'
        <5>1. Late(k)' <=>
                (op[k].task = "sync" /\ op[k].counts /\ op[k].late =>
                  /\ \A i \in Machines : round'[i] > 0
                  /\ \A j \in Machines \ op[k].left, w \in Words :
                       \/ Told(j, w)' <= Uses(k, w)'
                       \/ \E i \in op[k].left : Told(j, w)' <= Told(i, w)')
          BY <3>1 DEF Late
        <5>2. op[k].task = "sync" /\ op[k].counts /\ op[k].late =>
                \A i \in Machines : round'[i] > 0
          BY <1>3, <3>4 DEF Late
        <5> QED BY <3>1, <5>1, <5>2
      <4>1. /\ \A i \in Machines : round[i] > 0
            /\ \A i \in Machines \ op[k].left :
                 \/ Told(i, w) <= Uses(k, w)
                 \/ \E h \in op[k].left : Told(i, w) <= Told(h, w)
        BY <1>3 DEF Late
      <4>2. PICK i \in Machines : Told(j, w)' <= Told(i, w) /\ (j # m => i = j)
        <5>1. CASE j = m
          BY <3>4, <4>1, <5>1
        <5>2. CASE j # m
          BY <1>2, <5>2
        <5> QED BY <5>1, <5>2
      <4>3. Told(j, w)' \in Nat /\ \A h \in Machines : Told(h, w) \in Nat /\ Told(h, w)' \in Nat
        BY <1>2, <2>1
      <4>4. CASE i \in op[k].left
        BY <1>2, <3>4, <4>1, <4>2, <4>3, <4>4
      <4>5. CASE i \notin op[k].left /\ Told(i, w) <= Uses(k, w)
        BY <1>2, <4>2, <4>3, <4>5
      <4>6. ASSUME NEW h \in op[k].left, Told(i, w) <= Told(h, w)
            PROVE  Told(j, w)' <= Told(h, w)'
        BY <1>2, <3>4, <4>1, <4>2, <4>3, <4>6
      <4> QED BY <4>1, <4>4, <4>5, <4>6
    <3>6. Twice(k)'
      <4> SUFFICES ASSUME round[k] = 2
                   PROVE  /\ \A j \in Machines : round'[j] > 0
                          /\ \A j \in Machines, w \in Words : Told(j, w)' <= Uses(k, w)
        BY <3>1 DEF Twice
      <4>1. /\ \A j \in Machines : round[j] > 0
            /\ \A j \in Machines, w \in Words : Told(j, w) <= Uses(k, w)
        BY <1>3 DEF Twice
      <4>2. ASSUME NEW w \in Words
            PROVE  Told(m, w)' <= Uses(k, w)
        BY <1>2, <2>1, <3>4, <4>1
      <4> QED BY <1>2, <3>4, <4>1, <4>2
    <3> QED BY <3>2, <3>3, <3>5, <3>6
  <2>6. CASE k = m
    <3>1. Syncing(k)' /\ Late(k)'
      BY <1>1, <2>6 DEF Syncing, Late
    <3>2. ASSUME round'[m] > 0
          PROVE  \A j \in Machines, w \in Words : Heard(m, j, w)
      <4>1. CASE round[m] > 0
        BY <1>3, <4>1 DEF Once
      <4>2. CASE ~(round[m] > 0)
        <5>1. op[m].counts /\ db[m].state # "damaged"
          BY <1>2, <1>5, <3>2, <4>2
        <5>2. db[m].state = "sound"
          BY <1>1, <1>3, <5>1 DEF Syncing, Types, Dbs
        <5> QED BY <1>1, <1>3, <5>1, <5>2 DEF Syncing
      <4> QED BY <4>1, <4>2
    <3>3. Once(k)'
      <4> SUFFICES ASSUME round'[m] > 0, NEW w \in Words
                   PROVE  /\ Told(m, w)' <= Uses(m, w)'
                          /\ \E n \in Machines : Uses(m, w)' <= Floor(n, w)'
                          /\ \A j \in Machines : Heard(m, j, w)'
        BY <1>5, <2>6 DEF Once
      <4>1. Told(m, w)' = Uses(m, w)' /\ Floor(m, w)' = Uses(m, w)' /\ Uses(m, w)' \in Nat
        BY <1>2, <2>1 DEF Floor
      <4> QED BY <2>4, <3>2, <4>1
    <3>4. Twice(k)'
      <4> SUFFICES ASSUME round'[m] = 2
                   PROVE  /\ \A j \in Machines : round'[j] > 0
                          /\ \A j \in Machines, w \in Words : Told(j, w)' <= Uses(m, w)
        BY <1>2, <2>6 DEF Twice
      <4>1. /\ \A j \in Machines : round[j] > 0
            /\ \A j \in Machines, w \in Words : Told(j, w) <= Uses(m, w)
        <5>1. CASE round[m] = 2
          BY <1>3, <5>1 DEF Twice
        <5>2. CASE round[m] # 2
          <6>1. op[m].counts /\ op[m].late
            BY <1>2, <1>5, <5>2
          <6> QED BY <1>1, <1>3, <6>1 DEF Late
        <5> QED BY <5>1, <5>2
      <4>2. \A j \in Machines : round'[j] > 0
        BY <1>1, <4>1
      <4>3. \A j \in Machines, w \in Words : Told(j, w)' <= Uses(m, w)
        BY <1>2, <2>1, <4>1
      <4> QED BY <4>2, <4>3
    <3> QED BY <2>6, <3>1, <3>3, <3>4
  <2> QED BY <2>5, <2>6
<1> QED BY <1>4, <1>5, BackupCounts

LEMMA RoundsInit == Init => Rounds
<1> SUFFICES ASSUME Init, NEW m \in Machines
             PROVE  Once(m) /\ Syncing(m) /\ Late(m) /\ Twice(m)
  BY DEF Rounds
<1>1. round[m] = 0 /\ op[m].task = "none"
  BY DEF Init, Idle
<1> QED BY <1>1 DEF Once, Syncing, Late, Twice

LEMMA RoundsStep == Types /\ Types' /\ Rounds /\ [Next]_vars => Rounds'
<1> SUFFICES ASSUME Types, Types', Rounds, [Next]_vars PROVE Rounds'
  OBVIOUS
<1>1. CASE Next
  <2>1. PICK m \in Machines :
          \/ Load(m) \/ (\E w \in Words : Use(m, w) \/ Delete(m, w))
          \/ StartSync(m) \/ (\E n \in Machines : Merge(m, n))
          \/ Backup(m)
          \/ BackupToTrash(m) \/ Remove(m) \/ RestoreFromTrash(m)
          \/ Repair(m) \/ Recreate(m) \/ Reload(m)
          \/ Crash(m) \/ CrashInMerge(m) \/ CrashInRefill(m) \/ CrashInBackup(m) \/ RestoreFails(m)
    BY <1>1 DEF Next
  <2>2. \A task \in {"remove", "restore", "repair", "reload"} :
          [op EXCEPT ![m] = Task(task)] \in [Machines -> Ops]
    BY TaskFacts DEF Types
  <2>3. op \in [Machines -> Ops] /\ [op EXCEPT ![m] = Idle] \in [Machines -> Ops]
    BY TaskFacts DEF Types
  <2>4. CASE Load(m)
    BY <2>2, <2>3, <2>4, NewRounds DEF Load
  <2>5. CASE \E w \in Words : Use(m, w) \/ Delete(m, w)
    BY <2>3, <2>5, NewRounds DEF Use, Delete, Edit
  <2>6. CASE BackupToTrash(m) \/ Remove(m)
    BY <2>2, <2>6, NewRounds DEF BackupToTrash, Remove
  <2>7. CASE RestoreFromTrash(m) \/ Repair(m) \/ Recreate(m) \/ Reload(m)
    BY <2>2, <2>3, <2>7, NewRounds DEF RestoreFromTrash, Repair, Recreate, Reload
  <2>8. CASE Crash(m) \/ CrashInMerge(m) \/ CrashInRefill(m) \/ CrashInBackup(m) \/ RestoreFails(m)
    <3>1. Fault(m)
      BY <2>8 DEF Crash, CrashInMerge, CrashInRefill, CrashInBackup, RestoreFails
    <3> QED BY <2>3, <3>1, NewRounds DEF Fault
  <2> QED
    BY <2>1, <2>4, <2>5, <2>6, <2>7, <2>8, StartSyncRounds, MergeRounds, BackupRounds
<1>2. CASE UNCHANGED vars
  <2>1. \A m \in Machines, w \in Words :
          Uses(m, w)' = Uses(m, w) /\ Told(m, w)' = Told(m, w) /\ Floor(m, w)' = Floor(m, w)
    BY <1>2 DEF vars, Uses, Told, Floor
  <2> SUFFICES ASSUME NEW m \in Machines
               PROVE  Once(m)' /\ Syncing(m)' /\ Late(m)' /\ Twice(m)'
    BY DEF Rounds
  <2>2. Once(m) /\ Syncing(m) /\ Late(m) /\ Twice(m) /\ op[m].left \subseteq Machines
    BY DEF Rounds, Types, Ops
  <2>3. UNCHANGED << db, snap, op, round >>
    BY <1>2 DEF vars
  <2>4. Once(m)' /\ Twice(m)' /\ Syncing(m)'
    BY <2>1, <2>2, <2>3 DEF Once, Twice, Syncing, Heard
  <2>5. Late(m)'
    BY <2>1, <2>2, <2>3 DEF Late
  <2> QED BY <2>4, <2>5
<1> QED BY <1>1, <1>2

\* When all machines have synchronized twice, they agree on the uses of every
\* word, in whatever order and however overlapping they did so, and whatever
\* edits, failures and crashes came before.
THEOREM MachinesAgree == Spec => []AgreeAfterTwoRounds
<1>1. Types /\ Rounds => AgreeAfterTwoRounds
  <2> SUFFICES ASSUME Types, Rounds, NEW m \in Machines, NEW n \in Machines,
                      round[m] = 2, round[n] = 2, NEW w \in Words
               PROVE  Uses(m, w) = Uses(n, w)
    BY DEF AgreeAfterTwoRounds, Uses
  <2>1. ASSUME NEW i \in Machines, NEW j \in Machines, round[i] = 2, round[j] = 2
        PROVE  Uses(i, w) <= Uses(j, w)
    <3>1. Once(i) /\ Twice(i) /\ Twice(j)
      BY DEF Rounds
    <3>2. PICK k \in Machines : Uses(i, w) <= Floor(k, w)
      BY <2>1, <3>1 DEF Once
    <3>3. round[k] > 0 /\ Told(k, w) <= Uses(j, w)
      BY <2>1, <3>1 DEF Twice
    <3>4. Uses(i, w) <= Told(k, w)
      BY <3>2, <3>3 DEF Floor
    <3>5. Uses(i, w) \in Nat /\ Uses(j, w) \in Nat /\ Told(k, w) \in Nat
      BY UsesFacts
    <3> QED BY <3>3, <3>4, <3>5
  <2>2. Uses(m, w) \in Nat /\ Uses(n, w) \in Nat
    BY UsesFacts
  <2> QED BY <2>1, <2>2
<1>2. SInv /\ [Next]_vars => Types /\ Types'
  BY SyncStep DEF SInv
<1>3. SInv /\ Rounds => AgreeAfterTwoRounds
  BY <1>1 DEF SInv
<1> QED BY <1>2, <1>3, SyncInit, SyncStep, RoundsInit, RoundsStep, PTL DEF Spec
=============================================================================
