--------------------------- MODULE DeployerProofs ---------------------------
(***************************************************************************)
(* Proofs about the deployer, for any number of tasks and threads: the     *)
(* invariants and the action property that MCDeployer checks, and that it  *)
(* serves its queue as TaskQueue.tla says.                                 *)
(*                                                                         *)
(* All of it rests on one inductive invariant.  Its heart is OneWorker:    *)
(* whatever thread is alive is the one the handle refers to.  StartWork    *)
(* relies on nothing else to know that it may begin another, and what a    *)
(* thread has in hand can only be told from the handle because of it.      *)
(***************************************************************************)
EXTENDS Deployer, SequenceTheorems, TLAPS

\* A thread has a task in hand exactly while it runs one.
HandOK ==
  \A w \in Workers :
    IF thread[w] = "run" THEN \E t \in Tasks : current[w] = << t >>
                         ELSE current[w] = << >>

\* What a thread at work has counted.
FailedOK ==
  /\ base <= Len(ran)
  /\ \A w \in Workers :
       Alive(w) => (failed[w] = TRUE <=> \E i \in (base + 1)..Len(ran) : ran[i].ok = FALSE)

\* The message it sent before it looked again.
ToldOK ==
  \A w \in Workers :
    thread[w] \in {"recheck", "quitting"} =>
      told = IF failed[w] = TRUE THEN "failure" ELSE "success"

IInv == TypeOK /\ OneWorker /\ HandOK /\ NothingLost /\ FailedOK /\ ToldOK

Results == [task : Tasks, ok : BOOLEAN]

-----------------------------------------------------------------------------
(* Sequences of tasks.                                                     *)

\* The tasks of a list of results, one result longer.
LEMMA TasksOfAppend ==
  ASSUME NEW results \in Seq(Results), NEW r \in Results
  PROVE  /\ TasksOf(results) \in Seq(Tasks)
         /\ TasksOf(Append(results, r)) = TasksOf(results) \o << r.task >>
<1> DEFINE longer == Append(results, r)
<1>1. /\ Len(results) \in Nat
      /\ \A i \in 1..Len(results) : results[i] \in Results
  BY ElementOfSeq, LenProperties
<1>2. /\ longer \in Seq(Results)
      /\ Len(longer) = Len(results) + 1
      /\ \A i \in 1..Len(results) : longer[i] = results[i]
      /\ longer[Len(results) + 1] = r
  BY <1>1
<1>3. TasksOf(results) \in Seq(Tasks)
  <2>1. \A i \in 1..Len(results) : results[i].task \in Tasks
    BY <1>1 DEF Results
  <2>2. TasksOf(results) \in [1..Len(results) -> Tasks]
    BY <2>1 DEF TasksOf
  <2> QED BY <1>1, <2>2, SeqDef
<1>4. Len(TasksOf(results)) = Len(results)
  BY <1>1, <1>3, LenProperties DEF TasksOf
<1>5. r.task \in Tasks
  BY DEF Results
<1>6. << r.task >> \in Seq(Tasks) /\ Len(<< r.task >>) = 1 /\ << r.task >>[1] = r.task
  BY <1>5
<1>7. /\ TasksOf(results) \o << r.task >> \in Seq(Tasks)
      /\ Len(TasksOf(results) \o << r.task >>) = Len(results) + 1
      /\ \A i \in 1..(Len(results) + 1) :
           (TasksOf(results) \o << r.task >>)[i] =
             IF i <= Len(results) THEN TasksOf(results)[i] ELSE r.task
  BY <1>1, <1>3, <1>4, <1>6, ConcatProperties
<1>8. \A i \in 1..Len(results) : TasksOf(results)[i] = results[i].task
  BY DEF TasksOf
<1>9. TasksOf(longer) \in [1..(Len(results) + 1) -> Tasks]
  <2>1. \A i \in 1..(Len(results) + 1) : longer[i].task \in Tasks
    BY <1>1, <1>2 DEF Results
  <2> QED BY <1>2, <2>1 DEF TasksOf
<1>10. TasksOf(longer) \in Seq(Tasks) /\ Len(TasksOf(longer)) = Len(results) + 1
  BY <1>1, <1>9, SeqDef, LenProperties
<1>11. \A i \in 1..(Len(results) + 1) :
         TasksOf(longer)[i] = IF i <= Len(results) THEN results[i].task ELSE r.task
  BY <1>1, <1>2 DEF TasksOf
<1>12. TasksOf(longer) = TasksOf(results) \o << r.task >>
  <2> DEFINE s == TasksOf(longer)
             t == TasksOf(results) \o << r.task >>
  <2>1. s \in Seq(Tasks) /\ t \in Seq(Tasks) /\ Len(s) = Len(t)
    BY <1>7, <1>10
  <2>2. \A i \in 1..Len(s) : s[i] = t[i]
    <3>1. SUFFICES ASSUME NEW i \in 1..(Len(results) + 1) PROVE s[i] = t[i]
      BY <1>10
    <3>2. CASE i <= Len(results)
      <4>1. i \in 1..Len(results)
        BY <1>1, <3>2
      <4> QED BY <1>7, <1>8, <1>11, <3>2, <4>1
    <3>3. CASE ~(i <= Len(results))
      BY <1>7, <1>11, <3>3
    <3> QED BY <3>2, <3>3
  <2> HIDE DEF s, t
  <2>3. s = t
    BY <2>1, <2>2, SeqEqual
  <2> QED BY <2>3 DEF s, t
<1> QED BY <1>3, <1>12

\* A task scheduled goes to the end of everything.
LEMMA ScheduleMove ==
  ASSUME NEW done \in Seq(Tasks), NEW hand \in Seq(Tasks), NEW rest \in Seq(Tasks),
         NEW t \in Tasks
  PROVE  Append(done \o hand \o rest, t) = done \o hand \o Append(rest, t)
<1>1. << t >> \in Seq(Tasks) /\ done \o hand \in Seq(Tasks)
  BY ConcatProperties
<1>2. Append(rest, t) = rest \o << t >>
  BY AppendIsConcat
<1>3. done \o hand \o rest \in Seq(Tasks)
  BY <1>1, ConcatProperties
<1>4. Append(done \o hand \o rest, t) = (done \o hand \o rest) \o << t >>
  BY <1>3, AppendIsConcat
<1> QED BY SMTT(60), <1>1, <1>2, <1>4, ConcatAssociative

\* A task taken from the queue is in hand.
LEMMA TakeMove ==
  ASSUME NEW done \in Seq(Tasks), NEW rest \in Seq(Tasks), rest # << >>
  PROVE  done \o << >> \o rest = done \o << Head(rest) >> \o Tail(rest)
<1>1. Head(rest) \in Tasks /\ Tail(rest) \in Seq(Tasks) /\ << Head(rest) >> \in Seq(Tasks)
  BY HeadTailProperties
<1>2. rest = << Head(rest) >> \o Tail(rest)
  BY <1>1
<1>3. done \o << >> = done
  BY ConcatEmptySeq
<1> QED BY <1>1, <1>2, <1>3, ConcatAssociative

-----------------------------------------------------------------------------
(* The inductive invariant, part by part.                                  *)

\* Every state has variables of their types; a task in hand is a task.
LEMMA TypeStep ==
  ASSUME TypeOK, HandOK, [Next]_vars
  PROVE  TypeOK'
<1> USE DEF TypeOK
<1>1. CASE \E t \in Tasks : ScheduleTask(t)
  BY <1>1, AppendProperties DEF ScheduleTask
<1>2. CASE \E mode \in BOOLEAN : StartWork(mode)
  <2>1. PICK mode \in BOOLEAN : StartWork(mode)
    BY <1>2
  <2>2. CASE UNCHANGED vars
    BY <2>2 DEF vars
  <2>3. CASE pending = << >> /\ maintenance' = mode /\ handle' = HandleAfterIsWorking
             /\ UNCHANGED << pending, thread, current, failed, told, scheduled, ran, base >>
    BY <2>3 DEF HandleAfterIsWorking
  <2>4. ASSUME NEW w \in Workers, Spawn(w), maintenance' = mode
        PROVE  TypeOK'
    <3>1. Len(ran) \in Nat
      BY LenProperties
    <3> QED BY <2>4, <3>1 DEF Spawn, States
  <2> QED BY <2>1, <2>2, <2>3, <2>4 DEF StartWork
<1>3. CASE IsMaintenanceMode
  BY <1>3 DEF IsMaintenanceMode, HandleAfterIsWorking
<1>4. CASE JoinWorkThread
  BY <1>4 DEF JoinWorkThread
<1>5. ASSUME NEW w \in Workers, Worker(w)
      PROVE  TypeOK'
  <2>1. CASE Begin(w)
    BY <2>1 DEF Begin, States
  <2>2. CASE NextTask(w)
    <3>1. CASE pending # << >>
      <4>1. << Head(pending) >> \in Seq(Tasks) /\ Tail(pending) \in Seq(Tasks)
        BY <3>1, HeadTailProperties
      <4> QED BY <2>2, <3>1, <4>1 DEF NextTask, States
    <3>2. CASE pending = << >>
      BY <2>2, <3>2 DEF NextTask, States
    <3> QED BY <3>1, <3>2
  <2>3. CASE RunTask(w)
    <3>1. PICK t \in Tasks : current[w] = << t >>
      BY <2>3 DEF RunTask, HandOK
    <3>2. current[w][1] = t
      BY <3>1
    <3>3. PICK ok \in BOOLEAN : ran' = Append(ran, [task |-> t, ok |-> ok])
                                /\ failed' = [failed EXCEPT ![w] = @ \/ ~ok]
      BY <2>3, <3>2 DEF RunTask
    <3>4. ran' \in Seq(Results)
      BY <3>3, AppendProperties DEF Results
    <3>5. failed' \in [Workers -> BOOLEAN]
      BY <3>3
    <3>6. current' \in [Workers -> Seq(Tasks)]
      BY <2>3 DEF RunTask
    <3> QED BY <2>3, <3>4, <3>5, <3>6 DEF RunTask, States, Results
  <2>4. CASE Report(w)
    BY <2>4 DEF Report, States
  <2>5. CASE Recheck(w)
    BY <2>5 DEF Recheck, States
  <2>6. CASE Quit(w)
    BY <2>6 DEF Quit, States, Gone
  <2> QED BY <1>5, <2>1, <2>2, <2>3, <2>4, <2>5, <2>6 DEF Worker
<1>6. CASE UNCHANGED vars
  BY <1>6 DEF vars
<1> QED BY <1>1, <1>2, <1>3, <1>4, <1>5, <1>6 DEF Next

\* The handle is given up only for a thread that is through, and another
\* thread begun only when the handle refers to none at work.
LEMMA OneWorkerStep ==
  ASSUME TypeOK, OneWorker, [Next]_vars
  PROVE  OneWorker'
<1> USE DEF TypeOK, OneWorker, Alive, Gone
<1>1. CASE \E t \in Tasks : ScheduleTask(t)
  BY <1>1 DEF ScheduleTask
<1>2. CASE \E mode \in BOOLEAN : StartWork(mode)
  <2>1. CASE Working
    BY <1>2, <2>1 DEF StartWork, vars
  <2>2. CASE ~Working
    <3>1. \A w \in Workers : ~Alive(w)
      BY <2>2, DeployerAssumption DEF Working
    <3> QED BY <1>2, <2>2, <3>1 DEF StartWork, Spawn, vars
  <2> QED BY <2>1, <2>2
<1>3. CASE IsMaintenanceMode
  BY <1>3, DeployerAssumption DEF IsMaintenanceMode, HandleAfterIsWorking, Working
<1>4. CASE JoinWorkThread
  BY <1>4, DeployerAssumption DEF JoinWorkThread, Working
<1>5. ASSUME NEW w \in Workers, Worker(w)
      PROVE  OneWorker'
  <2>1. handle' = handle /\ \A v \in Workers : Alive(v)' => Alive(v)
    BY <1>5 DEF Worker, Begin, NextTask, RunTask, Report, Recheck, Quit
  <2> QED BY <2>1
<1>6. CASE UNCHANGED vars
  BY <1>6 DEF vars
<1> QED BY <1>1, <1>2, <1>3, <1>4, <1>5, <1>6 DEF Next

\* Only NextTask takes a task, and RunTask gives it back.
LEMMA HandStep ==
  ASSUME TypeOK, HandOK, [Next]_vars
  PROVE  HandOK'
<1> USE DEF TypeOK, HandOK
<1>1. CASE \E t \in Tasks : ScheduleTask(t)
  BY <1>1 DEF ScheduleTask
<1>2. CASE \E mode \in BOOLEAN : StartWork(mode)
  <2>1. CASE UNCHANGED << thread, current >>
    BY <2>1
  <2>2. ASSUME NEW v \in Workers, Spawn(v)
        PROVE  HandOK'
    BY <2>2 DEF Spawn, Alive, Gone
  <2> QED BY <1>2, <2>1, <2>2 DEF StartWork, vars
<1>3. CASE IsMaintenanceMode
  BY <1>3 DEF IsMaintenanceMode
<1>4. CASE JoinWorkThread
  BY <1>4 DEF JoinWorkThread
<1>5. ASSUME NEW v \in Workers, Worker(v)
      PROVE  HandOK'
  <2>1. CASE Begin(v) \/ Report(v) \/ Recheck(v) \/ Quit(v)
    BY <2>1 DEF Begin, Report, Recheck, Quit
  <2>2. CASE NextTask(v)
    <3>1. CASE pending # << >>
      <4>1. Head(pending) \in Tasks
        BY <3>1, HeadTailProperties
      <4> QED BY <2>2, <3>1, <4>1 DEF NextTask
    <3>2. CASE pending = << >>
      BY <2>2, <3>2 DEF NextTask
    <3> QED BY <3>1, <3>2
  <2>3. CASE RunTask(v)
    BY <2>3 DEF RunTask
  <2> QED BY <1>5, <2>1, <2>2, <2>3 DEF Worker
<1>6. CASE UNCHANGED vars
  BY <1>6 DEF vars
<1> QED BY <1>1, <1>2, <1>3, <1>4, <1>5, <1>6 DEF Next

\* What the handle's thread has in hand is all that any thread has.
LEMMA InHandFacts ==
  ASSUME TypeOK, OneWorker, HandOK
  PROVE  /\ InHand \in Seq(Tasks)
         /\ \A w \in Workers : Alive(w) => InHand = current[w]
         /\ (\A w \in Workers : ~Alive(w)) => InHand = << >>
<1>1. InHand \in Seq(Tasks)
  BY DEF InHand, TypeOK
<1>2. ASSUME NEW w \in Workers, Alive(w)
      PROVE  InHand = current[w]
  BY <1>2, DeployerAssumption DEF InHand, OneWorker
<1>3. ASSUME \A w \in Workers : ~Alive(w)
      PROVE  InHand = << >>
  BY <1>3 DEF InHand, TypeOK, HandOK, Alive, Gone
<1> QED BY <1>1, <1>2, <1>3

\* A list of tasks, done or in hand.
LEMMA DoneFacts ==
  ASSUME TypeOK
  PROVE  TasksOf(ran) \in Seq(Tasks)
<1>1. ran \in Seq(Results)
  BY DEF TypeOK, Results
<1>2. CASE \E r \in Results : TRUE
  BY <1>1, <1>2, TasksOfAppend
<1>3. CASE ~\E r \in Results : TRUE
  <2>1. Len(ran) = 0
    BY <1>1, <1>3, ElementOfSeq, LenProperties
  <2> QED BY <2>1, EmptySeq DEF TasksOf
<1> QED BY <1>2, <1>3

\* A step of the deployer is a step of the queue, or moves no task.
LEMMA QueueStep ==
  ASSUME TypeOK, OneWorker, HandOK, [Next]_vars
  PROVE  \/ \E t \in Tasks : Queue!Schedule(t) /\ scheduled' = Append(scheduled, t)
         \/ (Queue!Start \/ Queue!Finish) /\ scheduled' = scheduled
         \/ UNCHANGED << pending, InHand, TasksOf(ran), scheduled >>
<1> DEFINE Goal == \/ \E t \in Tasks : Queue!Schedule(t) /\ scheduled' = Append(scheduled, t)
                   \/ (Queue!Start \/ Queue!Finish) /\ scheduled' = scheduled
                   \/ UNCHANGED << pending, InHand, TasksOf(ran), scheduled >>
<1>1. /\ pending \in Seq(Tasks) /\ ran \in Seq(Results) /\ InHand \in Seq(Tasks)
      /\ thread \in [Workers -> States] /\ handle \in Workers \cup {NoWorker}
      /\ current \in [Workers -> Seq(Tasks)]
  BY InHandFacts DEF TypeOK, Results
<1>2. CASE \E t \in Tasks : ScheduleTask(t)
  BY <1>2 DEF ScheduleTask, InHand, Queue!Schedule
<1>3. CASE \E mode \in BOOLEAN : StartWork(mode)
  <2>1. UNCHANGED << pending, current, scheduled, ran >>
    BY <1>3 DEF StartWork, Spawn, vars
  <2>2. InHand' = InHand
    <3>1. CASE UNCHANGED vars
      BY <3>1 DEF vars, InHand
    <3>2. CASE ~Working
      <4>1. InHand = << >>
        BY <3>2, <1>1 DEF Working, InHand, HandOK
      <4>2. \A v \in Workers : ~Alive(v) => current[v] = << >>
        BY <1>1 DEF HandOK, Alive, Gone
      <4>3. \/ handle' = NoWorker
            \/ \E v \in Workers : handle' = v /\ ~Alive(v)
            \/ UNCHANGED vars
        BY <1>3, <3>2 DEF StartWork, HandleAfterIsWorking, Spawn
      <4>4. CASE UNCHANGED vars
        BY <4>4 DEF vars, InHand
      <4> QED BY <2>1, <4>1, <4>2, <4>3, <4>4 DEF InHand
    <3> QED BY <1>3, <3>1, <3>2 DEF StartWork
  <2> QED BY <2>1, <2>2
<1>4. CASE IsMaintenanceMode \/ JoinWorkThread
  <2>1. UNCHANGED << pending, current, thread, scheduled, ran >>
    BY <1>4 DEF IsMaintenanceMode, JoinWorkThread
  <2>2. InHand' = InHand
    <3>1. CASE handle' = handle
      BY <2>1, <3>1 DEF InHand
    <3>2. CASE handle' = NoWorker /\ ~Working
      BY <1>1, <2>1, <3>2 DEF Working, InHand, HandOK
    <3> QED BY <1>4, <3>1, <3>2 DEF IsMaintenanceMode, JoinWorkThread, HandleAfterIsWorking
  <2> QED BY <2>1, <2>2
<1>5. ASSUME NEW w \in Workers, Worker(w)
      PROVE  Goal
  <2>1. Alive(w) /\ handle = w /\ handle' = w
    BY <1>5 DEF Worker, Begin, NextTask, RunTask, Report, Recheck, Quit, OneWorker, Alive, Gone
  <2>2. InHand = current[w] /\ InHand' = current'[w]
    BY <2>1, DeployerAssumption DEF InHand
  <2>3. CASE Begin(w) \/ Report(w) \/ Recheck(w) \/ Quit(w)
    BY <2>2, <2>3 DEF Begin, Report, Recheck, Quit
  <2>4. CASE NextTask(w)
    <3>1. InHand = << >>
      BY <2>2, <2>4 DEF NextTask, HandOK
    <3>2. CASE pending # << >>
      <4>1. InHand' = << Head(pending) >> /\ pending' = Tail(pending)
            /\ UNCHANGED << scheduled, ran >>
        BY <1>1, <2>2, <2>4, <3>2 DEF NextTask
      <4> QED BY <3>1, <3>2, <4>1 DEF Queue!Start
    <3>3. CASE pending = << >>
      BY <2>2, <2>4, <3>3 DEF NextTask
    <3> QED BY <3>2, <3>3
  <2>5. CASE RunTask(w)
    <3>1. PICK t \in Tasks : current[w] = << t >>
      BY <2>5 DEF RunTask, HandOK
    <3>2. PICK r \in Results : ran' = Append(ran, r) /\ r.task = t
      <4>1. current[w][1] = t
        BY <3>1
      <4> QED BY <2>5, <4>1 DEF RunTask, Results
    <3>3. TasksOf(ran') = TasksOf(ran) \o << t >>
      BY <1>1, <3>2, TasksOfAppend
    <3>4. InHand' = << >> /\ UNCHANGED << pending, scheduled >>
      BY <1>1, <2>2, <2>5 DEF RunTask
    <3> QED BY <2>2, <3>1, <3>3, <3>4 DEF Queue!Finish
  <2> QED BY <1>5, <2>3, <2>4, <2>5 DEF Worker
<1>6. CASE UNCHANGED vars
  BY <1>6 DEF vars, InHand
<1> QED BY <1>2, <1>3, <1>4, <1>5, <1>6 DEF Next

\* A step moves a task along, or moves none; it never drops or copies one.
LEMMA LossStep ==
  ASSUME TypeOK, OneWorker, HandOK, NothingLost, [Next]_vars
  PROVE  NothingLost'
<1> DEFINE done == TasksOf(ran)
<1>1. done \in Seq(Tasks) /\ InHand \in Seq(Tasks) /\ pending \in Seq(Tasks)
  BY DoneFacts, InHandFacts DEF TypeOK
<1>2. scheduled = done \o InHand \o pending
  BY DEF NothingLost
<1>3. ASSUME NEW t \in Tasks, Queue!Schedule(t), scheduled' = Append(scheduled, t)
      PROVE  NothingLost'
  <2>1. Append(scheduled, t) = done \o InHand \o Append(pending, t)
    BY ZenonT(60), <1>1, <1>2, ScheduleMove
  <2> QED BY <1>3, <2>1 DEF Queue!Schedule, NothingLost
<1>4. CASE Queue!Start /\ scheduled' = scheduled
  <2>1. done \o << >> \o pending = done \o << Head(pending) >> \o Tail(pending)
    BY <1>1, <1>4, TakeMove DEF Queue!Start
  <2> QED BY <1>2, <1>4, <2>1 DEF Queue!Start, NothingLost
<1>5. CASE Queue!Finish /\ scheduled' = scheduled
  <2>1. (done \o InHand) \o << >> = done \o InHand
    BY <1>1, ConcatProperties, ConcatEmptySeq
  <2> QED BY <1>2, <1>5, <2>1 DEF Queue!Finish, NothingLost
<1>6. CASE UNCHANGED << pending, InHand, TasksOf(ran), scheduled >>
  BY <1>2, <1>6 DEF NothingLost
<1> QED BY <1>3, <1>4, <1>5, <1>6, QueueStep

\* The count of failures is of the tasks this thread has run, all of them.
LEMMA FailedStep ==
  ASSUME TypeOK, OneWorker, HandOK, FailedOK, [Next]_vars
  PROVE  FailedOK'
<1>1. /\ ran \in Seq(Results) /\ Len(ran) \in Nat /\ base \in Nat
      /\ failed \in [Workers -> BOOLEAN] /\ thread \in [Workers -> States]
  BY LenProperties DEF TypeOK, Results
<1>2. ASSUME UNCHANGED << ran, base, failed >>, \A w \in Workers : Alive(w)' => Alive(w)
      PROVE  FailedOK'
  BY <1>2 DEF FailedOK
<1>3. CASE \E t \in Tasks : ScheduleTask(t)
  BY <1>2, <1>3 DEF ScheduleTask, Alive
<1>4. CASE \E mode \in BOOLEAN : StartWork(mode)
  <2>1. CASE UNCHANGED << ran, base, failed, thread >>
    BY <1>2, <2>1 DEF Alive
  <2>2. ASSUME NEW v \in Workers, Spawn(v), ~Working
        PROVE  FailedOK'
    <3>1. \A w \in Workers : ~Alive(w)
      BY <2>2, DeployerAssumption DEF Working, OneWorker, Alive, Gone
    <3>2. \A w \in Workers : Alive(w)' => w = v
      BY <1>1, <2>2, <3>1 DEF Spawn, Alive
    <3>3. base' = Len(ran) /\ ran' = ran /\ failed'[v] = FALSE
      BY <1>1, <2>2 DEF Spawn
    <3>4. ~\E i \in (base' + 1)..Len(ran') : ran'[i].ok = FALSE
      BY <1>1, <3>3
    <3> QED BY <1>1, <3>2, <3>3, <3>4 DEF FailedOK
  <2> QED BY <1>4, <2>1, <2>2 DEF StartWork, vars
<1>5. CASE IsMaintenanceMode \/ JoinWorkThread
  BY <1>2, <1>5 DEF IsMaintenanceMode, JoinWorkThread, Alive
<1>6. ASSUME NEW v \in Workers, Worker(v)
      PROVE  FailedOK'
  <2>1. CASE Begin(v) \/ NextTask(v) \/ Report(v) \/ Recheck(v) \/ Quit(v)
    <3>1. UNCHANGED << ran, base, failed >>
      BY <2>1 DEF Begin, NextTask, Report, Recheck, Quit
    <3>2. \A w \in Workers : Alive(w)' => Alive(w)
      BY <1>1, <2>1 DEF Begin, NextTask, Report, Recheck, Quit, Alive, Gone
    <3> QED BY <1>2, <3>1, <3>2
  <2>2. CASE RunTask(v)
    <3>1. PICK t \in Tasks : current[v] = << t >>
      BY <2>2 DEF RunTask, HandOK
    <3>2. PICK ok \in BOOLEAN : /\ failed' = [failed EXCEPT ![v] = @ \/ ~ok]
                                /\ ran' = Append(ran, [task |-> t, ok |-> ok])
      <4>1. current[v][1] = t
        BY <3>1
      <4> QED BY <2>2, <4>1 DEF RunTask
    <3>3. /\ Len(ran') = Len(ran) + 1
          /\ \A i \in 1..Len(ran) : ran'[i] = ran[i]
          /\ ran'[Len(ran) + 1].ok = ok
      <4>1. [task |-> t, ok |-> ok] \in Results
        BY DEF Results
      <4> QED BY <1>1, <3>2, <4>1, AppendProperties
    <3>4. base' = base /\ base <= Len(ran)
      BY <2>2 DEF RunTask, FailedOK
    <3>5. \A w \in Workers : Alive(w)' => w = v
      BY <1>1, <2>2 DEF RunTask, OneWorker, Alive, Gone
    <3>6. failed[v] = TRUE <=> \E i \in (base + 1)..Len(ran) : ran[i].ok = FALSE
      BY <2>2 DEF FailedOK, RunTask, Alive, Gone
    <3>7. failed'[v] = TRUE <=> (failed[v] = TRUE \/ ok = FALSE)
      BY <1>1, <3>2
    <3>8. (\E i \in (base + 1)..(Len(ran) + 1) : ran'[i].ok = FALSE)
            <=> (\E i \in (base + 1)..Len(ran) : ran[i].ok = FALSE) \/ ok = FALSE
      BY <1>1, <3>3, <3>4
    <3> QED BY SMTT(60), <1>1, <3>3, <3>4, <3>5, <3>6, <3>7, <3>8 DEF FailedOK
  <2> QED BY <1>6, <2>1, <2>2 DEF Worker
<1>7. CASE UNCHANGED vars
  BY <1>2, <1>7 DEF vars, Alive
<1> QED BY <1>3, <1>4, <1>5, <1>6, <1>7 DEF Next

\* Between its message and its end no other thread has a say.
LEMMA ToldStep ==
  ASSUME TypeOK, OneWorker, ToldOK, [Next]_vars
  PROVE  ToldOK'
<1>1. thread \in [Workers -> States] /\ failed \in [Workers -> BOOLEAN]
  BY DEF TypeOK
<1>2. CASE \E t \in Tasks : ScheduleTask(t)
  BY <1>2 DEF ScheduleTask, ToldOK
<1>3. CASE \E mode \in BOOLEAN : StartWork(mode)
  <2>1. CASE UNCHANGED << thread, failed, told >>
    BY <2>1 DEF ToldOK
  <2>2. ASSUME NEW v \in Workers, Spawn(v)
        PROVE  ToldOK'
    BY <1>1, <2>2 DEF Spawn, ToldOK
  <2> QED BY <1>3, <2>1, <2>2 DEF StartWork, vars
<1>4. CASE IsMaintenanceMode \/ JoinWorkThread
  BY <1>4 DEF IsMaintenanceMode, JoinWorkThread, ToldOK
<1>5. ASSUME NEW v \in Workers, Worker(v)
      PROVE  ToldOK'
  <2>1. \A w \in Workers : w # v => ~Alive(w)
    BY <1>5 DEF Worker, Begin, NextTask, RunTask, Report, Recheck, Quit, OneWorker, Alive, Gone
  <2>2. \A w \in Workers : w # v => thread'[w] = thread[w] /\ thread'[w] \in Gone
    BY <1>1, <1>5, <2>1
       DEF Worker, Begin, NextTask, RunTask, Report, Recheck, Quit, Alive
  <2>3. thread'[v] \in {"recheck", "quitting"} =>
          told' = IF failed'[v] = TRUE THEN "failure" ELSE "success"
    BY <1>1, <1>5
       DEF Worker, Begin, NextTask, RunTask, Report, Recheck, Quit, ToldOK
  <2> QED BY <2>2, <2>3 DEF ToldOK, Gone
<1>6. CASE UNCHANGED vars
  BY <1>6 DEF vars, ToldOK
<1> QED BY <1>2, <1>3, <1>4, <1>5, <1>6 DEF Next

-----------------------------------------------------------------------------
(* Theorems of the specification.                                          *)

LEMMA InitInv == Init => IInv
<1> SUFFICES ASSUME Init PROVE IInv
  OBVIOUS
<1>1. << >> \in Seq(Tasks) /\ << >> \in Seq(Results) /\ Len(<< >>) = 0
  BY EmptySeq
<1>2. TypeOK
  BY <1>1 DEF Init, TypeOK, States, Gone, Results
<1>3. OneWorker /\ HandOK
  BY DEF Init, OneWorker, HandOK, Alive, Gone
<1>4. NothingLost
  <2>1. TasksOf(ran) = << >> /\ InHand = << >>
    BY <1>1 DEF Init, TasksOf, InHand
  <2> QED BY <1>1, <2>1, ConcatEmptySeq DEF Init, NothingLost
<1>5. FailedOK /\ ToldOK
  BY <1>1 DEF Init, FailedOK, ToldOK, Alive, Gone
<1> QED BY <1>2, <1>3, <1>4, <1>5 DEF IInv

LEMMA NextInv == IInv /\ [Next]_vars => IInv'
  BY TypeStep, OneWorkerStep, HandStep, LossStep, FailedStep, ToldStep DEF IInv

\* Every behaviour of the deployer keeps the inductive invariant.
THEOREM InductiveInvariant == Spec => []IInv
  BY InitInv, NextInv, PTL DEF Spec

\* The variables keep their types.
THEOREM TypeCorrect == Spec => []TypeOK
<1>1. IInv => TypeOK
  BY DEF IInv
<1> QED BY <1>1, InductiveInvariant, PTL

\* Two threads never work on the queue at a time.
THEOREM NeverTwoWorkers == Spec => []OneWorker
<1>1. IInv => OneWorker
  BY DEF IInv
<1> QED BY <1>1, InductiveInvariant, PTL

\* No task is lost, run twice or overtaken, through any number of threads.
THEOREM NoTaskLost == Spec => []NothingLost
<1>1. IInv => NothingLost
  BY DEF IInv
<1> QED BY <1>1, InductiveInvariant, PTL

\* The message the user gets sums up all that the thread has run.
THEOREM MessageIsTruthful == Spec => []MessageTruthful
<1>1. IInv => MessageTruthful
  <2> SUFFICES ASSUME IInv, NEW w \in Workers, thread[w] \in {"recheck", "quitting"}
               PROVE  /\ told = "success" => \A i \in (base + 1)..Len(ran) : ran[i].ok
                      /\ told = "failure" => \E i \in (base + 1)..Len(ran) : ~ran[i].ok
    BY DEF MessageTruthful
  <2>1. told = IF failed[w] = TRUE THEN "failure" ELSE "success"
    BY DEF IInv, ToldOK
  <2>2. failed[w] = TRUE <=> \E i \in (base + 1)..Len(ran) : ran[i].ok = FALSE
    BY DEF IInv, FailedOK, Alive, Gone
  <2>3. \A i \in (base + 1)..Len(ran) : ran[i].ok \in BOOLEAN
    <3>1. ran \in Seq(Results) /\ base \in Nat /\ Len(ran) \in Nat
      BY LenProperties DEF IInv, TypeOK, Results
    <3>2. \A i \in (base + 1)..Len(ran) : ran[i] \in Results
      BY <3>1, ElementOfSeq
    <3> QED BY <3>2 DEF Results
  <2>4. told = "success" => failed[w] # TRUE
    BY <2>1
  <2>5. told = "failure" => failed[w] = TRUE
    BY <2>1
  <2> QED BY <2>2, <2>3, <2>4, <2>5
<1> QED BY <1>1, InductiveInvariant, PTL

\* A thread at work keeps the mode it was started in.
THEOREM ModeStable == Spec => ModeIsStable
<1>1. IInv /\ [Next]_vars =>
        [Working /\ Working' /\ handle' = handle => maintenance' = maintenance]_vars
  <2> SUFFICES ASSUME IInv, Next, Working, handle' = handle
               PROVE  maintenance' = maintenance
    OBVIOUS
  <2> QED BY DEF Next, ScheduleTask, StartWork, IsMaintenanceMode, JoinWorkThread,
                 Worker, Begin, NextTask, RunTask, Report, Recheck, Quit, vars
<1> QED BY <1>1, InductiveInvariant, PTL DEF Spec, ModeIsStable

\* The deployer, threads and all, is a queue of tasks served in order.
THEOREM ImplementsQueue == Spec => ServesQueue
<1>1. Init => Queue!Init
  <2> SUFFICES ASSUME Init PROVE Queue!Init
    OBVIOUS
  <2>1. TasksOf(ran) = << >>
    BY DEF Init, TasksOf
  <2>2. InHand = << >>
    BY DEF Init, InHand
  <2> QED BY <2>1, <2>2 DEF Init, Queue!Init
<1>2. IInv /\ [Next]_vars => [Queue!Next]_(Queue!queueVars)
  BY QueueStep DEF IInv, Queue!Next, Queue!queueVars
<1> QED BY <1>1, <1>2, InductiveInvariant, PTL DEF Spec, ServesQueue, Queue!Spec
=============================================================================
