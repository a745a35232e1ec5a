------------------------------ MODULE Deployer ------------------------------
(***************************************************************************)
(* The deployer (librime/src/deployer.cc): a queue of deployment tasks,    *)
(* filled by the thread that calls the API, and a work thread that runs    *)
(* them and quits.  Nothing wakes a thread that is gone: tasks wait for    *)
(* the next StartWork.                                                     *)
(*                                                                         *)
(* Each access to the queue under mutex_, each message and each task is a  *)
(* step, so that the two threads interleave where the code lets them.      *)
(* Calls made by the API thread alone are not split: while the work thread *)
(* is there StartWork only looks at it, and when it is not there is        *)
(* nothing to interleave with.  Here the API thread makes any calls in any *)
(* order; which ones it makes is in Service.tla.                           *)
(***************************************************************************)
EXTENDS Integers, Sequences

CONSTANTS
  Tasks,       \* kinds of deployment tasks
  Workers,     \* identities for work threads, taken again after they exit
  NoWorker,    \* a thread handle that refers to no thread
  MaxTasks     \* bound on the number of tasks ever scheduled

ASSUME DeployerAssumption == MaxTasks \in Nat /\ NoWorker \notin Workers

VARIABLES
  pending,       \* pending_tasks_
  handle,        \* work_thread_: the thread it refers to, joinable or NoWorker
  maintenance,   \* maintenance_mode_
  thread,        \* for each thread, where it is in Run
  current,       \* the task each thread is running: a sequence of at most one
  failed,        \* whether each thread has counted a failure
  told,          \* the last message about deployment that went out
  scheduled,     \* history: every task scheduled
  ran,           \* history: every task run, with its outcome
  base           \* history: how many had been run when the last thread began

vars == << pending, handle, maintenance, thread, current, failed, told,
           scheduled, ran, base >>

Gone  == {"unborn", "exited"}
Alive(w) == thread[w] \notin Gone

Init ==
  /\ pending = << >>
  /\ handle = NoWorker
  /\ maintenance = FALSE
  /\ thread = [w \in Workers |-> "unborn"]
  /\ current = [w \in Workers |-> << >>]
  /\ failed = [w \in Workers |-> FALSE]
  /\ told = "nothing"
  /\ scheduled = << >> /\ ran = << >> /\ base = 0

-----------------------------------------------------------------------------
(* Calls of the API thread.                                                *)

ScheduleTask(t) ==
  /\ Len(scheduled) < MaxTasks
  /\ pending' = Append(pending, t)
  /\ scheduled' = Append(scheduled, t)
  /\ UNCHANGED << handle, maintenance, thread, current, failed, told, ran, base >>

\* IsWorking: its timed_join of no time joins a thread that has exited.
Working == handle # NoWorker /\ thread[handle] # "exited"
HandleAfterIsWorking == IF Working THEN handle ELSE NoWorker

Spawn(w) ==
  /\ ~Alive(w)
  /\ handle' = w
  /\ thread' = [thread EXCEPT ![w] = "start"]
  /\ failed' = [failed EXCEPT ![w] = FALSE]
  /\ base' = Len(ran)
  /\ UNCHANGED << pending, current, told, scheduled, ran >>

\* Fault: the mode is set before looking whether a thread works.
StartWork_ModeFirst(mode) ==
  /\ maintenance' = mode
  /\ \/ /\ Working \/ pending = << >>
        /\ handle' = HandleAfterIsWorking
        /\ UNCHANGED << pending, thread, current, failed, told, scheduled, ran, base >>
     \/ /\ ~Working /\ pending # << >>
        /\ \E w \in Workers : Spawn(w)

\* Fault: nobody looks whether a thread works.
StartWork_NoCheck(mode) ==
  /\ maintenance' = mode
  /\ IF pending = << >>
       THEN UNCHANGED << handle, pending, thread, current, failed, told, scheduled, ran, base >>
       ELSE \E w \in Workers : Spawn(w)

\* A thread at work is left alone, with the mode it was started in.
StartWork(mode) ==
  \/ Working /\ UNCHANGED vars
  \/ /\ ~Working
     /\ maintenance' = mode
     /\ \/ /\ pending = << >>
           /\ handle' = HandleAfterIsWorking
           /\ UNCHANGED << pending, thread, current, failed, told, scheduled, ran, base >>
        \/ pending # << >> /\ \E w \in Workers : Spawn(w)

\* IsMaintenanceMode, which asks IsWorking only in maintenance mode.
InMaintenance == maintenance /\ Working

IsMaintenanceMode ==
  /\ handle' = IF maintenance THEN HandleAfterIsWorking ELSE handle
  /\ UNCHANGED << pending, maintenance, thread, current, failed, told,
                  scheduled, ran, base >>

\* JoinWorkThread waits until the thread has exited.
JoinWorkThread ==
  /\ ~Working
  /\ handle' = NoWorker
  /\ UNCHANGED << pending, maintenance, thread, current, failed, told,
                  scheduled, ran, base >>

-----------------------------------------------------------------------------
(* Run, in the work thread.                                                *)

Begin(w) ==
  /\ thread[w] = "start"
  /\ told' = "start"
  /\ thread' = [thread EXCEPT ![w] = "fetch"]
  /\ UNCHANGED << pending, handle, maintenance, current, failed, scheduled, ran, base >>

\* Fault: the task is taken off the wrong end of the queue.
NextTask_Newest(w) ==
  /\ thread[w] = "fetch"
  /\ \/ /\ pending # << >>
        /\ current' = [current EXCEPT ![w] = << pending[Len(pending)] >>]
        /\ pending' = SubSeq(pending, 1, Len(pending) - 1)
        /\ thread' = [thread EXCEPT ![w] = "run"]
     \/ /\ pending = << >>
        /\ thread' = [thread EXCEPT ![w] = "report"]
        /\ UNCHANGED << pending, current >>
  /\ UNCHANGED << handle, maintenance, failed, told, scheduled, ran, base >>

NextTask(w) ==
  /\ thread[w] = "fetch"
  /\ \/ /\ pending # << >>
        /\ current' = [current EXCEPT ![w] = << Head(pending) >>]
        /\ pending' = Tail(pending)
        /\ thread' = [thread EXCEPT ![w] = "run"]
     \/ /\ pending = << >>
        /\ thread' = [thread EXCEPT ![w] = "report"]
        /\ UNCHANGED << pending, current >>
  /\ UNCHANGED << handle, maintenance, failed, told, scheduled, ran, base >>

\* Fault: only the outcome of the last task is remembered.
RunTask_LastOutcome(w) ==
  /\ thread[w] = "run"
  /\ \E ok \in BOOLEAN :
       /\ failed' = [failed EXCEPT ![w] = ~ok]
       /\ ran' = Append(ran, [task |-> current[w][1], ok |-> ok])
  /\ current' = [current EXCEPT ![w] = << >>]
  /\ thread' = [thread EXCEPT ![w] = "fetch"]
  /\ UNCHANGED << pending, handle, maintenance, told, scheduled, base >>

RunTask(w) ==
  /\ thread[w] = "run"
  /\ \E ok \in BOOLEAN :
       /\ failed' = [failed EXCEPT ![w] = @ \/ ~ok]
       /\ ran' = Append(ran, [task |-> current[w][1], ok |-> ok])
  /\ current' = [current EXCEPT ![w] = << >>]
  /\ thread' = [thread EXCEPT ![w] = "fetch"]
  /\ UNCHANGED << pending, handle, maintenance, told, scheduled, base >>

Report(w) ==
  /\ thread[w] = "report"
  /\ told' = IF failed[w] THEN "failure" ELSE "success"
  /\ thread' = [thread EXCEPT ![w] = "recheck"]
  /\ UNCHANGED << pending, handle, maintenance, current, failed, scheduled, ran, base >>

\* Fault: tasks found now are dropped with the thread.
Recheck_Drops(w) ==
  /\ thread[w] = "recheck"
  /\ thread' = [thread EXCEPT ![w] = "quitting"]
  /\ pending' = << >>
  /\ UNCHANGED << handle, maintenance, current, failed, told, scheduled, ran, base >>

\* Fault: the thread always looks again.
Recheck_Forever(w) ==
  /\ thread[w] = "recheck"
  /\ thread' = [thread EXCEPT ![w] = "fetch"]
  /\ UNCHANGED << pending, handle, maintenance, current, failed, told,
                  scheduled, ran, base >>

\* "before quitting, double check if there is nothing left to do"
Recheck(w) ==
  /\ thread[w] = "recheck"
  /\ thread' = [thread EXCEPT ![w] = IF pending # << >> THEN "fetch" ELSE "quitting"]
  /\ UNCHANGED << pending, handle, maintenance, current, failed, told,
                  scheduled, ran, base >>

\* Only now do IsWorking and join see that the thread is through.
Quit(w) ==
  /\ thread[w] = "quitting"
  /\ thread' = [thread EXCEPT ![w] = "exited"]
  /\ UNCHANGED << pending, handle, maintenance, current, failed, told,
                  scheduled, ran, base >>

Worker(w) ==
  Begin(w) \/ NextTask(w) \/ RunTask(w) \/ Report(w) \/ Recheck(w) \/ Quit(w)

-----------------------------------------------------------------------------
Next ==
  \/ \E t \in Tasks : ScheduleTask(t)
  \/ \E mode \in BOOLEAN : StartWork(mode)
  \/ IsMaintenanceMode
  \/ JoinWorkThread
  \/ \E w \in Workers : Worker(w)

\* The operating system runs a thread that can run.
Fairness == \A w \in Workers : WF_vars(Worker(w))

Spec == Init /\ [][Next]_vars /\ Fairness

-----------------------------------------------------------------------------
States == Gone \cup {"start", "fetch", "run", "report", "recheck", "quitting"}

\* The types of the variables.
TypeOK ==
  /\ pending \in Seq(Tasks) /\ scheduled \in Seq(Tasks)
  /\ handle \in Workers \cup {NoWorker}
  /\ maintenance \in BOOLEAN
  /\ thread \in [Workers -> States]
  /\ current \in [Workers -> Seq(Tasks)]
  /\ failed \in [Workers -> BOOLEAN]
  /\ told \in {"nothing", "start", "success", "failure"}
  /\ ran \in Seq([task : Tasks, ok : BOOLEAN])
  /\ base \in Nat

\* Two threads never work on the queue, and no thread is forgotten while it
\* runs: the tasks rewrite the same files without a lock of their own.
OneWorker ==
  \A w \in Workers : Alive(w) => handle = w

TasksOf(results) == [i \in 1..Len(results) |-> results[i].task]

\* What the thread that the handle refers to has taken and not finished.
InHand == IF handle = NoWorker THEN << >> ELSE current[handle]

\* Every task scheduled has been run, is being run or waits, once each and
\* in the order of their scheduling, whichever thread came to run it.
NothingLost == scheduled = TasksOf(ran) \o InHand \o pending

\* The deployer is a queue of tasks served in order, one at a time, once each.
Queue == INSTANCE TaskQueue
           WITH waiting <- pending, serving <- InHand, served <- TasksOf(ran)
ServesQueue == Queue!Spec

\* The user hears "success" only of work that succeeded as a whole, tasks
\* added while the message was on its way included, and "failure" only when
\* something failed.
MessageTruthful ==
  \A w \in Workers :
    thread[w] \in {"recheck", "quitting"} =>
      /\ told = "success" => \A i \in (base + 1)..Len(ran) : ran[i].ok
      /\ told = "failure" => \E i \in (base + 1)..Len(ran) : ~ran[i].ok

\* A thread keeps the mode it was started in: a call of StartWork that comes
\* too late must not let sessions in, or shut them out, under its feet.
ModeIsStable ==
  [][Working /\ Working' /\ handle' = handle => maintenance' = maintenance]_vars
=============================================================================
