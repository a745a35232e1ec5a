---------------------------- MODULE ServiceProofs ---------------------------
(***************************************************************************)
(* Proofs about the service, for any sessions, tasks and threads: that the *)
(* API makes no use of the deployer but those its own proofs allow for, so *)
(* that its invariant holds here as well; and on top of it what keeps the  *)
(* work thread apart from sessions, from tasks run by the API thread and   *)
(* from a service that is being torn down.                                 *)
(*                                                                         *)
(* No lock keeps them apart.  It is the order of the operations in each    *)
(* call of the API, which the invariant states of whatever is left to do.  *)
(***************************************************************************)
EXTENDS Service, DeployerProofs

Names == {"init", "stop", "cleanup", "join", "run", "schedule", "work"}

\* What can be left to do: whatever is scheduled is a task, and whatever
\* starts the work thread has a mode.
Ops == {o \in [op : Names, arg : Tasks \cup {"config_file_update"} \cup BOOLEAN] :
          /\ o.op = "schedule" => o.arg \in Tasks
          /\ o.op = "work" => o.arg \in BOOLEAN}

NobodyWorks == \A w \in Workers : ~Alive(w)

\* What must not meet a work thread comes right after the operations that
\* see to it.
Apart ==
  \A i \in 1..Len(todo) :
    todo[i].op \in {"stop", "init", "run"} =>
      IF i = 1 THEN NobodyWorks
               ELSE todo[i - 1].op \in {"join", "stop", "init", "run"}

\* Before the work thread is started in maintenance mode the sessions go.
Cleared ==
  \A i \in 1..Len(todo) :
    todo[i].op = "work" /\ todo[i].arg = TRUE =>
      sessions = {} \/ \E j \in 1..(i - 1) : todo[j].op \in {"cleanup", "stop"}

\* A service that is stopped is started at once, unless the front end quits.
Restarted ==
  /\ \A i \in 1..Len(todo) :
       todo[i].op = "stop" =>
         IF i = Len(todo) THEN over ELSE todo[i + 1].op = "init"
  /\ ~started => /\ NobodyWorks
                 /\ IF todo = << >> THEN over ELSE todo[1].op = "init"

ServiceInv ==
  /\ IInv
  /\ todo \in Seq(Ops)
  /\ started \in BOOLEAN /\ over \in BOOLEAN
  /\ direct # << >> => todo # << >> /\ todo[1].op = "run"
  /\ Apart /\ Cleared /\ Restarted
  /\ MaintenanceWithoutSessions

-----------------------------------------------------------------------------
(* The operations of each call.                                            *)

LEMMA TaskNames ==
  {"installation_update", "backup_config_files", "user_dict_sync", "workspace_update",
   "user_dict_upgration", "cleanup_trash", "userdb_recovery_task"} \subseteq Tasks
  BY TasksAssumption DEF AllTasks, Maintenances, Recovery

LEMMA OpsOf ==
  /\ \A t \in Tasks : Schedule(t) \in Ops
  /\ \A mode \in BOOLEAN : Work(mode) \in Ops
  /\ \A n \in {"init", "stop", "cleanup", "join"} : Op(n, TRUE) \in Ops
  /\ \A t \in Tasks \cup {"config_file_update"} : Op("run", t) \in Ops
  BY DEF Schedule, Work, Op, Ops, Names

\* The tasks that either start schedules, and the thread it starts for them.
Rest == << Schedule("workspace_update"), Schedule("user_dict_upgration"),
           Schedule("cleanup_trash"), Work(TRUE) >>

\* What a call is made of, put together.
LEMMA Joined ==
  ASSUME NEW s \in Seq(Ops), NEW t \in Seq(Ops)
  PROVE  /\ s \o t \in Seq(Ops)
         /\ Len(s \o t) = Len(s) + Len(t)
         /\ \A i \in 1..(Len(s) + Len(t)) :
              (s \o t)[i] = IF i <= Len(s) THEN s[i] ELSE t[i - Len(s)]
  BY ConcatProperties

LEMMA FourOps ==
  ASSUME NEW a \in Ops, NEW b \in Ops, NEW c \in Ops, NEW d \in Ops
  PROVE  /\ << a, b, c, d >> \in Seq(Ops)
         /\ Len(<< a, b, c, d >>) = 4
  OBVIOUS

LEMMA RestFacts ==
  /\ Rest \in Seq(Ops) /\ Len(Rest) = 4
  /\ Rest[1].op = "schedule" /\ Rest[2].op = "schedule" /\ Rest[3].op = "schedule"
  /\ Rest[4].op = "work" /\ Rest[4].arg = TRUE
<1>1. /\ Schedule("workspace_update") \in Ops /\ Schedule("user_dict_upgration") \in Ops
      /\ Schedule("cleanup_trash") \in Ops /\ Work(TRUE) \in Ops
  BY TaskNames, OpsOf
<1>2. Rest \in Seq(Ops) /\ Len(Rest) = 4
  BY <1>1, FourOps, Zenon DEF Rest
<1>3. /\ Rest[1] = Schedule("workspace_update") /\ Rest[2] = Schedule("user_dict_upgration")
      /\ Rest[3] = Schedule("cleanup_trash") /\ Rest[4] = Work(TRUE)
  BY DEF Rest
<1> QED BY <1>2, <1>3 DEF Schedule, Work, Op

FirstStart == Initialize \o StartMaintenance(FALSE)
Redeploy   == Finalize \o Initialize \o StartMaintenance(TRUE)

LEMMA FirstStartFacts ==
  /\ FirstStart \in Seq(Ops) /\ Len(FirstStart) = 7
  /\ FirstStart[1].op = "init" /\ FirstStart[2].op = "run" /\ FirstStart[3].op = "run"
  /\ \A i \in 4..6 : FirstStart[i].op = "schedule"
  /\ FirstStart[7].op = "work" /\ FirstStart[7].arg = TRUE
<1> DEFINE a == << Op("init", TRUE) >>
           b == << Op("run", "installation_update") >>
           c == << Op("run", "config_file_update") >>
<1>1. /\ a \in Seq(Ops) /\ b \in Seq(Ops) /\ c \in Seq(Ops)
      /\ Len(a) = 1 /\ Len(b) = 1 /\ Len(c) = 1
      /\ a[1].op = "init" /\ b[1].op = "run" /\ c[1].op = "run"
  <2>1. /\ Op("init", TRUE) \in Ops /\ Op("run", "installation_update") \in Ops
        /\ Op("run", "config_file_update") \in Ops
    BY TaskNames, OpsOf
  <2> QED BY <2>1 DEF Op
<1>2. FirstStart = a \o ((b \o c) \o Rest)
  BY DEF FirstStart, Initialize, StartMaintenance, Rest
<1> HIDE DEF a, b, c
<1> DEFINE d == b \o c
<1>3. /\ d \in Seq(Ops) /\ Len(d) = 2
      /\ \A i \in 1..2 : d[i] = IF i <= 1 THEN b[i] ELSE c[i - 1]
  BY SMTT(60), <1>1, Joined
<1> HIDE DEF d
<1> DEFINE e == d \o Rest
<1>4. /\ e \in Seq(Ops) /\ Len(e) = 6
      /\ \A i \in 1..6 : e[i] = IF i <= 2 THEN d[i] ELSE Rest[i - 2]
  <2>1. /\ d \in Seq(Ops) /\ Rest \in Seq(Ops) /\ Len(d) = 2 /\ Len(Rest) = 4
    BY <1>3, RestFacts
  <2>2. /\ e \in Seq(Ops) /\ Len(e) = Len(d) + Len(Rest)
        /\ \A i \in 1..(Len(d) + Len(Rest)) :
             e[i] = IF i <= Len(d) THEN d[i] ELSE Rest[i - Len(d)]
    BY <2>1, Joined, Zenon
  <2> QED BY <2>1, <2>2
<1> HIDE DEF e
<1> DEFINE f == a \o e
<1>5. /\ f \in Seq(Ops) /\ Len(f) = 7
      /\ \A i \in 1..7 : f[i] = IF i <= 1 THEN a[i] ELSE e[i - 1]
  <2>1. /\ f \in Seq(Ops) /\ Len(f) = Len(a) + Len(e)
        /\ \A i \in 1..(Len(a) + Len(e)) :
             f[i] = IF i <= Len(a) THEN a[i] ELSE e[i - Len(a)]
    BY <1>1, <1>4, Joined, Zenon
  <2> HIDE DEF f
  <2> QED BY <1>1, <1>4, <2>1
<1>6. FirstStart = f
  BY <1>2 DEF d, e, f
<1> HIDE DEF f
<1> QED BY <1>1, <1>3, <1>4, <1>5, <1>6, RestFacts

LEMMA RedeployFacts ==
  /\ Redeploy \in Seq(Ops) /\ Len(Redeploy) = 8
  /\ Redeploy[1].op = "join" /\ Redeploy[2].op = "stop" /\ Redeploy[3].op = "init"
  /\ Redeploy[4].op = "run"
  /\ \A i \in 5..7 : Redeploy[i].op = "schedule"
  /\ Redeploy[8].op = "work" /\ Redeploy[8].arg = TRUE
<1> DEFINE a == << Op("join", TRUE), Op("stop", TRUE) >>
           b == << Op("init", TRUE) >>
           c == << Op("run", "installation_update") >>
<1>1. /\ a \in Seq(Ops) /\ b \in Seq(Ops) /\ c \in Seq(Ops)
      /\ Len(a) = 2 /\ Len(b) = 1 /\ Len(c) = 1
      /\ a[1].op = "join" /\ a[2].op = "stop" /\ b[1].op = "init" /\ c[1].op = "run"
  <2>1. /\ Op("join", TRUE) \in Ops /\ Op("stop", TRUE) \in Ops /\ Op("init", TRUE) \in Ops
        /\ Op("run", "installation_update") \in Ops
    BY TaskNames, OpsOf
  <2> QED BY <2>1 DEF Op
<1>2. Redeploy = (a \o b) \o ((c \o << >>) \o Rest)
  BY DEF Redeploy, Finalize, Initialize, StartMaintenance, Rest
<1> HIDE DEF a, b, c
<1>3. c \o << >> = c
  BY <1>1, ConcatEmptySeq
<1> DEFINE d == a \o b
<1>4. /\ d \in Seq(Ops) /\ Len(d) = 3
      /\ \A i \in 1..3 : d[i] = IF i <= 2 THEN a[i] ELSE b[i - 2]
  <2>1. /\ d \in Seq(Ops) /\ Len(d) = Len(a) + Len(b)
        /\ \A i \in 1..(Len(a) + Len(b)) : d[i] = IF i <= Len(a) THEN a[i] ELSE b[i - Len(a)]
    BY <1>1, Joined, Zenon
  <2> HIDE DEF d
  <2> QED BY <1>1, <2>1
<1> HIDE DEF d
<1> DEFINE e == c \o Rest
<1>5. /\ e \in Seq(Ops) /\ Len(e) = 5
      /\ \A i \in 1..5 : e[i] = IF i <= 1 THEN c[i] ELSE Rest[i - 1]
  <2>1. /\ e \in Seq(Ops) /\ Len(e) = Len(c) + Len(Rest)
        /\ \A i \in 1..(Len(c) + Len(Rest)) :
             e[i] = IF i <= Len(c) THEN c[i] ELSE Rest[i - Len(c)]
    BY <1>1, RestFacts, Joined, Zenon
  <2> HIDE DEF e
  <2> QED BY <1>1, RestFacts, <2>1
<1> HIDE DEF e
<1> DEFINE f == d \o e
<1>6. /\ f \in Seq(Ops) /\ Len(f) = 8
      /\ \A i \in 1..8 : f[i] = IF i <= 3 THEN d[i] ELSE e[i - 3]
  <2>1. /\ f \in Seq(Ops) /\ Len(f) = Len(d) + Len(e)
        /\ \A i \in 1..(Len(d) + Len(e)) :
             f[i] = IF i <= Len(d) THEN d[i] ELSE e[i - Len(d)]
    BY <1>4, <1>5, Joined, Zenon
  <2> HIDE DEF f
  <2> QED BY <1>4, <1>5, <2>1
<1>7. Redeploy = f
  BY <1>2, <1>3 DEF d, e, f
<1> HIDE DEF f
<1> QED BY <1>1, <1>4, <1>5, <1>6, <1>7, RestFacts

LEMMA SyncFacts ==
  /\ SyncUserData \in Seq(Ops) /\ Len(SyncUserData) = 5
  /\ SyncUserData[1].op = "cleanup"
  /\ \A i \in 2..4 : SyncUserData[i].op = "schedule"
  /\ SyncUserData[5].op = "work" /\ SyncUserData[5].arg = TRUE
<1>1. /\ Op("cleanup", TRUE) \in Ops /\ Schedule("installation_update") \in Ops
      /\ Schedule("backup_config_files") \in Ops /\ Schedule("user_dict_sync") \in Ops
      /\ Work(TRUE) \in Ops
  BY TaskNames, OpsOf
<1>2. \A a, b, c, d, e \in Ops : << a, b, c, d, e >> \in Seq(Ops) /\ Len(<< a, b, c, d, e >>) = 5
  OBVIOUS
<1>3. SyncUserData \in Seq(Ops) /\ Len(SyncUserData) = 5
  BY <1>1, <1>2, Zenon DEF SyncUserData
<1>4. /\ SyncUserData[1] = Op("cleanup", TRUE)
      /\ SyncUserData[2] = Schedule("installation_update")
      /\ SyncUserData[3] = Schedule("backup_config_files")
      /\ SyncUserData[4] = Schedule("user_dict_sync")
      /\ SyncUserData[5] = Work(TRUE)
  BY DEF SyncUserData
<1> QED BY <1>3, <1>4 DEF Op, Schedule, Work

LEMMA ShortFacts ==
  /\ Recover \in Seq(Ops) /\ Len(Recover) = 2
  /\ Recover[1].op = "schedule" /\ Recover[1].arg = Recovery
  /\ Recover[2].op = "work" /\ Recover[2].arg = FALSE
  /\ Finalize \in Seq(Ops) /\ Len(Finalize) = 2
  /\ Finalize[1].op = "join" /\ Finalize[2].op = "stop"
<1>1. /\ Schedule(Recovery) \in Ops /\ Work(FALSE) \in Ops
      /\ Op("join", TRUE) \in Ops /\ Op("stop", TRUE) \in Ops
  BY TaskNames, OpsOf DEF Recovery
<1>2. \A a, b \in Ops : << a, b >> \in Seq(Ops) /\ Len(<< a, b >>) = 2
  OBVIOUS
<1>3. /\ Recover \in Seq(Ops) /\ Len(Recover) = 2
      /\ Finalize \in Seq(Ops) /\ Len(Finalize) = 2
  BY <1>1, <1>2, Zenon DEF Recover, Finalize
<1>4. /\ Recover[1] = Schedule(Recovery) /\ Recover[2] = Work(FALSE)
      /\ Finalize[1] = Op("join", TRUE) /\ Finalize[2] = Op("stop", TRUE)
  BY DEF Recover, Finalize
<1> QED BY <1>3, <1>4 DEF Op, Schedule, Work

-----------------------------------------------------------------------------
(* What an operation leaves of the invariant, as the call moves past it.   *)

LEMMA TailFacts ==
  ASSUME NEW s \in Seq(Ops), s # << >>
  PROVE  /\ Len(s) \in Nat /\ Len(s) >= 1
         /\ Head(s) = s[1] /\ s[1] \in Ops
         /\ Tail(s) \in Seq(Ops) /\ Len(Tail(s)) = Len(s) - 1
         /\ \A i \in 1..(Len(s) - 1) : Tail(s)[i] = s[i + 1]
<1>1. Len(s) \in Nat /\ Len(s) >= 1
  BY EmptySeq, LenProperties
<1>2. Head(s) = s[1] /\ s[1] \in Ops
  BY <1>1, HeadTailProperties, ElementOfSeq
<1>3. /\ Tail(s) \in Seq(Ops) /\ Len(Tail(s)) = Len(s) - 1
      /\ \A i \in 1..(Len(s) - 1) : Tail(s)[i] = s[i + 1]
  BY <1>1, HeadTailProperties
<1> QED BY <1>1, <1>2, <1>3

LEMMA ApartLeft ==
  ASSUME todo \in Seq(Ops), todo # << >>, Apart, Done,
         todo[1].op \in {"join", "stop", "init", "run"} => NobodyWorks'
  PROVE  Apart'
<1>1. /\ Len(todo) \in Nat /\ Len(todo') = Len(todo) - 1
      /\ \A i \in 1..(Len(todo) - 1) : todo'[i] = todo[i + 1]
  BY TailFacts DEF Done
<1> SUFFICES ASSUME NEW i \in 1..Len(todo'), todo'[i].op \in {"stop", "init", "run"}
             PROVE  IF i = 1 THEN NobodyWorks'
                             ELSE todo'[i - 1].op \in {"join", "stop", "init", "run"}
  BY DEF Apart
<1>2. i + 1 \in 1..Len(todo) /\ i + 1 # 1 /\ todo[i + 1].op \in {"stop", "init", "run"}
  BY <1>1
<1>3. todo[(i + 1) - 1].op \in {"join", "stop", "init", "run"}
  BY <1>2 DEF Apart
<1>4. (i + 1) - 1 = i
  BY <1>1
<1>5. CASE i = 1
  BY <1>3, <1>4, <1>5
<1>6. CASE i # 1
  <2>1. i - 1 \in 1..(Len(todo) - 1) /\ (i - 1) + 1 = i
    BY <1>1, <1>6
  <2> QED BY <1>1, <1>3, <1>4, <1>6, <2>1
<1> QED BY <1>5, <1>6

LEMMA ClearedLeft ==
  ASSUME todo \in Seq(Ops), todo # << >>, Cleared, Done,
         sessions = {} \/ todo[1].op \in {"cleanup", "stop"} => sessions' = {}
  PROVE  Cleared'
<1>1. /\ Len(todo) \in Nat /\ Len(todo') = Len(todo) - 1
      /\ \A i \in 1..(Len(todo) - 1) : todo'[i] = todo[i + 1]
  BY TailFacts DEF Done
<1> SUFFICES ASSUME NEW i \in 1..Len(todo'), todo'[i].op = "work", todo'[i].arg = TRUE
             PROVE  \/ sessions' = {}
                    \/ \E j \in 1..(i - 1) : todo'[j].op \in {"cleanup", "stop"}
  BY DEF Cleared
<1>2. /\ i + 1 \in 1..Len(todo) /\ (i + 1) - 1 = i
      /\ todo[i + 1].op = "work" /\ todo[i + 1].arg = TRUE
  BY <1>1
<1>3. sessions = {} \/ \E j \in 1..i : todo[j].op \in {"cleanup", "stop"}
  BY <1>2 DEF Cleared
<1>4. ASSUME NEW j \in 1..i, j # 1, todo[j].op \in {"cleanup", "stop"}
      PROVE  \E k \in 1..(i - 1) : todo'[k].op \in {"cleanup", "stop"}
  <2>1. j - 1 \in 1..(i - 1) /\ j - 1 \in 1..(Len(todo) - 1) /\ (j - 1) + 1 = j
    BY <1>1, <1>4
  <2> QED BY <1>1, <1>4, <2>1
<1> QED BY <1>3, <1>4

LEMMA RestartedLeft ==
  ASSUME todo \in Seq(Ops), todo # << >>, Restarted, Apart, Done, over' = over,
         \/ todo[1].op = "stop" /\ thread' = thread
         \/ started' = TRUE
         \/ todo[1].op # "init" /\ started' = started
  PROVE  Restarted'
<1>1. /\ Len(todo) \in Nat /\ Len(todo) >= 1 /\ Len(todo') = Len(todo) - 1
      /\ \A i \in 1..(Len(todo) - 1) : todo'[i] = todo[i + 1]
      /\ todo' \in Seq(Ops)
  BY TailFacts DEF Done
<1>2. ASSUME NEW i \in 1..Len(todo'), todo'[i].op = "stop"
      PROVE  IF i = Len(todo') THEN over' ELSE todo'[i + 1].op = "init"
  <2>1. i + 1 \in 1..Len(todo) /\ todo[i + 1].op = "stop"
    BY <1>1, <1>2
  <2>2. IF i + 1 = Len(todo) THEN over ELSE todo[(i + 1) + 1].op = "init"
    BY <2>1 DEF Restarted
  <2>3. CASE i = Len(todo')
    BY <1>1, <2>2, <2>3
  <2>4. CASE i # Len(todo')
    <3>1. i + 1 \in 1..(Len(todo) - 1) /\ i + 1 # Len(todo)
      BY <1>1, <2>4
    <3> QED BY <1>1, <2>2, <2>4, <3>1
  <2> QED BY <2>3, <2>4
<1>3. ASSUME ~started'
      PROVE  /\ NobodyWorks'
             /\ IF todo' = << >> THEN over' ELSE todo'[1].op = "init"
  <2>1. CASE todo[1].op = "stop" /\ thread' = thread
    <3>1. NobodyWorks'
      BY <1>1, <2>1 DEF Apart, NobodyWorks, Alive
    <3>2. IF 1 = Len(todo) THEN over ELSE todo[1 + 1].op = "init"
      BY <1>1, <2>1 DEF Restarted
    <3>3. CASE todo' = << >>
      <4>1. Len(todo) = 1
        BY <1>1, <3>3
      <4> QED BY <3>1, <3>2, <3>3, <4>1
    <3>4. CASE todo' # << >>
      <4>1. Len(todo') >= 1
        BY <1>1, <3>4, TailFacts
      <4>2. Len(todo) # 1 /\ 1 \in 1..(Len(todo) - 1)
        BY <1>1, <4>1
      <4> QED BY <1>1, <3>1, <3>2, <3>4, <4>2
    <3> QED BY <3>3, <3>4
  <2>2. CASE todo[1].op # "init" /\ started' = started
    BY <1>3, <2>2 DEF Restarted
  <2> QED BY <1>3, <2>1, <2>2
<1> QED BY <1>2, <1>3 DEF Restarted

-----------------------------------------------------------------------------
(* The deployer under the service.                                         *)

\* Every step of the service is one the deployer allows for, or none of its.
LEMMA DeployerStep ==
  ASSUME todo \in Seq(Ops), [ServiceNext]_svars
  PROVE  [Next]_vars
<1>1. CASE Operation
  <2>1. CASE DoSchedule
    <3>1. todo # << >> /\ Head(todo).op = "schedule" /\ Head(todo) = todo[1] /\ todo[1] \in Ops
      BY <2>1, TailFacts DEF DoSchedule, Doing
    <3>2. Head(todo).arg \in Tasks /\ ScheduleTask(Head(todo).arg)
      BY <2>1, <3>1 DEF Ops, DoSchedule
    <3> QED BY <3>2 DEF Next
  <2>2. CASE DoWork
    <3>1. todo # << >> /\ Head(todo).op = "work" /\ Head(todo) = todo[1] /\ todo[1] \in Ops
      BY <2>2, TailFacts DEF DoWork, Doing
    <3>2. Head(todo).arg \in BOOLEAN /\ StartWork(Head(todo).arg)
      BY <2>2, <3>1 DEF Ops, DoWork
    <3> QED BY <3>2 DEF Next
  <2>3. CASE DoJoin
    BY <2>3 DEF DoJoin, Next
  <2>4. CASE DoInit \/ DoStop \/ DoCleanup \/ DoRun \/ DoneRun
    BY <2>4 DEF DoInit, DoStop, DoCleanup, DoRun, DoneRun
  <2> QED BY <1>1, <2>1, <2>2, <2>3, <2>4 DEF Operation
<1>2. CASE FrontEnd
  BY <1>2 DEF FrontEnd, CreateSession, UseSession, Refused, DropSessions, Sync, Deploy,
              Exit, Next
<1>3. CASE WorkThread
  BY <1>3 DEF WorkThread, Next
<1>4. CASE UNCHANGED svars
  BY <1>4 DEF svars
<1> QED BY <1>1, <1>2, <1>3, <1>4 DEF ServiceNext

\* A thread that works is found working, there being no other.
LEMMA NobodyFacts ==
  ASSUME IInv
  PROVE  /\ ~Working => NobodyWorks
         /\ NobodyWorks => \A w \in Workers : ~Worker(w)
<1>1. ASSUME NEW w \in Workers, Alive(w)
      PROVE  Working
  BY <1>1, DeployerAssumption DEF IInv, OneWorker, Working, Alive, Gone
<1>2. ASSUME NEW w \in Workers, Worker(w)
      PROVE  Alive(w)
  BY <1>2 DEF Worker, Begin, NextTask, RunTask, Report, Recheck, Quit, Alive, Gone
<1> QED BY <1>1, <1>2 DEF NobodyWorks

\* Maintenance begins with StartWork(TRUE), and with nothing else.
LEMMA MaintenanceFacts ==
  ASSUME IInv
  PROVE  /\ IsMaintenanceMode => (InMaintenance' => InMaintenance)
         /\ (\E w \in Workers : Worker(w)) => (InMaintenance' => InMaintenance)
         /\ \A t \in Tasks : ScheduleTask(t) => (InMaintenance' => InMaintenance)
         /\ \A mode \in BOOLEAN :
              StartWork(mode) => (InMaintenance' => InMaintenance \/ mode = TRUE)
         /\ JoinWorkThread => ~InMaintenance' /\ NobodyWorks'
<1>1. thread \in [Workers -> States] /\ handle \in Workers \cup {NoWorker}
      /\ maintenance \in BOOLEAN
  BY DEF IInv, TypeOK
<1>2. ASSUME IsMaintenanceMode, InMaintenance'
      PROVE  InMaintenance
  BY <1>2 DEF IsMaintenanceMode, HandleAfterIsWorking, InMaintenance, Working
<1>3. ASSUME NEW w \in Workers, Worker(w), InMaintenance'
      PROVE  InMaintenance
  BY <1>1, <1>3
     DEF Worker, Begin, NextTask, RunTask, Report, Recheck, Quit, InMaintenance, Working
<1>4. ASSUME NEW t \in Tasks, ScheduleTask(t), InMaintenance'
      PROVE  InMaintenance
  BY <1>4 DEF ScheduleTask, InMaintenance, Working
<1>5. ASSUME NEW mode \in BOOLEAN, StartWork(mode), InMaintenance'
      PROVE  InMaintenance \/ mode = TRUE
  <2>1. CASE UNCHANGED vars
    BY <1>5, <2>1 DEF vars, InMaintenance, Working
  <2>2. CASE maintenance' = mode
    BY <1>5, <2>2 DEF InMaintenance
  <2> QED BY <1>5, <2>1, <2>2 DEF StartWork
<1>6. ASSUME JoinWorkThread
      PROVE  ~InMaintenance' /\ NobodyWorks'
  <2>1. NobodyWorks
    BY <1>6, NobodyFacts DEF JoinWorkThread
  <2> QED BY <1>6, <2>1 DEF JoinWorkThread, InMaintenance, Working, NobodyWorks, Alive
<1> QED BY <1>2, <1>3, <1>4, <1>5, <1>6

-----------------------------------------------------------------------------
(* The invariant is kept.                                                  *)

LEMMA ServiceInitInv == ServiceInit => ServiceInv
<1> SUFFICES ASSUME ServiceInit PROVE ServiceInv
  OBVIOUS
<1>1. todo = FirstStart /\ sessions = {} /\ direct = << >> /\ started = FALSE /\ over = FALSE
  BY DEF ServiceInit, FirstStart
<1>2. IInv
  BY InitInv DEF ServiceInit
<1>3. NobodyWorks
  BY DEF ServiceInit, Init, NobodyWorks, Alive, Gone
<1>4. Apart
  <2> SUFFICES ASSUME NEW i \in 1..7, todo[i].op \in {"stop", "init", "run"}
               PROVE  IF i = 1 THEN NobodyWorks
                               ELSE todo[i - 1].op \in {"join", "stop", "init", "run"}
    BY <1>1, FirstStartFacts DEF Apart
  <2>1. CASE i = 1
    BY <1>3, <2>1
  <2>2. CASE i \in {2, 3}
    BY <1>1, <2>2, FirstStartFacts
  <2>3. CASE i \in 4..7
    BY <1>1, <2>3, FirstStartFacts
  <2> QED BY <2>1, <2>2, <2>3
<1>5. Cleared
  BY <1>1 DEF Cleared
<1>6. Restarted
  <2>1. \A i \in 1..7 : todo[i].op # "stop"
    BY <1>1, FirstStartFacts
  <2>2. todo # << >> /\ todo[1].op = "init"
    <3>1. FirstStart \in Seq(Ops) /\ Len(FirstStart) = 7
      BY FirstStartFacts
    <3>2. FirstStart[1].op = "init"
      BY FirstStartFacts
    <3>3. FirstStart # << >>
      BY <3>1, EmptySeq
    <3> QED BY <1>1, <3>2, <3>3
  <2> QED BY <1>1, <1>3, <2>1, <2>2, FirstStartFacts DEF Restarted
<1>7. MaintenanceWithoutSessions
  BY <1>1 DEF MaintenanceWithoutSessions
<1> QED BY <1>1, <1>2, <1>4, <1>5, <1>6, <1>7, FirstStartFacts DEF ServiceInv

\* The operations of a call, in their order.
LEMMA OperationKeeps ==
  ASSUME ServiceInv, Operation, IInv'
  PROVE  ServiceInv'
<1>1. /\ todo \in Seq(Ops) /\ IInv /\ Apart /\ Cleared /\ Restarted
      /\ MaintenanceWithoutSessions /\ started \in BOOLEAN /\ over \in BOOLEAN
  BY DEF ServiceInv
<1>2. todo # << >> /\ Head(todo) = todo[1] /\ todo[1] \in Ops /\ Tail(todo) \in Seq(Ops)
  <2>1. todo # << >>
    BY DEF Operation, DoInit, DoStop, DoCleanup, DoRun, DoneRun, DoSchedule, DoWork,
           DoJoin, Doing
  <2> QED BY <1>1, <2>1, TailFacts
<1>3. 1 \in 1..Len(todo)
  BY <1>1, <1>2, TailFacts
<1>4. todo[1].op \in {"stop", "init", "run"} => NobodyWorks
  BY <1>3 DEF Apart, ServiceInv
<1>5. direct # << >> => todo[1].op = "run"
  BY DEF ServiceInv
<1>6. CASE DoInit
  <2>1. todo[1].op = "init" /\ Done /\ UNCHANGED << vars, sessions, direct, over >> /\ started' = TRUE
    BY <1>2, <1>6 DEF DoInit, Doing
  <2>2. Apart'
    BY <1>1, <1>2, <1>4, <2>1, ApartLeft DEF NobodyWorks, Alive, vars
  <2>3. Cleared' /\ Restarted'
    BY <1>1, <1>2, <2>1, ClearedLeft, RestartedLeft
  <2>4. MaintenanceWithoutSessions'
    BY <1>1, <2>1 DEF MaintenanceWithoutSessions, InMaintenance, Working, vars
  <2> QED BY <1>1, <1>2, <1>5, <2>1, <2>2, <2>3, <2>4 DEF ServiceInv, Done
<1>7. CASE DoStop
  <2>1. todo[1].op = "stop" /\ Done /\ UNCHANGED << vars, direct, over >>
        /\ started' = FALSE /\ sessions' = {}
    BY <1>2, <1>7 DEF DoStop, Doing
  <2>2. Apart'
    BY <1>1, <1>2, <1>4, <2>1, ApartLeft DEF NobodyWorks, Alive, vars
  <2>3. Cleared' /\ Restarted'
    BY <1>1, <1>2, <2>1, ClearedLeft, RestartedLeft DEF vars
  <2>4. MaintenanceWithoutSessions'
    BY <2>1 DEF MaintenanceWithoutSessions
  <2> QED BY <1>1, <1>2, <1>5, <2>1, <2>2, <2>3, <2>4 DEF ServiceInv, Done
<1>8. CASE DoCleanup
  <2>1. todo[1].op = "cleanup" /\ Done /\ UNCHANGED << vars, started, direct, over >>
        /\ sessions' = {}
    BY <1>2, <1>8 DEF DoCleanup, Doing
  <2>2. Apart' /\ Cleared' /\ Restarted'
    BY <1>1, <1>2, <2>1, ApartLeft, ClearedLeft, RestartedLeft
  <2>3. MaintenanceWithoutSessions'
    BY <2>1 DEF MaintenanceWithoutSessions
  <2> QED BY <1>1, <1>2, <1>5, <2>1, <2>2, <2>3 DEF ServiceInv, Done
<1>9. CASE DoRun
  <2>1. todo[1].op = "run" /\ UNCHANGED << vars, started, sessions, todo, over >>
    BY <1>2, <1>9 DEF DoRun, Doing
  <2> QED
    BY <1>1, <1>2, <2>1
       DEF ServiceInv, Apart, Cleared, Restarted, MaintenanceWithoutSessions,
           InMaintenance, Working, NobodyWorks, Alive, vars
<1>10. CASE DoneRun
  <2>1. /\ todo[1].op = "run" /\ direct' = << >> /\ todo' \in {Tail(todo), << >>}
        /\ UNCHANGED << vars, started, sessions, over >>
    BY <1>2, <1>10 DEF DoneRun, Doing
  <2>2. NobodyWorks'
    BY <1>4, <2>1 DEF NobodyWorks, Alive, vars
  <2>3. MaintenanceWithoutSessions'
    BY <1>1, <2>1 DEF MaintenanceWithoutSessions, InMaintenance, Working, vars
  <2>4. CASE Done
    <3>1. Apart' /\ Cleared' /\ Restarted'
      BY <1>1, <1>2, <2>1, <2>2, <2>4, ApartLeft, ClearedLeft, RestartedLeft
    <3> QED BY <1>1, <1>2, <2>1, <2>3, <2>4, <3>1 DEF ServiceInv, Done
  <2>5. CASE todo' = << >>
    <3>1. todo' \in Seq(Ops) /\ Len(todo') = 0 /\ 1..Len(todo') = {}
      BY <2>5, EmptySeq
    <3>2. started
      BY <1>1, <1>2, <2>1 DEF Restarted
    <3>3. Apart' /\ Cleared' /\ Restarted'
      BY <2>1, <3>1, <3>2 DEF Apart, Cleared, Restarted
    <3> QED BY <1>1, <2>1, <2>3, <3>1, <3>3 DEF ServiceInv
  <2> QED BY <2>1, <2>4, <2>5 DEF Done
<1>11. CASE DoSchedule
  <2>1. todo[1].op = "schedule" /\ Done /\ UNCHANGED << started, sessions, direct, over >>
        /\ ScheduleTask(todo[1].arg)
    BY <1>2, <1>11 DEF DoSchedule, Doing
  <2>2. Apart' /\ Cleared' /\ Restarted'
    BY <1>1, <1>2, <2>1, ApartLeft, ClearedLeft, RestartedLeft
  <2>3. todo[1].arg \in Tasks
    BY <1>2, <2>1 DEF Ops
  <2>4. MaintenanceWithoutSessions'
    BY <1>1, <2>1, <2>3, MaintenanceFacts DEF MaintenanceWithoutSessions
  <2> QED BY <1>1, <1>2, <1>5, <2>1, <2>2, <2>4 DEF ServiceInv, Done
<1>12. CASE DoWork
  <2>1. todo[1].op = "work" /\ Done /\ UNCHANGED << started, sessions, direct, over >>
        /\ StartWork(todo[1].arg)
    BY <1>2, <1>12 DEF DoWork, Doing
  <2>2. Apart' /\ Cleared' /\ Restarted'
    BY <1>1, <1>2, <2>1, ApartLeft, ClearedLeft, RestartedLeft
  <2>3. todo[1].arg \in BOOLEAN
    BY <1>2, <2>1 DEF Ops
  <2>4. todo[1].arg = TRUE => sessions = {}
    BY <1>3, <2>1, <1>1 DEF Cleared
  <2>5. MaintenanceWithoutSessions'
    BY <1>1, <2>1, <2>3, <2>4, MaintenanceFacts DEF MaintenanceWithoutSessions
  <2> QED BY <1>1, <1>2, <1>5, <2>1, <2>2, <2>5 DEF ServiceInv, Done
<1>13. CASE DoJoin
  <2>1. todo[1].op = "join" /\ Done /\ UNCHANGED << started, sessions, direct, over >>
        /\ JoinWorkThread
    BY <1>2, <1>13 DEF DoJoin, Doing
  <2>2. NobodyWorks' /\ ~InMaintenance'
    BY <1>1, <2>1, MaintenanceFacts
  <2>3. Apart' /\ Cleared' /\ Restarted'
    BY <1>1, <1>2, <2>1, <2>2, ApartLeft, ClearedLeft, RestartedLeft
  <2> QED BY <1>1, <1>2, <1>5, <2>1, <2>2, <2>3 DEF ServiceInv, Done, MaintenanceWithoutSessions
<1> QED BY <1>6, <1>7, <1>8, <1>9, <1>10, <1>11, <1>12, <1>13 DEF Operation

\* The calls a front end may make, from none in progress.
LEMMA FrontEndKeeps ==
  ASSUME ServiceInv, FrontEnd, IInv'
  PROVE  ServiceInv'
<1>1. /\ todo = << >> /\ ~over /\ IInv /\ Restarted
      /\ MaintenanceWithoutSessions /\ started \in BOOLEAN /\ over \in BOOLEAN
  BY DEF ServiceInv, FrontEnd, CreateSession, UseSession, Refused, DropSessions, Sync,
         Deploy, Exit, Idle
<1>2. direct = << >> /\ started /\ direct' = << >> /\ started' /\ started' \in BOOLEAN
      /\ over' \in BOOLEAN
  BY <1>1 DEF ServiceInv, Restarted, FrontEnd, CreateSession, UseSession, Refused,
              DropSessions, Sync, Deploy, Exit
<1>3. ASSUME todo' = << >> PROVE todo' \in Seq(Ops) /\ Apart' /\ Cleared' /\ Restarted'
  <2>1. todo' \in Seq(Ops) /\ 1..Len(todo') = {}
    BY <1>3, EmptySeq
  <2> QED BY <1>2, <2>1 DEF Apart, Cleared, Restarted
<1>4. ASSUME todo' = Recover PROVE todo' \in Seq(Ops) /\ Apart' /\ Cleared' /\ Restarted'
  BY <1>2, <1>4, ShortFacts DEF Apart, Cleared, Restarted
<1>5. ASSUME Serve, IsMaintenanceMode
      PROVE  todo' \in Seq(Ops) /\ Apart' /\ Cleared' /\ Restarted' /\ ~InMaintenance'
  BY <1>1, <1>3, <1>4, <1>5, MaintenanceFacts DEF Serve, Disabled
<1>6. CASE CreateSession
  BY <1>2, <1>5, <1>6 DEF CreateSession, ServiceInv, MaintenanceWithoutSessions
<1>7. CASE UseSession
  BY <1>2, <1>5, <1>7 DEF UseSession, ServiceInv, MaintenanceWithoutSessions
<1>8. CASE Refused
  BY <1>1, <1>2, <1>3, <1>8, MaintenanceFacts DEF Refused, ServiceInv, MaintenanceWithoutSessions
<1>9. CASE DropSessions
  <2>1. MaintenanceWithoutSessions'
    BY <1>1, <1>9 DEF DropSessions, MaintenanceWithoutSessions, InMaintenance, Working, vars
  <2> QED BY <1>1, <1>2, <1>3, <1>9, <2>1 DEF DropSessions, ServiceInv
<1>10. CASE Sync \/ Deploy \/ Exit
  <2>1. MaintenanceWithoutSessions'
    BY <1>1, <1>10
       DEF Sync, Deploy, Exit, MaintenanceWithoutSessions, InMaintenance, Working, vars
  <2>2. CASE Sync
    <3>1. todo' = SyncUserData
      BY <2>2 DEF Sync
    <3>2. /\ todo' \in Seq(Ops) /\ Len(todo') = 5 /\ todo'[1].op = "cleanup"
          /\ \A i \in 1..5 : todo'[i].op \notin {"stop", "init", "run"}
          /\ \A i \in 1..5 : todo'[i].op = "work" => 1 \in 1..(i - 1)
      BY <3>1, SyncFacts
    <3>3. Apart' /\ Restarted'
      BY <1>2, <3>2 DEF Apart, Restarted
    <3>4. Cleared'
      BY <3>2 DEF Cleared
    <3> QED BY <1>2, <2>1, <3>2, <3>3, <3>4 DEF ServiceInv
  <2>3. CASE Deploy
    <3>1. todo' = Redeploy
      BY <2>3 DEF Deploy, Redeploy
    <3>2. /\ todo' \in Seq(Ops) /\ Len(todo') = 8
          /\ todo'[1].op = "join" /\ todo'[2].op = "stop" /\ todo'[3].op = "init"
          /\ todo'[4].op = "run"
          /\ \A i \in 5..8 : todo'[i].op \notin {"stop", "init", "run"}
          /\ \A i \in 1..7 : todo'[i].op # "work"
      BY <3>1, RedeployFacts
    <3>3. Apart'
      <4> SUFFICES ASSUME NEW i \in 1..8, todo'[i].op \in {"stop", "init", "run"}
                   PROVE  i # 1 /\ todo'[i - 1].op \in {"join", "stop", "init", "run"}
        BY <3>2 DEF Apart
      <4>1. i \in {2, 3, 4}
        BY <3>2
      <4> QED BY <3>2, <4>1
    <3>4. Restarted'
      <4>1. \A i \in 1..8 : todo'[i].op = "stop" => i = 2
        BY <3>2
      <4> QED BY <1>2, <3>2, <4>1 DEF Restarted
    <3>5. Cleared'
      <4>1. \A i \in 1..8 : todo'[i].op = "work" => 2 \in 1..(i - 1)
        BY <3>2
      <4> QED BY <3>2, <4>1 DEF Cleared
    <3> QED BY <1>2, <2>1, <3>2, <3>3, <3>4, <3>5 DEF ServiceInv
  <2>4. CASE Exit
    <3>1. todo' = Finalize /\ over' = TRUE
      BY <2>4 DEF Exit
    <3>2. Apart' /\ Cleared' /\ Restarted'
      BY <1>2, <3>1, ShortFacts DEF Apart, Cleared, Restarted
    <3> QED BY <1>2, <2>1, <3>1, <3>2, ShortFacts DEF ServiceInv
  <2> QED BY <1>10, <2>2, <2>3, <2>4
<1> QED BY <1>6, <1>7, <1>8, <1>9, <1>10 DEF FrontEnd

LEMMA ServiceStep == ServiceInv /\ [ServiceNext]_svars => ServiceInv'
<1> SUFFICES ASSUME ServiceInv, [ServiceNext]_svars PROVE ServiceInv'
  OBVIOUS
<1>1. IInv /\ IInv'
  BY DeployerStep, NextInv DEF ServiceInv
<1>2. CASE Operation
  BY <1>1, <1>2, OperationKeeps
<1>3. CASE FrontEnd
  BY <1>1, <1>3, FrontEndKeeps
<1>4. CASE WorkThread
  <2>1. UNCHANGED << started, sessions, todo, direct, over >> /\ \E w \in Workers : Worker(w)
    BY <1>4 DEF WorkThread
  <2>2. ~NobodyWorks
    BY <1>1, <2>1, NobodyFacts
  <2>3. Apart' /\ Restarted' /\ Cleared'
    BY <2>1, <2>2 DEF ServiceInv, Apart, Restarted, Cleared
  <2>4. MaintenanceWithoutSessions'
    BY <1>1, <2>1, MaintenanceFacts DEF ServiceInv, MaintenanceWithoutSessions
  <2> QED BY <1>1, <2>1, <2>3, <2>4 DEF ServiceInv
<1>5. CASE UNCHANGED svars
  BY <1>1, <1>5
     DEF svars, vars, ServiceInv, Apart, Cleared, Restarted, NobodyWorks, Alive,
         MaintenanceWithoutSessions, InMaintenance, Working
<1> QED BY <1>2, <1>3, <1>4, <1>5 DEF ServiceNext

-----------------------------------------------------------------------------
(* Theorems of the service.                                                *)

\* Every behaviour of the service keeps the inductive invariant.
THEOREM ServiceInvariant == ServiceSpec => []ServiceInv
  BY ServiceInitInv, ServiceStep, PTL DEF ServiceSpec

\* The calls of the API make no use of the deployer that its own
\* specification does not have.
THEOREM DeployerUsed == ServiceSpec => UsesDeployer
<1>1. ServiceInit => Init
  BY DEF ServiceInit
<1>2. ServiceInv /\ [ServiceNext]_svars => [Next]_dvars
  BY DeployerStep DEF ServiceInv, dvars
<1> QED BY <1>1, <1>2, ServiceInvariant, PTL DEF ServiceSpec, UsesDeployer

\* From the join of RimeFinalize to the next start no task runs.
THEOREM QuietWhenFinalized == ServiceSpec => []FinalizedIsQuiet
<1>1. ServiceInv => FinalizedIsQuiet
  <2> SUFFICES ASSUME ServiceInv, started = FALSE \/ Doing("stop")
               PROVE  NobodyWorks
    BY DEF FinalizedIsQuiet, NobodyWorks
  <2>1. CASE started = FALSE
    BY <2>1 DEF ServiceInv, Restarted
  <2>2. CASE Doing("stop")
    BY <2>2, TailFacts DEF ServiceInv, Apart, Doing
  <2> QED BY <2>1, <2>2
<1> QED BY <1>1, ServiceInvariant, PTL

\* A task run in the API thread never meets one in the work thread.
THEOREM DirectTaskIsAlone == ServiceSpec => []DirectTaskAlone
<1>1. ServiceInv => DirectTaskAlone
  BY TailFacts DEF ServiceInv, Apart, DirectTaskAlone, NobodyWorks
<1> QED BY <1>1, ServiceInvariant, PTL

\* No session is there while a maintenance thread works.
THEOREM NoSessionInMaintenance == ServiceSpec => []MaintenanceWithoutSessions
<1>1. ServiceInv => MaintenanceWithoutSessions
  BY DEF ServiceInv
<1> QED BY <1>1, ServiceInvariant, PTL

-----------------------------------------------------------------------------
(* The mode in which tasks run.                                            *)

\* No user dictionary has had to be recovered yet.
Unrecovered == \A i \in 1..Len(scheduled) : scheduled[i] # Recovery

\* The work thread is about to be started outside maintenance mode only by a
\* call that schedules a recovery before.
Announced ==
  \A i \in 1..Len(todo) :
    todo[i].op = "work" /\ todo[i].arg = FALSE =>
      \E j \in 1..(i - 1) : todo[j].op = "schedule" /\ todo[j].arg = Recovery

\* A thread can be at work in the mode it was started in only: IsMaintenanceMode
\* looks at both, and StartWork sets the mode when no thread works.
AtFirst ==
  Unrecovered => Announced /\ \A w \in Workers : Alive(w) => maintenance

\* The history of what has been scheduled only grows.
LEMMA StillUnrecovered ==
  ASSUME IInv, [Next]_vars, Unrecovered'
  PROVE  Unrecovered
<1>1. scheduled \in Seq(Tasks)
  BY DEF IInv, TypeOK
<1>2. CASE scheduled' = scheduled
  BY <1>2 DEF Unrecovered
<1>3. ASSUME NEW t \in Tasks, scheduled' = Append(scheduled, t) PROVE Unrecovered
  <2>1. \A i \in 1..Len(scheduled) : i \in 1..Len(scheduled') /\ scheduled'[i] = scheduled[i]
    BY <1>1, <1>3
  <2> QED BY <2>1 DEF Unrecovered
<1>4. scheduled' = scheduled \/ \E t \in Tasks : scheduled' = Append(scheduled, t)
  BY DEF Next, ScheduleTask, StartWork, Spawn, IsMaintenanceMode, JoinWorkThread, Worker, Begin,
         NextTask, RunTask, Report, Recheck, Quit, vars
<1> QED BY <1>2, <1>3, <1>4

\* As a call moves past an operation that does not schedule a recovery, the
\* start that is to come stays announced.
LEMMA AnnouncedLeft ==
  ASSUME todo \in Seq(Ops), todo # << >>, Announced, Done,
         ~(todo[1].op = "schedule" /\ todo[1].arg = Recovery)
  PROVE  Announced'
<1>1. /\ Len(todo) \in Nat /\ Len(todo') = Len(todo) - 1
      /\ \A i \in 1..(Len(todo) - 1) : todo'[i] = todo[i + 1]
  BY TailFacts DEF Done
<1> SUFFICES ASSUME NEW i \in 1..Len(todo'), todo'[i].op = "work", todo'[i].arg = FALSE
             PROVE  \E j \in 1..(i - 1) : todo'[j].op = "schedule" /\ todo'[j].arg = Recovery
  BY DEF Announced
<1>2. /\ i + 1 \in 1..Len(todo) /\ (i + 1) - 1 = i
      /\ todo[i + 1].op = "work" /\ todo[i + 1].arg = FALSE
  BY <1>1
<1>3. PICK j \in 1..i : todo[j].op = "schedule" /\ todo[j].arg = Recovery
  BY <1>2 DEF Announced
<1>4. j # 1
  BY <1>3
<1>5. j - 1 \in 1..(i - 1) /\ j - 1 \in 1..(Len(todo) - 1) /\ (j - 1) + 1 = j
  BY <1>1, <1>3, <1>4
<1> QED BY <1>1, <1>3, <1>5

\* Every step but a start of the work thread leaves the mode alone, or finds
\* no thread to be in it.
LEMMA ModeFacts ==
  ASSUME IInv, \A w \in Workers : Alive(w) => maintenance,
         \/ IsMaintenanceMode \/ JoinWorkThread \/ StartWork(TRUE)
         \/ \E t \in Tasks : ScheduleTask(t)
         \/ \E w \in Workers : Worker(w)
         \/ UNCHANGED vars
  PROVE  \A w \in Workers : Alive(w)' => maintenance'
<1>1. thread \in [Workers -> States]
  BY DEF IInv, TypeOK
<1>2. CASE IsMaintenanceMode \/ JoinWorkThread \/ UNCHANGED vars
  BY <1>2 DEF IsMaintenanceMode, JoinWorkThread, Alive, vars
<1>3. CASE \E t \in Tasks : ScheduleTask(t)
  BY <1>3 DEF ScheduleTask, Alive
<1>4. ASSUME NEW w \in Workers, Worker(w), NEW v \in Workers, Alive(v)' PROVE maintenance'
  <2>1. maintenance' = maintenance /\ Alive(v)
    BY <1>1, <1>4
       DEF Worker, Begin, NextTask, RunTask, Report, Recheck, Quit, Alive, Gone
  <2> QED BY <2>1
<1>5. CASE StartWork(TRUE)
  BY <1>5 DEF StartWork, Alive, vars
<1> QED BY <1>2, <1>3, <1>4, <1>5

\* The mode is kept by every step, until a dictionary has to be recovered.
LEMMA AtFirstStep ==
  ASSUME ServiceInv, AtFirst, [ServiceNext]_svars
  PROVE  AtFirst'
<1> SUFFICES ASSUME Unrecovered' PROVE Announced' /\ \A w \in Workers : Alive(w)' => maintenance'
  BY DEF AtFirst
<1>1. todo \in Seq(Ops) /\ IInv /\ [Next]_vars
  BY DeployerStep DEF ServiceInv
<1>2. Announced /\ \A w \in Workers : Alive(w) => maintenance
  BY <1>1, StillUnrecovered DEF AtFirst
<1>3. CASE Operation
  <2>1. todo # << >> /\ Head(todo) = todo[1] /\ todo[1] \in Ops /\ 1 \in 1..Len(todo)
    <3>1. todo # << >>
      BY <1>3 DEF Operation, DoInit, DoStop, DoCleanup, DoRun, DoneRun, DoSchedule, DoWork,
                  DoJoin, Doing
    <3> QED BY <1>1, <3>1, TailFacts
  <2>2. CASE DoSchedule
    <3>1. todo[1].arg \in Tasks /\ ScheduleTask(todo[1].arg) /\ Done
      BY <2>1, <2>2 DEF DoSchedule, Doing, Ops
    <3>2. todo[1].arg # Recovery
      <4>1. scheduled \in Seq(Tasks) /\ scheduled' = Append(scheduled, todo[1].arg)
        BY <1>1, <3>1 DEF IInv, TypeOK, ScheduleTask
      <4>2. Len(scheduled) + 1 \in 1..Len(scheduled') /\ scheduled'[Len(scheduled) + 1] = todo[1].arg
        BY <3>1, <4>1
      <4> QED BY <4>2 DEF Unrecovered
    <3>3. Announced'
      BY <1>1, <1>2, <2>1, <3>1, <3>2, AnnouncedLeft
    <3> QED BY <1>1, <1>2, <3>1, <3>3, ModeFacts
  <2>3. CASE DoWork
    <3>1. todo[1].op = "work" /\ todo[1].arg \in BOOLEAN /\ StartWork(todo[1].arg) /\ Done
      BY <2>1, <2>3 DEF DoWork, Doing, Ops
    <3>2. todo[1].arg = TRUE
      BY <1>2, <2>1, <3>1 DEF Announced
    <3>3. Announced'
      BY <1>1, <1>2, <2>1, <3>1, AnnouncedLeft
    <3> QED BY <1>1, <1>2, <3>1, <3>2, <3>3, ModeFacts
  <2>4. CASE DoJoin
    <3>1. todo[1].op = "join" /\ JoinWorkThread /\ Done
      BY <2>1, <2>4 DEF DoJoin, Doing
    <3>2. Announced'
      BY <1>1, <1>2, <2>1, <3>1, AnnouncedLeft
    <3> QED BY <1>1, <1>2, <3>1, <3>2, ModeFacts
  <2>5. CASE DoInit \/ DoStop \/ DoCleanup \/ DoRun \/ DoneRun
    <3>1. todo[1].op # "schedule" /\ UNCHANGED vars
      BY <2>1, <2>5 DEF DoInit, DoStop, DoCleanup, DoRun, DoneRun, Doing
    <3>2. Done \/ todo' = todo \/ todo' = << >>
      BY <2>5 DEF DoInit, DoStop, DoCleanup, DoRun, DoneRun, Done
    <3>3. Announced'
      <4>1. CASE Done
        BY <1>1, <1>2, <2>1, <3>1, <4>1, AnnouncedLeft
      <4>2. CASE todo' = todo
        BY <1>2, <4>2 DEF Announced
      <4>3. CASE todo' = << >>
        BY <4>3 DEF Announced
      <4> QED BY <3>2, <4>1, <4>2, <4>3
    <3> QED BY <1>1, <1>2, <3>1, <3>3, ModeFacts
  <2> QED BY <1>3, <2>2, <2>3, <2>4, <2>5 DEF Operation
<1>4. CASE FrontEnd
  <2>1. IsMaintenanceMode \/ UNCHANGED vars
    BY <1>4 DEF FrontEnd, CreateSession, UseSession, Refused, DropSessions, Sync, Deploy, Exit
  <2>2. todo' \in {todo, << >>, Recover, SyncUserData, Redeploy, Finalize}
    BY <1>4 DEF FrontEnd, CreateSession, UseSession, Refused, DropSessions, Sync, Deploy, Exit,
                Serve, Redeploy
  <2>3. Announced'
    <3>1. CASE todo' = todo
      BY <1>2, <3>1 DEF Announced
    <3>2. CASE todo' = << >>
      BY <3>2 DEF Announced
    <3>3. CASE todo' = Recover
      <4>1. \A i \in 1..2 : todo'[i].op = "work" => 1 \in 1..(i - 1)
        BY <3>3, ShortFacts
      <4> QED BY <3>3, <4>1, ShortFacts DEF Announced
    <3>4. CASE todo' = SyncUserData
      <4>1. \A i \in 1..5 : todo'[i].op = "work" => todo'[i].arg = TRUE
        BY <3>4, SyncFacts
      <4> QED BY <3>4, <4>1, SyncFacts DEF Announced
    <3>5. CASE todo' = Redeploy
      <4>1. \A i \in 1..8 : todo'[i].op = "work" => todo'[i].arg = TRUE
        BY <3>5, RedeployFacts
      <4> QED BY <3>5, <4>1, RedeployFacts DEF Announced
    <3>6. CASE todo' = Finalize
      <4>1. \A i \in 1..2 : todo'[i].op # "work"
        BY <3>6, ShortFacts
      <4> QED BY <3>6, <4>1, ShortFacts DEF Announced
    <3> QED BY <2>2, <3>1, <3>2, <3>3, <3>4, <3>5, <3>6
  <2> QED BY <1>1, <1>2, <2>1, <2>3, ModeFacts
<1>5. CASE WorkThread
  <2>1. todo' = todo /\ \E w \in Workers : Worker(w)
    BY <1>5 DEF WorkThread
  <2> QED BY <1>1, <1>2, <2>1, ModeFacts DEF Announced
<1>6. CASE UNCHANGED svars
  <2>1. todo' = todo /\ UNCHANGED vars
    BY <1>6 DEF svars
  <2> QED BY <1>1, <1>2, <2>1, ModeFacts DEF Announced
<1> QED BY <1>3, <1>4, <1>5, <1>6 DEF ServiceNext

\* Until a damaged user dictionary has had to be recovered no task runs in the
\* work thread outside maintenance mode, a sync's least of all.
THEOREM SyncStaysInMaintenance == ServiceSpec => []SyncInMaintenanceAtFirst
<1>1. ServiceInit => AtFirst
  <2> SUFFICES ASSUME ServiceInit PROVE Announced /\ \A w \in Workers : ~Alive(w)
    BY DEF AtFirst
  <2>1. todo = FirstStart /\ \A w \in Workers : thread[w] = "unborn"
    BY DEF ServiceInit, FirstStart, Init
  <2>2. \A i \in 1..7 : todo[i].op = "work" => todo[i].arg = TRUE
    BY <2>1, FirstStartFacts
  <2> QED BY <2>1, <2>2, FirstStartFacts DEF Announced, Alive, Gone
<1>2. AtFirst /\ ServiceInv /\ [ServiceNext]_svars => AtFirst'
  BY AtFirstStep
<1>3. ServiceInv /\ AtFirst => SyncInMaintenanceAtFirst
  <2> SUFFICES ASSUME ServiceInv, AtFirst, Unrecovered, NEW w \in Workers, thread[w] = "run"
               PROVE  InMaintenance
    BY DEF SyncInMaintenanceAtFirst, Unrecovered
  <2>1. Alive(w) /\ maintenance
    BY DEF AtFirst, Alive, Gone
  <2>2. Working
    BY <2>1, NobodyFacts DEF ServiceInv, NobodyWorks
  <2> QED BY <2>1, <2>2 DEF InMaintenance
<1> QED BY <1>1, <1>2, <1>3, ServiceInvariant, PTL DEF ServiceSpec
=============================================================================
