------------------------------- MODULE Service ------------------------------
(***************************************************************************)
(* The service and its API (librime/src/service.cc, librime/src/           *)
(* rime_api.cc) on top of the deployer, called by the one thread of a      *)
(* front end that behaves as ibus-rime does: started once, serving keys    *)
(* through sessions, synching and redeploying on request, and finalized.   *)
(*                                                                         *)
(* A call of the API is the list of operations it makes, in `todo'; each   *)
(* is a step, between which the work thread may do any of its own.         *)
(***************************************************************************)
EXTENDS Deployer, FiniteSets

CONSTANTS
  Sessions,       \* session ids
  Damageable      \* whether opening a user dictionary may find it damaged

ASSUME ServiceAssumption == Damageable \in BOOLEAN

VARIABLES
  started,     \* Service::started_
  sessions,    \* Service::sessions_, the live ones
  todo,        \* what is left of the API call in progress
  direct,      \* the task RunTask is running in the API thread, at most one
  over         \* the front end has quit

dvars == vars
svars == << vars, started, sessions, todo, direct, over >>

Recovery     == "userdb_recovery_task"
Maintenances == {"installation_update", "backup_config_files", "user_dict_sync",
                 "workspace_update", "user_dict_upgration", "cleanup_trash"}
AllTasks     == Maintenances \cup {Recovery}

\* Every task the API schedules is one of Tasks.
ASSUME TasksAssumption == AllTasks \subseteq Tasks

Op(name, arg) == [op |-> name, arg |-> arg]
Schedule(t) == Op("schedule", t)
Work(mode)  == Op("work", mode)

\* RimeStartMaintenance.  Each task run directly may fail, or report that
\* there is nothing to update, and the call returns.  Left out is the task
\* that comes first, clean_old_log_files: its result is ignored, and it
\* touches nothing but log files.
StartMaintenance(full) ==
  << Op("run", "installation_update") >>
  \o (IF full THEN << >> ELSE << Op("run", "config_file_update") >>)
  \o << Schedule("workspace_update"), Schedule("user_dict_upgration"),
        Schedule("cleanup_trash"), Work(TRUE) >>

Initialize == << Op("init", TRUE) >>

\* Fault: the work thread is left to itself.
Finalize_NoJoin == << Op("stop", TRUE) >>

Finalize == << Op("join", TRUE), Op("stop", TRUE) >>

\* Fault: the work thread is started in the default mode.
SyncUserData_PlainWork ==
  << Op("cleanup", TRUE), Schedule("installation_update"),
     Schedule("backup_config_files"), Schedule("user_dict_sync"), Work(FALSE) >>

SyncUserData ==
  << Op("cleanup", TRUE), Schedule("installation_update"),
     Schedule("backup_config_files"), Schedule("user_dict_sync"), Work(TRUE) >>

\* UserDictionary::Load when the db cannot be opened and no thread works.
Recover == << Schedule(Recovery), Work(FALSE) >>

ServiceInit ==
  /\ Init
  /\ started = FALSE /\ sessions = {} /\ direct = << >> /\ over = FALSE
  /\ todo = Initialize \o StartMaintenance(FALSE)

-----------------------------------------------------------------------------
(* The operations that API calls are made of.                              *)

Doing(name) == todo # << >> /\ Head(todo).op = name

Done == todo' = Tail(todo)

DoInit ==
  /\ Doing("init") /\ started' = TRUE /\ Done
  /\ UNCHANGED << vars, sessions, direct, over >>

\* Fault: stopping drops the tasks still waiting.
DoStop_ClearsQueue ==
  /\ Doing("stop") /\ started' = FALSE /\ sessions' = {} /\ Done
  /\ pending' = << >>
  /\ UNCHANGED << handle, maintenance, thread, current, failed, told, scheduled,
                  ran, base, direct, over >>

DoStop ==
  /\ Doing("stop") /\ started' = FALSE /\ sessions' = {} /\ Done
  /\ UNCHANGED << vars, direct, over >>

DoCleanup ==
  /\ Doing("cleanup") /\ sessions' = {} /\ Done
  /\ UNCHANGED << vars, started, direct, over >>

DoRun ==
  /\ Doing("run") /\ direct = << >>
  /\ direct' = << Head(todo).arg >>
  /\ UNCHANGED << vars, started, sessions, todo, over >>

\* RunTask returns; the call goes on, or returns False.
DoneRun ==
  /\ Doing("run") /\ direct # << >>
  /\ direct' = << >>
  /\ todo' \in {Tail(todo), << >>}
  /\ UNCHANGED << vars, started, sessions, over >>

DoSchedule ==
  /\ Doing("schedule") /\ ScheduleTask(Head(todo).arg) /\ Done
  /\ UNCHANGED << started, sessions, direct, over >>

DoWork ==
  /\ Doing("work") /\ StartWork(Head(todo).arg) /\ Done
  /\ UNCHANGED << started, sessions, direct, over >>

DoJoin ==
  /\ Doing("join") /\ JoinWorkThread /\ Done
  /\ UNCHANGED << started, sessions, direct, over >>

Operation ==
  \/ DoInit \/ DoStop \/ DoCleanup \/ DoRun \/ DoneRun
  \/ DoSchedule \/ DoWork \/ DoJoin

-----------------------------------------------------------------------------
(* The front end, between two calls.                                       *)

Idle == todo = << >> /\ ~over

\* There is room under the bound for the tasks of a call.
Room(n) == Len(scheduled) + n <= MaxTasks

\* Fault: maintenance does not keep sessions out.
Disabled_OnlyStopped == ~started

Disabled == ~started \/ InMaintenance

\* A session loads user dictionaries as it is created and as schemas are
\* applied to it; a damaged one is handed to the work thread, if it is free.
Serve ==
  /\ ~Disabled
  /\ \/ todo' = << >>
     \/ /\ Damageable /\ ~Working /\ Room(1)
        /\ todo' = Recover

CreateSession ==
  /\ Idle
  /\ \E s \in Sessions \ sessions : Serve /\ sessions' = sessions \cup {s}
  /\ IsMaintenanceMode
  /\ UNCHANGED << started, direct, over >>

UseSession ==
  /\ Idle
  /\ \E s \in sessions : Serve
  /\ IsMaintenanceMode
  /\ UNCHANGED << started, sessions, direct, over >>

\* Any call that finds the service disabled returns without a session.
Refused ==
  /\ Idle /\ started /\ InMaintenance
  /\ IsMaintenanceMode
  /\ UNCHANGED << started, sessions, todo, direct, over >>

\* DestroySession, or CleanupStaleSessions with those idle for too long.
DropSessions ==
  /\ Idle
  /\ \E gone \in SUBSET sessions : sessions' = sessions \ gone
  /\ UNCHANGED << vars, started, todo, direct, over >>

Sync ==
  /\ Idle /\ Room(3)
  /\ todo' = SyncUserData
  /\ UNCHANGED << vars, started, sessions, direct, over >>

\* Fault: redeployment begins without finalizing first.
Deploy_NoFinalize ==
  /\ Idle /\ Room(3)
  /\ todo' = StartMaintenance(TRUE)
  /\ UNCHANGED << vars, started, sessions, direct, over >>

Deploy ==
  /\ Idle /\ Room(3)
  /\ todo' = Finalize \o Initialize \o StartMaintenance(TRUE)
  /\ UNCHANGED << vars, started, sessions, direct, over >>

Exit ==
  /\ Idle
  /\ todo' = Finalize
  /\ over' = TRUE
  /\ UNCHANGED << vars, started, sessions, direct >>

FrontEnd ==
  CreateSession \/ UseSession \/ Refused \/ DropSessions \/ Sync \/ Deploy \/ Exit

WorkThread ==
  /\ \E w \in Workers : Worker(w)
  /\ UNCHANGED << started, sessions, todo, direct, over >>

ServiceNext == Operation \/ FrontEnd \/ WorkThread

\* The calls in progress and the work threads run on; the user need not do
\* anything.
ServiceSpec ==
  ServiceInit /\ [][ServiceNext]_svars /\ WF_svars(Operation) /\ WF_svars(WorkThread)

-----------------------------------------------------------------------------
\* The API makes only such use of the deployer as Deployer.tla allows for,
\* so what holds of the deployer there holds of it here.
UsesDeployer == Init /\ [][Next]_dvars

\* Once RimeFinalize has joined, and from then until the service is started
\* again, no task runs: it would be using components the registry has lost.
FinalizedIsQuiet ==
  (started = FALSE \/ Doing("stop")) => \A w \in Workers : ~Alive(w)

\* A task that rewrites the workspace in the API thread never meets one in
\* the work thread: nothing but the order of the calls keeps them apart.
DirectTaskAlone ==
  direct # << >> => \A w \in Workers : ~Alive(w)

\* No session, old or new, is there while a maintenance thread works.
MaintenanceWithoutSessions ==
  InMaintenance => sessions = {}

\* "add API function to start a data synching task in maintenance thread"
\* (ChangeLog): tasks that need the user dictionaries for themselves run in
\* maintenance mode only, when no session is served.  It takes a damaged user
\* dictionary to break that: until the first has had to be recovered.
SyncInMaintenanceAtFirst ==
  (\A i \in 1..Len(scheduled) : scheduled[i] # Recovery) =>
    \A w \in Workers : thread[w] = "run" => InMaintenance

\* Every call of the API returns, the ones that join included.
CallsReturn == (todo # << >>) ~> (todo = << >>)

=============================================================================
