---------------------------- MODULE RailStartup ----------------------------
(***************************************************************************)
(* How rail-media starts: main.cpp of media-server builds the MediaServer  *)
(* and the ControlServer; the constructor of the latter starts the control *)
(* thread and waits on a condition variable until that thread reports      *)
(* whether it listens.  Only then does the main thread enter its loop.     *)
(*                                                                         *)
(* A configuration change that reaches the control thread early waits for  *)
(* the main loop (MediaServer::set_video_config and its like).  A block    *)
(* that holds startup_mutex_ is one step.  Neither loop is ever quit, and  *)
(* SIGTERM ends the process with no handler: nothing comes after "run".    *)
(***************************************************************************)

VARIABLES
    railMain,         \* where the main thread stands
    control,          \* where the control thread stands
    listens,          \* local of run_server: soup_server_listen succeeded
    startup_done,     \* as in ControlServer, both written under startup_mutex_
    startup_error,    \* whether startup_error_ is not empty
    contextFreed,     \* context_ and loop_ were unreferenced
    railExit          \* exit code of rail-media

controlServer == <<listens, startup_done, startup_error, contextFreed>>
startupVars == <<railMain, control, controlServer, railExit>>

StartupTypeOK ==
    /\ railMain \in {"args", "spawn", "check", "asleep", "reap", "run", "exited"}
    /\ control \in {"none", "setup", "report", "notify", "loop", "post", "teardown", "ended"}
    /\ listens \in BOOLEAN
    /\ startup_done \in BOOLEAN
    /\ startup_error \in BOOLEAN
    /\ contextFreed \in BOOLEAN
    /\ railExit \in {0, 1}

StartupInit ==
    /\ railMain = "args"
    /\ control = "none"
    /\ listens = FALSE
    /\ startup_done = FALSE
    /\ startup_error = FALSE
    /\ contextFreed = FALSE
    /\ railExit = 0

-----------------------------------------------------------------------------
(* The main thread.                                                        *)

RailMoves(from, to) ==
    /\ railMain = from
    /\ railMain' = to
    /\ UNCHANGED <<listens, startup_done, startup_error, railExit>>

(* parse_args and build_launch_pipeline; MediaServer(); the context and    *)
(* the loop of ControlServer().  Nobody sees anything of it yet.           *)
RailConstructs == RailMoves("args", "spawn") /\ UNCHANGED <<control, contextFreed>>

(* Each of them may throw, and the thread may not start; main() returns 1, *)
(* or 0 after --help.                                                      *)
RailGivesUp ==
    /\ railMain \in {"args", "spawn"}
    /\ railMain' = "exited"
    /\ railExit' \in IF railMain = "args" THEN {0, 1} ELSE {1}
    /\ UNCHANGED <<control, controlServer>>

SpawnControl ==
    /\ RailMoves("spawn", "check")
    /\ control' = "setup"
    /\ UNCHANGED contextFreed

(* startup_cv_.wait with its predicate. *)
WaitForStartup ==
    /\ RailMoves("check", IF ~startup_done THEN "asleep"
                          ELSE IF startup_error THEN "reap" ELSE "run")
    /\ UNCHANGED <<control, contextFreed>>

SpuriousWakeup == RailMoves("asleep", "check") /\ UNCHANGED <<control, contextFreed>>

(* Mutant of ReapControl: the members are released without the join. *)
ReapControlWithoutJoin ==
    /\ railMain = "reap"
    /\ contextFreed' = TRUE
    /\ railMain' = "exited"
    /\ railExit' = 1
    /\ UNCHANGED <<control, listens, startup_done, startup_error>>

(* The startup failed: join, release, throw; main() returns 1. *)
ReapControl ==
    /\ railMain = "reap"
    /\ control = "ended"
    /\ contextFreed' = TRUE
    /\ railMain' = "exited"
    /\ railExit' = 1
    /\ UNCHANGED <<control, listens, startup_done, startup_error>>

(* The main loop runs the job of a POST and wakes the control thread. *)
MainLoopRunsJob ==
    /\ railMain = "run"
    /\ control = "post"
    /\ control' = "loop"
    /\ UNCHANGED <<railMain, controlServer, railExit>>

-----------------------------------------------------------------------------
(* The control thread: run_server().                                       *)

ControlMoves(from, to) ==
    /\ control = from
    /\ control' = to
    /\ UNCHANGED <<contextFreed, railExit>>

(* soup_server_new, the port and host, soup_server_listen: it listens, or  *)
(* one of them fails.                                                      *)
SetUpControl ==
    /\ ControlMoves("setup", "report")
    /\ listens' \in BOOLEAN
    /\ UNCHANGED <<railMain, startup_done, startup_error>>

(* Mutant of ReportStartup: only a success is reported. *)
ReportStartupOnlySuccess ==
    /\ ControlMoves("report", "notify")
    /\ startup_done' = listens
    /\ startup_error' = ~listens
    /\ UNCHANGED <<railMain, listens>>

(* signal_startup, the part under the mutex. *)
ReportStartup ==
    /\ ControlMoves("report", "notify")
    /\ startup_done' = TRUE
    /\ startup_error' = ~listens
    /\ UNCHANGED <<railMain, listens>>

(* Mutant of NotifyStartup: the loop runs before anybody is notified. *)
NotifyStartupAfterLoop ==
    /\ ControlMoves("notify", IF listens THEN "loop" ELSE "teardown")
    /\ railMain' = IF railMain = "asleep" /\ ~listens THEN "check" ELSE railMain
    /\ UNCHANGED <<listens, startup_done, startup_error>>

(* notify_one, then the loop or the end of the thread. *)
NotifyStartup ==
    /\ ControlMoves("notify", IF listens THEN "loop" ELSE "teardown")
    /\ railMain' = IF railMain = "asleep" THEN "check" ELSE railMain
    /\ UNCHANGED <<listens, startup_done, startup_error>>

(* A POST was read: the thread hands it to the main loop and waits. *)
TakePost == ControlMoves("loop", "post") /\ UNCHANGED <<railMain, listens, startup_done, startup_error>>

EndControl == ControlMoves("teardown", "ended") /\ UNCHANGED <<railMain, listens, startup_done, startup_error>>

-----------------------------------------------------------------------------
RailMainStep ==
    \/ RailConstructs
    \/ RailGivesUp
    \/ SpawnControl
    \/ WaitForStartup
    \/ ReapControl
    \/ MainLoopRunsJob

ControlStep ==
    \/ SetUpControl
    \/ ReportStartup
    \/ NotifyStartup
    \/ EndControl

(* The control loop is there to answer a query. *)
RailAnswers == control = "loop"

-----------------------------------------------------------------------------
(* Properties.                                                             *)

(* The main loop runs only beside a control thread that listens, and when  *)
(* the constructor has released the context or the process has ended, no   *)
(* control thread is left to use them.                                     *)
ControlThreadIsAccountedFor ==
    /\ railMain = "run" => listens /\ control \in {"notify", "loop", "post"}
    /\ contextFreed \/ railMain = "exited" => control \in {"none", "ended"}

(* The constructor never hangs: once the control thread is started, its    *)
(* report reaches the main thread, which runs or ends.                     *)
StartupIsDecided == (railMain = "check") ~> (railMain \in {"run", "exited"})

(* A change that arrives before the main loop runs is not lost. *)
EarlyPostIsAnswered == (control = "post") ~> (control = "loop")

=============================================================================
