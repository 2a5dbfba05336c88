------------------------------ MODULE Daemons ------------------------------
(***************************************************************************)
(* The two daemons of the camera beside each other, from start to end:     *)
(* afterveda-onvif and rail-media.  Neither waits for the other; GET       *)
(* /health of the ONVIF port asks the control API of rail-media.           *)
(***************************************************************************)
EXTENDS OnvifLifecycle, RailStartup

vars == <<lifecycleVars, startupVars>>

TypeOK == LifecycleTypeOK /\ StartupTypeOK

Init == LifecycleInit /\ StartupInit

(* Mutant of HealthPage: an answer is not asked for. *)
HealthPageAlwaysOk ==
    /\ health_check("ok")
    /\ UNCHANGED startupVars

(* The page says "ok" only when rail-media answered with a 2xx status;     *)
(* "degraded" when it does not answer in a second or reports an error.     *)
HealthPage ==
    /\ \/ RailAnswers /\ health_check("ok")
       \/ health_check("degraded")
    /\ UNCHANGED startupVars

Next ==
    \/ (MainStep \/ Accept \/ DiscoveryStep \/ ClientStep \/ handle_signal) /\ UNCHANGED startupVars
    \/ HealthPage
    \/ (RailMainStep \/ ControlStep \/ SpuriousWakeup \/ TakePost) /\ UNCHANGED lifecycleVars

Spec == Init /\ [][Next]_vars

(* Every thread that can take a step takes one in the end, and accept      *)
(* succeeds if it is tried again and again.  Nothing is assumed of the     *)
(* clients, the operator or spurious wakeups.                              *)
Fairness ==
    /\ WF_vars((MainStep /\ UNCHANGED startupVars) \/ HealthPage)
    /\ SF_vars(Accept /\ UNCHANGED startupVars)
    /\ WF_vars(DiscoveryStep /\ UNCHANGED startupVars)
    /\ WF_vars(RailMainStep /\ UNCHANGED lifecycleVars)
    /\ WF_vars(ControlStep /\ UNCHANGED lifecycleVars)

FairSpec == Spec /\ Fairness

(* What the liveness theorems assume: the threads of rail-media wait for   *)
(* each other only, the main thread for its notification, for the end of   *)
(* the control thread and for a job.                                       *)
OnlyTheOtherThreadBlocks ==
    /\ control \in {"setup", "report", "notify", "teardown"}
           => ENABLED <<ControlStep /\ UNCHANGED lifecycleVars>>_vars
    /\ (railMain = "check" \/ (railMain = "reap" /\ control = "ended")
                           \/ (railMain = "run" /\ control = "post"))
           => ENABLED <<RailMainStep /\ UNCHANGED lifecycleVars>>_vars

(* A page that says all is well is never followed by a failed start: the   *)
(* control thread answers nobody before it has reported success.           *)
HealthIsHonest ==
    health = "ok" => startup_done /\ ~startup_error /\ railMain \in {"check", "asleep", "run"}

=============================================================================
