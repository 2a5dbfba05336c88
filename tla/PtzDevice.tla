----------------------------- MODULE PtzDevice -----------------------------
(***************************************************************************)
(* PTZ control of afterveda-onvif: onvif-server/src/ptz/ptz_device.cpp as  *)
(* the handlers of soap/soap_ptz_service.cpp drive it.                     *)
(*                                                                         *)
(* Two kinds of thread write to the PTZ character device.  The SOAP thread *)
(* (http_server serves one request at a time) runs the handlers.  Every    *)
(* acknowledged ContinuousMove leaves behind a detached timer thread that  *)
(* sleeps for the request's Timeout and then writes "stop", unless the     *)
(* generation counter says that a newer command has been issued.  Both     *)
(* write under g_command_mutex.  The device itself is a kernel driver      *)
(* outside the repository: it is modelled by what the code writes to it    *)
(* and reads from it.                                                      *)
(*                                                                         *)
(* This is the configuration without --ptz-dry-run.  Time is abstracted: a *)
(* sleeping timer may wake at any moment.  A write() that returns 0 for    *)
(* ever, which would spin in write_ptz_command_unlocked, is a thread that  *)
(* never takes its write step: only the fairness conditions exclude it.    *)
(***************************************************************************)
EXTENDS PtzAxes

CONSTANTS
    AxisValues,      \* axis values a client may send
    SoapOutcomes,    \* how a write of the SOAP thread may end
    TimerOutcomes,   \* how a write of a timer thread may end
    MayRestart,      \* whether the process may end and start again
    MaxGeneration    \* bound: no new command once the counter is there

(* "ok": written and closed.  "failed": open or write reported an error,   *)
(* nothing reached the driver.  "unacknowledged": the driver took the      *)
(* command but close reported an error.                                    *)
Outcomes == {"ok", "failed", "unacknowledged"}

ASSUME PtzDeviceAssumption ==
    /\ AxisValues \subseteq Int /\ 0 \in AxisValues
    /\ SoapOutcomes \subseteq Outcomes /\ SoapOutcomes # {}
    /\ TimerOutcomes \subseteq Outcomes /\ TimerOutcomes # {}
    /\ MayRestart \in BOOLEAN
    /\ MaxGeneration \in Nat \ {0}

VARIABLES
    device,      \* external: position and velocity of the camera
    generation,  \* g_motion_generation
    home,        \* g_home_position
    lock,        \* g_command_mutex: "free", or the kind of thread holding it
    asleep,      \* timer threads not yet past the mutex, each named by the
                 \* generation its closure captured
    stopper,     \* captured generation of the timer thread that holds the mutex
    soap,        \* where the SOAP thread stands
    req,         \* the request it serves or served last
    reply,       \* how it answered it
    target,      \* local PtzPosition: as read from the device, or to be written
    mine,        \* local generation of continuous_move_ptz
    cause,       \* history: generation of the command the camera executes
    lastWrite,   \* history: how the latest device write of this process ended
    readAtRest   \* history: the request under way read a position, of a camera at rest

process == <<generation, home, lock, asleep, stopper, soap, req, reply, target, mine>>
history == <<cause, lastWrite, readAtRest>>
vars == <<device, process, history>>

Ops == {"ContinuousMove", "RelativeMove", "GotoHome", "SetHome", "Stop", "GetStatus"}
Requests ==
    [op : {"ContinuousMove", "RelativeMove"}, x : AxisValues, y : AxisValues]
        \union [op : Ops, x : {0}, y : {0}]
Idle == [op |-> "GetStatus", x |-> 0, y |-> 0]

Moving == device.vel # Rest

TypeOK ==
    /\ device \in [pos : Position, vel : Velocity]
    /\ generation \in Nat
    /\ home \in Position
    /\ lock \in {"free", "soap", "timer"}
    /\ asleep \subseteq Nat
    /\ stopper \in Nat
    /\ soap \in {"idle", "read", "store", "lock", "write", "spawn"}
    /\ req \in Requests
    /\ reply \in {"none", "ok", "fault"}
    /\ target \in Position
    /\ mine \in Nat
    /\ cause \in Nat
    /\ lastWrite \in {"none", "ok", "error"}
    /\ readAtRest \in BOOLEAN

Init ==
    /\ device \in [pos : Position, vel : {Rest}]
    /\ generation = 0
    /\ home = Home
    /\ lock = "free"
    /\ asleep = {}
    /\ stopper = 0
    /\ soap = "idle"
    /\ req = Idle
    /\ reply = "none"
    /\ target = Home
    /\ mine = 0
    /\ cause = 0
    /\ lastWrite = "none"
    /\ readAtRest = FALSE

-----------------------------------------------------------------------------
(* The SOAP thread.                                                        *)

Answer(result) ==
    /\ soap' = "idle"
    /\ reply' = result

(* The handler's checks fail (authentication, profile or preset token,     *)
(* zoom, missing velocity, timeout): a fault before anything is touched.   *)
(* So does a Stop for zoom alone, which is acknowledged.                   *)
ServeWithoutEffect ==
    /\ soap = "idle"
    /\ reply' \in {"ok", "fault"}
    /\ req' = Idle
    /\ UNCHANGED <<device, generation, home, lock, asleep, stopper, soap, target, mine, history>>

FirstStep(op) ==
    IF op \in {"RelativeMove", "SetHome", "GetStatus"} THEN "read" ELSE "lock"

(* A request that passed the handler's checks.  GotoPreset and             *)
(* GotoHomePosition load the stored home position first.                   *)
Receive(r) ==
    /\ soap = "idle"
    /\ generation < MaxGeneration
    /\ req' = r
    /\ reply' = "none"
    /\ soap' = FirstStep(r.op)
    /\ target' = IF r.op = "GotoHome" THEN home ELSE target
    /\ readAtRest' = FALSE
    /\ UNCHANGED <<device, generation, home, lock, asleep, stopper, mine, cause, lastWrite>>

(* Mutant of ReadStatus: a RelativeMove starts from the position last      *)
(* asked for, not from the one that was read.                              *)
ReadStatusFromTarget ==
    /\ soap = "read"
    /\ target' = IF req.op = "RelativeMove"
                   THEN RelativeTarget(target, req.x, req.y)
                   ELSE clamp_ptz_position(device.pos)
    /\ IF req.op = "GetStatus"
         THEN Answer("ok")
         ELSE /\ soap' = IF req.op = "SetHome" THEN "store" ELSE "lock"
              /\ UNCHANGED reply
    /\ readAtRest' = ~Moving
    /\ UNCHANGED <<device, generation, home, lock, asleep, stopper, req, mine, cause, lastWrite>>

(* What follows a successful read_ptz_status: the status is the answer, or *)
(* the position is stored as home, or it becomes the base of a move.       *)
ReadStatus ==
    /\ soap = "read"
    /\ target' = IF req.op = "RelativeMove"
                   THEN RelativeTarget(device.pos, req.x, req.y)
                   ELSE clamp_ptz_position(device.pos)
    /\ IF req.op = "GetStatus"
         THEN Answer("ok")
         ELSE /\ soap' = IF req.op = "SetHome" THEN "store" ELSE "lock"
              /\ UNCHANGED reply
    /\ readAtRest' = ~Moving
    /\ UNCHANGED <<device, generation, home, lock, asleep, stopper, req, mine, cause, lastWrite>>

ReadFails ==
    /\ soap = "read"
    /\ Answer("fault")
    /\ UNCHANGED <<device, generation, home, lock, asleep, stopper, req, target, mine, history>>

StoreHome ==
    /\ soap = "store"
    /\ home' = clamp_ptz_position(target)
    /\ Answer("ok")
    /\ UNCHANGED <<device, generation, lock, asleep, stopper, req, target, mine, history>>

(* Mutant of LockCommand: the timer is given the generation before the     *)
(* increment.                                                              *)
LockCommandPostIncrement ==
    /\ soap = "lock"
    /\ lock = "free"
    /\ lock' = "soap"
    /\ generation' = generation + 1
    /\ mine' = IF req.op = "ContinuousMove" THEN generation ELSE mine
    /\ soap' = "write"
    /\ UNCHANGED <<device, home, asleep, stopper, req, reply, target, history>>

(* Mutant of LockCommand: only a ContinuousMove counts as a new motion. *)
LockCommandOnlyMovesCount ==
    /\ soap = "lock"
    /\ lock = "free"
    /\ lock' = "soap"
    /\ generation' = IF req.op = "ContinuousMove" THEN generation + 1 ELSE generation
    /\ mine' = IF req.op = "ContinuousMove" THEN generation + 1 ELSE mine
    /\ soap' = "write"
    /\ UNCHANGED <<device, home, asleep, stopper, req, reply, target, history>>

(* Every command takes the mutex and a new generation before it writes. *)
LockCommand ==
    /\ soap = "lock"
    /\ lock = "free"
    /\ lock' = "soap"
    /\ generation' = generation + 1
    /\ mine' = IF req.op = "ContinuousMove" THEN generation + 1 ELSE mine
    /\ soap' = "write"
    /\ UNCHANGED <<device, home, asleep, stopper, req, reply, target, history>>

(* The camera after a request's command: a velocity, rest, or rest at an   *)
(* absolute position.                                                      *)
Commanded(camera) ==
    CASE req.op = "ContinuousMove" -> [camera EXCEPT !.vel = Speeds(req.x, req.y)]
      [] req.op = "Stop"           -> [camera EXCEPT !.vel = Rest]
      [] OTHER                     -> [pos |-> clamp_ptz_position(target), vel |-> Rest]

(* write_ptz_command_unlocked and the release of the mutex.  On an error   *)
(* the handler answers with a fault at once; a ContinuousMove that was     *)
(* written goes on to start its timer.                                     *)
WriteCommand(outcome) ==
    /\ soap = "write"
    /\ IF outcome = "failed"
         THEN UNCHANGED <<device, cause>>
         ELSE device' = Commanded(device) /\ cause' = generation
    /\ lastWrite' = IF outcome = "ok" THEN "ok" ELSE "error"
    /\ lock' = "free"
    /\ IF outcome = "ok" /\ req.op = "ContinuousMove"
         THEN soap' = "spawn" /\ UNCHANGED reply
         ELSE Answer(IF outcome = "ok" THEN "ok" ELSE "fault")
    /\ UNCHANGED <<generation, home, asleep, stopper, req, target, mine, readAtRest>>

(* Mutant of SpawnTimer: the counter is advanced once more on success. *)
SpawnTimerAdvances ==
    /\ soap = "spawn"
    /\ asleep' = asleep \union {mine}
    /\ generation' = generation + 1
    /\ Answer("ok")
    /\ UNCHANGED <<device, home, lock, stopper, req, target, mine, history>>

(* The detached thread is started after the mutex was released. *)
SpawnTimer ==
    /\ soap = "spawn"
    /\ asleep' = asleep \union {mine}
    /\ Answer("ok")
    /\ UNCHANGED <<device, generation, home, lock, stopper, req, target, mine, history>>

-----------------------------------------------------------------------------
(* The timer threads.                                                      *)

(* Mutant of TimerWakes: no look at the counter. *)
TimerWakesUnchecked(g) ==
    /\ g \in asleep
    /\ lock = "free"
    /\ asleep' = asleep \ {g}
    /\ lock' = "timer"
    /\ stopper' = g
    /\ UNCHANGED <<device, generation, home, soap, req, reply, target, mine, history>>

(* Mutant of TimerWakes: the early return keeps the mutex. *)
TimerWakesKeepsLock(g) ==
    /\ g \in asleep
    /\ lock = "free"
    /\ asleep' = asleep \ {g}
    /\ lock' = IF generation = g THEN "timer" ELSE "leaked"
    /\ stopper' = g
    /\ UNCHANGED <<device, generation, home, soap, req, reply, target, mine, history>>

(* The thread that captured g has slept and takes the mutex.  If a newer   *)
(* command has been issued it lets go of the mutex and ends.               *)
TimerWakes(g) ==
    /\ g \in asleep
    /\ lock = "free"
    /\ asleep' = asleep \ {g}
    /\ IF generation = g
         THEN lock' = "timer" /\ stopper' = g
         ELSE UNCHANGED <<lock, stopper>>
    /\ UNCHANGED <<device, generation, home, soap, req, reply, target, mine, history>>

(* Mutant of TimerStops: the counter stays at the generation it ended. *)
TimerStopsUncounted(outcome) ==
    /\ lock = "timer"
    /\ device' = IF outcome = "failed" THEN device ELSE [device EXCEPT !.vel = Rest]
    /\ lastWrite' = IF outcome = "ok" THEN "ok" ELSE "error"
    /\ lock' = "free"
    /\ UNCHANGED <<generation, home, asleep, stopper, soap, req, reply, target, mine, cause, readAtRest>>

(* It writes "stop" once; whatever comes of it, the counter moves on. *)
TimerStops(outcome) ==
    /\ lock = "timer"
    /\ device' = IF outcome = "failed" THEN device ELSE [device EXCEPT !.vel = Rest]
    /\ lastWrite' = IF outcome = "ok" THEN "ok" ELSE "error"
    /\ generation' = generation + 1
    /\ lock' = "free"
    /\ UNCHANGED <<home, asleep, stopper, soap, req, reply, target, mine, cause, readAtRest>>

-----------------------------------------------------------------------------
(* The world around the threads.                                           *)

Sign(n) == IF n > 0 THEN 1 ELSE IF n < 0 THEN -1 ELSE 0

(* The driver integrates the velocity, up to the mechanical limits. *)
DeviceMoves ==
    /\ Moving
    /\ device' = [device EXCEPT !.pos = clamp_ptz_position(
                     [pan  |-> device.pos.pan + Sign(device.vel.pan),
                      tilt |-> device.pos.tilt + Sign(device.vel.tilt)])]
    /\ UNCHANGED <<process, history>>

(* The process ends (a signal, a crash, an exception out of http_server)   *)
(* and is started again: detached timers die with it, the driver does not  *)
(* notice.                                                                 *)
Restart ==
    /\ MayRestart
    /\ generation' = 0
    /\ home' = Home
    /\ lock' = "free"
    /\ asleep' = {}
    /\ stopper' = 0
    /\ soap' = "idle"
    /\ req' = Idle
    /\ reply' = "none"
    /\ target' = Home
    /\ mine' = 0
    /\ cause' = 0
    /\ lastWrite' = "none"
    /\ readAtRest' = FALSE
    /\ UNCHANGED device

SoapStep ==
    \/ ReadStatus
    \/ ReadFails
    \/ StoreHome
    \/ LockCommand
    \/ \E outcome \in SoapOutcomes : WriteCommand(outcome)
    \/ SpawnTimer

TimerWrites == \E outcome \in TimerOutcomes : TimerStops(outcome)

Next ==
    \/ ServeWithoutEffect
    \/ \E r \in Requests : Receive(r)
    \/ SoapStep
    \/ \E g \in asleep : TimerWakes(g)
    \/ TimerWrites
    \/ DeviceMoves
    \/ Restart

Spec == Init /\ [][Next]_vars

(* Running threads run on: the SOAP thread finishes the request it is in,  *)
(* sleep_for returns, a thread that waits for a mutex nobody holds for     *)
(* ever gets it.  Nothing is assumed of the clients or of the driver.      *)
Generations == 1..(MaxGeneration + 2)

TimerIsScheduled(g) == WF_vars(TimerWakes(g))

TimersAreScheduled == \A g \in Generations : TimerIsScheduled(g)

Fairness ==
    /\ WF_vars(SoapStep)
    /\ TimersAreScheduled
    /\ WF_vars(TimerWrites)

FairSpec == Spec /\ Fairness

-----------------------------------------------------------------------------
(* Properties.                                                             *)

(* The timer thread that the current motion relies on: about to be         *)
(* started, asleep, or at its write.                                       *)
TimerPending ==
    \/ generation \in asleep
    \/ soap = "spawn" /\ mine = generation
    \/ lock = "timer" /\ stopper = generation

(* A camera that moves after a write that succeeded, while no client       *)
(* command is under way, is watched: the motion is that of the newest      *)
(* generation and its timer is pending.                                    *)
HealthyMotionIsWatched ==
    Moving /\ lastWrite = "ok" /\ lock # "soap"
        => cause = generation /\ TimerPending

(* A timer thread changes the camera's velocity only when the camera still *)
(* executes the very ContinuousMove the timer was started for, however     *)
(* many older and newer timers sleep.                                      *)
TimerStopsOnlyItsOwnMotion ==
    [][lock = "timer" /\ device'.vel # device.vel => cause = stopper]_vars

(* An acknowledgement is true: a Stop or an absolute move leaves the       *)
(* camera at rest, and a ContinuousMove leaves it at the requested         *)
(* velocity, timer pending, until some command takes the next generation.  *)
AcknowledgedMeansDone ==
    soap = "idle" /\ reply = "ok" =>
        /\ req.op \in {"Stop", "GotoHome", "RelativeMove"} => ~Moving
        /\ req.op = "ContinuousMove" /\ generation = mine =>
               device.vel = Speeds(req.x, req.y) /\ TimerPending

(* A RelativeMove of a camera at rest is relative to where the camera IS   *)
(* when it is written, although the position was read before the mutex was *)
(* taken: no timer and no other request moves the camera in between.       *)
RelativeBaseIsCurrent ==
    soap \in {"lock", "write"} /\ req.op = "RelativeMove" /\ readAtRest
        => target = RelativeTarget(device.pos, req.x, req.y)

(* One deadline at a time, whatever the threads do (see PtzMotion). *)
Deadline ==
    IF lock = "timer" /\ stopper = generation THEN "due"
    ELSE IF TimerPending THEN "set"
    ELSE "none"

Motion == INSTANCE PtzMotion
            WITH motion <- IF Moving THEN "driven" ELSE "still",
                 deadline <- Deadline

ImplementsPtzMotion == Motion!Spec

(* The strengthening that makes the invariants above inductive.            *)

(* Captured generations were issued. *)
GenerationsIssued ==
    /\ asleep \subseteq 1..generation
    /\ mine <= generation
    /\ soap \in {"write", "spawn"} => generation > 0

(* The mutex is held exactly by the thread that is at its write. *)
HolderWrites ==
    /\ lock = "soap" <=> soap = "write"
    /\ soap = "write" /\ req.op = "ContinuousMove" => mine = generation
    /\ soap = "store" => req.op = "SetHome"

(* At most one thread carries the newest generation, and as long as it     *)
(* does, the camera executes that thread's motion.                         *)
NewestTimer ==
    /\ TimerPending => cause = generation
    /\ lock = "timer" => stopper = generation
    /\ soap \in {"write", "spawn"} \/ lock = "timer" => generation \notin asleep
    /\ soap = "spawn" =>
           /\ lock # "timer"
           /\ mine = generation
           /\ req.op = "ContinuousMove"
           /\ device.vel = Speeds(req.x, req.y)

RelativeBaseAtRest ==
    soap \in {"lock", "write"} /\ req.op = "RelativeMove" /\ readAtRest => ~Moving

IInv ==
    /\ TypeOK
    /\ GenerationsIssued
    /\ HolderWrites
    /\ NewestTimer
    /\ RelativeBaseAtRest
    /\ RelativeBaseIsCurrent
    /\ HealthyMotionIsWatched
    /\ AcknowledgedMeansDone

(* What the liveness theorems assume, as ENABLED is out of their reach:    *)
(* the mutex is all that a thread ever waits for.  A request that needs no *)
(* mutex, or finds it free, can go on, and so can every timer.             *)
OnlyTheMutexBlocks ==
    /\ soap # "idle" /\ (soap = "lock" => lock = "free") => ENABLED <<SoapStep>>_vars
    /\ lock = "timer" => ENABLED <<TimerWrites>>_vars
    /\ \A g \in asleep : lock = "free" => ENABLED <<TimerWakes(g)>>_vars

(* A motion whose timer sleeps ends, or a newer command takes it over. *)
MotionEnds ==
    \A g \in Generations :
        (g \in asleep /\ cause = g /\ Moving) ~> (~Moving \/ cause # g)

(* The SOAP thread, and with it the only HTTP port, is never stuck behind  *)
(* the timers: a request that was accepted is answered.                    *)
RequestsAreAnswered == (soap # "idle") ~> (soap = "idle")

=============================================================================
