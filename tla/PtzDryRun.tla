----------------------------- MODULE PtzDryRun -----------------------------
(***************************************************************************)
(* PTZ control with --ptz-dry-run: the camera is four atomics of           *)
(* onvif-server/src/ptz/ptz_device.cpp, g_dry_run_pan and the like.  A     *)
(* command stores them one by one under g_command_mutex, a status request  *)
(* loads them one by one without it.  What does not touch the camera is as *)
(* in PtzDevice.  Every call is first checked by its handler in            *)
(* soap/soap_ptz_service.cpp, see PtzRequest.                              *)
(*                                                                         *)
(* A command of a dry run cannot fail, a velocity does not change the      *)
(* position, and a restart loses everything: it is Init again.             *)
(***************************************************************************)
EXTENDS PtzDevice, PtzRequest

CONSTANTS
    Calls,     \* calls a client may send
    NoCall     \* no call is being checked

ASSUME PtzDryRunAssumption ==
    /\ NoCall \notin Calls
    /\ \A c \in Calls :
           /\ c.op \in CallOps
           /\ c.vector \in {NoVector} \union [x : AxisValues, y : AxisValues]
           /\ c.timeout \in Duration

VARIABLES
    call,      \* the call whose handler is at its checks
    verdict,   \* of the checks; "none" before them, "asked" or "held" during
               \* their exchange with rail-media
    loads,     \* atomics read_ptz_status has yet to load
    seen,      \* what it has loaded
    stores,    \* stores the holder of g_command_mutex has yet to do
    status,    \* MoveStatus of the latest GetStatus answer
    during     \* history: whether the camera moved, at each load of the call

frontVars == <<call, verdict>>
dryVars == <<frontVars, loads, seen, stores, status, during>>
allVars == <<vars, dryVars>>

(* "held": rail-media sends now a byte and then another, each of them       *)
(* before the timeout of one recv.                                         *)
Undecided == {"none", "asked", "held"}

Atomics == {"pan", "tilt", "pan_speed", "tilt_speed"}
LoadOrder == <<"pan", "tilt", "pan_speed", "tilt_speed">>
NothingSeen == [field \in Atomics |-> 0]

DryTypeOK ==
    /\ TypeOK
    /\ call \in Calls \union {NoCall}
    /\ verdict \in Undecided \union {"accepted"} \union Range(Checks)
    /\ loads \in Seq(Atomics) /\ Len(loads) <= 4
    /\ seen \in [Atomics -> Int]
    /\ stores \in Seq(Atomics \X Int) /\ Len(stores) <= 4
    /\ stores # <<>> <=> lock # "free"
    /\ status \in {"none", "MOVING", "IDLE"}
    /\ during \subseteq BOOLEAN

DryInit ==
    /\ Init
    /\ device = [pos |-> Home, vel |-> Rest]
    /\ call = NoCall
    /\ verdict = "none"
    /\ loads = <<>>
    /\ seen = NothingSeen
    /\ stores = <<>>
    /\ status = "none"
    /\ during = {}

Load(field) ==
    CASE field = "pan"       -> device.pos.pan
      [] field = "tilt"      -> device.pos.tilt
      [] field = "pan_speed" -> device.vel.pan
      [] OTHER               -> device.vel.tilt

Stored(field, value) ==
    CASE field = "pan"       -> [device EXCEPT !.pos.pan = value]
      [] field = "tilt"      -> [device EXCEPT !.pos.tilt = value]
      [] field = "pan_speed" -> [device EXCEPT !.vel.pan = value]
      [] OTHER               -> [device EXCEPT !.vel.tilt = value]

-----------------------------------------------------------------------------
(* The SOAP thread: the checks.                                            *)

(* One timer may still advance the counter before the device is called:    *)
(* the bound of Receive leaves room for it.                                *)
Arrive(c) ==
    /\ soap = "idle"
    /\ call = NoCall
    /\ generation + 1 < MaxGeneration
    /\ call' = c
    /\ req' = Idle
    /\ reply' = "none"
    /\ status' = "none"
    /\ UNCHANGED <<device, generation, home, lock, asleep, stopper, soap, target, mine, history,
                   verdict, loads, seen, stores, during>>

(* With valid credentials and a profile token the handler first asks       *)
(* rail-media for its profile.                                             *)
AsksRail(c) == require_auth(c.header) /\ (c.profile.prefixed \/ c.profile.base # "")

AskRail ==
    /\ call # NoCall
    /\ verdict = "none"
    /\ AsksRail(call)
    /\ verdict' \in {"asked", "held"}
    /\ UNCHANGED <<vars, call, loads, seen, stores, status, during>>

(* rail-media has said all, closes, or is silent from now on. *)
PeerLetsGo ==
    /\ verdict = "held"
    /\ verdict' = "asked"
    /\ UNCHANGED <<vars, call, loads, seen, stores, status, during>>

(* The exchange, if there is one, ends.  Whatever the answer, "main" is    *)
(* the only token.                                                         *)
CheckCall ==
    /\ call # NoCall
    /\ \/ verdict = "asked"
       \/ verdict = "none" /\ ~AsksRail(call)
    /\ verdict' = Verdict(call)
    /\ UNCHANGED <<vars, call, loads, seen, stores, status, during>>

AnswerAtOnce ==
    /\ verdict \notin Undecided
    /\ verdict # "accepted" \/ NothingToDo(call)
    /\ reply' = IF verdict = "accepted" THEN "ok" ELSE "fault"
    /\ call' = NoCall
    /\ verdict' = "none"
    /\ UNCHANGED <<device, generation, home, lock, asleep, stopper, soap, req, target, mine, history,
                   loads, seen, stores, status, during>>

CallDevice ==
    /\ verdict = "accepted"
    /\ ~NothingToDo(call)
    /\ Receive(DeviceRequest(call))
    /\ loads' = IF soap' = "read" THEN LoadOrder ELSE <<>>
    /\ call' = NoCall
    /\ verdict' = "none"
    /\ during' = {}
    /\ UNCHANGED <<seen, stores, status>>

-----------------------------------------------------------------------------
(* The SOAP thread: the device.                                            *)

LoadNext ==
    /\ soap = "read"
    /\ loads # <<>>
    /\ seen' = [seen EXCEPT ![Head(loads)] = Load(Head(loads))]
    /\ loads' = Tail(loads)
    /\ during' = during \union {Moving}
    /\ UNCHANGED <<vars, frontVars, stores, status>>

(* Mutant of MoveStatus: it takes both axes to be moving. *)
MoveStatusBothAxes == IF seen.pan_speed # 0 /\ seen.tilt_speed # 0 THEN "MOVING" ELSE "IDLE"

MoveStatus == IF seen.pan_speed # 0 \/ seen.tilt_speed # 0 THEN "MOVING" ELSE "IDLE"

(* The status is complete: it is the answer, or its position is used. *)
UseStatus ==
    LET position == [pan |-> seen.pan, tilt |-> seen.tilt]
    IN  /\ soap = "read"
        /\ loads = <<>>
        /\ target' = IF req.op = "RelativeMove"
                       THEN RelativeTarget(position, req.x, req.y)
                       ELSE position
        /\ IF req.op = "GetStatus"
             THEN Answer("ok") /\ status' = MoveStatus
             ELSE /\ soap' = IF req.op = "SetHome" THEN "store" ELSE "lock"
                  /\ UNCHANGED <<reply, status>>
        /\ seen' = NothingSeen
        /\ UNCHANGED <<device, generation, home, lock, asleep, stopper, req, mine, history,
                       frontVars, loads, stores, during>>

(* Mutant of StopStores: the tilt goes on. *)
StopStoresPanOnly == <<<<"pan_speed", 0>>>>

StopStores == <<<<"pan_speed", 0>>, <<"tilt_speed", 0>>>>

CommandStores ==
    CASE req.op = "ContinuousMove" ->
            <<<<"pan_speed", speed_from_axis(req.x)>>, <<"tilt_speed", speed_from_axis(req.y)>>>>
      [] req.op = "Stop" -> StopStores
      [] OTHER ->
            LET clamped == clamp_ptz_position(target)
            IN  <<<<"pan", clamped.pan>>, <<"tilt", clamped.tilt>>>> \o StopStores

BeginCommand ==
    /\ LockCommand
    /\ stores' = CommandStores
    /\ UNCHANGED <<frontVars, loads, seen, status, during>>

(* With the last store the mutex is released. *)
StoreNext ==
    /\ soap = "write"
    /\ device' = Stored(Head(stores)[1], Head(stores)[2])
    /\ stores' = Tail(stores)
    /\ IF stores' # <<>>
         THEN UNCHANGED <<lock, cause, lastWrite, soap, reply>>
         ELSE /\ lock' = "free"
              /\ cause' = generation
              /\ lastWrite' = "ok"
              /\ IF req.op = "ContinuousMove"
                   THEN soap' = "spawn" /\ UNCHANGED reply
                   ELSE Answer("ok")
    /\ UNCHANGED <<generation, home, asleep, stopper, req, target, mine, readAtRest,
                   frontVars, loads, seen, status, during>>

-----------------------------------------------------------------------------
(* The timer threads.                                                      *)

DryTimerWakes(g) ==
    /\ TimerWakes(g)
    /\ stores' = IF lock' = "timer" THEN StopStores ELSE stores
    /\ UNCHANGED <<frontVars, loads, seen, status, during>>

(* With the last store the counter moves on. *)
TimerStoreNext ==
    /\ lock = "timer"
    /\ device' = Stored(Head(stores)[1], Head(stores)[2])
    /\ stores' = Tail(stores)
    /\ IF stores' # <<>>
         THEN UNCHANGED <<generation, lock, lastWrite>>
         ELSE /\ generation' = generation + 1
              /\ lock' = "free"
              /\ lastWrite' = "ok"
    /\ UNCHANGED <<home, asleep, stopper, soap, req, reply, target, mine, cause, readAtRest,
                   frontVars, loads, seen, status, during>>

-----------------------------------------------------------------------------
DrySoapStep ==
    \/ AskRail
    \/ CheckCall
    \/ AnswerAtOnce
    \/ CallDevice
    \/ LoadNext
    \/ UseStatus
    \/ StoreHome /\ UNCHANGED dryVars
    \/ BeginCommand
    \/ StoreNext
    \/ SpawnTimer /\ UNCHANGED dryVars

DryNext ==
    \/ \E c \in Calls : Arrive(c)
    \/ DrySoapStep
    \/ PeerLetsGo
    \/ \E g \in asleep : DryTimerWakes(g)
    \/ TimerStoreNext

DrySpec == DryInit /\ [][DryNext]_allVars

DryTimerIsScheduled(g) == WF_allVars(DryTimerWakes(g))

DryTimersAreScheduled == \A g \in Generations : DryTimerIsScheduled(g)

(* As in PtzDevice; the exchange with rail-media ends by its answer or by  *)
(* the timeout of a recv, unless rail-media holds it.                      *)
DryFairness ==
    /\ WF_allVars(DrySoapStep)
    /\ DryTimersAreScheduled
    /\ WF_allVars(TimerStoreNext)

DryFairSpec == DrySpec /\ DryFairness

-----------------------------------------------------------------------------
(* Properties.                                                             *)

(* A GetStatus answer of MOVING or IDLE was true at some moment of the     *)
(* call, although the two speeds are loaded one after the other while a    *)
(* timer may be storing them: no mixture passes for a state that never was.*)
StatusWasTrue == status # "none" => (status = "MOVING") \in during

(* Unlike one store, a command of several is not done before it is over:   *)
(* still, who is told that it is done finds the camera at rest or driven   *)
(* as asked, with a timer to end it, until another thread holds the mutex. *)
AcknowledgedMeansStored == lock # "timer" => AcknowledgedMeansDone

(* The sum of a duration's parts, unit by unit, in ticks. *)
UnitTotal(parts, unit) ==
    MapThenSumSet(LAMBDA i : IF parts[i].unit = unit THEN parts[i].amount ELSE 0, DOMAIN parts)
ExactTicks(parts) ==
    3600 * UnitTotal(parts, "H") + 60 * UnitTotal(parts, "M") + UnitTotal(parts, "S")

WellFormed(parts) == \A i \in DOMAIN parts : parts[i].number = "finite" /\ ~PartRefused(parts[i])
Readable(duration) == duration.prefix = "PT" /\ duration.parts # <<>> /\ WellFormed(duration.parts)
LongestTimeout == 3600000

(* A ContinuousMove that passed runs for its duration, to the nearest      *)
(* millisecond, never for 0 ms or beyond an hour, or for the default if    *)
(* it has none; one that is refused for its timeout has a malformed one,   *)
(* or one below half a millisecond or beyond an hour.                      *)
TimeoutIsHonest ==
    call # NoCall /\ call.op = "ContinuousMove" =>
        LET duration == call.timeout
            ms == parse_ptz_timeout_ms(duration)
            ticks == ExactTicks(duration.parts)
        IN  /\ verdict = "accepted" /\ Readable(duration) =>
                   ms \in 1..LongestTimeout /\ Magnitude(10 * ms - ticks) <= 5
            /\ verdict = "accepted" /\ ~Readable(duration) =>
                   ms = DefaultTimeout /\ duration.prefix = "" /\ duration.parts = <<>>
            /\ verdict = "timeout" /\ Readable(duration) =>
                   ticks < 5 \/ ticks > LongestTicks

(* The camera of atomics has one deadline at a time, too.  A timer that    *)
(* holds the mutex has met it with the store that ends the motion.         *)
DryDeadline ==
    IF lock = "timer" /\ stopper = generation THEN IF Moving THEN "due" ELSE "none"
    ELSE IF TimerPending THEN "set"
    ELSE "none"

DryMotion == INSTANCE PtzMotion
               WITH motion <- IF Moving THEN "driven" ELSE "still",
                    deadline <- DryDeadline

DryRunImplementsMotion == DryMotion!Spec

(* What the liveness theorems assume: as in PtzDevice, the mutex is all    *)
(* that a thread ever waits for, besides a rail-media that holds a call.   *)
DryOnlyTheMutexBlocks ==
    /\ (call # NoCall \/ soap # "idle") /\ verdict # "held" /\ (soap = "lock" => lock = "free")
           => ENABLED <<DrySoapStep>>_allVars
    /\ lock = "timer" => ENABLED <<TimerStoreNext>>_allVars
    /\ \A g \in asleep : lock = "free" => ENABLED <<DryTimerWakes(g)>>_allVars

(* A call is answered, whatever is checked, waited for and stored for it,  *)
(* unless rail-media holds its exchange for ever.                          *)
CallsAreAnswered ==
    (call # NoCall \/ soap # "idle") ~> ((call = NoCall /\ soap = "idle") \/ [](verdict = "held"))

=============================================================================
