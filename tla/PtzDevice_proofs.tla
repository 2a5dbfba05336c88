------------------------- MODULE PtzDevice_proofs -------------------------
(***************************************************************************)
(* Safety of PTZ control for every range, scale, set of axis values, set   *)
(* of write outcomes and bound.                                            *)
(***************************************************************************)
EXTENDS PtzDevice, PtzAxes_proofs

LEMMA HomeInRange == Home \in Position
  BY RangeAssumption DEF Home, Position

LEMMA RestType == Rest \in Velocity
  BY WidthAssumption DEF Rest, Velocity, IntRange

LEMMA SpeedsType ==
    ASSUME NEW x \in Int, NEW y \in Int
    PROVE  Speeds(x, y) \in Velocity
  BY AxisIsNeverLost, ScaleAssumption DEF Speeds, Velocity, speed_from_axis

LEMMA RelativeTargetType ==
    ASSUME NEW p \in Position, NEW x \in Int, NEW y \in Int
    PROVE  RelativeTarget(p, x, y) \in Position
<1>1. delta_from_axis(x) \in Int /\ delta_from_axis(y) \in Int
  BY AxisIsNeverLost, ScaleAssumption, WidthAssumption DEF delta_from_axis, IntRange
<1>2. p.pan \in Int /\ p.tilt \in Int
  BY RangeAssumption DEF Position
<1> DEFINE sum == [pan  |-> Wrap(p.pan + delta_from_axis(x)),
                   tilt |-> Wrap(p.tilt + delta_from_axis(y))]
<1>3. sum.pan \in Int /\ sum.tilt \in Int
  BY <1>1, <1>2, WrapType, WidthAssumption DEF IntRange
<1>4. clamp_ptz_position(sum) \in Position
  BY <1>3, ClampPosition
<1>5. QED
  BY <1>4 DEF RelativeTarget

LEMMA ClampedPosition ==
    ASSUME NEW p \in Position
    PROVE  clamp_ptz_position(p) \in Position
<1>1. p.pan \in Int /\ p.tilt \in Int
  BY RangeAssumption DEF Position
<1>2. QED
  BY <1>1, ClampPosition

LEMMA RequestFields ==
    ASSUME NEW r \in Requests
    PROVE  r.op \in Ops /\ r.x \in Int /\ r.y \in Int
  BY PtzDeviceAssumption DEF Requests, Ops

LEMMA IdleIsRequest == Idle \in Requests
  BY DEF Idle, Requests, Ops

(* The driver's own steps keep the camera in range. *)
LEMMA DeviceMovesType ==
    ASSUME TypeOK, DeviceMoves
    PROVE  device' \in [pos : Position, vel : Velocity]
<1> DEFINE next == [pan  |-> device.pos.pan + Sign(device.vel.pan),
                    tilt |-> device.pos.tilt + Sign(device.vel.tilt)]
<1>1. device.pos.pan \in Int /\ device.pos.tilt \in Int
  BY RangeAssumption DEF TypeOK, Position
<1>2. next.pan \in Int /\ next.tilt \in Int
  BY <1>1 DEF Sign
<1>3. clamp_ptz_position(next) \in Position
  BY <1>2, ClampPosition
<1>4. device' = [device EXCEPT !.pos = clamp_ptz_position(next)]
  BY DEF DeviceMoves
<1>5. QED
  BY <1>3, <1>4 DEF TypeOK

(* What a command makes of the camera. *)
LEMMA CommandedType ==
    ASSUME TypeOK
    PROVE  Commanded(device) \in [pos : Position, vel : Velocity]
<1>1. Speeds(req.x, req.y) \in Velocity
  BY RequestFields, SpeedsType DEF TypeOK
<1>2. Rest \in Velocity
  BY RestType
<1>3. clamp_ptz_position(target) \in Position
  BY ClampedPosition DEF TypeOK
<1>4. device \in [pos : Position, vel : Velocity]
  BY DEF TypeOK
<1>5. CASE req.op = "ContinuousMove"
  BY <1>1, <1>4, <1>5 DEF Commanded
<1>6. CASE req.op = "Stop"
  BY <1>2, <1>4, <1>6 DEF Commanded
<1>7. CASE req.op \notin {"ContinuousMove", "Stop"}
  BY <1>2, <1>3, <1>7 DEF Commanded
<1>8. QED
  BY <1>5, <1>6, <1>7

-----------------------------------------------------------------------------
(* The type invariant: in particular every position that is stored or      *)
(* written lies in the mechanical range.                                   *)

LEMMA InitType == Init => TypeOK
<1> SUFFICES ASSUME Init PROVE TypeOK
  OBVIOUS
<1>1. Rest \in Velocity
  BY RestType
<1>2. device \in [pos : Position, vel : Velocity]
  BY <1>1 DEF Init
<1>3. QED
  BY <1>2, HomeInRange, IdleIsRequest DEF Init, TypeOK

LEMMA NextType == TypeOK /\ [Next]_vars => TypeOK'
<1> SUFFICES ASSUME TypeOK, [Next]_vars PROVE TypeOK'
  OBVIOUS
<1>1. CASE ServeWithoutEffect
  BY <1>1, IdleIsRequest DEF TypeOK, ServeWithoutEffect, history
<1>2. ASSUME NEW r \in Requests, Receive(r) PROVE TypeOK'
  BY <1>2 DEF TypeOK, Receive, FirstStep
<1>3. CASE ReadStatus
  <2>1. target' \in Position
    <3>1. RelativeTarget(device.pos, req.x, req.y) \in Position
      BY RequestFields, RelativeTargetType DEF TypeOK
    <3>2. clamp_ptz_position(device.pos) \in Position
      BY ClampedPosition DEF TypeOK
    <3>3. QED
      BY <1>3, <3>1, <3>2 DEF ReadStatus
  <2>2. soap' \in {"idle", "store", "lock"} /\ reply' \in {"none", "ok", "fault"}
    BY <1>3 DEF ReadStatus, Answer, TypeOK
  <2>3. readAtRest' \in BOOLEAN
    BY <1>3 DEF ReadStatus
  <2>4. QED
    BY <1>3, <2>1, <2>2, <2>3 DEF ReadStatus, TypeOK
<1>4. CASE ReadFails
  BY <1>4 DEF TypeOK, ReadFails, Answer, history
<1>5. CASE StoreHome
  <2>1. home' \in Position
    BY <1>5, ClampedPosition DEF StoreHome, TypeOK
  <2>2. QED
    BY <1>5, <2>1 DEF TypeOK, StoreHome, Answer, history
<1>6. CASE LockCommand
  BY <1>6 DEF TypeOK, LockCommand, history
<1>7. ASSUME NEW outcome \in SoapOutcomes, WriteCommand(outcome) PROVE TypeOK'
  <2>1. device' \in [pos : Position, vel : Velocity] /\ cause' \in Nat
    BY <1>7, CommandedType DEF WriteCommand, TypeOK
  <2>2. soap' \in {"spawn", "idle"} /\ reply' \in {"none", "ok", "fault"}
    BY <1>7 DEF WriteCommand, Answer, TypeOK
  <2>3. QED
    BY <1>7, <2>1, <2>2 DEF WriteCommand, TypeOK
<1>8. CASE SpawnTimer
  BY <1>8 DEF TypeOK, SpawnTimer, Answer, history
<1>9. ASSUME NEW g \in asleep, TimerWakes(g) PROVE TypeOK'
  BY <1>9 DEF TypeOK, TimerWakes, history
<1>10. ASSUME NEW outcome \in TimerOutcomes, TimerStops(outcome) PROVE TypeOK'
  <2>1. device' \in [pos : Position, vel : Velocity]
    BY <1>10, RestType DEF TimerStops, TypeOK
  <2>2. QED
    BY <1>10, <2>1 DEF TypeOK, TimerStops
<1>11. CASE DeviceMoves
  BY <1>11, DeviceMovesType DEF TypeOK, DeviceMoves, process, history
<1>12. CASE Restart
  BY <1>12, HomeInRange, IdleIsRequest DEF TypeOK, Restart
<1>13. CASE UNCHANGED vars
  BY <1>13 DEF TypeOK, vars, process, history
<1>14. QED
  BY <1>1, <1>2, <1>3, <1>4, <1>5, <1>6, <1>7, <1>8, <1>9, <1>10, <1>11, <1>12, <1>13
     DEF Next, SoapStep, TimerWrites

(* Every state of every behaviour is well typed. *)
THEOREM TypeCorrect == Spec => []TypeOK
<1>1. QED
  BY InitType, NextType, PTL DEF Spec

-----------------------------------------------------------------------------
(* The inductive invariant.                                                *)

LEMMA InitIInv == Init => IInv
<1> SUFFICES ASSUME Init PROVE IInv
  OBVIOUS
<1>1. TypeOK
  BY InitType
<1>2. QED
  BY <1>1 DEF Init, IInv, GenerationsIssued, HolderWrites, NewestTimer, TimerPending,
              RelativeBaseAtRest, RelativeBaseIsCurrent, HealthyMotionIsWatched,
              AcknowledgedMeansDone, Moving

(* Steps that leave the threads' bookkeeping, the camera and the answered  *)
(* request alone preserve every part.                                      *)
LEMMA ServeInv == IInv /\ ServeWithoutEffect => IInv'
<1> SUFFICES ASSUME IInv, ServeWithoutEffect PROVE IInv'
  OBVIOUS
<1>1. TypeOK'
  BY NextType DEF IInv, Next
<1>2. (GenerationsIssued /\ HolderWrites /\ NewestTimer /\ RelativeBaseAtRest)'
  BY DEF IInv, ServeWithoutEffect, history, GenerationsIssued, HolderWrites,
         NewestTimer, TimerPending, RelativeBaseAtRest, Moving
<1>3. (RelativeBaseIsCurrent /\ HealthyMotionIsWatched)'
  BY DEF IInv, ServeWithoutEffect, history, RelativeBaseIsCurrent,
         HealthyMotionIsWatched, TimerPending, Moving
<1>4. AcknowledgedMeansDone'
  BY DEF ServeWithoutEffect, AcknowledgedMeansDone, Idle
<1>5. QED
  BY <1>1, <1>2, <1>3, <1>4 DEF IInv

LEMMA ReceiveInv ==
    ASSUME IInv, NEW r \in Requests, Receive(r)
    PROVE  IInv'
<1>1. TypeOK'
  BY NextType DEF IInv, Next
<1>2. soap' \in {"read", "lock"} /\ readAtRest' = FALSE /\ reply' = "none"
  BY DEF Receive, FirstStep
<1>3. (GenerationsIssued /\ HolderWrites /\ NewestTimer /\ RelativeBaseAtRest)'
  BY <1>2 DEF IInv, Receive, GenerationsIssued, HolderWrites, NewestTimer,
              TimerPending, RelativeBaseAtRest
<1>4. (RelativeBaseIsCurrent /\ HealthyMotionIsWatched)'
  BY <1>2 DEF IInv, Receive, RelativeBaseIsCurrent, HealthyMotionIsWatched,
              TimerPending, Moving
<1>5. AcknowledgedMeansDone'
  BY <1>2 DEF AcknowledgedMeansDone
<1>6. QED
  BY <1>1, <1>3, <1>4, <1>5 DEF IInv

LEMMA ReadStatusInv == IInv /\ ReadStatus => IInv'
<1> SUFFICES ASSUME IInv, ReadStatus PROVE IInv'
  OBVIOUS
<1>1. TypeOK'
  BY NextType DEF IInv, Next, SoapStep
<1>2. /\ soap = "read"
      /\ soap' = (IF req.op = "GetStatus" THEN "idle"
                  ELSE IF req.op = "SetHome" THEN "store" ELSE "lock")
      /\ readAtRest' = ~Moving
      /\ UNCHANGED <<device, generation, lock, asleep, stopper, req, mine, cause, lastWrite>>
  BY DEF ReadStatus, Answer
<1>3. (GenerationsIssued /\ HolderWrites /\ NewestTimer /\ RelativeBaseAtRest)'
  BY <1>2 DEF IInv, GenerationsIssued, HolderWrites, NewestTimer,
              TimerPending, RelativeBaseAtRest, Moving
<1>4. RelativeBaseIsCurrent'
  BY <1>2 DEF ReadStatus, RelativeBaseIsCurrent, RelativeTarget
<1>5. HealthyMotionIsWatched'
  BY <1>2 DEF IInv, HealthyMotionIsWatched, TimerPending, Moving
<1>6. AcknowledgedMeansDone'
  BY <1>2 DEF AcknowledgedMeansDone
<1>7. QED
  BY <1>1, <1>3, <1>4, <1>5, <1>6 DEF IInv

LEMMA ReadFailsInv == IInv /\ ReadFails => IInv'
<1> SUFFICES ASSUME IInv, ReadFails PROVE IInv'
  OBVIOUS
<1>1. TypeOK'
  BY NextType DEF IInv, Next, SoapStep
<1>2. QED
  BY <1>1 DEF IInv, ReadFails, Answer, history, GenerationsIssued, HolderWrites,
              NewestTimer, TimerPending, RelativeBaseAtRest, RelativeBaseIsCurrent,
              HealthyMotionIsWatched, AcknowledgedMeansDone, Moving

LEMMA StoreHomeInv == IInv /\ StoreHome => IInv'
<1> SUFFICES ASSUME IInv, StoreHome PROVE IInv'
  OBVIOUS
<1>1. TypeOK'
  BY NextType DEF IInv, Next, SoapStep
<1>2. QED
  BY <1>1 DEF IInv, StoreHome, Answer, history, GenerationsIssued, HolderWrites,
              NewestTimer, TimerPending, RelativeBaseAtRest, RelativeBaseIsCurrent,
              HealthyMotionIsWatched, AcknowledgedMeansDone, Moving

(* A command's new generation is one that no thread captured. *)
LEMMA LockCommandInv == IInv /\ LockCommand => IInv'
<1> SUFFICES ASSUME IInv, LockCommand PROVE IInv'
  OBVIOUS
<1>1. TypeOK'
  BY NextType DEF IInv, Next, SoapStep
<1>2. generation' = generation + 1 /\ generation \in Nat /\ mine \in Nat
  BY DEF IInv, TypeOK, LockCommand
<1>3. GenerationsIssued'
  BY <1>2 DEF IInv, LockCommand, GenerationsIssued
<1>4. generation' \notin asleep'
  BY <1>2 DEF IInv, LockCommand, GenerationsIssued
<1>5. (HolderWrites /\ NewestTimer)'
  BY <1>2, <1>4 DEF LockCommand, HolderWrites, NewestTimer, TimerPending
<1>6. (RelativeBaseAtRest /\ RelativeBaseIsCurrent)'
  BY DEF IInv, LockCommand, history, RelativeBaseAtRest, RelativeBaseIsCurrent, Moving
<1>7. (HealthyMotionIsWatched /\ AcknowledgedMeansDone)'
  BY DEF LockCommand, HealthyMotionIsWatched, AcknowledgedMeansDone
<1>8. QED
  BY <1>1, <1>3, <1>5, <1>6, <1>7 DEF IInv

(* What is written takes effect under the newest generation, and a written *)
(* ContinuousMove has its timer about to be started.                       *)
LEMMA WriteCommandInv ==
    ASSUME IInv, NEW outcome \in SoapOutcomes, WriteCommand(outcome)
    PROVE  IInv'
<1>1. TypeOK'
  BY NextType DEF IInv, Next, SoapStep
<1>2. /\ soap = "write" /\ lock = "soap" /\ lock' = "free"
      /\ generation \notin asleep
      /\ UNCHANGED <<generation, asleep, stopper, req, target, mine, readAtRest>>
  BY DEF IInv, WriteCommand, HolderWrites, NewestTimer
<1>3. CASE outcome = "ok" /\ req.op = "ContinuousMove"
  <2>1. /\ soap' = "spawn" /\ cause' = generation /\ mine = generation
        /\ device' = [device EXCEPT !.vel = Speeds(req.x, req.y)]
    BY <1>2, <1>3 DEF IInv, WriteCommand, Commanded, HolderWrites
  <2>2. device'.vel = Speeds(req.x, req.y)
    BY <2>1 DEF IInv, TypeOK
  <2>3. QED
    BY <1>1, <1>2, <1>3, <2>1, <2>2
       DEF IInv, GenerationsIssued, HolderWrites, NewestTimer, TimerPending,
           RelativeBaseAtRest, RelativeBaseIsCurrent, HealthyMotionIsWatched,
           AcknowledgedMeansDone
<1>4. CASE outcome = "ok" /\ req.op # "ContinuousMove"
  <2>1. soap' = "idle" /\ device' = Commanded(device)
    BY <1>4 DEF WriteCommand, Answer
  <2>2. device'.vel = Rest
    <3>1. CASE req.op = "Stop"
      BY <2>1, <3>1 DEF Commanded, IInv, TypeOK
    <3>2. CASE req.op # "Stop"
      <4>1. Commanded(device) = [pos |-> clamp_ptz_position(target), vel |-> Rest]
        BY <1>4, <3>2 DEF Commanded
      <4>2. QED
        BY <2>1, <4>1
    <3>3. QED
      BY <3>1, <3>2
  <2>3. QED
    BY <1>1, <1>2, <1>4, <2>1, <2>2
       DEF IInv, GenerationsIssued, HolderWrites, NewestTimer, TimerPending,
           RelativeBaseAtRest, RelativeBaseIsCurrent, HealthyMotionIsWatched,
           AcknowledgedMeansDone, Moving
<1>5. CASE outcome # "ok"
  <2>1. soap' = "idle" /\ reply' = "fault" /\ lastWrite' = "error"
    BY <1>5 DEF WriteCommand, Answer
  <2>2. QED
    BY <1>1, <1>2, <2>1
       DEF IInv, GenerationsIssued, HolderWrites, NewestTimer, TimerPending,
           RelativeBaseAtRest, RelativeBaseIsCurrent, HealthyMotionIsWatched,
           AcknowledgedMeansDone
<1>6. QED
  BY <1>3, <1>4, <1>5

LEMMA SpawnTimerInv == IInv /\ SpawnTimer => IInv'
<1> SUFFICES ASSUME IInv, SpawnTimer PROVE IInv'
  OBVIOUS
<1>1. TypeOK'
  BY NextType DEF IInv, Next, SoapStep
<1>2. /\ soap = "spawn" /\ soap' = "idle" /\ lock # "timer" /\ lock # "soap"
      /\ mine = generation /\ asleep' = asleep \union {generation}
      /\ req.op = "ContinuousMove" /\ device.vel = Speeds(req.x, req.y)
      /\ cause = generation
      /\ UNCHANGED <<device, generation, lock, stopper, req, target, mine, cause,
                     lastWrite, readAtRest>>
  BY DEF IInv, SpawnTimer, Answer, history, HolderWrites, NewestTimer, TimerPending
<1>3. GenerationsIssued'
  <2>1. generation \in 1..generation
    BY <1>2 DEF IInv, TypeOK, GenerationsIssued
  <2>2. QED
    BY <1>2, <2>1 DEF IInv, GenerationsIssued
<1>4. (HolderWrites /\ NewestTimer)'
  BY <1>2 DEF HolderWrites, NewestTimer, TimerPending
<1>5. (RelativeBaseAtRest /\ RelativeBaseIsCurrent)'
  BY <1>2 DEF RelativeBaseAtRest, RelativeBaseIsCurrent
<1>6. (HealthyMotionIsWatched /\ AcknowledgedMeansDone)'
  BY <1>2 DEF HealthyMotionIsWatched, AcknowledgedMeansDone, TimerPending
<1>7. QED
  BY <1>1, <1>3, <1>4, <1>5, <1>6 DEF IInv

(* A thread that finds the counter changed leaves; the one that does not   *)
(* is the newest.                                                          *)
LEMMA TimerWakesInv ==
    ASSUME IInv, NEW g \in asleep, TimerWakes(g)
    PROVE  IInv'
<1>1. TypeOK'
  BY NextType DEF IInv, Next
<1>2. /\ lock = "free" /\ soap # "write"
      /\ asleep' = asleep \ {g}
      /\ UNCHANGED <<device, generation, home, soap, req, reply, target, mine, cause,
                     lastWrite, readAtRest>>
  BY DEF IInv, TimerWakes, history, HolderWrites
<1>3. (GenerationsIssued /\ RelativeBaseAtRest /\ RelativeBaseIsCurrent)'
  BY <1>2 DEF IInv, GenerationsIssued, RelativeBaseAtRest, RelativeBaseIsCurrent, Moving
<1>4. CASE generation = g
  <2>1. lock' = "timer" /\ stopper' = generation /\ soap # "spawn" /\ cause = generation
    BY <1>4 DEF IInv, TimerWakes, NewestTimer, TimerPending
  <2>2. (HolderWrites /\ NewestTimer)'
    BY <1>2, <1>4, <2>1 DEF IInv, HolderWrites, NewestTimer, TimerPending
  <2>3. (HealthyMotionIsWatched /\ AcknowledgedMeansDone)'
    BY <1>2, <1>4, <2>1
       DEF IInv, HealthyMotionIsWatched, AcknowledgedMeansDone, TimerPending, Moving
  <2>4. QED
    BY <1>1, <1>3, <2>2, <2>3 DEF IInv
<1>5. CASE generation # g
  <2>1. UNCHANGED <<lock, stopper>>
    BY <1>5 DEF TimerWakes
  <2>2. QED
    BY <1>1, <1>2, <1>3, <1>5, <2>1
       DEF IInv, HolderWrites, NewestTimer, TimerPending, HealthyMotionIsWatched,
           AcknowledgedMeansDone, Moving
<1>6. QED
  BY <1>4, <1>5

(* After a timer's write no thread carries the newest generation. *)
LEMMA TimerStopsInv ==
    ASSUME IInv, NEW outcome \in TimerOutcomes, TimerStops(outcome)
    PROVE  IInv'
<1>1. TypeOK'
  BY NextType DEF IInv, Next, TimerWrites
<1>2. /\ lock = "timer" /\ lock' = "free" /\ soap \notin {"write", "spawn"}
      /\ generation' = generation + 1 /\ generation \in Nat /\ mine \in Nat
      /\ UNCHANGED <<home, asleep, stopper, soap, req, reply, target, mine, cause, readAtRest>>
  BY DEF IInv, TypeOK, TimerStops, HolderWrites, NewestTimer
<1>3. /\ device'.pos = device.pos
      /\ device'.vel = device.vel \/ device'.vel = Rest
      /\ lastWrite' = "ok" => device'.vel = Rest
  BY DEF TimerStops, IInv, TypeOK
<1>4. GenerationsIssued' /\ generation' \notin asleep' /\ mine # generation'
  BY <1>2 DEF IInv, GenerationsIssued
<1>5. (HolderWrites /\ NewestTimer)'
  BY <1>2, <1>4 DEF IInv, HolderWrites, NewestTimer, TimerPending
<1>6. (RelativeBaseAtRest /\ RelativeBaseIsCurrent)'
  BY <1>2, <1>3 DEF IInv, RelativeBaseAtRest, RelativeBaseIsCurrent, Moving
<1>7. (HealthyMotionIsWatched /\ AcknowledgedMeansDone)'
  BY <1>2, <1>3, <1>4 DEF IInv, HealthyMotionIsWatched, AcknowledgedMeansDone, Moving
<1>8. QED
  BY <1>1, <1>4, <1>5, <1>6, <1>7 DEF IInv

LEMMA DeviceMovesInv == IInv /\ DeviceMoves => IInv'
<1> SUFFICES ASSUME IInv, DeviceMoves PROVE IInv'
  OBVIOUS
<1>1. TypeOK'
  BY NextType DEF IInv, Next
<1>2. /\ Moving /\ device'.vel = device.vel
      /\ UNCHANGED <<generation, home, lock, asleep, stopper, soap, req, reply, target,
                     mine, cause, lastWrite, readAtRest>>
  BY DEF DeviceMoves, process, history, IInv, TypeOK
<1>3. QED
  BY <1>1, <1>2 DEF IInv, GenerationsIssued, HolderWrites, NewestTimer, TimerPending,
                    RelativeBaseAtRest, RelativeBaseIsCurrent, HealthyMotionIsWatched,
                    AcknowledgedMeansDone, Moving

LEMMA RestartInv == IInv /\ Restart => IInv'
<1> SUFFICES ASSUME IInv, Restart PROVE IInv'
  OBVIOUS
<1>1. TypeOK'
  BY NextType DEF IInv, Next
<1>2. QED
  BY <1>1 DEF Restart, IInv, GenerationsIssued, HolderWrites, NewestTimer, TimerPending,
              RelativeBaseAtRest, RelativeBaseIsCurrent, HealthyMotionIsWatched,
              AcknowledgedMeansDone

LEMMA NextIInv == IInv /\ [Next]_vars => IInv'
<1> SUFFICES ASSUME IInv, [Next]_vars PROVE IInv'
  OBVIOUS
<1>1. CASE UNCHANGED vars
  BY <1>1 DEF vars, process, history, IInv, TypeOK, GenerationsIssued, HolderWrites,
              NewestTimer, TimerPending, RelativeBaseAtRest, RelativeBaseIsCurrent,
              HealthyMotionIsWatched, AcknowledgedMeansDone, Moving
<1>2. CASE Next
  BY <1>2, ServeInv, ReceiveInv, ReadStatusInv, ReadFailsInv, StoreHomeInv, LockCommandInv,
     WriteCommandInv, SpawnTimerInv, TimerWakesInv, TimerStopsInv, DeviceMovesInv, RestartInv
     DEF Next, SoapStep, TimerWrites
<1>3. QED
  BY <1>1, <1>2

THEOREM Invariance == Spec => []IInv
<1>1. QED
  BY InitIInv, NextIInv, PTL DEF Spec

-----------------------------------------------------------------------------
(* The safety properties.                                                  *)

(* As long as writes succeed, a moving camera has its timer. *)
THEOREM HealthyMotion == Spec => []HealthyMotionIsWatched
<1>1. IInv => HealthyMotionIsWatched
  BY DEF IInv
<1>2. QED
  BY Invariance, <1>1, PTL

(* An "ok" answer describes what the camera does. *)
THEOREM Acknowledged == Spec => []AcknowledgedMeansDone
<1>1. IInv => AcknowledgedMeansDone
  BY DEF IInv
<1>2. QED
  BY Invariance, <1>1, PTL

(* Reading the position outside the mutex does no harm to a RelativeMove   *)
(* of a camera at rest.                                                    *)
THEOREM RelativeBase == Spec => []RelativeBaseIsCurrent
<1>1. IInv => RelativeBaseIsCurrent
  BY DEF IInv
<1>2. QED
  BY Invariance, <1>1, PTL

(* No timer, however late it wakes, ends a motion that is not its own. *)
THEOREM OwnMotion == Spec => TimerStopsOnlyItsOwnMotion
<1>1. ASSUME IInv, [Next]_vars, lock = "timer", device'.vel # device.vel
      PROVE  cause = stopper
  <2>1. TimerPending /\ stopper = generation /\ cause = generation
    BY <1>1 DEF IInv, NewestTimer, TimerPending
  <2>2. QED
    BY <2>1
<1>2. IInv /\ [Next]_vars =>
        [lock = "timer" /\ device'.vel # device.vel => cause = stopper]_vars
  BY <1>1
<1>3. QED
  BY Invariance, <1>2, PTL DEF Spec, TimerStopsOnlyItsOwnMotion

-----------------------------------------------------------------------------
(* Many threads, one deadline: PtzDevice implements PtzMotion.             *)

LEMMA InitRefines == Init => Motion!Init
  BY DEF Init, Motion!Init, Moving, Deadline, TimerPending

(* A step that touches neither the velocity nor the state the deadline is  *)
(* read from is a stutter of PtzMotion.                                    *)
LEMMA StutterRefines ==
    ASSUME device'.vel = device.vel, Deadline' = Deadline
    PROVE  UNCHANGED Motion!vars
  BY DEF Motion!vars, Moving

LEMMA StepRefines == IInv /\ IInv' /\ [Next]_vars => [Motion!Next]_(Motion!vars)
<1> SUFFICES ASSUME IInv, IInv', [Next]_vars PROVE [Motion!Next]_(Motion!vars)
  OBVIOUS
<1>1. CASE ServeWithoutEffect
  BY <1>1, StutterRefines DEF ServeWithoutEffect, history, Deadline, TimerPending
<1>2. ASSUME NEW r \in Requests, Receive(r) PROVE UNCHANGED Motion!vars
  BY <1>2, StutterRefines DEF Receive, FirstStep, Deadline, TimerPending
<1>3. CASE ReadStatus
  BY <1>3, StutterRefines DEF ReadStatus, Answer, Deadline, TimerPending
<1>4. CASE ReadFails
  BY <1>4, StutterRefines DEF ReadFails, Answer, history, Deadline, TimerPending
<1>5. CASE StoreHome
  BY <1>5, StutterRefines DEF StoreHome, Answer, history, Deadline, TimerPending
<1>6. CASE LockCommand
  <2>1. Deadline' = "none" /\ device' = device
    BY <1>6 DEF IInv, LockCommand, NewestTimer, HolderWrites, Deadline, TimerPending
  <2>2. QED
    BY <2>1 DEF Motion!Next, Motion!Revoke, Motion!vars, Deadline, Moving
<1>7. ASSUME NEW outcome \in SoapOutcomes, WriteCommand(outcome)
      PROVE  [Motion!Next]_(Motion!vars)
  <2>1. Deadline = "none"
    BY <1>7 DEF IInv, WriteCommand, HolderWrites, NewestTimer, Deadline, TimerPending
  <2>2. CASE outcome = "ok" /\ req.op = "ContinuousMove"
    <3>1. Deadline' = "set"
      BY <1>7, <2>2 DEF IInv, HolderWrites, WriteCommand, Deadline, TimerPending
    <3>2. QED
      BY <2>1, <3>1 DEF Motion!Next, Motion!Drive
  <2>3. CASE outcome # "ok" \/ req.op # "ContinuousMove"
    <3>1. Deadline' = "none"
      BY <1>7, <2>3
         DEF IInv, WriteCommand, Answer, HolderWrites, NewestTimer, Deadline, TimerPending
    <3>2. CASE outcome = "failed"
      BY <1>7, <2>1, <3>1, <3>2, StutterRefines DEF WriteCommand
    <3>3. CASE outcome # "failed" /\ ~Moving'
      BY <2>1, <3>1, <3>3 DEF Motion!Next, Motion!Halt
    <3>4. CASE outcome # "failed" /\ Moving'
      BY <2>1, <3>1, <3>4 DEF Motion!Next, Motion!DriveUnacknowledged
    <3>5. QED
      BY <3>2, <3>3, <3>4
  <2>4. QED
    BY <2>2, <2>3
<1>8. CASE SpawnTimer
  <2>1. Deadline = "set" /\ Deadline' = "set"
    BY <1>8 DEF IInv, SpawnTimer, Answer, NewestTimer, Deadline, TimerPending
  <2>2. QED
    BY <1>8, <2>1, StutterRefines DEF SpawnTimer
<1>9. ASSUME NEW g \in asleep, TimerWakes(g) PROVE [Motion!Next]_(Motion!vars)
  <2>1. CASE generation = g
    <3>1. Deadline = "set" /\ Deadline' = "due" /\ device' = device
      BY <1>9, <2>1 DEF TimerWakes, Deadline, TimerPending
    <3>2. QED
      BY <3>1 DEF Motion!Next, Motion!ComeDue, Moving
  <2>2. CASE generation # g
    <3>1. Deadline' = Deadline /\ device' = device
      BY <1>9, <2>2 DEF TimerWakes, Deadline, TimerPending
    <3>2. QED
      BY <3>1, StutterRefines
  <2>3. QED
    BY <2>1, <2>2
<1>10. ASSUME NEW outcome \in TimerOutcomes, TimerStops(outcome)
       PROVE  [Motion!Next]_(Motion!vars)
  <2>1. Deadline = "due"
    BY <1>10 DEF IInv, NewestTimer, TimerStops, Deadline
  <2>2. Deadline' = "none"
    <3>1. generation' = generation + 1 /\ generation \in Nat /\ asleep' = asleep
          /\ lock' = "free" /\ soap' = soap /\ soap # "spawn"
      BY <1>10 DEF IInv, TypeOK, NewestTimer, TimerStops
    <3>2. generation' \notin asleep'
      BY <3>1 DEF IInv, GenerationsIssued
    <3>3. QED
      BY <3>1, <3>2 DEF Deadline, TimerPending
  <2>3. CASE outcome = "failed"
    BY <1>10, <2>1, <2>2, <2>3 DEF TimerStops, Motion!Next, Motion!Revoke, Moving
  <2>4. CASE outcome # "failed"
    <3>1. device'.vel = Rest
      BY <1>10, <2>4 DEF TimerStops, IInv, TypeOK
    <3>2. QED
      BY <2>1, <2>2, <3>1 DEF Motion!Next, Motion!Expire, Moving
  <2>5. QED
    BY <2>3, <2>4
<1>11. CASE DeviceMoves
  <2>1. device'.vel = device.vel /\ Deadline' = Deadline
    BY <1>11 DEF DeviceMoves, process, history, IInv, TypeOK, Deadline, TimerPending
  <2>2. QED
    BY <2>1, StutterRefines
<1>12. CASE Restart
  <2>1. Deadline' = "none" /\ device' = device
    BY <1>12 DEF Restart, Deadline, TimerPending
  <2>2. QED
    BY <2>1 DEF Motion!Next, Motion!Revoke, Motion!vars, Moving
<1>13. CASE UNCHANGED vars
  <2>1. device'.vel = device.vel /\ Deadline' = Deadline
    BY <1>13 DEF vars, process, history, Deadline, TimerPending
  <2>2. QED
    BY <2>1, StutterRefines
<1>14. QED
  BY <1>1, <1>2, <1>3, <1>4, <1>5, <1>6, <1>7, <1>8, <1>9, <1>10, <1>11, <1>12, <1>13
     DEF Next, SoapStep, TimerWrites

(* Every behaviour of the threads is, seen through their newest            *)
(* generation, a behaviour of one camera with one deadline.                *)
THEOREM Implements == Spec => ImplementsPtzMotion
<1>1. QED
  BY InitRefines, StepRefines, Invariance, PTL DEF Spec, ImplementsPtzMotion, Motion!Spec

-----------------------------------------------------------------------------
(* Progress.  What a thread can do at a given moment is a matter of        *)
(* ENABLED, which the provers cannot evaluate: that the mutex is all a     *)
(* thread waits for is a hypothesis here, and is checked by TLC.           *)

(* A request that waits for the mutex: behind a timer, or with the newest  *)
(* timer still to come, or with no timer left that would take the mutex.   *)
Behind == soap = "lock" /\ lock = "timer"
Contended == soap = "lock" /\ lock = "free" /\ generation \in asleep
Unrivalled == soap = "lock" /\ lock = "free" /\ generation \notin asleep

LEMMA WaitingCases == IInv => (soap = "lock" <=> Behind \/ Contended \/ Unrivalled)
  BY DEF IInv, TypeOK, HolderWrites, Behind, Contended, Unrivalled

(* The stages a request goes through. *)
LEMMA StagesFollow ==
    ASSUME IInv, [Next]_vars
    PROVE  /\ soap = "read" => soap' \in {"read", "store", "lock", "idle"}
           /\ soap = "store" => soap' \in {"store", "idle"}
           /\ soap = "lock" => soap' \in {"lock", "write", "idle"}
           /\ soap = "write" => soap' \in {"write", "spawn", "idle"}
           /\ soap = "spawn" => soap' \in {"spawn", "idle"}
  BY DEF Next, SoapStep, TimerWrites, ServeWithoutEffect, Receive, ReadStatus, ReadFails, StoreHome,
         LockCommand, WriteCommand, SpawnTimer, Answer, TimerWakes, TimerStops, DeviceMoves, Restart,
         vars, process

(* A step of the thread itself leaves the stage. *)
LEMMA SoapStepAdvances == IInv /\ SoapStep => soap' # soap
  BY DEF SoapStep, ReadStatus, ReadFails, StoreHome, LockCommand, WriteCommand, SpawnTimer, Answer

(* Nobody overtakes a waiting command twice: while it waits, the counter   *)
(* moves only when a timer releases the mutex, and then no timer that      *)
(* sleeps has the counter's value.                                         *)
LEMMA AtMostOneTimerFirst ==
    ASSUME IInv, [Next]_vars, soap = "lock", soap' = "lock"
    PROVE  /\ Behind => Behind' \/ Unrivalled'
           /\ Contended => Contended' \/ Behind' \/ Unrivalled'
           /\ Unrivalled => Unrivalled'
<1>1. lock \in {"free", "timer"}
  BY DEF IInv, TypeOK, HolderWrites
<1>2. CASE UNCHANGED <<lock, generation, asleep>>
  BY <1>2 DEF Behind, Contended, Unrivalled
<1>3. ASSUME NEW g \in asleep, TimerWakes(g)
      PROVE  ~Behind /\ (Contended => Contended' \/ Behind' \/ Unrivalled') /\ (Unrivalled => Unrivalled')
  BY <1>3 DEF TimerWakes, Behind, Contended, Unrivalled
<1>4. ASSUME NEW outcome \in TimerOutcomes, TimerStops(outcome)
      PROVE  ~Contended /\ ~Unrivalled /\ Unrivalled'
  <2>1. generation + 1 \notin asleep
    BY DEF IInv, TypeOK, GenerationsIssued
  <2> QED
    BY <1>4, <2>1 DEF TimerStops, Behind, Contended, Unrivalled
<1>5. \/ UNCHANGED <<lock, generation, asleep>>
      \/ \E g \in asleep : TimerWakes(g)
      \/ \E outcome \in TimerOutcomes : TimerStops(outcome)
  BY DEF Next, SoapStep, TimerWrites, ServeWithoutEffect, Receive, ReadStatus, ReadFails, StoreHome,
         LockCommand, WriteCommand, SpawnTimer, Answer, DeviceMoves, Restart, vars, process
<1> QED
  BY <1>2, <1>3, <1>4, <1>5

(* The stages of a request, as the temporal argument names them. *)
Done == soap = "idle"
Reading == soap = "read"
Storing == soap = "store"
Writing == soap = "write"
Spawning == soap = "spawn"

LEMMA StagesAreAll ==
    IInv => Done \/ Reading \/ Storing \/ Behind \/ Contended \/ Unrivalled \/ Writing \/ Spawning
  BY WaitingCases DEF IInv, TypeOK, Done, Reading, Storing, Writing, Spawning

(* Where the next step may take a request from each stage. *)
LEMMA StageSuccessors ==
    ASSUME IInv, IInv', [Next]_vars
    PROVE  /\ Spawning => Spawning' \/ Done'
           /\ Writing => Writing' \/ Spawning' \/ Done'
           /\ Unrivalled => Unrivalled' \/ Writing' \/ Done'
           /\ Behind => Behind' \/ Unrivalled' \/ Writing' \/ Done'
           /\ Contended => Contended' \/ Behind' \/ Unrivalled' \/ Writing' \/ Done'
           /\ Storing => Storing' \/ Done'
           /\ Reading => Reading' \/ Storing' \/ Contended' \/ Behind' \/ Unrivalled' \/ Done'
<1>1. /\ Spawning => Spawning' \/ Done'
      /\ Writing => Writing' \/ Spawning' \/ Done'
      /\ Storing => Storing' \/ Done'
      /\ Reading => Reading' \/ Storing' \/ soap' = "lock" \/ Done'
      /\ soap = "lock" => soap' = "lock" \/ Writing' \/ Done'
  BY StagesFollow DEF Done, Reading, Storing, Writing, Spawning
<1>2. soap' = "lock" => Behind' \/ Contended' \/ Unrivalled'
  BY DEF IInv, TypeOK, HolderWrites, Behind, Contended, Unrivalled
<1>3. soap = "lock" /\ soap' = "lock" =>
          /\ Behind => Behind' \/ Unrivalled'
          /\ Contended => Contended' \/ Behind' \/ Unrivalled'
          /\ Unrivalled => Unrivalled'
  BY AtMostOneTimerFirst
<1>4. Behind \/ Contended \/ Unrivalled => soap = "lock"
  BY DEF Behind, Contended, Unrivalled
<1> QED
  BY <1>1, <1>2, <1>3, <1>4

(* The step that every stage waits for leaves it. *)
LEMMA StageLeft ==
    /\ IInv /\ SoapStep =>
           /\ Spawning => ~Spawning'
           /\ Writing => ~Writing'
           /\ Unrivalled => ~Unrivalled'
           /\ Contended => ~Contended'
           /\ Storing => ~Storing'
           /\ Reading => ~Reading'
    /\ TimerWrites => ~Behind'
<1>1. IInv /\ SoapStep => soap' # soap
  BY SoapStepAdvances
<1>2. TimerWrites => lock' = "free"
  BY DEF TimerWrites, TimerStops
<1> QED
  BY <1>1, <1>2 DEF Spawning, Writing, Unrivalled, Contended, Storing, Reading, Behind

LEMMA StageEnabled ==
    OnlyTheMutexBlocks =>
        /\ Spawning \/ Writing \/ Unrivalled \/ Contended \/ Storing \/ Reading
               => ENABLED <<SoapStep>>_vars
        /\ Behind => ENABLED <<TimerWrites>>_vars
  BY DEF OnlyTheMutexBlocks, Spawning, Writing, Unrivalled, Contended, Storing, Reading, Behind

(* A request that was accepted is answered: it waits behind one timer at   *)
(* most, and every other stage ends by a step of its own thread.           *)
THEOREM Answered == FairSpec /\ []OnlyTheMutexBlocks => RequestsAreAnswered
<1> DEFINE Assumed == []IInv /\ [][Next]_vars /\ Fairness /\ []OnlyTheMutexBlocks
<1>1. IInv /\ IInv' /\ [Next]_vars =>
          /\ Spawning => Spawning' \/ Done'
          /\ Writing => Writing' \/ Spawning' \/ Done'
          /\ Unrivalled => Unrivalled' \/ Writing' \/ Done'
          /\ Behind => Behind' \/ Unrivalled' \/ Writing' \/ Done'
          /\ Contended => Contended' \/ Behind' \/ Unrivalled' \/ Writing' \/ Done'
          /\ Storing => Storing' \/ Done'
          /\ Reading => Reading' \/ Storing' \/ Contended' \/ Behind' \/ Unrivalled' \/ Done'
  BY StageSuccessors
<1>2. Assumed => (Spawning ~> Done)
  BY <1>1, StageLeft, StageEnabled, PTL DEF Fairness
<1>3. Assumed => (Writing ~> Spawning \/ Done)
  BY <1>1, StageLeft, StageEnabled, PTL DEF Fairness
<1>4. Assumed => (Unrivalled ~> Writing \/ Done)
  BY <1>1, StageLeft, StageEnabled, PTL DEF Fairness
<1>5. Assumed => (Behind ~> Unrivalled \/ Writing \/ Done)
  BY <1>1, StageLeft, StageEnabled, PTL DEF Fairness
<1>6. Assumed => (Contended ~> Behind \/ Unrivalled \/ Writing \/ Done)
  BY <1>1, StageLeft, StageEnabled, PTL DEF Fairness
<1>7. Assumed => (Storing ~> Done)
  BY <1>1, StageLeft, StageEnabled, PTL DEF Fairness
<1>8. Assumed => (Reading ~> Storing \/ Contended \/ Behind \/ Unrivalled \/ Done)
  BY <1>1, StageLeft, StageEnabled, PTL DEF Fairness
<1>9. Assumed => (~Done ~> Done)
  <2>1. Assumed => []IInv
    OBVIOUS
  <2> HIDE DEF Assumed
  <2> QED
    BY <1>2, <1>3, <1>4, <1>5, <1>6, <1>7, <1>8, <2>1, StagesAreAll, PTL
<1>10. (soap # "idle" <=> ~Done) /\ (soap = "idle" <=> Done)
  BY DEF Done
<1> QED
  BY <1>9, <1>10, Invariance, PTL DEF FairSpec, Spec, RequestsAreAnswered

-----------------------------------------------------------------------------
(* The end of a motion, as long as every write reaches the driver and is   *)
(* closed without an error.  (Where a write may fail, the automatic stop   *)
(* may be lost: that is the counterexample of the run ptz_lost_auto_stop.) *)
NoWriteFails == SoapOutcomes = {"ok"} /\ TimerOutcomes = {"ok"}

(* A command of this process that the camera executes was the last, or was *)
(* followed by writes that succeeded.                                      *)
CauseIsHealthy == cause # 0 => lastWrite = "ok"

LEMMA HealthyInvariance == ASSUME NoWriteFails PROVE Spec => []CauseIsHealthy
<1>1. Init => CauseIsHealthy
  BY DEF Init, CauseIsHealthy
<1>2. CauseIsHealthy /\ [Next]_vars => CauseIsHealthy'
  BY NoWriteFails DEF NoWriteFails, CauseIsHealthy, Next, SoapStep, TimerWrites, ServeWithoutEffect, Receive,
       ReadStatus, ReadFails, StoreHome, LockCommand, WriteCommand, SpawnTimer, TimerWakes, TimerStops,
       DeviceMoves, Restart, vars, process, history
<1> QED
  BY <1>1, <1>2, PTL DEF Spec

(* The motion of generation g, and what it waits for: its timer to wake, a *)
(* newer command to be written, or the timer's write.                      *)
MotionOf(g) == cause = g /\ Moving
Sleeping(g) == MotionOf(g) /\ lock = "free" /\ g \in asleep
Superseded(g) == MotionOf(g) /\ lock = "soap" /\ generation # g
Stopping(g) == MotionOf(g) /\ lock = "timer"
TimerOf(g) == g \in asleep /\ cause = g /\ Moving
Over(g) == ~Moving \/ cause # g

LEMMA MotionCases ==
    ASSUME NEW g \in Generations, IInv, TimerOf(g)
    PROVE  Sleeping(g) \/ Superseded(g) \/ Stopping(g)
  BY DEF IInv, TypeOK, HolderWrites, NewestTimer, TimerOf, MotionOf, Sleeping, Superseded, Stopping

(* A motion whose timer sleeps is the newest one, unless the mutex is held *)
(* by the command that supersedes it; so the timer that wakes stops it.    *)
LEMMA MotionSuccessors ==
    ASSUME NoWriteFails, NEW g \in Generations, IInv, IInv', CauseIsHealthy, [Next]_vars
    PROVE  /\ Sleeping(g) => Sleeping(g)' \/ Superseded(g)' \/ Stopping(g)' \/ Over(g)'
           /\ Superseded(g) => Superseded(g)' \/ Over(g)'
           /\ Stopping(g) => Stopping(g)' \/ Over(g)'
<1>1. g # 0 /\ (Sleeping(g) => generation = g)
  BY DEF Generations, IInv, HealthyMotionIsWatched, CauseIsHealthy, Sleeping, MotionOf
<1>2. CASE ServeWithoutEffect \/ (\E r \in Requests : Receive(r)) \/ ReadStatus \/ ReadFails
           \/ StoreHome \/ SpawnTimer \/ DeviceMoves \/ UNCHANGED vars
  <2>1. UNCHANGED <<device.vel, cause, lock, generation>> /\ asleep \subseteq asleep'
    BY <1>2 DEF IInv, TypeOK, ServeWithoutEffect, Receive, ReadStatus, ReadFails, StoreHome, SpawnTimer,
            DeviceMoves, vars, process, history
  <2> QED
    BY <2>1 DEF Sleeping, Superseded, Stopping, MotionOf, Moving
<1>3. CASE LockCommand
  BY <1>1, <1>3 DEF LockCommand, IInv, TypeOK, Sleeping, Superseded, Stopping, MotionOf, Moving, history
<1>4. ASSUME NEW outcome \in SoapOutcomes, WriteCommand(outcome)
      PROVE  ~Sleeping(g) /\ ~Stopping(g) /\ (Superseded(g) => Over(g)')
  <2>1. outcome = "ok" /\ lock = "soap"
    BY <1>4 DEF NoWriteFails, WriteCommand, IInv, HolderWrites
  <2> QED
    BY <1>4, <2>1 DEF WriteCommand, Sleeping, Superseded, Stopping, Over
<1>5. ASSUME NEW h \in asleep, TimerWakes(h)
      PROVE  ~Superseded(g) /\ ~Stopping(g) /\ (Sleeping(g) => Sleeping(g)' \/ Stopping(g)')
  BY <1>1, <1>5 DEF TimerWakes, Sleeping, Superseded, Stopping, MotionOf, Moving, history
<1>6. ASSUME NEW outcome \in TimerOutcomes, TimerStops(outcome)
      PROVE  ~Sleeping(g) /\ ~Superseded(g) /\ Over(g)'
  <2>1. outcome = "ok" /\ lock = "timer"
    BY <1>6 DEF NoWriteFails, TimerStops
  <2>2. device'.vel = Rest
    BY <1>6, <2>1 DEF TimerStops, IInv, TypeOK
  <2> QED
    BY <2>1, <2>2 DEF Sleeping, Superseded, Over, Moving
<1>7. CASE Restart
  BY <1>1, <1>7 DEF Restart, Over
<1> QED
  BY <1>2, <1>3, <1>4, <1>5, <1>6, <1>7 DEF Next, SoapStep, TimerWrites

(* The step that each of them waits for ends it, and is not blocked. *)
LEMMA MotionLeft ==
    ASSUME NEW g \in Generations, IInv, IInv'
    PROVE  /\ TimerWakes(g) => ~Sleeping(g)'
           /\ SoapStep => ~(Superseded(g) /\ Superseded(g)')
           /\ TimerWrites => ~Stopping(g)'
<1>1. TimerWakes(g) => g \notin asleep'
  BY DEF TimerWakes
<1>2. SoapStep => ~(soap = "write" /\ soap' = "write")
  BY SoapStepAdvances
<1>3. (lock = "soap" => soap = "write") /\ (lock' = "soap" => soap' = "write")
  BY DEF IInv, HolderWrites
<1>4. TimerWrites => lock' = "free"
  BY DEF TimerWrites, TimerStops
<1> QED
  BY <1>1, <1>2, <1>3, <1>4 DEF Sleeping, Superseded, Stopping

LEMMA MotionEnabled ==
    ASSUME NEW g \in Generations, IInv, OnlyTheMutexBlocks
    PROVE  /\ Sleeping(g) => ENABLED <<TimerWakes(g)>>_vars
           /\ Superseded(g) => ENABLED <<SoapStep>>_vars
           /\ Stopping(g) => ENABLED <<TimerWrites>>_vars
<1>1. lock = "soap" => soap = "write"
  BY DEF IInv, HolderWrites
<1> QED
  BY <1>1 DEF OnlyTheMutexBlocks, Sleeping, Superseded, Stopping

(* If no write fails, a motion whose timer sleeps ends or is taken over,   *)
(* whatever the clients send in the meantime.                              *)
THEOREM MotionsEnd ==
    ASSUME NoWriteFails
    PROVE  FairSpec /\ []OnlyTheMutexBlocks => MotionEnds
<1> DEFINE Healthy == IInv /\ CauseIsHealthy /\ OnlyTheMutexBlocks
<1> DEFINE Assumed == []Healthy /\ [][Next]_vars /\ Fairness
<1>1. FairSpec /\ []OnlyTheMutexBlocks => Assumed
  BY Invariance, HealthyInvariance, PTL DEF FairSpec, Spec
<1>2. ASSUME NEW g \in Generations
      PROVE  Assumed => (TimerOf(g) ~> Over(g))
  <2>1. Healthy /\ Healthy' /\ [Next]_vars =>
            /\ Sleeping(g) => Sleeping(g)' \/ Superseded(g)' \/ Stopping(g)' \/ Over(g)'
            /\ Superseded(g) => Superseded(g)' \/ Over(g)'
            /\ Stopping(g) => Stopping(g)' \/ Over(g)'
    BY MotionSuccessors
  <2>2. Healthy /\ Healthy' =>
            /\ TimerWakes(g) => ~Sleeping(g)'
            /\ SoapStep => ~(Superseded(g) /\ Superseded(g)')
            /\ TimerWrites => ~Stopping(g)'
    BY MotionLeft
  <2>3. Healthy =>
            /\ Sleeping(g) => ENABLED <<TimerWakes(g)>>_vars
            /\ Superseded(g) => ENABLED <<SoapStep>>_vars
            /\ Stopping(g) => ENABLED <<TimerWrites>>_vars
    BY MotionEnabled
  <2>4. Healthy => (TimerOf(g) => Sleeping(g) \/ Superseded(g) \/ Stopping(g))
    BY MotionCases
  <2>5. Fairness => TimerIsScheduled(g)
    <3>1. Fairness => TimersAreScheduled
      BY PTL DEF Fairness
    <3>2. TimersAreScheduled => TimerIsScheduled(g)
      BY DEF TimersAreScheduled
    <3> QED
      BY <3>1, <3>2
  <2>6. Fairness => WF_vars(SoapStep) /\ WF_vars(TimerWrites)
    BY PTL DEF Fairness
  <2>7. Assumed => []Healthy /\ [][Next]_vars /\ Fairness
    OBVIOUS
  <2> HIDE DEF Assumed, Healthy
  <2>8. Assumed => (Stopping(g) ~> Over(g))
    BY <2>1, <2>2, <2>3, <2>6, <2>7, PTL
  <2>9. Assumed => (Superseded(g) ~> Over(g))
    BY <2>1, <2>2, <2>3, <2>6, <2>7, PTL
  <2>10. Assumed => (Sleeping(g) ~> Superseded(g) \/ Stopping(g) \/ Over(g))
    BY <2>1, <2>2, <2>3, <2>5, <2>7, PTL DEF TimerIsScheduled
  <2> QED
    BY <2>4, <2>7, <2>8, <2>9, <2>10, PTL
<1>3. Assumed => \A g \in Generations : TimerOf(g) ~> Over(g)
  BY <1>2
<1> QED
  BY <1>1, <1>3 DEF MotionEnds, TimerOf, Over

=============================================================================
