-------------------------- MODULE PtzDryRun_proofs --------------------------
(***************************************************************************)
(* Safety of the dry-run mode, whose commands and status requests are made *)
(* of several loads and stores, for every range, scale, set of calls and   *)
(* bound.                                                                  *)
(***************************************************************************)
EXTENDS PtzDryRun, PtzDevice_proofs, SequenceTheorems

-----------------------------------------------------------------------------
(* The inductive invariant.                                                *)

(* As on the device: who holds the mutex, and whom the newest generation   *)
(* belongs to.                                                             *)
Bookkeeping == GenerationsIssued /\ HolderWrites /\ NewestTimer

(* The thread has a call at its checks, or a request at the device, or     *)
(* neither; a status is there only in the last case.                       *)
CallFits ==
    /\ call # NoCall => soap = "idle" /\ req = Idle
    /\ call # NoCall \/ soap # "idle" => status = "none"
    /\ verdict # "none" => call # NoCall
    /\ verdict \notin Undecided => verdict = Verdict(call)

(* What is left to load is the end of LoadOrder.  A speed that was seen    *)
(* was of a moving camera; a pan that was at rest still is, as only timers *)
(* store meanwhile, and only zeros.                                        *)
LoadsFit ==
    /\ soap # "read" => loads = <<>>
    /\ \A i \in DOMAIN loads : loads[i] = LoadOrder[4 - Len(loads) + i]
    /\ soap = "read" =>
           /\ Len(loads) <= 3 => seen["pan"] \in PanMin..PanMax
           /\ Len(loads) <= 2 => seen["tilt"] \in TiltMin..TiltMax
           /\ Len(loads) <= 1 => /\ seen["pan_speed"] # 0 => TRUE \in during
                                 /\ seen["pan_speed"] = 0 => device.vel.pan = 0
           /\ Len(loads) = 0 => /\ seen["tilt_speed"] # 0 => TRUE \in during
                                /\ seen["pan_speed"] = 0 /\ seen["tilt_speed"] = 0 => FALSE \in during

(* The velocity the request commands. *)
CommandVel == IF req.op = "ContinuousMove" THEN Speeds(req.x, req.y) ELSE Rest

(* What is left to store is the end of the command's stores, or of the     *)
(* timer's; and when one store is left, the pan has its new speed.         *)
StoresFit ==
    /\ lock = "soap" =>
           /\ Len(stores) <= Len(CommandStores)
           /\ \A i \in DOMAIN stores : stores[i] = CommandStores[Len(CommandStores) - Len(stores) + i]
           /\ Len(stores) = 1 => device.vel.pan = CommandVel.pan
    /\ lock = "timer" =>
           /\ Len(stores) <= 2
           /\ \A i \in DOMAIN stores : stores[i] = StopStores[2 - Len(stores) + i]
           /\ Len(stores) = 1 => device.vel.pan = 0

(* What was acknowledged has been done, and stays done. *)
DoneIsDone ==
    soap = "idle" /\ reply = "ok" =>
        /\ req.op \in {"Stop", "GotoHome", "RelativeMove"} => ~Moving
        /\ req.op = "ContinuousMove" /\ generation = mine /\ lock # "timer" =>
               device.vel = Speeds(req.x, req.y) /\ generation \in asleep

DryIInv ==
    /\ DryTypeOK
    /\ Bookkeeping
    /\ CallFits
    /\ LoadsFit
    /\ StoresFit
    /\ StatusWasTrue
    /\ DoneIsDone

-----------------------------------------------------------------------------
(* Cameras, stores and calls.                                              *)

Camera == [pos : Position, vel : Velocity]

(* Values a field of the camera may have. *)
Fitting(field) ==
    CASE field = "pan"  -> PanMin..PanMax
      [] field = "tilt" -> TiltMin..TiltMax
      [] OTHER          -> IntRange

LEMMA ZeroIsInt == 0 \in IntRange
  BY WidthAssumption DEF IntRange

LEMMA CameraFields ==
    ASSUME device \in Camera
    PROVE  /\ Moving <=> device.vel.pan # 0 \/ device.vel.tilt # 0
           /\ \A field \in Atomics : Load(field) \in Fitting(field)
<1>1. /\ device.vel.pan \in IntRange /\ device.vel.tilt \in IntRange
      /\ device.pos.pan \in PanMin..PanMax /\ device.pos.tilt \in TiltMin..TiltMax
      /\ device.vel = [pan |-> device.vel.pan, tilt |-> device.vel.tilt]
  BY DEF Camera, Position, Velocity
<1>2. Moving <=> device.vel.pan # 0 \/ device.vel.tilt # 0
  BY <1>1 DEF Moving, Rest
<1>3. \A field \in Atomics : Load(field) \in Fitting(field)
  BY <1>1 DEF Atomics, Load, Fitting
<1>4. QED
  BY <1>2, <1>3

LEMMA FittingIsInt ==
    ASSUME NEW field
    PROVE  Fitting(field) \subseteq Int
  BY RangeAssumption, WidthAssumption DEF Fitting, IntRange

(* A store keeps the camera in range and changes one field. *)
LEMMA StoredFields ==
    ASSUME device \in Camera, NEW field \in Atomics, NEW value \in Fitting(field)
    PROVE  /\ Stored(field, value) \in Camera
           /\ Stored(field, value).vel.pan = IF field = "pan_speed" THEN value ELSE device.vel.pan
           /\ Stored(field, value).vel.tilt = IF field = "tilt_speed" THEN value ELSE device.vel.tilt
<1>1. CASE field = "pan"
  <2>1. value \in PanMin..PanMax
    BY <1>1 DEF Fitting
  <2>2. Stored(field, value) = [device EXCEPT !.pos.pan = value]
    BY <1>1 DEF Stored
  <2>3. QED
    BY <1>1, <2>1, <2>2 DEF Camera, Position, Velocity
<1>2. CASE field = "tilt"
  <2>1. value \in TiltMin..TiltMax
    BY <1>2 DEF Fitting
  <2>2. Stored(field, value) = [device EXCEPT !.pos.tilt = value]
    BY <1>2 DEF Stored
  <2>3. QED
    BY <1>2, <2>1, <2>2 DEF Camera, Position, Velocity
<1>3. CASE field = "pan_speed"
  <2>1. value \in IntRange
    BY <1>3 DEF Fitting
  <2>2. Stored(field, value) = [device EXCEPT !.vel.pan = value]
    BY <1>3 DEF Stored
  <2>3. QED
    BY <1>3, <2>1, <2>2 DEF Camera, Position, Velocity
<1>4. CASE field = "tilt_speed"
  <2>1. value \in IntRange
    BY <1>4 DEF Fitting
  <2>2. Stored(field, value) = [device EXCEPT !.vel.tilt = value]
    BY <1>4 DEF Stored
  <2>3. QED
    BY <1>4, <2>1, <2>2 DEF Camera, Position, Velocity
<1>5. QED
  BY <1>1, <1>2, <1>3, <1>4 DEF Atomics

(* The stores of a stop, and those of a command: whatever comes before,    *)
(* the last two are the speeds.                                            *)
LEMMA StopStoresAre ==
    /\ Len(StopStores) = 2 /\ StopStores \in Seq(Atomics \X Int)
    /\ StopStores[1] = <<"pan_speed", 0>> /\ StopStores[2] = <<"tilt_speed", 0>>
  BY DEF StopStores, Atomics

(* Two pairs of stores in a row. *)
LEMMA ConcatPairs ==
    ASSUME NEW S, NEW a \in S, NEW b \in S, NEW c \in S, NEW d \in S
    PROVE  LET all == <<a, b>> \o <<c, d>>
           IN  /\ all \in Seq(S) /\ Len(all) = 4
               /\ all[1] = a /\ all[2] = b /\ all[3] = c /\ all[4] = d
<1> DEFINE first == <<a, b>>  second == <<c, d>>
<1>1. first \in Seq(S) /\ second \in Seq(S) /\ Len(first) = 2 /\ Len(second) = 2
  OBVIOUS
<1>2. first[1] = a /\ first[2] = b /\ second[1] = c /\ second[2] = d
  OBVIOUS
<1> HIDE DEF first, second
<1>3. /\ first \o second \in Seq(S) /\ Len(first \o second) = 4
      /\ \A i \in 1..4 : (first \o second)[i] = IF i <= 2 THEN first[i] ELSE second[i - 2]
  BY <1>1, ConcatProperties DEF first, second
<1>4. QED
  BY <1>2, <1>3 DEF first, second

LEMMA CommandVelType ==
    ASSUME TypeOK
    PROVE  /\ CommandVel \in Velocity /\ CommandVel.pan \in IntRange /\ CommandVel.tilt \in IntRange
           /\ CommandVel.pan \in Int /\ CommandVel.tilt \in Int
<1>1. Speeds(req.x, req.y) \in Velocity
  BY RequestFields, SpeedsType DEF TypeOK
<1>2. CommandVel \in Velocity
  BY <1>1, RestType DEF CommandVel
<1>3. CommandVel.pan \in IntRange /\ CommandVel.tilt \in IntRange
  BY <1>2 DEF Velocity
<1>4. QED
  BY <1>2, <1>3, WidthAssumption DEF IntRange

LEMMA CommandStoresAre ==
    ASSUME TypeOK
    PROVE  /\ CommandStores \in Seq(Atomics \X Int)
           /\ Len(CommandStores) \in {2, 4}
           /\ \A i \in 1..Len(CommandStores) : CommandStores[i][2] \in Fitting(CommandStores[i][1])
           /\ CommandStores[Len(CommandStores) - 1] = <<"pan_speed", CommandVel.pan>>
           /\ CommandStores[Len(CommandStores)] = <<"tilt_speed", CommandVel.tilt>>
<1>1. /\ CommandVel.pan \in Int /\ CommandVel.tilt \in Int
      /\ CommandVel.pan \in IntRange /\ CommandVel.tilt \in IntRange
  BY CommandVelType
<1>2. CASE req.op = "ContinuousMove"
  <2>1. CommandStores = <<<<"pan_speed", CommandVel.pan>>, <<"tilt_speed", CommandVel.tilt>>>>
    BY <1>2 DEF CommandStores, CommandVel, Speeds
  <2>2. QED
    BY <1>1, <2>1 DEF Atomics, Fitting
<1>3. CASE req.op = "Stop"
  <2>1. CommandStores = <<<<"pan_speed", CommandVel.pan>>, <<"tilt_speed", CommandVel.tilt>>>>
    BY <1>3 DEF CommandStores, CommandVel, Rest, StopStores
  <2>2. QED
    BY <1>1, <2>1 DEF Atomics, Fitting
<1>4. CASE req.op \notin {"ContinuousMove", "Stop"}
  <2> DEFINE p == clamp_ptz_position(target)
  <2>1. p.pan \in PanMin..PanMax /\ p.tilt \in TiltMin..TiltMax
    BY ClampedPosition DEF TypeOK, Position
  <2>2. p.pan \in Int /\ p.tilt \in Int
    BY <2>1, RangeAssumption
  <2>3. CommandStores = <<<<"pan", p.pan>>, <<"tilt", p.tilt>>>> \o StopStores
    BY <1>4 DEF CommandStores
  <2>5. CommandVel.pan = 0 /\ CommandVel.tilt = 0
    BY <1>4 DEF CommandVel, Rest
  <2> HIDE DEF p
  <2>6. /\ CommandStores \in Seq(Atomics \X Int)
        /\ Len(CommandStores) = 4
        /\ CommandStores[1] = <<"pan", p.pan>> /\ CommandStores[2] = <<"tilt", p.tilt>>
        /\ CommandStores[3] = <<"pan_speed", 0>> /\ CommandStores[4] = <<"tilt_speed", 0>>
    <3>1. /\ <<"pan", p.pan>> \in Atomics \X Int /\ <<"tilt", p.tilt>> \in Atomics \X Int
          /\ <<"pan_speed", 0>> \in Atomics \X Int /\ <<"tilt_speed", 0>> \in Atomics \X Int
      BY <2>2 DEF Atomics
    <3>2. QED
      BY <2>3, <3>1, ConcatPairs DEF StopStores
  <2>7. \A i \in 1..4 : CommandStores[i][2] \in Fitting(CommandStores[i][1])
    <3>1. p.pan \in Fitting("pan") /\ p.tilt \in Fitting("tilt")
      BY <2>1 DEF Fitting
    <3>2. 0 \in Fitting("pan_speed") /\ 0 \in Fitting("tilt_speed")
      BY ZeroIsInt DEF Fitting
    <3>3. QED
      BY <2>6, <3>1, <3>2
  <2>8. QED
    BY <2>5, <2>6, <2>7
<1>5. QED
  BY <1>2, <1>3, <1>4

LEMMA VerdictType ==
    ASSUME NEW c
    PROVE  Verdict(c) \in {"accepted"} \union Range(Checks)
<1> DEFINE failed == {i \in DOMAIN Checks : Checks[i] \in Defects(c)}
<1>1. CASE failed = {}
  BY <1>1 DEF Verdict
<1>2. CASE failed # {}
  <2>1. DOMAIN Checks = 1..6
    BY DEF Checks
  <2>2. \E i \in failed : \A j \in failed : i <= j
    BY <1>2, <2>1
  <2>3. Min(failed) \in failed
    BY <2>2 DEF Min
  <2>4. Verdict(c) = Checks[Min(failed)]
    BY <1>2 DEF Verdict
  <2>5. QED
    BY <2>3, <2>4 DEF Range
<1>3. QED
  BY <1>1, <1>2

(* A call that passed asks the device for one of its operations. *)
LEMMA AcceptedRequest ==
    ASSUME NEW c \in Calls, Verdict(c) = "accepted"
    PROVE  DeviceRequest(c) \in Requests
<1>1. c.op \in CallOps /\ c.vector \in {NoVector} \union [x : AxisValues, y : AxisValues]
  BY PtzDryRunAssumption
<1> DEFINE failed == {i \in DOMAIN Checks : Checks[i] \in Defects(c)}
<1>2. DOMAIN Checks = 1..6 /\ Checks[5] = "vector" /\ \A i \in 1..6 : Checks[i] # "accepted"
  BY DEF Checks
<1>3. failed = {}
  <2>1. SUFFICES ASSUME failed # {} PROVE FALSE
    OBVIOUS
  <2>2. \E i \in failed : \A j \in failed : i <= j
    BY <1>2, <2>1
  <2>3. Min(failed) \in failed
    BY <2>2 DEF Min
  <2>4. Verdict(c) = Checks[Min(failed)]
    BY <2>1 DEF Verdict
  <2>5. QED
    BY <1>2, <2>3, <2>4
<1>4. "vector" \notin Defects(c)
  BY <1>2, <1>3
<1>5. c.op \in Moves => c.vector # NoVector
  BY <1>4 DEF Defects
<1>6. CASE c.op \in Moves
  <2>1. c.vector.x \in AxisValues /\ c.vector.y \in AxisValues
    BY <1>1, <1>5, <1>6
  <2>2. QED
    BY <1>6, <2>1 DEF DeviceRequest, Requests, Moves
<1>7. CASE c.op \notin Moves
  BY <1>1, <1>7 DEF DeviceRequest, Requests, Moves, CallOps, Ops
<1>8. QED
  BY <1>6, <1>7

-----------------------------------------------------------------------------
(* Every step preserves the invariant.                                     *)

LEMMA DryInitIInv == DryInit => DryIInv
<1> SUFFICES ASSUME DryInit PROVE DryIInv
  OBVIOUS
<1>1. TypeOK
  BY InitType DEF DryInit
<1>2. DryTypeOK
  BY <1>1 DEF DryInit, Init, DryTypeOK, Undecided, NothingSeen, Atomics
<1>3. Bookkeeping
  BY DEF DryInit, Init, Bookkeeping, GenerationsIssued, HolderWrites, NewestTimer, TimerPending
<1>4. CallFits /\ StoresFit /\ StatusWasTrue /\ DoneIsDone
  BY DEF DryInit, Init, CallFits, Undecided, StoresFit, StatusWasTrue, DoneIsDone
<1>5. LoadsFit
  <2>1. DOMAIN loads = {}
    BY DEF DryInit
  <2>2. QED
    BY <2>1 DEF DryInit, Init, LoadsFit
<1>6. QED
  BY <1>2, <1>3, <1>4, <1>5 DEF DryIInv

LEMMA DryStutterInv == DryIInv /\ UNCHANGED allVars => DryIInv'
<1> SUFFICES ASSUME DryIInv, UNCHANGED allVars PROVE DryIInv'
  OBVIOUS
<1> USE DEF allVars, vars, process, history, dryVars, frontVars
<1>1. TypeOK'
  BY NextType DEF DryIInv, DryTypeOK
<1>2. DryTypeOK'
  BY <1>1 DEF DryIInv, DryTypeOK
<1>3. Bookkeeping'
  BY DEF DryIInv, Bookkeeping, GenerationsIssued, HolderWrites, NewestTimer, TimerPending
<1>4. (CallFits /\ LoadsFit /\ StatusWasTrue /\ DoneIsDone)'
  BY ZenonT(60) DEF DryIInv, CallFits, LoadsFit, StatusWasTrue, DoneIsDone, Moving
<1>5. StoresFit'
  BY DEF DryIInv, StoresFit, CommandStores, CommandVel
<1>6. QED
  BY <1>2, <1>3, <1>4, <1>5 DEF DryIInv

LEMMA ArriveInv ==
    ASSUME DryIInv, NEW c \in Calls, Arrive(c)
    PROVE  DryIInv'
<1>1. /\ soap = "idle" /\ lock # "soap" /\ call' = c /\ req' = Idle
      /\ reply' = "none" /\ status' = "none" /\ verdict = "none"
      /\ UNCHANGED <<device, generation, home, lock, asleep, stopper, soap, target, mine, history,
                     verdict, loads, seen, stores, during>>
  BY DEF DryIInv, Arrive, Bookkeeping, HolderWrites, CallFits
<1>2. TypeOK'
  BY <1>1, IdleIsRequest DEF DryIInv, DryTypeOK, TypeOK, history
<1>3. DryTypeOK'
  BY <1>1, <1>2 DEF DryIInv, DryTypeOK
<1>4. (Bookkeeping /\ CallFits)'
  BY <1>1 DEF DryIInv, Bookkeeping, GenerationsIssued, HolderWrites, NewestTimer, TimerPending,
              CallFits, Undecided, history
<1>5. (LoadsFit /\ StoresFit /\ StatusWasTrue /\ DoneIsDone)'
  BY <1>1 DEF DryIInv, LoadsFit, StoresFit, StatusWasTrue, DoneIsDone
<1>6. QED
  BY <1>3, <1>4, <1>5 DEF DryIInv

(* The steps of the checks touch nothing but the verdict. *)
LEMMA ChecksInv == DryIInv /\ (AskRail \/ PeerLetsGo \/ CheckCall) => DryIInv'
<1> SUFFICES ASSUME DryIInv, AskRail \/ PeerLetsGo \/ CheckCall PROVE DryIInv'
  OBVIOUS
<1> USE DEF vars, process, history
<1>0. /\ call # NoCall
      /\ verdict' \in {"asked", "held"} \/ verdict' = Verdict(call)
      /\ UNCHANGED <<vars, call, loads, seen, stores, status, during>>
  BY DEF DryIInv, CallFits, AskRail, PeerLetsGo, CheckCall
<1>1. TypeOK'
  BY <1>0, NextType DEF DryIInv, DryTypeOK
<1>2. DryTypeOK'
  BY <1>0, <1>1, VerdictType DEF DryIInv, DryTypeOK, Undecided
<1>3. Bookkeeping'
  BY <1>0 DEF DryIInv, Bookkeeping, GenerationsIssued, HolderWrites, NewestTimer, TimerPending
<1>4. (CallFits /\ LoadsFit /\ StatusWasTrue /\ DoneIsDone)'
  BY <1>0 DEF DryIInv, CallFits, Undecided, LoadsFit, StatusWasTrue, DoneIsDone, Moving
<1>5. StoresFit'
  BY <1>0 DEF DryIInv, StoresFit, CommandStores, CommandVel
<1>6. QED
  BY <1>2, <1>3, <1>4, <1>5 DEF DryIInv

LEMMA AnswerAtOnceInv == DryIInv /\ AnswerAtOnce => DryIInv'
<1> SUFFICES ASSUME DryIInv, AnswerAtOnce PROVE DryIInv'
  OBVIOUS
<1>1. /\ soap = "idle" /\ lock # "soap" /\ req = Idle /\ status = "none"
      /\ reply' \in {"ok", "fault"} /\ call' = NoCall /\ verdict' = "none"
      /\ UNCHANGED <<device, generation, home, lock, asleep, stopper, soap, req, target, mine,
                     history, loads, seen, stores, status, during>>
  BY DEF DryIInv, AnswerAtOnce, Bookkeeping, HolderWrites, CallFits, Undecided
<1>2. TypeOK'
  BY <1>1 DEF DryIInv, DryTypeOK, TypeOK, history
<1>3. DryTypeOK'
  BY <1>1, <1>2 DEF DryIInv, DryTypeOK, Undecided
<1>4. (Bookkeeping /\ CallFits)'
  BY <1>1 DEF DryIInv, Bookkeeping, GenerationsIssued, HolderWrites, NewestTimer, TimerPending,
              CallFits, Undecided, history
<1>5. (LoadsFit /\ StoresFit /\ StatusWasTrue /\ DoneIsDone)'
  BY <1>1 DEF DryIInv, LoadsFit, StoresFit, StatusWasTrue, DoneIsDone, Idle
<1>6. QED
  BY <1>3, <1>4, <1>5 DEF DryIInv

(* The status request that starts here has everything to load. *)
LEMMA CallDeviceInv == DryIInv /\ CallDevice => DryIInv'
<1> SUFFICES ASSUME DryIInv, CallDevice PROVE DryIInv'
  OBVIOUS
<1>1. /\ soap = "idle" /\ lock # "soap" /\ status = "none" /\ call \in Calls
      /\ Verdict(call) = "accepted"
  BY DEF DryIInv, DryTypeOK, CallDevice, Receive, Bookkeeping, HolderWrites, CallFits, Undecided
<1>2. DeviceRequest(call) \in Requests
  BY <1>1, AcceptedRequest
<1>3. TypeOK'
  BY <1>2, NextType DEF DryIInv, DryTypeOK, CallDevice, Next
<1>4. /\ soap' \in {"read", "lock"} /\ reply' = "none"
      /\ loads' = (IF soap' = "read" THEN LoadOrder ELSE <<>>)
      /\ call' = NoCall /\ verdict' = "none" /\ during' = {} /\ status' = "none"
      /\ UNCHANGED <<device, generation, home, lock, asleep, stopper, mine, cause, lastWrite,
                     seen, stores>>
  BY <1>1 DEF CallDevice, Receive, FirstStep
<1>5. /\ LoadOrder \in Seq(Atomics) /\ Len(LoadOrder) = 4 /\ DOMAIN LoadOrder = 1..4
      /\ <<>> \in Seq(Atomics) /\ Len(<<>>) = 0 /\ DOMAIN <<>> = {}
  BY DEF LoadOrder, Atomics
<1>6. DryTypeOK'
  <2>1. loads' \in Seq(Atomics) /\ Len(loads') <= 4
    <3>1. CASE soap' = "read"
      <4>1. loads' = LoadOrder
        BY <1>4, <3>1
      <4>2. QED
        BY <1>5, <4>1
    <3>2. CASE soap' # "read"
      <4>1. loads' = <<>>
        BY <1>4, <3>2
      <4>2. QED
        BY <1>5, <4>1
    <3>3. QED
      BY <3>1, <3>2
  <2>2. QED
    BY <1>3, <1>4, <2>1 DEF DryIInv, DryTypeOK, Undecided
<1>7. (Bookkeeping /\ CallFits)'
  BY <1>1, <1>4 DEF DryIInv, Bookkeeping, GenerationsIssued, HolderWrites, NewestTimer,
                    TimerPending, CallFits, Undecided
<1>8. LoadsFit'
  <2>1. CASE soap' = "read"
    <3>1. loads' = LoadOrder
      BY <1>4, <2>1
    <3>2. \A i \in DOMAIN loads' : loads'[i] = LoadOrder[4 - Len(loads') + i]
      <4>1. \A i \in 1..4 : 4 - 4 + i = i
        OBVIOUS
      <4>2. DOMAIN loads' = 1..4 /\ Len(loads') = 4
        BY <1>5, <3>1
      <4>3. QED
        BY <3>1, <4>1, <4>2
    <3>3. Len(loads') = 4
      BY <1>5, <3>1
    <3>4. QED
      BY <2>1, <3>2, <3>3 DEF LoadsFit
  <2>2. CASE soap' # "read"
    BY <1>4, <1>5, <2>2 DEF LoadsFit
  <2>3. QED
    BY <2>1, <2>2
<1>9. (StoresFit /\ StatusWasTrue /\ DoneIsDone)'
  BY <1>1, <1>4 DEF DryIInv, StoresFit, StatusWasTrue, DoneIsDone
<1>10. QED
  BY <1>6, <1>7, <1>8, <1>9 DEF DryIInv

(* The next atomic to load, and what is left after it. *)
LEMMA LoadsAre ==
    ASSUME DryIInv, Len(loads) # 0
    PROVE  /\ Len(loads) \in 1..4
           /\ Head(loads) = LoadOrder[5 - Len(loads)]
           /\ Tail(loads) \in Seq(Atomics) /\ Len(Tail(loads)) = Len(loads) - 1
           /\ \A i \in DOMAIN Tail(loads) : Tail(loads)[i] = LoadOrder[4 - Len(Tail(loads)) + i]
<1>1. loads \in Seq(Atomics) /\ Len(loads) <= 4
  BY DEF DryIInv, DryTypeOK
<1>2. Len(loads) \in 1..4
  <2>1. Len(loads) \in Nat
    BY <1>1, LenProperties
  <2>2. Len(loads) # 0 /\ Len(loads) <= 4
    BY <1>1
  <2>3. \A k \in Nat : k # 0 /\ k <= 4 => k \in 1..4
    OBVIOUS
  <2>4. QED
    BY <2>1, <2>2, <2>3, Zenon
<1>3. \A i \in 1..Len(loads) : loads[i] = LoadOrder[4 - Len(loads) + i]
  BY <1>1 DEF DryIInv, LoadsFit
<1>4. Head(loads) = loads[1]
  BY <1>1, <1>2
<1>5. loads[1] = LoadOrder[5 - Len(loads)]
  <2>1. 4 - Len(loads) + 1 = 5 - Len(loads)
    BY <1>2
  <2>2. QED
    BY <1>2, <1>3, <2>1
<1>6. /\ Tail(loads) \in Seq(Atomics) /\ Len(Tail(loads)) = Len(loads) - 1
      /\ \A i \in 1..Len(Tail(loads)) : Tail(loads)[i] = loads[i + 1]
  BY <1>1, HeadTailProperties
<1>7. ASSUME NEW i \in DOMAIN Tail(loads)
      PROVE  Tail(loads)[i] = LoadOrder[4 - Len(Tail(loads)) + i]
  <2>1. i \in 1..(Len(loads) - 1)
    BY <1>2, <1>6, <1>7
  <2>2. i + 1 \in 1..Len(loads) /\ 4 - Len(loads) + (i + 1) = 4 - (Len(loads) - 1) + i
    BY <1>2, <2>1
  <2>3. loads[i + 1] = LoadOrder[4 - Len(loads) + (i + 1)]
    BY <1>3, <2>2
  <2>4. QED
    BY <1>6, <2>1, <2>2, <2>3
<1>8. QED
  BY <1>2, <1>4, <1>5, <1>6, <1>7

(* Each load adds what it needs to the facts about what was seen. *)
LEMMA LoadNextInv == DryIInv /\ LoadNext => DryIInv'
<1> SUFFICES ASSUME DryIInv, LoadNext PROVE DryIInv'
  OBVIOUS
<1> DEFINE field == Head(loads)
           n == Len(loads)
<1>1. /\ soap = "read" /\ lock # "soap"
      /\ seen' = [seen EXCEPT ![field] = Load(field)]
      /\ loads' = Tail(loads) /\ during' = during \union {Moving}
      /\ UNCHANGED <<vars, frontVars, stores, status>>
  BY DEF DryIInv, LoadNext, Bookkeeping, HolderWrites
<1>14. Len(loads) # 0
  <2>1. loads # <<>> /\ loads \in Seq(Atomics)
    BY DEF DryIInv, DryTypeOK, LoadNext
  <2>2. QED
    BY <2>1, EmptySeq
<1>2. /\ n \in 1..4 /\ field = LoadOrder[5 - n]
      /\ loads' \in Seq(Atomics) /\ Len(loads') = n - 1
      /\ \A i \in DOMAIN loads' : loads'[i] = LoadOrder[4 - Len(loads') + i]
  BY <1>1, <1>14, LoadsAre
<1>3. device \in Camera /\ seen \in [Atomics -> Int] /\ during \subseteq BOOLEAN
  BY DEF DryIInv, DryTypeOK, TypeOK, Camera
<1>4. /\ LoadOrder[1] = "pan" /\ LoadOrder[2] = "tilt"
      /\ LoadOrder[3] = "pan_speed" /\ LoadOrder[4] = "tilt_speed"
  BY DEF LoadOrder
<1>5. field \in Atomics
  BY <1>2, <1>4, SMTT(60) DEF Atomics
<1>6. Load(field) \in Fitting(field) /\ Load(field) \in Int
  BY <1>3, <1>5, CameraFields, FittingIsInt
<1>7. /\ seen'[field] = Load(field) /\ seen' \in [Atomics -> Int]
      /\ \A other \in Atomics \ {field} : seen'[other] = seen[other]
  BY <1>1, <1>3, <1>5, <1>6
<1> HIDE DEF field, n
<1> USE DEF vars, process, history, frontVars
<1>8. TypeOK'
  BY <1>1, NextType DEF DryIInv, DryTypeOK
<1>9. DryTypeOK'
  <2>1. loads' \in Seq(Atomics) /\ Len(loads') <= 4
    BY <1>2
  <2>2. during' \subseteq BOOLEAN
    BY <1>1, <1>3 DEF Moving
  <2>3. QED
    BY <1>1, <1>7, <1>8, <2>1, <2>2 DEF DryIInv, DryTypeOK
<1>10. (Bookkeeping /\ CallFits)'
  BY <1>1 DEF DryIInv, Bookkeeping, GenerationsIssued, HolderWrites, NewestTimer, TimerPending,
              CallFits
<1>11. (StoresFit /\ StatusWasTrue /\ DoneIsDone)'
  BY <1>1 DEF DryIInv, StoresFit, StatusWasTrue, DoneIsDone, CallFits
<1>12. LoadsFit'
  <2>1. device' = device /\ soap' = "read"
    BY <1>1
  <2>2. /\ n <= 3 => seen["pan"] \in PanMin..PanMax
        /\ n <= 2 => seen["tilt"] \in TiltMin..TiltMax
        /\ n <= 1 => /\ seen["pan_speed"] # 0 => TRUE \in during
                     /\ seen["pan_speed"] = 0 => device.vel.pan = 0
    BY <1>1 DEF DryIInv, LoadsFit, n
  <2>3. Moving <=> device.vel.pan # 0 \/ device.vel.tilt # 0
    BY <1>3, CameraFields
  <2>4. /\ TRUE \in during => TRUE \in during'
        /\ Moving => TRUE \in during'
        /\ ~Moving => FALSE \in during'
    <3>1. during' = during \union {Moving}
      BY <1>1
    <3>2. CASE Moving
      BY <3>1, <3>2 DEF Moving
    <3>3. CASE ~Moving
      BY <3>1, <3>3 DEF Moving
    <3>4. QED
      BY <3>1, <3>2, <3>3
  <2>10. \A i \in DOMAIN loads' : loads'[i] = LoadOrder[4 - Len(loads') + i]
    BY <1>2
  <2>5. CASE n = 4
    <3>3. field = "pan" /\ Len(loads') = 3
      BY <1>2, <1>4, <2>5
    <3>1. field = "pan" /\ Len(loads') = 3 /\ seen'["pan"] \in PanMin..PanMax
      BY <1>6, <1>7, <3>3 DEF Fitting
    <3>2. QED
      BY <2>1, <2>10, <3>1 DEF LoadsFit
  <2>6. CASE n = 3
    <3>1. field = "tilt" /\ Len(loads') = 2 /\ seen'["tilt"] \in TiltMin..TiltMax
      BY <1>2, <1>4, <1>6, <1>7, <2>6 DEF Fitting
    <3>2. seen'["pan"] \in PanMin..PanMax
      BY <1>7, <2>2, <2>6, <3>1 DEF Atomics
    <3>3. QED
      BY <2>1, <2>10, <3>1, <3>2 DEF LoadsFit
  <2>7. CASE n = 2
    <3>1. field = "pan_speed" /\ Len(loads') = 1 /\ seen'["pan_speed"] = device.vel.pan
      BY <1>2, <1>4, <1>7, <2>7 DEF Load
    <3>2. seen'["pan"] \in PanMin..PanMax /\ seen'["tilt"] \in TiltMin..TiltMax
      BY <1>7, <2>2, <2>7, <3>1 DEF Atomics
    <3>3. seen'["pan_speed"] # 0 => TRUE \in during'
      BY <2>3, <2>4, <3>1
    <3>4. seen'["pan_speed"] = 0 => device'.vel.pan = 0
      BY <2>1, <3>1
    <3>5. Len(loads') = 1
      BY <3>1
    <3>6. Len(loads') # 0
      BY <3>5
    <3>7. QED
      BY <2>1, <2>10, <3>2, <3>3, <3>4, <3>6 DEF LoadsFit
  <2>8. CASE n = 1
    <3>1. field = "tilt_speed" /\ Len(loads') = 0 /\ seen'["tilt_speed"] = device.vel.tilt
      BY <1>2, <1>4, <1>7, <2>8 DEF Load
    <3>2. /\ seen'["pan"] \in PanMin..PanMax /\ seen'["tilt"] \in TiltMin..TiltMax
          /\ seen'["pan_speed"] = seen["pan_speed"]
      BY <1>7, <2>2, <2>8, <3>1 DEF Atomics
    <3>3. seen'["tilt_speed"] # 0 => TRUE \in during'
      BY <2>3, <2>4, <3>1
    <3>8. n <= 1
      BY <2>8
    <3>7. /\ seen["pan_speed"] # 0 => TRUE \in during
          /\ seen["pan_speed"] = 0 => device.vel.pan = 0
      BY <2>2, <3>8
    <3>4. seen'["pan_speed"] = 0 /\ seen'["tilt_speed"] = 0 => FALSE \in during'
      BY <2>3, <2>4, <3>1, <3>2, <3>7
    <3>5. /\ seen'["pan_speed"] # 0 => TRUE \in during'
          /\ seen'["pan_speed"] = 0 => device.vel.pan = 0
      BY <2>4, <3>2, <3>7
    <3>6. QED
      BY <2>1, <2>10, <3>1, <3>2, <3>3, <3>4, <3>5 DEF LoadsFit
  <2>9. QED
    BY <1>2, <2>5, <2>6, <2>7, <2>8
<1>13. QED
  BY <1>9, <1>10, <1>11, <1>12 DEF DryIInv

(* A complete status is a position in range, and its MoveStatus was true. *)
LEMMA UseStatusInv == DryIInv /\ UseStatus => DryIInv'
<1> SUFFICES ASSUME DryIInv, UseStatus PROVE DryIInv'
  OBVIOUS
<1> DEFINE position == [pan |-> seen.pan, tilt |-> seen.tilt]
<1>1. /\ soap = "read" /\ lock # "soap" /\ Len(loads) = 0
      /\ target' = (IF req.op = "RelativeMove" THEN RelativeTarget(position, req.x, req.y)
                    ELSE position)
      /\ seen' = NothingSeen
      /\ UNCHANGED <<device, generation, home, lock, asleep, stopper, req, mine, history,
                     frontVars, loads, stores, during>>
  BY DEF DryIInv, UseStatus, Bookkeeping, HolderWrites
<1>2. \/ req.op = "GetStatus" /\ soap' = "idle" /\ reply' = "ok" /\ status' = MoveStatus
      \/ req.op = "SetHome" /\ soap' = "store" /\ UNCHANGED <<reply, status>>
      \/ req.op \notin {"GetStatus", "SetHome"} /\ soap' = "lock" /\ UNCHANGED <<reply, status>>
  BY DEF UseStatus, Answer
<1>3. loads' = <<>> /\ loads' \in Seq(Atomics) /\ Len(loads') <= 4 /\ DOMAIN loads' = {}
  BY DEF DryIInv, DryTypeOK, UseStatus
<1>4. /\ seen["pan"] \in PanMin..PanMax /\ seen["tilt"] \in TiltMin..TiltMax
      /\ seen["pan_speed"] # 0 \/ seen["tilt_speed"] # 0 => TRUE \in during
      /\ seen["pan_speed"] = 0 /\ seen["tilt_speed"] = 0 => FALSE \in during
  <2>1. Len(loads) <= 3 /\ Len(loads) <= 2 /\ Len(loads) <= 1 /\ Len(loads) = 0
    BY <1>1
  <2>2. LoadsFit /\ soap = "read"
    BY <1>1 DEF DryIInv
  <2>3. /\ seen["pan"] \in PanMin..PanMax /\ seen["tilt"] \in TiltMin..TiltMax
        /\ seen["pan_speed"] # 0 => TRUE \in during
        /\ seen["tilt_speed"] # 0 => TRUE \in during
        /\ seen["pan_speed"] = 0 /\ seen["tilt_speed"] = 0 => FALSE \in during
    BY <2>1, <2>2 DEF LoadsFit
  <2>4. QED
    BY <2>3
<1>5. target' \in Position
  <2>1. position \in Position
    BY <1>4 DEF Position
  <2>2. RelativeTarget(position, req.x, req.y) \in Position
    BY <2>1, RequestFields, RelativeTargetType DEF DryIInv, DryTypeOK, TypeOK
  <2>3. QED
    BY <1>1, <2>1, <2>2
<1> HIDE DEF position
<1> USE DEF history, frontVars
<1>6. /\ status' \in {"none", "MOVING", "IDLE"} /\ reply' \in {"none", "ok", "fault"}
      /\ soap' \in {"idle", "store", "lock"}
  BY <1>2 DEF DryIInv, DryTypeOK, TypeOK, MoveStatus
<1>7. TypeOK'
  BY <1>1, <1>5, <1>6 DEF DryIInv, DryTypeOK, TypeOK
<1>8. DryTypeOK'
  <2>1. seen' \in [Atomics -> Int]
    BY <1>1 DEF NothingSeen
  <2>2. QED
    BY <1>1, <1>3, <1>6, <1>7, <2>1 DEF DryIInv, DryTypeOK
<1>9. (Bookkeeping /\ CallFits)'
  BY <1>1, <1>2, <1>6 DEF DryIInv, Bookkeeping, GenerationsIssued, HolderWrites, NewestTimer,
                          TimerPending, CallFits
<1>10. LoadsFit'
  BY <1>3, <1>6 DEF LoadsFit
<1>11. StatusWasTrue'
  <2>1. CASE status' = MoveStatus
    BY <1>1, <1>4, <2>1 DEF StatusWasTrue, MoveStatus
  <2>2. CASE status' = status
    BY <1>1, <2>2 DEF DryIInv, StatusWasTrue
  <2>3. QED
    BY <1>2, <2>1, <2>2
<1>12. (StoresFit /\ DoneIsDone)'
  BY <1>1, <1>2 DEF DryIInv, StoresFit, DoneIsDone
<1>13. QED
  BY <1>8, <1>9, <1>10, <1>11, <1>12 DEF DryIInv

LEMMA StoreHomeDryInv == DryIInv /\ StoreHome /\ UNCHANGED dryVars => DryIInv'
<1> SUFFICES ASSUME DryIInv, StoreHome, UNCHANGED dryVars PROVE DryIInv'
  OBVIOUS
<1> USE DEF dryVars, frontVars, history
<1>1. TypeOK'
  BY NextType DEF DryIInv, DryTypeOK, Next, SoapStep
<1>2. /\ soap = "store" /\ soap' = "idle" /\ req.op = "SetHome" /\ lock # "soap"
      /\ UNCHANGED <<device, generation, lock, asleep, stopper, req, target, mine, cause>>
  BY DEF DryIInv, StoreHome, Answer, Bookkeeping, HolderWrites
<1>3. DryTypeOK'
  BY <1>1, <1>2 DEF DryIInv, DryTypeOK
<1>4. (Bookkeeping /\ CallFits /\ LoadsFit)'
  BY <1>2 DEF DryIInv, Bookkeeping, GenerationsIssued, HolderWrites, NewestTimer, TimerPending,
              CallFits, LoadsFit
<1>5. (StoresFit /\ StatusWasTrue /\ DoneIsDone)'
  BY <1>2 DEF DryIInv, StoresFit, StatusWasTrue, DoneIsDone
<1>6. QED
  BY <1>3, <1>4, <1>5 DEF DryIInv

LEMMA BeginCommandInv == DryIInv /\ BeginCommand => DryIInv'
<1> SUFFICES ASSUME DryIInv, BeginCommand PROVE DryIInv'
  OBVIOUS
<1> USE DEF frontVars, history
<1>1. TypeOK'
  BY NextType DEF DryIInv, DryTypeOK, BeginCommand, Next, SoapStep
<1>2. /\ soap = "lock" /\ soap' = "write" /\ lock = "free" /\ lock' = "soap"
      /\ generation' = generation + 1 /\ generation \in Nat /\ mine \in Nat
      /\ mine' = (IF req.op = "ContinuousMove" THEN generation + 1 ELSE mine)
      /\ stores' = CommandStores
      /\ UNCHANGED <<device, home, asleep, stopper, req, reply, target, cause, loads, seen,
                     status, during, call, verdict>>
  BY DEF DryIInv, DryTypeOK, TypeOK, BeginCommand, LockCommand
<1>3. TypeOK
  BY DEF DryIInv, DryTypeOK
<1>4. CommandStores \in Seq(Atomics \X Int) /\ Len(CommandStores) \in {2, 4}
  BY <1>3, CommandStoresAre
<1>5. CommandStores' = CommandStores
  BY <1>2 DEF CommandStores
<1> HIDE DEF CommandStores
<1>6. stores' \in Seq(Atomics \X Int) /\ Len(stores') \in {2, 4} /\ stores' = CommandStores'
      /\ DOMAIN stores' = 1..Len(stores')
  BY <1>2, <1>4, <1>5, LenProperties
<1>7. DryTypeOK'
  <2>1. stores' # <<>> /\ Len(stores') <= 4
    <3>1. Len(stores') # 0 /\ Len(stores') <= 4
      <4>1. Len(stores') \in {2, 4}
        BY <1>6
      <4>2. \A k \in {2, 4} : k # 0 /\ k <= 4
        OBVIOUS
      <4>3. QED
        BY <4>1, <4>2, Zenon
    <3>2. QED
      BY <3>1, EmptySeq
  <2>2. QED
    BY <1>1, <1>2, <1>6, <2>1 DEF DryIInv, DryTypeOK
<1>8. Bookkeeping'
  <2>1. generation' \notin asleep'
    BY <1>2 DEF DryIInv, Bookkeeping, GenerationsIssued
  <2>2. QED
    BY <1>2, <2>1 DEF DryIInv, Bookkeeping, GenerationsIssued, HolderWrites, NewestTimer,
                      TimerPending
<1>9. (CallFits /\ LoadsFit /\ StatusWasTrue /\ DoneIsDone)'
  BY <1>2 DEF DryIInv, CallFits, LoadsFit, StatusWasTrue, DoneIsDone
<1>10. StoresFit'
  <2>1. \A i \in DOMAIN stores' :
           stores'[i] = CommandStores'[Len(CommandStores') - Len(stores') + i]
    <3>1. \A i \in DOMAIN stores' : Len(stores') - Len(stores') + i = i
      BY <1>6
    <3>2. QED
      BY <1>6, <3>1
  <2>2. Len(stores') <= Len(CommandStores') /\ Len(stores') # 1
    BY <1>6
  <2>3. QED
    BY <1>2, <2>1, <2>2 DEF StoresFit
<1>11. QED
  BY <1>7, <1>8, <1>9, <1>10 DEF DryIInv

LEMMA SpawnTimerDryInv == DryIInv /\ SpawnTimer /\ UNCHANGED dryVars => DryIInv'
<1> SUFFICES ASSUME DryIInv, SpawnTimer, UNCHANGED dryVars PROVE DryIInv'
  OBVIOUS
<1> USE DEF dryVars, frontVars, history
<1>1. TypeOK'
  BY NextType DEF DryIInv, DryTypeOK, Next, SoapStep
<1>2. /\ soap = "spawn" /\ soap' = "idle" /\ lock # "timer" /\ lock # "soap"
      /\ mine = generation /\ asleep' = asleep \union {generation} /\ cause = generation
      /\ req.op = "ContinuousMove" /\ device.vel = Speeds(req.x, req.y)
      /\ UNCHANGED <<device, generation, lock, stopper, req, target, mine, cause>>
  BY DEF DryIInv, SpawnTimer, Answer, Bookkeeping, HolderWrites, NewestTimer, TimerPending
<1>3. DryTypeOK'
  BY <1>1, <1>2 DEF DryIInv, DryTypeOK
<1>4. Bookkeeping'
  <2>1. generation \in 1..generation
    BY <1>2 DEF DryIInv, DryTypeOK, TypeOK, Bookkeeping, GenerationsIssued
  <2>2. GenerationsIssued'
    BY <1>2, <2>1 DEF DryIInv, Bookkeeping, GenerationsIssued
  <2>3. (HolderWrites /\ NewestTimer)'
    BY <1>2 DEF HolderWrites, NewestTimer, TimerPending
  <2>4. QED
    BY <2>2, <2>3 DEF Bookkeeping
<1>5. (CallFits /\ LoadsFit /\ StoresFit /\ StatusWasTrue)'
  BY <1>2 DEF DryIInv, CallFits, LoadsFit, StoresFit, StatusWasTrue
<1>6. DoneIsDone'
  BY <1>2 DEF DoneIsDone
<1>7. QED
  BY <1>3, <1>4, <1>5, <1>6 DEF DryIInv

(* Only the thread of the newest generation takes the mutex. *)
LEMMA DryTimerWakesInv ==
    ASSUME DryIInv, NEW g \in asleep, DryTimerWakes(g)
    PROVE  DryIInv'
<1> USE DEF frontVars, history
<1>1. TypeOK'
  BY NextType DEF DryIInv, DryTypeOK, DryTimerWakes, Next
<1>2. /\ lock = "free" /\ soap # "write" /\ asleep' = asleep \ {g}
      /\ UNCHANGED <<device, generation, home, soap, req, reply, target, mine, cause, loads, seen,
                     status, during, call, verdict>>
  BY DEF DryIInv, DryTimerWakes, TimerWakes, Bookkeeping, HolderWrites
<1>3. (CallFits /\ LoadsFit /\ StatusWasTrue)'
  BY <1>2 DEF DryIInv, CallFits, LoadsFit, StatusWasTrue
<1>4. GenerationsIssued'
  BY <1>2 DEF DryIInv, Bookkeeping, GenerationsIssued
<1>5. CASE generation = g
  <2>1. /\ lock' = "timer" /\ stopper' = generation /\ stores' = StopStores
        /\ soap # "spawn" /\ cause = generation
    BY <1>2, <1>5 DEF DryIInv, DryTimerWakes, TimerWakes, Bookkeeping, NewestTimer, TimerPending
  <2>2. /\ stores' \in Seq(Atomics \X Int) /\ Len(stores') = 2 /\ stores' # <<>>
        /\ DOMAIN stores' = 1..2
    BY <2>1, StopStoresAre DEF StopStores
  <2>3. DryTypeOK'
    BY <1>1, <1>2, <2>1, <2>2 DEF DryIInv, DryTypeOK
  <2>4. (HolderWrites /\ NewestTimer)'
    BY <1>2, <1>5, <2>1 DEF DryIInv, Bookkeeping, HolderWrites, NewestTimer, TimerPending
  <2>5. StoresFit'
    <3>1. \A i \in DOMAIN stores' : stores'[i] = StopStores[2 - Len(stores') + i]
      <4>1. \A i \in 1..2 : 2 - 2 + i = i
        OBVIOUS
      <4>2. QED
        BY <2>1, <2>2, <4>1
    <3>2. QED
      BY <2>1, <2>2, <3>1 DEF StoresFit
  <2>6. DoneIsDone'
    BY <1>2, <2>1 DEF DryIInv, DoneIsDone, Moving
  <2>7. QED
    BY <1>3, <1>4, <2>3, <2>4, <2>5, <2>6 DEF DryIInv, Bookkeeping
<1>6. CASE generation # g
  <2>1. UNCHANGED <<lock, stopper, stores>>
    BY <1>2, <1>6 DEF DryTimerWakes, TimerWakes
  <2>2. DryTypeOK'
    BY <1>1, <1>2, <2>1 DEF DryIInv, DryTypeOK
  <2>3. (HolderWrites /\ NewestTimer)'
    BY <1>2, <1>6, <2>1 DEF DryIInv, Bookkeeping, HolderWrites, NewestTimer, TimerPending
  <2>4. (StoresFit /\ DoneIsDone)'
    BY <1>2, <1>6, <2>1 DEF DryIInv, StoresFit, DoneIsDone, Moving
  <2>5. QED
    BY <1>3, <1>4, <2>2, <2>3, <2>4 DEF DryIInv, Bookkeeping
<1>7. QED
  BY <1>5, <1>6

(* The next store of the SOAP thread, and what is left after it. *)
LEMMA SoapStoresAre ==
    ASSUME DryIInv, lock = "soap"
    PROVE  /\ Len(stores) \in 1..4
           /\ Head(stores)[1] \in Atomics /\ Head(stores)[2] \in Fitting(Head(stores)[1])
           /\ Tail(stores) \in Seq(Atomics \X Int) /\ Len(Tail(stores)) = Len(stores) - 1
           /\ Tail(stores) # <<>> <=> Len(stores) # 1
           /\ Len(stores) <= Len(CommandStores)
           /\ \A i \in DOMAIN Tail(stores) :
                 Tail(stores)[i] = CommandStores[Len(CommandStores) - Len(Tail(stores)) + i]
           /\ Len(stores) = 2 => Head(stores) = <<"pan_speed", CommandVel.pan>>
           /\ Len(stores) = 1 => /\ Head(stores) = <<"tilt_speed", CommandVel.tilt>>
                                 /\ device.vel.pan = CommandVel.pan
<1> DEFINE n == Len(stores)
           m == Len(CommandStores)
<1>1. TypeOK /\ stores \in Seq(Atomics \X Int) /\ n <= 4 /\ stores # <<>>
  BY DEF DryIInv, DryTypeOK
<1>2. n \in Nat /\ n # 0 /\ DOMAIN stores = 1..n
  BY <1>1, EmptySeq, LenProperties
<1>3. /\ CommandStores \in Seq(Atomics \X Int) /\ m \in Nat
      /\ \A i \in 1..m : CommandStores[i][2] \in Fitting(CommandStores[i][1])
      /\ CommandStores[m - 1] = <<"pan_speed", CommandVel.pan>>
      /\ CommandStores[m] = <<"tilt_speed", CommandVel.tilt>>
      /\ DOMAIN CommandStores = 1..m
  BY <1>1, CommandStoresAre, LenProperties
<1>4. /\ n <= m
      /\ \A i \in DOMAIN stores : stores[i] = CommandStores[m - n + i]
      /\ n = 1 => device.vel.pan = CommandVel.pan
  BY DEF DryIInv, StoresFit
<1>5. Head(stores) = stores[1]
  BY <1>1
<1>6. /\ Tail(stores) \in Seq(Atomics \X Int) /\ Len(Tail(stores)) = n - 1
      /\ \A i \in 1..Len(Tail(stores)) : Tail(stores)[i] = stores[i + 1]
      /\ DOMAIN Tail(stores) = 1..Len(Tail(stores))
  BY <1>1, HeadTailProperties, LenProperties
<1>7. Tail(stores) # <<>> <=> Len(Tail(stores)) # 0
  BY <1>6, EmptySeq
<1> HIDE DEF n, m
<1>8. n \in 1..4 /\ m - n + 1 \in 1..m /\ 1 \in 1..n
  BY <1>1, <1>2, <1>3, <1>4
<1>9. stores[1] = CommandStores[m - n + 1]
  BY <1>2, <1>4, <1>8
<1>10. /\ CommandStores[m - n + 1] \in Atomics \X Int
       /\ CommandStores[m - n + 1][2] \in Fitting(CommandStores[m - n + 1][1])
  BY <1>3, <1>8, ElementOfSeq DEF m
<1>11. Head(stores)[1] \in Atomics /\ Head(stores)[2] \in Fitting(Head(stores)[1])
  BY <1>5, <1>9, <1>10
<1>12. ASSUME NEW i \in 1..(n - 1)
       PROVE  Tail(stores)[i] = CommandStores[m - (n - 1) + i]
  <2>1. i + 1 \in 1..n /\ m - n + (i + 1) = m - (n - 1) + i
    BY <1>3, <1>8
  <2>2. stores[i + 1] = CommandStores[m - n + (i + 1)]
    BY <1>2, <1>4, <2>1
  <2>3. QED
    BY <1>6, <2>1, <2>2
<1>13. \A i \in DOMAIN Tail(stores) : Tail(stores)[i] = CommandStores[m - Len(Tail(stores)) + i]
  BY <1>6, <1>12
<1>14. n = 2 => Head(stores) = <<"pan_speed", CommandVel.pan>>
  <2>1. n = 2 => m - n + 1 = m - 1
    BY <1>3
  <2>2. QED
    BY <1>3, <1>5, <1>9, <2>1
<1>15. n = 1 => Head(stores) = <<"tilt_speed", CommandVel.tilt>>
  <2>1. n = 1 => m - n + 1 = m
    BY <1>3
  <2>2. QED
    BY <1>3, <1>5, <1>9, <2>1
<1>16. Tail(stores) # <<>> <=> n # 1
  <2>1. n - 1 # 0 <=> n # 1
    BY <1>8
  <2>2. QED
    BY <1>6, <1>7, <2>1
<1>17. QED
  BY <1>4, <1>6, <1>8, <1>11, <1>13, <1>14, <1>15, <1>16 DEF n, m

(* And of the timer thread. *)
LEMMA TimerStoresAre ==
    ASSUME DryIInv, lock = "timer"
    PROVE  /\ Tail(stores) \in Seq(Atomics \X Int) /\ Len(Tail(stores)) <= 1
           /\ \/ /\ Head(stores) = <<"pan_speed", 0>>
                 /\ Tail(stores) # <<>> /\ Len(Tail(stores)) = 1
                 /\ DOMAIN Tail(stores) = {1}
                 /\ Tail(stores)[1] = StopStores[2]
              \/ /\ Head(stores) = <<"tilt_speed", 0>>
                 /\ Tail(stores) = <<>>
                 /\ device.vel.pan = 0
<1> DEFINE n == Len(stores)
           k == Len(Tail(stores))
<1>1. stores \in Seq(Atomics \X Int) /\ stores # <<>>
  BY DEF DryIInv, DryTypeOK
<1>2. n \in Nat /\ n # 0 /\ DOMAIN stores = 1..n
  BY <1>1, EmptySeq, LenProperties
<1>3. /\ n <= 2
      /\ \A i \in DOMAIN stores : stores[i] = StopStores[2 - n + i]
      /\ n = 1 => device.vel.pan = 0
  BY DEF DryIInv, StoresFit
<1>4. Head(stores) = stores[1]
  BY <1>1
<1>5. /\ Tail(stores) \in Seq(Atomics \X Int) /\ k = n - 1
      /\ \A i \in 1..k : Tail(stores)[i] = stores[i + 1]
      /\ DOMAIN Tail(stores) = 1..k
  BY <1>1, HeadTailProperties, LenProperties
<1>6. Tail(stores) # <<>> <=> k # 0
  BY <1>5, EmptySeq
<1> HIDE DEF n, k
<1>7. n = 1 \/ n = 2
  BY <1>2, <1>3
<1>8. CASE n = 2
  <2>1. stores[1] = StopStores[1] /\ stores[2] = StopStores[2]
    <3>1. 1 \in 1..n /\ 2 \in 1..n /\ 2 - n + 1 = 1 /\ 2 - n + 2 = 2
      BY <1>8
    <3>2. QED
      BY <1>2, <1>3, <3>1
  <2>2. k = 1
    BY <1>5, <1>8
  <2>3. 1 \in 1..k /\ 1..k = {1}
    BY <2>2
  <2>4. Tail(stores)[1] = stores[2]
    <3>1. Tail(stores)[1] = stores[1 + 1]
      BY <1>5, <2>3
    <3>2. 1 + 1 = 2
      OBVIOUS
    <3>3. QED
      BY <3>1, <3>2
  <2>5. k <= 1 /\ k # 0
    BY <2>2
  <2>6. QED
    BY <1>4, <1>5, <1>6, <2>1, <2>2, <2>3, <2>4, <2>5, StopStoresAre DEF k
<1>9. CASE n = 1
  <2>1. stores[1] = StopStores[2]
    <3>1. 1 \in 1..n /\ 2 - n + 1 = 2
      BY <1>9
    <3>2. QED
      BY <1>2, <1>3, <3>1
  <2>2. k = 0
    BY <1>5, <1>9
  <2>3. k <= 1
    BY <2>2
  <2>4. QED
    BY <1>3, <1>4, <1>5, <1>6, <1>9, <2>1, <2>2, <2>3, StopStoresAre DEF k
<1>10. QED
  BY <1>7, <1>8, <1>9

(* The last store leaves the camera at the commanded velocity. *)
LEMMA StoreNextInv == DryIInv /\ StoreNext => DryIInv'
<1> SUFFICES ASSUME DryIInv, StoreNext PROVE DryIInv'
  OBVIOUS
<1> DEFINE n == Len(stores)
           field == Head(stores)[1]
           value == Head(stores)[2]
<1> USE DEF frontVars
<1>1. /\ soap = "write" /\ lock = "soap"
      /\ device' = Stored(field, value) /\ stores' = Tail(stores)
      /\ UNCHANGED <<generation, home, asleep, stopper, req, target, mine, readAtRest,
                     call, verdict, loads, seen, status, during>>
  BY DEF DryIInv, StoreNext, Bookkeeping, HolderWrites
<1>2. /\ field \in Atomics /\ value \in Fitting(field)
      /\ stores' \in Seq(Atomics \X Int) /\ n \in 1..4 /\ Len(stores') = n - 1
      /\ stores' # <<>> <=> n # 1
      /\ n <= Len(CommandStores)
      /\ \A i \in DOMAIN stores' :
            stores'[i] = CommandStores[Len(CommandStores) - Len(stores') + i]
      /\ n = 2 => field = "pan_speed" /\ value = CommandVel.pan
      /\ n = 1 => field = "tilt_speed" /\ value = CommandVel.tilt /\ device.vel.pan = CommandVel.pan
  BY <1>1, SoapStoresAre
<1>3. device \in Camera
  BY DEF DryIInv, DryTypeOK, TypeOK, Camera
<1>4. /\ device' \in Camera
      /\ device'.vel.pan = (IF field = "pan_speed" THEN value ELSE device.vel.pan)
      /\ device'.vel.tilt = (IF field = "tilt_speed" THEN value ELSE device.vel.tilt)
  BY <1>1, <1>2, <1>3, StoredFields
<1>5. CommandStores' = CommandStores /\ CommandVel' = CommandVel
  BY <1>1 DEF CommandStores, CommandVel
<1>6. Len(CommandStores) \in Nat
  BY CommandStoresAre, LenProperties DEF DryIInv, DryTypeOK
<1> HIDE DEF n, field, value
<1>7. \/ /\ n # 1 /\ stores' # <<>>
         /\ UNCHANGED <<lock, cause, lastWrite, soap, reply>>
      \/ /\ n = 1 /\ stores' = <<>>
         /\ lock' = "free" /\ cause' = generation /\ lastWrite' = "ok"
         /\ \/ req.op = "ContinuousMove" /\ soap' = "spawn" /\ UNCHANGED reply
            \/ req.op # "ContinuousMove" /\ soap' = "idle" /\ reply' = "ok"
  BY <1>2 DEF StoreNext, Answer
<1>8. TypeOK'
  BY <1>1, <1>4, <1>7 DEF DryIInv, DryTypeOK, TypeOK, Camera
<1>9. DryTypeOK'
  <2>1. Len(stores') <= 4
    <3>1. n - 1 <= 4
      BY <1>2
    <3>2. QED
      BY <1>2, <3>1
  <2>2. stores' # <<>> <=> lock' # "free"
    BY <1>1, <1>7
  <2>3. QED
    BY <1>1, <1>2, <1>8, <2>1, <2>2 DEF DryIInv, DryTypeOK
<1>10. n = 1 => device'.vel = CommandVel
  <2>1. SUFFICES ASSUME n = 1 PROVE device'.vel = CommandVel
    OBVIOUS
  <2>2. device'.vel.pan = CommandVel.pan /\ device'.vel.tilt = CommandVel.tilt
    BY <1>2, <1>4, <2>1
  <2>3. CommandVel \in Velocity
    BY CommandVelType DEF DryIInv, DryTypeOK
  <2>4. device'.vel \in Velocity
    BY <1>4 DEF Camera
  <2>5. QED
    BY <2>2, <2>3, <2>4 DEF Velocity
<1>11. Bookkeeping'
  <2>1. /\ generation \notin asleep /\ generation > 0
        /\ req.op = "ContinuousMove" => mine = generation
    BY <1>1 DEF DryIInv, Bookkeeping, GenerationsIssued, HolderWrites, NewestTimer
  <2>2. GenerationsIssued'
    BY <1>1, <1>7, <2>1 DEF DryIInv, Bookkeeping, GenerationsIssued
  <2>3. HolderWrites'
    BY <1>1, <1>7, <2>1 DEF HolderWrites
  <2>6. NewestTimer'
    <3>1. CASE n # 1
      BY <1>1, <1>7, <2>1, <3>1 DEF NewestTimer, TimerPending
    <3>2. CASE n = 1
      <4>1. req.op = "ContinuousMove" => device'.vel = Speeds(req.x, req.y)
        BY <1>10, <3>2 DEF CommandVel
      <4>2. QED
        BY <1>1, <1>7, <2>1, <3>2, <4>1 DEF NewestTimer, TimerPending
    <3>3. QED
      BY <3>1, <3>2
  <2>7. QED
    BY <2>2, <2>3, <2>6 DEF Bookkeeping
<1>12. (CallFits /\ LoadsFit /\ StatusWasTrue)'
  BY <1>1, <1>7 DEF DryIInv, CallFits, LoadsFit, StatusWasTrue
<1>13. StoresFit'
  <2>1. lock' # "timer"
    BY <1>1, <1>7
  <2>2. Len(stores') <= Len(CommandStores')
    <3>1. n - 1 <= Len(CommandStores)
      BY <1>2, <1>6
    <3>2. QED
      BY <1>2, <1>5, <3>1
  <2>3. \A i \in DOMAIN stores' :
           stores'[i] = CommandStores'[Len(CommandStores') - Len(stores') + i]
    BY <1>2, <1>5
  <2>4. Len(stores') = 1 => device'.vel.pan = CommandVel'.pan
    <3>1. n - 1 = 1 => n = 2
      BY <1>2
    <3>2. n = 2 => device'.vel.pan = CommandVel.pan
      BY <1>2, <1>4
    <3>3. QED
      BY <1>2, <1>5, <3>1, <3>2
  <2>5. QED
    BY <2>1, <2>2, <2>3, <2>4 DEF StoresFit
<1>14. DoneIsDone'
  <2>1. CASE soap' # "idle"
    BY <2>1 DEF DoneIsDone
  <2>2. CASE soap' = "idle"
    <3>1. n = 1 /\ req.op # "ContinuousMove"
      BY <1>1, <1>7, <2>2
    <3>2. device'.vel = Rest
      BY <1>10, <3>1 DEF CommandVel
    <3>3. QED
      BY <1>1, <3>1, <3>2 DEF DoneIsDone, Moving
  <2>3. QED
    BY <2>1, <2>2
<1>15. QED
  BY <1>9, <1>11, <1>12, <1>13, <1>14 DEF DryIInv

(* A timer's stores bring the camera to rest and nothing else. *)
LEMMA TimerStoreNextInv == DryIInv /\ TimerStoreNext => DryIInv'
<1> SUFFICES ASSUME DryIInv, TimerStoreNext PROVE DryIInv'
  OBVIOUS
<1> USE DEF frontVars
<1>1. /\ lock = "timer" /\ stopper = generation /\ soap \notin {"write", "spawn"}
      /\ generation \notin asleep /\ generation \in Nat
      /\ device' = Stored(Head(stores)[1], Head(stores)[2]) /\ stores' = Tail(stores)
      /\ UNCHANGED <<home, asleep, stopper, soap, req, reply, target, mine, cause, readAtRest,
                     call, verdict, loads, seen, status, during>>
  BY DEF DryIInv, DryTypeOK, TypeOK, TimerStoreNext, Bookkeeping, HolderWrites, NewestTimer
<1>2. /\ stores' \in Seq(Atomics \X Int) /\ Len(stores') <= 1
      /\ \/ /\ Head(stores) = <<"pan_speed", 0>>
            /\ stores' # <<>> /\ Len(stores') = 1
            /\ DOMAIN stores' = {1} /\ stores'[1] = StopStores[2]
         \/ /\ Head(stores) = <<"tilt_speed", 0>>
            /\ stores' = <<>> /\ device.vel.pan = 0
  BY <1>1, TimerStoresAre
<1>3. device \in Camera
  BY DEF DryIInv, DryTypeOK, TypeOK, Camera
<1>4. \/ /\ stores' # <<>> /\ Len(stores') = 1
         /\ DOMAIN stores' = {1} /\ stores'[1] = StopStores[2]
         /\ device' \in Camera /\ device'.vel.pan = 0 /\ device'.vel.tilt = device.vel.tilt
         /\ UNCHANGED <<generation, lock, lastWrite>>
      \/ /\ stores' = <<>>
         /\ device' \in Camera /\ device'.vel.pan = 0 /\ device'.vel.tilt = 0
         /\ generation' = generation + 1 /\ lock' = "free" /\ lastWrite' = "ok"
  <2>1. CASE Head(stores) = <<"pan_speed", 0>> /\ stores' # <<>>
    <3>1. device' = Stored("pan_speed", 0)
      BY <1>1, <2>1
    <3>2. 0 \in Fitting("pan_speed") /\ "pan_speed" \in Atomics
      BY ZeroIsInt DEF Fitting, Atomics
    <3>3. device' \in Camera /\ device'.vel.pan = 0 /\ device'.vel.tilt = device.vel.tilt
      BY <1>3, <3>1, <3>2, StoredFields
    <3>4. UNCHANGED <<generation, lock, lastWrite>>
      BY <2>1 DEF TimerStoreNext
    <3>5. QED
      BY <1>2, <2>1, <3>3, <3>4
  <2>2. CASE Head(stores) = <<"tilt_speed", 0>> /\ stores' = <<>> /\ device.vel.pan = 0
    <3>1. device' = Stored("tilt_speed", 0)
      BY <1>1, <2>2
    <3>2. 0 \in Fitting("tilt_speed") /\ "tilt_speed" \in Atomics
      BY ZeroIsInt DEF Fitting, Atomics
    <3>3. device' \in Camera /\ device'.vel.pan = device.vel.pan /\ device'.vel.tilt = 0
      BY <1>3, <3>1, <3>2, StoredFields
    <3>4. generation' = generation + 1 /\ lock' = "free" /\ lastWrite' = "ok"
      BY <2>2 DEF TimerStoreNext
    <3>5. QED
      BY <2>2, <3>3, <3>4
  <2>3. QED
    BY <1>2, <2>1, <2>2
<1>5. /\ device' \in Camera /\ device'.vel.pan = 0 /\ device'.vel.tilt \in {0, device.vel.tilt}
      /\ generation' \in {generation, generation + 1} /\ lock' \in {"free", "timer"}
      /\ lastWrite' \in {lastWrite, "ok"}
  BY <1>1, <1>4
<1>6. TypeOK'
  BY <1>1, <1>5 DEF DryIInv, DryTypeOK, TypeOK, Camera
<1>7. DryTypeOK'
  <2>1. Len(stores') <= 4
    <3>1. \A k \in Nat : k <= 1 => k <= 4
      OBVIOUS
    <3>2. Len(stores') \in Nat
      BY <1>2, LenProperties
    <3>3. QED
      BY <1>2, <3>1, <3>2
  <2>2. stores' # <<>> <=> lock' # "free"
    BY <1>1, <1>4
  <2>3. QED
    BY <1>1, <1>2, <1>6, <2>1, <2>2 DEF DryIInv, DryTypeOK
<1>8. Bookkeeping'
  <2>1. GenerationsIssued'
    BY <1>1, <1>5 DEF DryIInv, DryTypeOK, TypeOK, Bookkeeping, GenerationsIssued
  <2>2. HolderWrites'
    BY <1>1, <1>5 DEF DryIInv, Bookkeeping, HolderWrites
  <2>3. NewestTimer'
    <3>1. CASE UNCHANGED <<generation, lock>>
      BY <1>1, <3>1 DEF DryIInv, Bookkeeping, NewestTimer, TimerPending
    <3>2. CASE generation' = generation + 1 /\ lock' = "free"
      <4>1. generation' \notin asleep'
        BY <1>1, <3>2 DEF DryIInv, Bookkeeping, GenerationsIssued
      <4>2. QED
        BY <1>1, <3>2, <4>1 DEF NewestTimer, TimerPending
    <3>3. QED
      BY <1>4, <3>1, <3>2
  <2>4. QED
    BY <2>1, <2>2, <2>3 DEF Bookkeeping
<1>9. (CallFits /\ StatusWasTrue)'
  BY <1>1 DEF DryIInv, CallFits, StatusWasTrue
<1>10. LoadsFit'
  <2>1. device'.vel.pan = 0
    BY <1>5
  <2>2. QED
    BY <1>1, <2>1 DEF DryIInv, LoadsFit
<1>11. StoresFit'
  <2>1. CASE lock' = "free"
    BY <2>1 DEF StoresFit
  <2>2. CASE lock' = "timer"
    <3>1. Len(stores') = 1 /\ DOMAIN stores' = {1} /\ stores'[1] = StopStores[2]
      BY <1>4, <2>2
    <3>2. \A i \in DOMAIN stores' : stores'[i] = StopStores[2 - Len(stores') + i]
      <4>1. 2 - 1 + 1 = 2
        OBVIOUS
      <4>2. QED
        BY <3>1, <4>1
    <3>3. Len(stores') <= 2
      <4>1. \A k \in {1} : k <= 2
        OBVIOUS
      <4>2. QED
        BY <3>1, <4>1
    <3>4. QED
      BY <1>5, <2>2, <3>2, <3>3 DEF StoresFit
  <2>3. QED
    BY <1>5, <2>1, <2>2
<1>12. DoneIsDone'
  <2>1. ~Moving => ~Moving'
    <3>1. Moving <=> device.vel.pan # 0 \/ device.vel.tilt # 0
      BY <1>3, CameraFields
    <3>2. device'.vel = [pan |-> device'.vel.pan, tilt |-> device'.vel.tilt]
      BY <1>5 DEF Camera, Velocity
    <3>3. QED
      BY <1>5, <3>1, <3>2 DEF Moving, Rest
  <2>2. lock' = "timer" \/ generation' # mine'
    BY <1>1, <1>4 DEF DryIInv, DryTypeOK, TypeOK, Bookkeeping, GenerationsIssued
  <2>3. QED
    BY <1>1, <2>1, <2>2 DEF DryIInv, DoneIsDone
<1>13. QED
  BY <1>7, <1>8, <1>9, <1>10, <1>11, <1>12 DEF DryIInv

LEMMA DryNextInv == DryIInv /\ [DryNext]_allVars => DryIInv'
<1>1. QED
  BY DryStutterInv, ArriveInv, ChecksInv, AnswerAtOnceInv, CallDeviceInv, LoadNextInv,
     UseStatusInv, StoreHomeDryInv, BeginCommandInv, StoreNextInv, SpawnTimerDryInv,
     DryTimerWakesInv, TimerStoreNextInv
     DEF DryNext, DrySoapStep

(* Whatever the clients send and whenever the timers wake, loads and       *)
(* stores fit the request they belong to.                                  *)
THEOREM DryInvariance == DrySpec => []DryIInv
<1>1. QED
  BY DryInitIInv, DryNextInv, PTL DEF DrySpec

(* Every state of a dry run is well typed: in particular the atomics hold  *)
(* positions in range, also in the middle of a command.                    *)
THEOREM DryTypeCorrect == DrySpec => []DryTypeOK
<1>1. DryIInv => DryTypeOK
  BY DEF DryIInv
<1>2. QED
  BY DryInvariance, <1>1, PTL

(* GetStatus never reports a mixture for a state that never was, although  *)
(* read_ptz_status takes no mutex.                                         *)
THEOREM StatusIsTrue == DrySpec => []StatusWasTrue
<1>1. DryIInv => StatusWasTrue
  BY DEF DryIInv
<1>2. QED
  BY DryInvariance, <1>1, PTL

(* An acknowledged dry-run command has been stored, all of it.             *)
THEOREM AcknowledgedIsStored == DrySpec => []AcknowledgedMeansStored
<1>1. DryIInv => AcknowledgedMeansStored
  BY DEF DryIInv, DoneIsDone, AcknowledgedMeansStored, AcknowledgedMeansDone, TimerPending
<1>2. QED
  BY DryInvariance, <1>1, PTL

-----------------------------------------------------------------------------
(* Stores one by one, one deadline: PtzDryRun implements PtzMotion.        *)

LEMMA DryInitRefines == DryInit => DryMotion!Init
  BY DEF DryInit, Init, DryMotion!Init, Moving, DryDeadline, TimerPending

LEMMA DryStutterRefines ==
    ASSUME device'.vel = device.vel, DryDeadline' = DryDeadline
    PROVE  UNCHANGED DryMotion!vars
  BY DEF DryMotion!vars, Moving

(* What leaves the threads, the counter and the velocity alone. *)
LEMMA DryQuiet ==
    ASSUME UNCHANGED <<device, generation, lock, asleep, stopper, mine>>,
           soap # "spawn", soap' # "spawn"
    PROVE  UNCHANGED DryMotion!vars
<1>1. DryDeadline' = DryDeadline
  BY DEF DryDeadline, TimerPending, Moving
<1>2. QED
  BY <1>1, DryStutterRefines

LEMMA StoreNextRefines ==
    ASSUME DryIInv, DryIInv', StoreNext
    PROVE  [DryMotion!Next]_(DryMotion!vars)
<1>1. /\ soap = "write" /\ lock = "soap" /\ generation \notin asleep
      /\ req.op = "ContinuousMove" => mine = generation
      /\ UNCHANGED <<generation, asleep, stopper, mine, req>>
  BY DEF DryIInv, StoreNext, Bookkeeping, HolderWrites, NewestTimer
<1>2. DryDeadline = "none"
  BY <1>1 DEF DryDeadline, TimerPending
<1>3. CASE stores' # <<>>
  <2>1. UNCHANGED <<lock, soap>>
    BY <1>3 DEF StoreNext
  <2>2. DryDeadline' = "none"
    BY <1>1, <2>1 DEF DryDeadline, TimerPending
  <2>3. CASE Moving'
    BY <1>2, <2>2, <2>3 DEF DryMotion!Next, DryMotion!DriveUnacknowledged
  <2>4. CASE ~Moving'
    BY <1>2, <2>2, <2>4 DEF DryMotion!Next, DryMotion!Halt
  <2>5. QED
    BY <2>3, <2>4
<1>4. CASE stores' = <<>> /\ req.op = "ContinuousMove"
  <2>1. lock' = "free" /\ soap' = "spawn"
    BY <1>4 DEF StoreNext
  <2>2. DryDeadline' = "set"
    BY <1>1, <1>4, <2>1 DEF DryDeadline, TimerPending
  <2>3. QED
    BY <1>2, <2>2 DEF DryMotion!Next, DryMotion!Drive
<1>5. CASE stores' = <<>> /\ req.op # "ContinuousMove"
  <2>1. lock' = "free" /\ soap' = "idle"
    BY <1>5 DEF StoreNext, Answer
  <2>2. DryDeadline' = "none"
    BY <1>1, <2>1 DEF DryDeadline, TimerPending
  <2>3. CASE Moving'
    BY <1>2, <2>2, <2>3 DEF DryMotion!Next, DryMotion!DriveUnacknowledged
  <2>4. CASE ~Moving'
    BY <1>2, <2>2, <2>4 DEF DryMotion!Next, DryMotion!Halt
  <2>5. QED
    BY <2>3, <2>4
<1>6. QED
  BY <1>3, <1>4, <1>5

LEMMA TimerStoreNextRefines ==
    ASSUME DryIInv, DryIInv', TimerStoreNext
    PROVE  [DryMotion!Next]_(DryMotion!vars)
<1>1. /\ lock = "timer" /\ stopper = generation /\ soap # "spawn" /\ soap' = soap
      /\ UNCHANGED <<asleep, stopper, mine>> /\ generation \in Nat
      /\ asleep \subseteq 1..generation
  BY DEF DryIInv, DryTypeOK, TypeOK, TimerStoreNext, Bookkeeping, GenerationsIssued, NewestTimer
<1>2. DryDeadline = IF Moving THEN "due" ELSE "none"
  BY <1>1 DEF DryDeadline
<1>3. ~Moving => ~Moving'
  <2>1. /\ device \in Camera
        /\ \/ device' = Stored("pan_speed", 0)
           \/ device' = Stored("tilt_speed", 0)
    <3>1. Head(stores) = <<"pan_speed", 0>> \/ Head(stores) = <<"tilt_speed", 0>>
      BY <1>1, TimerStoresAre
    <3>2. device' = Stored(Head(stores)[1], Head(stores)[2])
      BY DEF TimerStoreNext
    <3>3. device \in Camera
      BY DEF DryIInv, DryTypeOK, TypeOK, Camera
    <3>4. CASE Head(stores) = <<"pan_speed", 0>>
      BY <3>2, <3>3, <3>4
    <3>5. CASE Head(stores) = <<"tilt_speed", 0>>
      BY <3>2, <3>3, <3>5
    <3>6. QED
      BY <3>1, <3>4, <3>5
  <2>2. 0 \in Fitting("pan_speed") /\ 0 \in Fitting("tilt_speed")
        /\ "pan_speed" \in Atomics /\ "tilt_speed" \in Atomics
    BY ZeroIsInt DEF Fitting, Atomics
  <2>3. /\ device' \in Camera
        /\ device'.vel.pan \in {0, device.vel.pan} /\ device'.vel.tilt \in {0, device.vel.tilt}
    BY <2>1, <2>2, StoredFields
  <2>4. device'.vel = [pan |-> device'.vel.pan, tilt |-> device'.vel.tilt]
    BY <2>3 DEF Camera, Velocity
  <2>5. Moving <=> device.vel.pan # 0 \/ device.vel.tilt # 0
    BY <2>1, CameraFields
  <2>6. QED
    BY <2>3, <2>4, <2>5 DEF Moving, Rest
<1>4. CASE stores' # <<>>
  <2>1. UNCHANGED <<generation, lock>>
    BY <1>4 DEF TimerStoreNext
  <2>2. DryDeadline' = IF Moving' THEN "due" ELSE "none"
    BY <1>1, <2>1 DEF DryDeadline
  <2>3. CASE Moving /\ Moving'
    BY <1>2, <2>2, <2>3 DEF DryMotion!vars
  <2>4. CASE Moving /\ ~Moving'
    BY <1>2, <2>2, <2>4 DEF DryMotion!Next, DryMotion!Expire
  <2>5. CASE ~Moving
    BY <1>2, <1>3, <2>2, <2>5 DEF DryMotion!vars
  <2>6. QED
    BY <2>3, <2>4, <2>5
<1>5. CASE stores' = <<>>
  <2>1. generation' = generation + 1 /\ lock' = "free"
    BY <1>5 DEF TimerStoreNext
  <2>2. generation' \notin asleep'
    BY <1>1, <2>1
  <2>3. DryDeadline' = "none"
    BY <1>1, <2>1, <2>2 DEF DryDeadline, TimerPending
  <2>4. ~Moving'
    <3>1. Head(stores) = <<"tilt_speed", 0>> /\ device.vel.pan = 0
      BY <1>1, <1>5, TimerStoresAre DEF TimerStoreNext
    <3>2. device' = Stored("tilt_speed", 0) /\ device \in Camera
      BY <3>1 DEF TimerStoreNext, DryIInv, DryTypeOK, TypeOK, Camera
    <3>3. 0 \in Fitting("tilt_speed") /\ "tilt_speed" \in Atomics
      BY ZeroIsInt DEF Fitting, Atomics
    <3>4. device' \in Camera /\ device'.vel.pan = 0 /\ device'.vel.tilt = 0
      BY <3>1, <3>2, <3>3, StoredFields
    <3>5. device'.vel = Rest
      BY <3>4 DEF Camera, Velocity, Rest
    <3>6. QED
      BY <3>5 DEF Moving
  <2>5. CASE Moving
    BY <1>2, <2>3, <2>4, <2>5 DEF DryMotion!Next, DryMotion!Expire
  <2>6. CASE ~Moving
    BY <1>2, <2>3, <2>4, <2>6 DEF DryMotion!vars
  <2>7. QED
    BY <2>5, <2>6
<1>6. QED
  BY <1>4, <1>5

LEMMA DryStepRefines ==
    DryIInv /\ DryIInv' /\ [DryNext]_allVars => [DryMotion!Next]_(DryMotion!vars)
<1> SUFFICES ASSUME DryIInv, DryIInv', [DryNext]_allVars
             PROVE  [DryMotion!Next]_(DryMotion!vars)
  OBVIOUS
<1> USE DEF vars, process, history, frontVars, dryVars
<1>1. ASSUME NEW c \in Calls, Arrive(c) PROVE UNCHANGED DryMotion!vars
  BY <1>1, DryQuiet DEF Arrive
<1>2. CASE AskRail \/ PeerLetsGo \/ CheckCall
  <2>1. call # NoCall
    BY <1>2 DEF AskRail, PeerLetsGo, CheckCall, DryIInv, CallFits
  <2>2. soap # "spawn"
    BY <2>1 DEF DryIInv, CallFits
  <2>3. QED
    BY <1>2, <2>2, DryQuiet DEF AskRail, PeerLetsGo, CheckCall
<1>3. CASE AnswerAtOnce
  <2>1. soap # "spawn"
    BY <1>3 DEF DryIInv, CallFits, Undecided, AnswerAtOnce
  <2>2. QED
    BY <1>3, <2>1, DryQuiet DEF AnswerAtOnce
<1>4. CASE CallDevice
  BY <1>4, DryQuiet DEF CallDevice, Receive, FirstStep
<1>5. CASE LoadNext
  BY <1>5, DryQuiet DEF LoadNext
<1>6. CASE UseStatus
  BY <1>6, DryQuiet DEF UseStatus, Answer
<1>7. CASE StoreHome /\ UNCHANGED dryVars
  BY <1>7, DryQuiet DEF StoreHome, Answer
<1>8. CASE BeginCommand
  <2>1. /\ lock = "free" /\ lock' = "soap" /\ soap' = "write" /\ device' = device
        /\ generation' = generation + 1 /\ generation \in Nat /\ asleep' = asleep
        /\ asleep \subseteq 1..generation
    BY <1>8 DEF DryIInv, DryTypeOK, TypeOK, Bookkeeping, GenerationsIssued, BeginCommand, LockCommand
  <2>2. generation' \notin asleep'
    BY <2>1
  <2>3. DryDeadline' = "none"
    BY <2>1, <2>2 DEF DryDeadline, TimerPending
  <2>4. QED
    BY <2>1, <2>3 DEF DryMotion!Next, DryMotion!Revoke, DryMotion!vars, Moving
<1>9. CASE StoreNext
  BY <1>9, StoreNextRefines
<1>10. CASE SpawnTimer /\ UNCHANGED dryVars
  <2>1. DryDeadline = "set" /\ DryDeadline' = "set"
    BY <1>10 DEF DryIInv, SpawnTimer, Answer, Bookkeeping, NewestTimer, DryDeadline, TimerPending
  <2>2. QED
    BY <1>10, <2>1, DryStutterRefines DEF SpawnTimer
<1>11. ASSUME NEW g \in asleep, DryTimerWakes(g) PROVE [DryMotion!Next]_(DryMotion!vars)
  <2>1. lock = "free" /\ device' = device
    BY <1>11 DEF DryTimerWakes, TimerWakes
  <2>2. CASE generation = g
    <3>1. DryDeadline = "set" /\ DryDeadline' = IF Moving' THEN "due" ELSE "none"
      BY <1>11, <2>2 DEF DryTimerWakes, TimerWakes, DryDeadline, TimerPending
    <3>2. CASE Moving
      BY <2>1, <3>1, <3>2 DEF DryMotion!Next, DryMotion!ComeDue, Moving
    <3>3. CASE ~Moving
      BY <2>1, <3>1, <3>3 DEF DryMotion!Next, DryMotion!Revoke, Moving
    <3>4. QED
      BY <3>2, <3>3
  <2>3. CASE generation # g
    <3>1. DryDeadline' = DryDeadline
      BY <1>11, <2>3 DEF DryTimerWakes, TimerWakes, DryDeadline, TimerPending, Moving
    <3>2. QED
      BY <2>1, <3>1, DryStutterRefines
  <2>4. QED
    BY <2>2, <2>3
<1>12. CASE TimerStoreNext
  BY <1>12, TimerStoreNextRefines
<1>13. CASE UNCHANGED allVars
  <2>1. device'.vel = device.vel /\ DryDeadline' = DryDeadline
    BY <1>13 DEF allVars, DryDeadline, TimerPending, Moving
  <2>2. QED
    BY <2>1, DryStutterRefines
<1>14. QED
  BY <1>1, <1>2, <1>3, <1>4, <1>5, <1>6, <1>7, <1>8, <1>9, <1>10, <1>11, <1>12, <1>13
     DEF DryNext, DrySoapStep

(* Every dry run, too, is a behaviour of one camera with one deadline,     *)
(* although a stop is two stores.                                          *)
THEOREM DryRunImplements == DrySpec => DryRunImplementsMotion
<1>1. QED
  BY DryInitRefines, DryStepRefines, DryInvariance, PTL
     DEF DrySpec, DryRunImplementsMotion, DryMotion!Spec

-----------------------------------------------------------------------------
(* Where no command can fail, no motion is left alone.                     *)

(* A camera that moves, and that no client command is being written to,    *)
(* has the timer of the newest generation started, starting or storing.    *)
DryMotionIsWatched == Moving /\ lock # "soap" => TimerPending

(* The last store of a command leaves a motion only to a ContinuousMove,   *)
(* the last store of a timer leaves none.                                  *)
LEMMA LastStores ==
    ASSUME DryIInv, DryIInv'
    PROVE  /\ StoreNext /\ lock' = "free" /\ Moving' => TimerPending'
           /\ TimerStoreNext /\ lock' = "free" => ~Moving'
<1>1. device \in Camera /\ device' \in Camera
  BY DEF DryIInv, DryTypeOK, TypeOK, Camera
<1>2. ASSUME StoreNext, lock' = "free", Moving'
      PROVE  TimerPending'
  <2>1. soap = "write" /\ lock = "soap" /\ stores' = <<>>
    BY <1>2 DEF StoreNext, DryIInv, Bookkeeping, HolderWrites
  <2>2. CASE req.op = "ContinuousMove"
    BY <1>2, <2>1, <2>2 DEF StoreNext, DryIInv, Bookkeeping, HolderWrites, TimerPending
  <2>3. CASE req.op # "ContinuousMove"
    <3>1. /\ Head(stores) = <<"tilt_speed", 0>>
          /\ device.vel.pan = 0
      <4>1. Len(stores) = 1
        BY <1>2, <2>1, SoapStoresAre DEF StoreNext
      <4>2. CommandVel.pan = 0 /\ CommandVel.tilt = 0
        BY <2>3 DEF CommandVel, Rest
      <4> QED
        BY <2>1, <4>1, <4>2, SoapStoresAre
    <3>2. device' = Stored("tilt_speed", 0)
      BY <1>2, <3>1 DEF StoreNext
    <3>3. 0 \in Fitting("tilt_speed") /\ "tilt_speed" \in Atomics
      BY ZeroIsInt DEF Fitting, Atomics
    <3>4. device'.vel.pan = 0 /\ device'.vel.tilt = 0
      BY <1>1, <3>1, <3>2, <3>3, StoredFields
    <3>5. device'.vel = Rest
      BY <1>1, <3>4 DEF Camera, Velocity, Rest
    <3> QED
      BY <1>2, <3>5 DEF Moving
  <2> QED
    BY <2>2, <2>3
<1>3. ASSUME TimerStoreNext, lock' = "free"
      PROVE  ~Moving'
  <2>1. lock = "timer" /\ stores' = <<>>
    BY <1>3 DEF TimerStoreNext
  <2>2. Head(stores) = <<"tilt_speed", 0>> /\ device.vel.pan = 0
    BY <1>3, <2>1, TimerStoresAre DEF TimerStoreNext
  <2>3. device' = Stored("tilt_speed", 0)
    BY <1>3, <2>2 DEF TimerStoreNext
  <2>4. 0 \in Fitting("tilt_speed") /\ "tilt_speed" \in Atomics
    BY ZeroIsInt DEF Fitting, Atomics
  <2>5. device'.vel.pan = 0 /\ device'.vel.tilt = 0
    BY <1>1, <2>2, <2>3, <2>4, StoredFields
  <2>6. device'.vel = Rest
    BY <1>1, <2>5 DEF Camera, Velocity, Rest
  <2> QED
    BY <2>6 DEF Moving
<1> QED
  BY <1>2, <1>3

(* What leaves the camera, the mutex, the counter and the timers alone. *)
LEMMA WatchedStays ==
    ASSUME DryMotionIsWatched, UNCHANGED <<device, lock, generation, asleep, stopper, mine>>,
           soap # "spawn"
    PROVE  DryMotionIsWatched'
  BY DEF DryMotionIsWatched, Moving, TimerPending

LEMMA WatchedIsKept ==
    DryIInv /\ DryIInv' /\ DryMotionIsWatched /\ [DryNext]_allVars => DryMotionIsWatched'
<1> SUFFICES ASSUME DryIInv, DryIInv', DryMotionIsWatched, [DryNext]_allVars
             PROVE  DryMotionIsWatched'
  OBVIOUS
<1>1. lock' = "timer" => TimerPending'
  BY DEF DryIInv, Bookkeeping, NewestTimer, TimerPending
<1>2. CASE (\E c \in Calls : Arrive(c)) \/ AskRail \/ PeerLetsGo \/ CheckCall \/ AnswerAtOnce \/ CallDevice \/ LoadNext
           \/ UseStatus \/ StoreHome
  <2>1. soap # "spawn"
    BY <1>2 DEF Arrive, AskRail, PeerLetsGo, CheckCall, AnswerAtOnce, CallDevice, Receive, LoadNext, UseStatus, StoreHome,
                DryIInv, CallFits, Undecided
  <2>2. UNCHANGED <<device, lock, generation, asleep, stopper, mine>>
    BY <1>2 DEF Arrive, AskRail, PeerLetsGo, CheckCall, AnswerAtOnce, CallDevice, Receive, LoadNext, UseStatus, StoreHome,
                vars, process
  <2> QED
    BY <2>1, <2>2, WatchedStays
<1>3. CASE BeginCommand
  BY <1>3 DEF BeginCommand, LockCommand, DryMotionIsWatched
<1>4. CASE StoreNext
  <2>1. lock' = "soap" \/ lock' = "free"
    BY <1>4 DEF StoreNext, DryIInv, Bookkeeping, HolderWrites
  <2> QED
    BY <1>4, <2>1, LastStores DEF DryMotionIsWatched
<1>5. CASE SpawnTimer
  BY <1>5 DEF SpawnTimer, DryMotionIsWatched, Moving, TimerPending, DryIInv, Bookkeeping, NewestTimer
<1>6. ASSUME NEW g \in asleep, DryTimerWakes(g)
      PROVE  DryMotionIsWatched'
  BY <1>1, <1>6 DEF DryTimerWakes, TimerWakes, DryMotionIsWatched, Moving, TimerPending, history
<1>7. CASE TimerStoreNext
  <2>1. lock' = "timer" \/ lock' = "free"
    BY <1>7 DEF TimerStoreNext
  <2> QED
    BY <1>1, <1>7, <2>1, LastStores DEF DryMotionIsWatched
<1>8. CASE UNCHANGED allVars
  BY <1>8 DEF allVars, vars, process, DryMotionIsWatched, Moving, TimerPending
<1> QED
  BY <1>2, <1>3, <1>4, <1>5, <1>6, <1>7, <1>8 DEF DryNext, DrySoapStep

(* With the camera of atomics a motion is never left without its timer: a  *)
(* camera that goes on for ever, which a failed write may leave behind on  *)
(* the device, is not there.                                               *)
THEOREM DryMotionWatched == DrySpec => []DryMotionIsWatched
<1>1. DryInit => DryMotionIsWatched
  BY DEF DryInit, Init, DryMotionIsWatched, Moving
<1> QED
  BY <1>1, WatchedIsKept, DryInvariance, PTL DEF DrySpec

-----------------------------------------------------------------------------
(* Progress, as on the device: that the mutex is all a thread waits for is *)
(* a hypothesis, checked by TLC.                                           *)

(* The stages of a call, with what is left to load or to store.  The       *)
(* thread waits for the mutex behind the stores of one timer at most.      *)
Checking == call # NoCall /\ verdict = "none"
Asked == verdict = "asked"
Held == verdict = "held"
Judged == verdict \notin Undecided
LoadsLeft(n) == soap = "read" /\ Len(loads) = n
BehindStores(n) == Behind /\ Len(stores) = n
StoresLeft(n) == soap = "write" /\ Len(stores) = n
CallDone == call = NoCall /\ soap = "idle"

AtTheLock == Contended \/ Unrivalled \/ BehindStores(2) \/ BehindStores(1)
InCommand == StoresLeft(1) \/ StoresLeft(2) \/ StoresLeft(3) \/ StoresLeft(4)

(* The numbers of loads and stores that occur. *)
LengthsFit ==
    /\ Len(loads) \in 0..4
    /\ Len(stores) \in 0..4
    /\ lock = "soap" => Len(stores) # 0
    /\ lock = "timer" => Len(stores) = 1 \/ Len(stores) = 2

LEMMA LengthsLeft == DryIInv => LengthsFit
<1> SUFFICES ASSUME DryIInv PROVE LengthsFit
  OBVIOUS
<1> DEFINE l == Len(loads)
           n == Len(stores)
<1>1. /\ loads \in Seq(Atomics) /\ l <= 4
      /\ stores \in Seq(Atomics \X Int) /\ n <= 4
      /\ stores # <<>> <=> lock # "free"
      /\ lock = "timer" => n <= 2
  BY DEF DryIInv, DryTypeOK, StoresFit
<1>2. l \in Nat /\ n \in Nat
  BY <1>1, LenProperties
<1>3. n = 0 => stores = <<>>
  BY <1>1, EmptySeq
<1>4. l <= 4 /\ n <= 4 /\ (lock # "free" => n # 0) /\ (lock = "timer" => n <= 2)
  BY <1>1, <1>3
<1> HIDE DEF l, n
<1>5. /\ l \in 0..4
      /\ n \in 0..4
      /\ lock = "soap" => n # 0
      /\ lock = "timer" => n = 1 \/ n = 2
  BY <1>2, <1>4
<1> QED
  BY <1>5 DEF LengthsFit, l, n

LEMMA CallStages ==
    DryIInv => \/ CallDone \/ Checking \/ Asked \/ Held \/ Judged \/ Storing \/ AtTheLock \/ InCommand \/ Spawning
               \/ LoadsLeft(0) \/ LoadsLeft(1) \/ LoadsLeft(2) \/ LoadsLeft(3) \/ LoadsLeft(4)
<1> SUFFICES ASSUME DryIInv, ~CallDone, ~Checking, ~Asked, ~Held, ~Judged
             PROVE  \/ Storing \/ AtTheLock \/ InCommand \/ Spawning
                    \/ LoadsLeft(0) \/ LoadsLeft(1) \/ LoadsLeft(2) \/ LoadsLeft(3) \/ LoadsLeft(4)
  OBVIOUS
<1>1. soap \in {"read", "store", "lock", "write", "spawn"}
  BY DEF DryIInv, DryTypeOK, TypeOK, CallDone, Checking, Asked, Held, Judged, Undecided
<1>2. soap = "read" => LoadsLeft(0) \/ LoadsLeft(1) \/ LoadsLeft(2) \/ LoadsLeft(3) \/ LoadsLeft(4)
  BY LengthsLeft DEF LengthsFit, LoadsLeft
<1>3. soap = "write" => InCommand
  BY LengthsLeft DEF LengthsFit, InCommand, StoresLeft, DryIInv, Bookkeeping, HolderWrites
<1>4. soap = "lock" => AtTheLock
  BY LengthsLeft DEF LengthsFit, AtTheLock, Behind, BehindStores, Contended, Unrivalled, DryIInv, DryTypeOK, TypeOK,
                     Bookkeeping, HolderWrites
<1> QED
  BY <1>1, <1>2, <1>3, <1>4 DEF Storing, Spawning

(* The same of the state after a step. *)
LEMMA NextStage ==
    ASSUME DryIInv'
    PROVE  /\ LengthsFit'
           /\ soap' = "lock" => AtTheLock'
           /\ soap' = "write" => InCommand'
<1>1. DryIInv' => LengthsFit'
  BY LengthsLeft, PTL
<1>2. LengthsFit'
  BY <1>1
<1>3. soap' = "write" => InCommand'
  BY <1>2 DEF LengthsFit, InCommand, StoresLeft, DryIInv, Bookkeeping, HolderWrites
<1>4. soap' = "lock" => AtTheLock'
  BY <1>2 DEF LengthsFit, AtTheLock, Behind, BehindStores, Contended, Unrivalled, DryIInv, DryTypeOK,
              TypeOK, Bookkeeping, HolderWrites
<1> QED
  BY <1>2, <1>3, <1>4

(* A step of the thread itself takes a call to its next stage. *)
LEMMA CallSteps ==
    ASSUME DryIInv, DryIInv', DrySoapStep
    PROVE  /\ Checking => Asked' \/ Held' \/ Judged'
           /\ ~Held
           /\ Asked => Judged'
           /\ Judged => CallDone' \/ LoadsLeft(4)' \/ AtTheLock'
           /\ \A n \in 1..4 : LoadsLeft(n) => LoadsLeft(n - 1)'
           /\ LoadsLeft(0) => CallDone' \/ Storing' \/ AtTheLock'
           /\ Storing => CallDone'
           /\ soap = "lock" => InCommand'
           /\ \A n \in 2..4 : StoresLeft(n) => StoresLeft(n - 1)'
           /\ StoresLeft(1) => CallDone' \/ Spawning'
           /\ Spawning => CallDone'
<1> USE DEF Checking, Asked, Held, Judged, Undecided, LoadsLeft, Storing, StoresLeft, Spawning, CallDone
<1>1. /\ call # NoCall => soap = "idle"
      /\ verdict # "none" => call # NoCall
      /\ soap = "write" => lock = "soap"
      /\ soap' = "lock" => AtTheLock'
      /\ soap' = "write" => InCommand'
  BY NextStage DEF DryIInv, CallFits, Bookkeeping, HolderWrites
<1>0. ~Held
  BY <1>1 DEF DrySoapStep, AskRail, CheckCall, AnswerAtOnce, CallDevice, LoadNext, UseStatus, StoreHome,
              BeginCommand, LockCommand, StoreNext, SpawnTimer
<1>2. CASE CheckCall
  <2>1. verdict' = Verdict(call)
    BY <1>2 DEF CheckCall
  <2>2. Verdict(call) \notin Undecided
    <3>1. ASSUME NEW i \in DOMAIN Checks PROVE Checks[i] \notin Undecided
      BY DEF Checks
    <3> QED
      BY <3>1, VerdictType DEF Range
  <2>3. call # NoCall /\ soap = "idle" /\ verdict \in Undecided
    BY <1>1, <1>2 DEF CheckCall
  <2> QED
    BY <1>0, <2>1, <2>2, <2>3
<1>3. CASE AnswerAtOnce
  BY <1>0, <1>1, <1>3 DEF AnswerAtOnce
<1>4. CASE CallDevice
  <2>1. soap = "idle" /\ soap' \in {"read", "lock"} /\ call # NoCall /\ verdict = "accepted"
    BY <1>1, <1>4 DEF CallDevice, Receive, FirstStep
  <2>2. soap' = "read" => Len(loads') = 4
    BY <1>4 DEF CallDevice, LoadOrder
  <2> QED
    BY <1>0, <1>1, <2>1, <2>2
<1>5. CASE LoadNext
  <2>1. soap = "read" /\ soap' = "read" /\ loads' = Tail(loads) /\ Len(loads) # 0
    <3>1. loads \in Seq(Atomics) /\ loads # <<>>
      BY <1>5 DEF LoadNext, DryIInv, DryTypeOK
    <3> QED
      BY <1>5, <3>1, EmptySeq DEF LoadNext, vars, process
  <2>2. Len(loads') = Len(loads) - 1
    BY <2>1, LoadsAre
  <2> QED
    BY <1>0, <1>1, <2>1, <2>2
<1>6. CASE UseStatus
  <2>1. /\ soap = "read" /\ Len(loads) = 0 /\ call' = call
        /\ soap' \in {"idle", "store", "lock"}
    BY <1>6 DEF UseStatus, Answer, frontVars
  <2> QED
    BY <1>0, <1>1, <2>1
<1>7. CASE StoreHome /\ UNCHANGED dryVars
  BY <1>0, <1>1, <1>7 DEF StoreHome, Answer, dryVars, frontVars
<1>8. CASE BeginCommand
  BY <1>0, <1>1, <1>8 DEF BeginCommand, LockCommand
<1>9. CASE StoreNext
  <2>1. /\ soap = "write" /\ call' = call /\ stores' = Tail(stores)
        /\ soap' = "write" \/ (soap' \in {"idle", "spawn"} /\ stores' = <<>>)
        /\ stores' # <<>> => soap' = "write"
        /\ stores' = <<>> => soap' \in {"idle", "spawn"}
    BY <1>9 DEF StoreNext, Answer, frontVars
  <2>2. /\ Len(Tail(stores)) = Len(stores) - 1
        /\ Tail(stores) # <<>> <=> Len(stores) # 1
    BY <1>1, <2>1, SoapStoresAre
  <2> QED
    BY <1>0, <1>1, <2>1, <2>2
<1>10. CASE SpawnTimer /\ UNCHANGED dryVars
  BY <1>0, <1>1, <1>10 DEF SpawnTimer, Answer, dryVars, frontVars
<1>11. CASE AskRail
  BY <1>0, <1>1, <1>11 DEF AskRail
<1> QED
  BY <1>2, <1>3, <1>4, <1>5, <1>6, <1>7, <1>8, <1>9, <1>10, <1>11 DEF DrySoapStep

(* While a call is under way, the timers wait or hold the thread up, but   *)
(* do not touch what it has done; nor does rail-media.                     *)
LEMMA CallWaits ==
    ASSUME DryIInv, [DryNext]_allVars, ~CallDone
    PROVE  \/ DrySoapStep
           \/ PeerLetsGo
           \/ /\ UNCHANGED <<soap, call, verdict, loads>>
              /\ soap = "write" => UNCHANGED stores
<1>1. soap = "write" => lock = "soap"
  BY DEF DryIInv, Bookkeeping, HolderWrites
<1>2. ASSUME NEW c \in Calls PROVE ~Arrive(c)
  BY DEF Arrive, CallDone
<1>3. ASSUME NEW g \in asleep, DryTimerWakes(g)
      PROVE  UNCHANGED <<soap, call, verdict, loads>> /\ soap # "write"
  BY <1>1, <1>3 DEF DryTimerWakes, TimerWakes, frontVars
<1>4. CASE TimerStoreNext
  BY <1>1, <1>4 DEF TimerStoreNext, frontVars
<1>5. CASE UNCHANGED allVars
  BY <1>5 DEF allVars, vars, process, dryVars, frontVars
<1> QED
  BY <1>2, <1>3, <1>4, <1>5 DEF DryNext

(* At the mutex the thread is overtaken by one timer at most, which has    *)
(* two stores to do.                                                       *)
LEMMA OneTimerFirst ==
    ASSUME DryIInv, DryIInv', [DryNext]_allVars, soap = "lock", soap' = "lock"
    PROVE  /\ Contended => Contended' \/ BehindStores(2)' \/ Unrivalled'
           /\ BehindStores(2) => BehindStores(2)' \/ BehindStores(1)'
           /\ BehindStores(1) => BehindStores(1)' \/ Unrivalled'
           /\ Unrivalled => Unrivalled'
           /\ TimerStoreNext => ~(BehindStores(2) /\ BehindStores(2)') /\ ~(BehindStores(1) /\ BehindStores(1)')
<1> USE DEF Contended, Unrivalled, BehindStores, Behind
<1>1. CASE TimerStoreNext
  <2>1. lock = "timer" /\ stores' = Tail(stores) /\ asleep' = asleep
        /\ IF stores' # <<>> THEN UNCHANGED <<generation, lock>>
           ELSE generation' = generation + 1 /\ lock' = "free"
    BY <1>1 DEF TimerStoreNext
  <2>2. \/ Tail(stores) # <<>> /\ Len(Tail(stores)) = 1 /\ Len(stores) = 2
        \/ Tail(stores) = <<>> /\ Len(stores) = 1
    <3>1. stores \in Seq(Atomics \X Int) /\ stores # <<>>
      BY <2>1 DEF DryIInv, DryTypeOK
    <3>2. Len(Tail(stores)) = Len(stores) - 1 /\ Len(stores) \in Nat
      BY <3>1, HeadTailProperties, LenProperties
    <3>3. Tail(stores) = <<>> => Len(Tail(stores)) = 0
      BY EmptySeq
    <3>4. \/ Tail(stores) # <<>> /\ Len(Tail(stores)) = 1
          \/ Tail(stores) = <<>>
      BY <2>1, TimerStoresAre
    <3> QED
      BY <3>2, <3>3, <3>4
  <2>3. generation + 1 \notin asleep
    BY DEF DryIInv, DryTypeOK, TypeOK, Bookkeeping, GenerationsIssued
  <2>4. CASE Len(stores) = 2
    <3>1. stores' # <<>> /\ Len(stores') = 1
      BY <2>1, <2>2, <2>4
    <3>2. lock' = "timer"
      BY <2>1, <3>1
    <3> QED
      BY <2>1, <2>4, <3>1, <3>2, SMTT(60)
  <2>5. CASE Len(stores) = 1
    <3>1. stores' = <<>>
      BY <2>1, <2>2, <2>5
    <3>2. lock' = "free" /\ generation' \notin asleep'
      BY <2>1, <2>3, <3>1
    <3> QED
      BY <2>1, <2>5, <3>2
  <2> QED
    BY <2>2, <2>4, <2>5
<1>2. ASSUME NEW g \in asleep, DryTimerWakes(g), ~TimerStoreNext
      PROVE  lock = "free" /\ (Contended => Contended' \/ BehindStores(2)' \/ Unrivalled') /\ (Unrivalled => Unrivalled')
  <2>1. lock = "free" /\ asleep' = asleep \ {g} /\ UNCHANGED generation
        /\ (generation = g => lock' = "timer" /\ stores' = StopStores)
        /\ (generation # g => lock' = "free")
    BY <1>2 DEF DryTimerWakes, TimerWakes
  <2>2. Len(StopStores) = 2
    BY DEF StopStores
  <2> QED
    BY <2>1, <2>2
<1>3. CASE UNCHANGED <<lock, generation, asleep, stores>> /\ ~TimerStoreNext
  BY <1>3
<1>4. \/ TimerStoreNext
      \/ \E g \in asleep : DryTimerWakes(g)
      \/ UNCHANGED <<lock, generation, asleep, stores>>
  <2>1. ~CallDone
    BY DEF CallDone
  <2>2. CASE DrySoapStep
    <3>1. call = NoCall
      BY DEF DryIInv, CallFits
    <3> QED
      BY <2>2, <3>1 DEF DrySoapStep, AskRail, CheckCall, AnswerAtOnce, CallDevice, Receive, LoadNext, UseStatus,
                        StoreHome, BeginCommand, LockCommand, StoreNext, SpawnTimer, DryIInv, CallFits
  <2>3. ASSUME NEW c \in Calls PROVE ~Arrive(c)
    BY DEF Arrive
  <2>4. ~PeerLetsGo
    BY DEF PeerLetsGo, DryIInv, CallFits
  <2> QED
    BY <2>2, <2>3, <2>4 DEF DryNext, allVars, vars, process, dryVars
<1> QED
  BY <1>1, <1>2, <1>3, <1>4

LEMMA DryEnabled ==
    DryIInv /\ DryOnlyTheMutexBlocks =>
        /\ ~CallDone /\ ~Held /\ ~BehindStores(1) /\ ~BehindStores(2) => ENABLED <<DrySoapStep>>_allVars
        /\ BehindStores(1) \/ BehindStores(2) => ENABLED <<TimerStoreNext>>_allVars
<1>1. DryIInv => LengthsFit
  BY LengthsLeft
<1> QED
  BY <1>1 DEF DryOnlyTheMutexBlocks, CallDone, Held, BehindStores, Behind, LengthsFit, DryIInv, DryTypeOK, TypeOK,
          Bookkeeping, HolderWrites

(* The stages before the mutex, at it, and after it, in their order. *)
LEMMA CallSuccessors ==
    ASSUME DryIInv, DryIInv', [DryNext]_allVars
    PROVE  /\ Checking => Checking' \/ Asked' \/ Held' \/ Judged'
           /\ Asked => Asked' \/ Judged'
           /\ Held => Held' \/ Asked'
           /\ Judged => Judged' \/ CallDone' \/ LoadsLeft(4)' \/ AtTheLock'
           /\ LoadsLeft(4) => LoadsLeft(4)' \/ LoadsLeft(3)'
           /\ LoadsLeft(3) => LoadsLeft(3)' \/ LoadsLeft(2)'
           /\ LoadsLeft(2) => LoadsLeft(2)' \/ LoadsLeft(1)'
           /\ LoadsLeft(1) => LoadsLeft(1)' \/ LoadsLeft(0)'
           /\ LoadsLeft(0) => LoadsLeft(0)' \/ CallDone' \/ Storing' \/ AtTheLock'
           /\ Storing => Storing' \/ CallDone'
           /\ Contended => Contended' \/ BehindStores(2)' \/ Unrivalled' \/ InCommand'
           /\ BehindStores(2) => BehindStores(2)' \/ BehindStores(1)' \/ InCommand'
           /\ BehindStores(1) => BehindStores(1)' \/ Unrivalled' \/ InCommand'
           /\ Unrivalled => Unrivalled' \/ InCommand'
           /\ StoresLeft(4) => StoresLeft(4)' \/ StoresLeft(3)'
           /\ StoresLeft(3) => StoresLeft(3)' \/ StoresLeft(2)'
           /\ StoresLeft(2) => StoresLeft(2)' \/ StoresLeft(1)'
           /\ StoresLeft(1) => StoresLeft(1)' \/ CallDone' \/ Spawning'
           /\ Spawning => Spawning' \/ CallDone'
<1>1. ASSUME NEW n PROVE (LoadsLeft(n) \/ StoresLeft(n)) => ~CallDone
  BY DEF LoadsLeft, StoresLeft, CallDone
<1>2. Checking \/ Asked \/ Held \/ Judged \/ Storing \/ Spawning \/ soap = "lock" => ~CallDone
  BY DEF Checking, Asked, Held, Judged, Undecided, Storing, Spawning, CallDone, DryIInv, CallFits
<1>3. Contended \/ BehindStores(1) \/ BehindStores(2) \/ Unrivalled => soap = "lock"
  BY DEF Contended, BehindStores, Behind, Unrivalled
<1>4. CASE CallDone
  BY <1>1, <1>2, <1>3, <1>4
<1>5. CASE DrySoapStep
  <2>1. /\ LoadsLeft(4) => LoadsLeft(3)'
        /\ LoadsLeft(3) => LoadsLeft(2)'
        /\ LoadsLeft(2) => LoadsLeft(1)'
        /\ LoadsLeft(1) => LoadsLeft(0)'
    BY <1>5, CallSteps
  <2>2. /\ StoresLeft(4) => StoresLeft(3)'
        /\ StoresLeft(3) => StoresLeft(2)'
        /\ StoresLeft(2) => StoresLeft(1)'
    BY <1>5, CallSteps
  <2> QED
    BY <1>3, <1>5, <2>1, <2>2, CallSteps
<1>6. CASE /\ UNCHANGED <<soap, call, verdict, loads>>
           /\ soap = "write" => UNCHANGED stores
  <2>1. /\ \A n : LoadsLeft(n) => LoadsLeft(n)'
        /\ \A n : StoresLeft(n) => StoresLeft(n)'
        /\ Checking => Checking'
        /\ Asked => Asked'
        /\ Held => Held'
        /\ Judged => Judged'
        /\ Storing => Storing'
        /\ Spawning => Spawning'
    BY <1>6 DEF LoadsLeft, StoresLeft, Checking, Asked, Held, Judged, Storing, Spawning
  <2>2. soap = "lock" => soap' = "lock"
    BY <1>6
  <2> QED
    BY <1>3, <2>1, <2>2, OneTimerFirst
<1>7. CASE PeerLetsGo
  <2>1. soap = "idle" /\ Held /\ Asked'
    BY <1>7 DEF PeerLetsGo, Held, Asked, DryIInv, CallFits
  <2> QED
    BY <1>1, <1>3, <2>1 DEF Checking, Asked, Held, Judged, Undecided, Storing, Spawning, LoadsLeft, StoresLeft
<1> QED
  BY <1>4, <1>5, <1>6, <1>7, CallWaits

(* The step each stage waits for leaves it. *)
LEMMA CallLeft ==
    ASSUME DryIInv, DryIInv', DrySoapStep
    PROVE  /\ Checking => ~Checking'
           /\ Asked => ~Asked'
           /\ Judged => ~Judged'
           /\ LoadsLeft(4) => ~LoadsLeft(4)'
           /\ LoadsLeft(3) => ~LoadsLeft(3)'
           /\ LoadsLeft(2) => ~LoadsLeft(2)'
           /\ LoadsLeft(1) => ~LoadsLeft(1)'
           /\ LoadsLeft(0) => ~LoadsLeft(0)'
           /\ Storing => ~Storing'
           /\ Contended => ~Contended'
           /\ Unrivalled => ~Unrivalled'
           /\ StoresLeft(4) => ~StoresLeft(4)'
           /\ StoresLeft(3) => ~StoresLeft(3)'
           /\ StoresLeft(2) => ~StoresLeft(2)'
           /\ StoresLeft(1) => ~StoresLeft(1)'
           /\ Spawning => ~Spawning'
<1>1. /\ call' # NoCall => soap' = "idle"
      /\ verdict' # "none" => call' # NoCall
  BY DEF DryIInv, CallFits
<1>2. \A n, m \in 0..4 : n # m => ~(LoadsLeft(n)' /\ LoadsLeft(m)') /\ ~(StoresLeft(n)' /\ StoresLeft(m)')
  BY DEF LoadsLeft, StoresLeft
<1>3. /\ Checking => ~Checking'
      /\ Asked => ~Asked'
      /\ Judged => ~Judged'
      /\ LoadsLeft(0) => ~LoadsLeft(0)'
      /\ Storing => ~Storing'
      /\ Contended \/ Unrivalled => ~Contended' /\ ~Unrivalled'
      /\ StoresLeft(1) => ~StoresLeft(1)'
      /\ Spawning => ~Spawning'
  BY <1>1, CallSteps DEF Checking, Asked, Held, Judged, Undecided, LoadsLeft, Storing, AtTheLock, Contended, Unrivalled, BehindStores,
                         Behind, InCommand, StoresLeft, Spawning, CallDone
<1>4. /\ LoadsLeft(4) => LoadsLeft(3)'
      /\ LoadsLeft(3) => LoadsLeft(2)'
      /\ LoadsLeft(2) => LoadsLeft(1)'
      /\ LoadsLeft(1) => LoadsLeft(0)'
  BY CallSteps
<1>5. /\ StoresLeft(4) => StoresLeft(3)'
      /\ StoresLeft(3) => StoresLeft(2)'
      /\ StoresLeft(2) => StoresLeft(1)'
  BY CallSteps
<1> QED
  BY <1>2, <1>3, <1>4, <1>5

(* The stages whose next step is the thread's own. *)
OwnTurn ==
    \/ Checking \/ Asked \/ Judged \/ Storing \/ Contended \/ Unrivalled \/ InCommand \/ Spawning
    \/ LoadsLeft(0) \/ LoadsLeft(1) \/ LoadsLeft(2) \/ LoadsLeft(3) \/ LoadsLeft(4)

LEMMA OwnTurnEnabled == DryIInv /\ DryOnlyTheMutexBlocks /\ OwnTurn => ENABLED <<DrySoapStep>>_allVars
<1>1. DryIInv /\ OwnTurn => ~CallDone /\ ~Held /\ ~BehindStores(1) /\ ~BehindStores(2)
  BY DEF OwnTurn, Checking, Asked, Held, Judged, Undecided, Storing, Contended, Unrivalled, InCommand, StoresLeft, Spawning,
         LoadsLeft, CallDone, BehindStores, Behind, DryIInv, CallFits
<1> QED
  BY <1>1, DryEnabled

(* A call is answered, unless rail-media holds its exchange for ever: the  *)
(* thread loads and stores what it has to, and at the mutex it waits for   *)
(* the two stores of one timer at most.                                    *)
THEOREM DryAnswered == DryFairSpec /\ []DryOnlyTheMutexBlocks => CallsAreAnswered
<1> DEFINE Good == DryIInv /\ DryOnlyTheMutexBlocks
           Assumed == []Good /\ [][DryNext]_allVars /\ DryFairness
<1>1. DryFairSpec /\ []DryOnlyTheMutexBlocks => Assumed
  BY DryInvariance, PTL DEF DryFairSpec, DrySpec
<1>2. Good /\ Good' /\ [DryNext]_allVars =>
          /\ Checking => Checking' \/ Asked' \/ Held' \/ Judged'
          /\ Asked => Asked' \/ Judged'
          /\ Held => Held' \/ Asked'
          /\ Judged => Judged' \/ CallDone' \/ LoadsLeft(4)' \/ AtTheLock'
          /\ LoadsLeft(4) => LoadsLeft(4)' \/ LoadsLeft(3)'
          /\ LoadsLeft(3) => LoadsLeft(3)' \/ LoadsLeft(2)'
          /\ LoadsLeft(2) => LoadsLeft(2)' \/ LoadsLeft(1)'
          /\ LoadsLeft(1) => LoadsLeft(1)' \/ LoadsLeft(0)'
          /\ LoadsLeft(0) => LoadsLeft(0)' \/ CallDone' \/ Storing' \/ AtTheLock'
          /\ Storing => Storing' \/ CallDone'
          /\ Contended => Contended' \/ BehindStores(2)' \/ Unrivalled' \/ InCommand'
          /\ BehindStores(2) => BehindStores(2)' \/ BehindStores(1)' \/ InCommand'
          /\ BehindStores(1) => BehindStores(1)' \/ Unrivalled' \/ InCommand'
          /\ Unrivalled => Unrivalled' \/ InCommand'
          /\ StoresLeft(4) => StoresLeft(4)' \/ StoresLeft(3)'
          /\ StoresLeft(3) => StoresLeft(3)' \/ StoresLeft(2)'
          /\ StoresLeft(2) => StoresLeft(2)' \/ StoresLeft(1)'
          /\ StoresLeft(1) => StoresLeft(1)' \/ CallDone' \/ Spawning'
          /\ Spawning => Spawning' \/ CallDone'
  BY CallSuccessors
<1>3. Good /\ Good' /\ DrySoapStep =>
          /\ Checking => ~Checking'
          /\ Asked => ~Asked'
          /\ Judged => ~Judged'
          /\ LoadsLeft(4) => ~LoadsLeft(4)'
          /\ LoadsLeft(3) => ~LoadsLeft(3)'
          /\ LoadsLeft(2) => ~LoadsLeft(2)'
          /\ LoadsLeft(1) => ~LoadsLeft(1)'
          /\ LoadsLeft(0) => ~LoadsLeft(0)'
          /\ Storing => ~Storing'
          /\ Contended => ~Contended'
          /\ Unrivalled => ~Unrivalled'
          /\ StoresLeft(4) => ~StoresLeft(4)'
          /\ StoresLeft(3) => ~StoresLeft(3)'
          /\ StoresLeft(2) => ~StoresLeft(2)'
          /\ StoresLeft(1) => ~StoresLeft(1)'
          /\ Spawning => ~Spawning'
  BY CallLeft
<1>4. Good /\ Good' /\ [DryNext]_allVars /\ TimerStoreNext =>
          /\ BehindStores(2) => ~BehindStores(2)'
          /\ BehindStores(1) => ~BehindStores(1)'
  BY OneTimerFirst DEF BehindStores, Behind
<1>5. Good => /\ OwnTurn => ENABLED <<DrySoapStep>>_allVars
              /\ BehindStores(1) \/ BehindStores(2) => ENABLED <<TimerStoreNext>>_allVars
  BY OwnTurnEnabled, DryEnabled
<1>6. /\ Checking \/ Asked \/ Judged \/ Storing \/ Contended \/ Unrivalled \/ Spawning => OwnTurn
      /\ LoadsLeft(0) \/ LoadsLeft(1) \/ LoadsLeft(2) \/ LoadsLeft(3) \/ LoadsLeft(4) => OwnTurn
      /\ StoresLeft(1) \/ StoresLeft(2) \/ StoresLeft(3) \/ StoresLeft(4) => OwnTurn
  BY DEF OwnTurn, InCommand
<1>7. /\ AtTheLock <=> Contended \/ Unrivalled \/ BehindStores(2) \/ BehindStores(1)
      /\ InCommand <=> StoresLeft(1) \/ StoresLeft(2) \/ StoresLeft(3) \/ StoresLeft(4)
  BY DEF AtTheLock, InCommand
<1>8. Assumed => []Good /\ [][DryNext]_allVars /\ DryFairness
  OBVIOUS
<1>9. DryFairness => WF_allVars(DrySoapStep) /\ WF_allVars(TimerStoreNext)
  BY PTL DEF DryFairness
<1> HIDE DEF Good, Assumed
<1>10. Assumed => (Spawning ~> CallDone)
  BY <1>2, <1>3, <1>5, <1>6, <1>8, <1>9, PTL
<1>11. Assumed => (StoresLeft(1) ~> CallDone \/ Spawning)
  BY <1>2, <1>3, <1>5, <1>6, <1>8, <1>9, PTL
<1>12. Assumed => (StoresLeft(2) ~> StoresLeft(1))
  BY <1>2, <1>3, <1>5, <1>6, <1>8, <1>9, PTL
<1>13. Assumed => (StoresLeft(3) ~> StoresLeft(2))
  BY <1>2, <1>3, <1>5, <1>6, <1>8, <1>9, PTL
<1>14. Assumed => (StoresLeft(4) ~> StoresLeft(3))
  BY <1>2, <1>3, <1>5, <1>6, <1>8, <1>9, PTL
<1>15. Assumed => (InCommand ~> CallDone)
  BY <1>7, <1>10, <1>11, <1>12, <1>13, <1>14, PTL
<1>16. Assumed => (Unrivalled ~> InCommand)
  BY <1>2, <1>3, <1>5, <1>6, <1>8, <1>9, PTL
<1>17. Assumed => (BehindStores(1) ~> Unrivalled \/ InCommand)
  BY <1>2, <1>4, <1>5, <1>8, <1>9, PTL
<1>18. Assumed => (BehindStores(2) ~> BehindStores(1) \/ InCommand)
  BY <1>2, <1>4, <1>5, <1>8, <1>9, PTL
<1>19. Assumed => (Contended ~> BehindStores(2) \/ Unrivalled \/ InCommand)
  BY <1>2, <1>3, <1>5, <1>6, <1>8, <1>9, PTL
<1>20. Assumed => (AtTheLock ~> CallDone)
  BY <1>7, <1>16, <1>17, <1>18, <1>19, <1>15, PTL
<1>21. Assumed => (Storing ~> CallDone)
  BY <1>2, <1>3, <1>5, <1>6, <1>8, <1>9, PTL
<1>22. Assumed => (LoadsLeft(0) ~> CallDone \/ Storing \/ AtTheLock)
  BY <1>2, <1>3, <1>5, <1>6, <1>8, <1>9, PTL
<1>23. Assumed => (LoadsLeft(1) ~> LoadsLeft(0))
  BY <1>2, <1>3, <1>5, <1>6, <1>8, <1>9, PTL
<1>24. Assumed => (LoadsLeft(2) ~> LoadsLeft(1))
  BY <1>2, <1>3, <1>5, <1>6, <1>8, <1>9, PTL
<1>25. Assumed => (LoadsLeft(3) ~> LoadsLeft(2))
  BY <1>2, <1>3, <1>5, <1>6, <1>8, <1>9, PTL
<1>26. Assumed => (LoadsLeft(4) ~> LoadsLeft(3))
  BY <1>2, <1>3, <1>5, <1>6, <1>8, <1>9, PTL
<1>27. Assumed => (Storing ~> CallDone)
  BY <1>7, <1>21, PTL
<1>28. Assumed => (LoadsLeft(0) ~> CallDone)
  BY <1>7, <1>22, <1>27, <1>20, PTL
<1>29. Assumed => (LoadsLeft(1) ~> CallDone)
  BY <1>7, <1>23, <1>28, PTL
<1>30. Assumed => (LoadsLeft(2) ~> CallDone)
  BY <1>7, <1>24, <1>29, PTL
<1>31. Assumed => (LoadsLeft(3) ~> CallDone)
  BY <1>7, <1>25, <1>30, PTL
<1>32. Assumed => (LoadsLeft(4) ~> CallDone)
  BY <1>7, <1>26, <1>31, PTL
<1>33. Assumed => (Judged ~> CallDone \/ LoadsLeft(4) \/ AtTheLock)
  BY <1>2, <1>3, <1>5, <1>6, <1>8, <1>9, PTL
<1>34. Assumed => (Judged ~> CallDone)
  BY <1>7, <1>33, <1>32, <1>20, PTL
<1>35. Assumed => (Checking ~> Asked \/ Held \/ Judged)
  BY <1>2, <1>3, <1>5, <1>6, <1>8, <1>9, PTL
<1>36. Assumed => (Asked ~> Judged)
  BY <1>2, <1>3, <1>5, <1>6, <1>8, <1>9, PTL
<1>37. Assumed => (Asked ~> CallDone)
  BY <1>36, <1>34, PTL
<1>38. Assumed => (Held ~> Asked \/ []Held)
  BY <1>2, <1>8, PTL
<1>39. Assumed => (Held ~> CallDone \/ []Held)
  BY <1>37, <1>38, PTL
<1>40. Assumed => (Checking ~> CallDone \/ []Held)
  BY <1>35, <1>34, <1>37, <1>39, PTL
<1>41. Good => \/ CallDone \/ Checking \/ Asked \/ Held \/ Judged \/ Storing \/ AtTheLock \/ InCommand \/ Spawning
              \/ LoadsLeft(0) \/ LoadsLeft(1) \/ LoadsLeft(2) \/ LoadsLeft(3) \/ LoadsLeft(4)
  BY CallStages DEF Good
<1>42. Assumed => (~CallDone ~> CallDone \/ []Held)
  BY <1>8, <1>41, <1>40, <1>37, <1>39, <1>34, <1>27, <1>20, <1>15, <1>28, <1>29, <1>30, <1>31, <1>32, <1>10, PTL
<1>43. /\ call # NoCall \/ soap # "idle" <=> ~CallDone
       /\ call = NoCall /\ soap = "idle" <=> CallDone
       /\ verdict = "held" <=> Held
  BY DEF CallDone, Held
<1> QED
  BY <1>1, <1>42, <1>43, PTL DEF CallsAreAnswered

(* The motion of generation g with what is left to store: of the command   *)
(* that supersedes it, or of its timer.                                    *)
SupersededBy(g, n) == MotionOf(g) /\ lock = "soap" /\ generation # g /\ Len(stores) = n
StoppingBy(g, n) == MotionOf(g) /\ lock = "timer" /\ Len(stores) = n
BeingSuperseded(g) == SupersededBy(g, 1) \/ SupersededBy(g, 2) \/ SupersededBy(g, 3) \/ SupersededBy(g, 4)

LEMMA DryMotionCases ==
    ASSUME NEW g \in Generations, DryIInv, TimerOf(g)
    PROVE  Sleeping(g) \/ BeingSuperseded(g) \/ StoppingBy(g, 1) \/ StoppingBy(g, 2)
  BY LengthsLeft DEF LengthsFit, DryIInv, DryTypeOK, TypeOK, Bookkeeping, HolderWrites, NewestTimer, TimerOf,
                     MotionOf, Sleeping, SupersededBy, BeingSuperseded, StoppingBy

(* The next store of whoever holds the mutex: the last one of a command    *)
(* makes its generation the cause, the last one of a timer ends all motion.*)
LEMMA HoldersStores ==
    ASSUME NEW g \in Generations, DryIInv, DryIInv'
    PROVE  /\ StoreNext => /\ lock = "soap"
                           /\ \A n \in 2..4 : SupersededBy(g, n) => SupersededBy(g, n - 1)' \/ Over(g)'
                           /\ SupersededBy(g, 1) => Over(g)'
           /\ TimerStoreNext => /\ lock = "timer"
                                /\ StoppingBy(g, 2) => StoppingBy(g, 1)' \/ Over(g)'
                                /\ StoppingBy(g, 1) => Over(g)'
<1> USE DEF SupersededBy, StoppingBy, MotionOf, Over
<1>1. ASSUME StoreNext
      PROVE  /\ lock = "soap"
             /\ \A n \in 2..4 : SupersededBy(g, n) => SupersededBy(g, n - 1)' \/ Over(g)'
             /\ SupersededBy(g, 1) => Over(g)'
  <2>1. /\ lock = "soap" /\ stores' = Tail(stores) /\ generation' = generation
        /\ stores' # <<>> => lock' = lock /\ cause' = cause
        /\ stores' = <<>> => cause' = generation
    BY <1>1 DEF StoreNext, DryIInv, Bookkeeping, HolderWrites
  <2>2. /\ Len(Tail(stores)) = Len(stores) - 1
        /\ Tail(stores) # <<>> <=> Len(stores) # 1
    BY <2>1, SoapStoresAre
  <2> QED
    BY <2>1, <2>2
<1>2. ASSUME TimerStoreNext
      PROVE  /\ lock = "timer"
             /\ StoppingBy(g, 2) => StoppingBy(g, 1)' \/ Over(g)'
             /\ StoppingBy(g, 1) => Over(g)'
  <2>1. /\ lock = "timer" /\ stores' = Tail(stores) /\ cause' = cause
        /\ stores' # <<>> => lock' = "timer"
        /\ stores' = <<>> => lock' = "free"
    BY <1>2 DEF TimerStoreNext
  <2>2. \/ Tail(stores) # <<>> /\ Len(Tail(stores)) = 1 /\ Len(stores) = 2
        \/ Tail(stores) = <<>> /\ Len(stores) = 1
    <3>1. stores \in Seq(Atomics \X Int) /\ stores # <<>>
      BY <2>1 DEF DryIInv, DryTypeOK
    <3>2. Len(Tail(stores)) = Len(stores) - 1 /\ Len(stores) \in Nat
      BY <3>1, HeadTailProperties, LenProperties
    <3>3. Tail(stores) = <<>> => Len(Tail(stores)) = 0
      BY EmptySeq
    <3>4. \/ Tail(stores) # <<>> /\ Len(Tail(stores)) = 1
          \/ Tail(stores) = <<>>
      BY <2>1, TimerStoresAre
    <3> QED
      BY <3>2, <3>3, <3>4
  <2>3. CASE stores' = <<>>
    <3>1. ~Moving'
      BY <1>2, <2>1, <2>3, LastStores
    <3>2. Len(stores) # 2
      BY <2>1, <2>2, <2>3
    <3> QED
      BY <2>1, <3>1, <3>2
  <2>4. CASE stores' # <<>>
    <3>1. Len(stores) = 2 /\ Len(stores') = 1
      BY <2>1, <2>2, <2>4
    <3>2. lock' = "timer"
      BY <2>1, <2>4
    <3> QED
      BY <2>1, <3>1, <3>2
  <2> QED
    BY <2>3, <2>4
<1> QED
  BY <1>1, <1>2

(* What touches neither mutex nor camera leaves a motion in its stage. *)
LEMMA MotionStays ==
    ASSUME NEW g, UNCHANGED <<device.vel, cause, lock, generation, stores>>, asleep \subseteq asleep'
    PROVE  /\ Sleeping(g) => Sleeping(g)'
           /\ \A n : SupersededBy(g, n) => SupersededBy(g, n)'
           /\ \A n : StoppingBy(g, n) => StoppingBy(g, n)'
  BY DEF Sleeping, SupersededBy, StoppingBy, MotionOf, Moving

LEMMA DryMotionSuccessors ==
    ASSUME NEW g \in Generations, DryIInv, DryIInv', DryMotionIsWatched, [DryNext]_allVars
    PROVE  /\ Sleeping(g) => Sleeping(g)' \/ BeingSuperseded(g)' \/ StoppingBy(g, 2)' \/ Over(g)'
           /\ SupersededBy(g, 4) => SupersededBy(g, 4)' \/ SupersededBy(g, 3)' \/ Over(g)'
           /\ SupersededBy(g, 3) => SupersededBy(g, 3)' \/ SupersededBy(g, 2)' \/ Over(g)'
           /\ SupersededBy(g, 2) => SupersededBy(g, 2)' \/ SupersededBy(g, 1)' \/ Over(g)'
           /\ SupersededBy(g, 1) => SupersededBy(g, 1)' \/ Over(g)'
           /\ StoppingBy(g, 2) => StoppingBy(g, 2)' \/ StoppingBy(g, 1)' \/ Over(g)'
           /\ StoppingBy(g, 1) => StoppingBy(g, 1)' \/ Over(g)'
<1>1. Sleeping(g) => generation = g /\ lock = "free"
  BY DEF DryMotionIsWatched, DryIInv, Bookkeeping, NewestTimer, Sleeping, MotionOf
<1>2. (\E n : SupersededBy(g, n)) => lock = "soap"
  BY DEF SupersededBy
<1>3. (\E n : StoppingBy(g, n)) => lock = "timer"
  BY DEF StoppingBy
<1>4. CASE \/ \E c \in Calls : Arrive(c)
           \/ AskRail \/ PeerLetsGo \/ CheckCall \/ AnswerAtOnce \/ CallDevice \/ LoadNext \/ UseStatus
           \/ (StoreHome \/ SpawnTimer) /\ UNCHANGED dryVars
           \/ UNCHANGED allVars
  <2>1. UNCHANGED <<device.vel, cause, lock, generation, stores>> /\ asleep \subseteq asleep'
    BY <1>4 DEF Arrive, AskRail, PeerLetsGo, CheckCall, AnswerAtOnce, CallDevice, Receive, LoadNext, UseStatus, StoreHome,
                SpawnTimer, allVars, vars, process, history, dryVars
  <2> QED
    BY <2>1, MotionStays
<1>5. CASE BeginCommand
  <2>1. lock = "free" /\ lock' = "soap" /\ generation' = generation + 1 /\ generation \in Nat
        /\ UNCHANGED <<device, cause>> /\ stores' = CommandStores
    BY <1>5 DEF BeginCommand, LockCommand, DryIInv, DryTypeOK, TypeOK, history
  <2>2. Len(stores') \in 1..4
    BY <2>1, NextStage DEF LengthsFit
  <2>3. Sleeping(g) => BeingSuperseded(g)'
    BY <1>1, <2>1, <2>2 DEF Sleeping, MotionOf, Moving, BeingSuperseded, SupersededBy
  <2> QED
    BY <1>2, <1>3, <2>1, <2>3
<1>6. CASE StoreNext
  <2>1. /\ lock = "soap"
        /\ SupersededBy(g, 4) => SupersededBy(g, 3)' \/ Over(g)'
        /\ SupersededBy(g, 3) => SupersededBy(g, 2)' \/ Over(g)'
        /\ SupersededBy(g, 2) => SupersededBy(g, 1)' \/ Over(g)'
        /\ SupersededBy(g, 1) => Over(g)'
    BY <1>6, HoldersStores
  <2> QED
    BY <1>1, <1>3, <2>1
<1>7. ASSUME NEW h \in asleep, DryTimerWakes(h)
      PROVE  lock = "free" /\ (Sleeping(g) => Sleeping(g)' \/ StoppingBy(g, 2)')
  <2>1. Len(StopStores) = 2
    BY DEF StopStores
  <2> QED
    BY <1>1, <1>7, <2>1 DEF DryTimerWakes, TimerWakes, Sleeping, StoppingBy, MotionOf, Moving, history
<1>8. CASE TimerStoreNext
  BY <1>1, <1>2, <1>8, HoldersStores
<1> QED
  BY <1>2, <1>3, <1>4, <1>5, <1>6, <1>7, <1>8 DEF DryNext, DrySoapStep

LEMMA DryMotionLeft ==
    ASSUME NEW g \in Generations, DryIInv, DryIInv'
    PROVE  /\ DryTimerWakes(g) => ~Sleeping(g)'
           /\ DrySoapStep => /\ SupersededBy(g, 4) => ~SupersededBy(g, 4)'
                             /\ SupersededBy(g, 3) => ~SupersededBy(g, 3)'
                             /\ SupersededBy(g, 2) => ~SupersededBy(g, 2)'
                             /\ SupersededBy(g, 1) => ~SupersededBy(g, 1)'
           /\ TimerStoreNext => /\ StoppingBy(g, 2) => ~StoppingBy(g, 2)'
                                /\ StoppingBy(g, 1) => ~StoppingBy(g, 1)'
<1>1. DryTimerWakes(g) => g \notin asleep'
  BY DEF DryTimerWakes, TimerWakes
<1>2. \A n : /\ SupersededBy(g, n) => StoresLeft(n)
             /\ SupersededBy(g, n)' => StoresLeft(n)'
  BY DEF SupersededBy, StoresLeft, DryIInv, Bookkeeping, HolderWrites
<1>3. TimerStoreNext => /\ StoppingBy(g, 2) => StoppingBy(g, 1)' \/ Over(g)'
                        /\ StoppingBy(g, 1) => Over(g)'
  BY HoldersStores
<1>4. /\ \A n : StoppingBy(g, n)' => ~Over(g)'
      /\ ~(StoppingBy(g, 1)' /\ StoppingBy(g, 2)')
  BY DEF StoppingBy, MotionOf, Over
<1>5. DrySoapStep => /\ StoresLeft(4) => ~StoresLeft(4)'
                     /\ StoresLeft(3) => ~StoresLeft(3)'
                     /\ StoresLeft(2) => ~StoresLeft(2)'
                     /\ StoresLeft(1) => ~StoresLeft(1)'
  BY CallLeft
<1> QED
  BY <1>1, <1>2, <1>3, <1>4, <1>5 DEF Sleeping

LEMMA DryMotionEnabled ==
    ASSUME NEW g \in Generations, DryIInv, DryOnlyTheMutexBlocks
    PROVE  /\ Sleeping(g) => ENABLED <<DryTimerWakes(g)>>_allVars
           /\ BeingSuperseded(g) => ENABLED <<DrySoapStep>>_allVars
           /\ StoppingBy(g, 1) \/ StoppingBy(g, 2) => ENABLED <<TimerStoreNext>>_allVars
<1>1. lock = "soap" => soap = "write" /\ verdict # "held"
  BY DEF DryIInv, Bookkeeping, HolderWrites, CallFits
<1> QED
  BY <1>1 DEF DryOnlyTheMutexBlocks, Sleeping, BeingSuperseded, SupersededBy, StoppingBy

(* A motion of the dry-run camera whose timer sleeps ends or is taken      *)
(* over, whatever the clients send in the meantime: no hypothesis on the   *)
(* writes is needed, as a store cannot fail.                               *)
THEOREM DryMotionsEnd == DryFairSpec /\ []DryOnlyTheMutexBlocks => MotionEnds
<1> DEFINE Good == DryIInv /\ DryMotionIsWatched /\ DryOnlyTheMutexBlocks
           Assumed == []Good /\ [][DryNext]_allVars /\ DryFairness
<1>1. DryFairSpec /\ []DryOnlyTheMutexBlocks => Assumed
  BY DryInvariance, DryMotionWatched, PTL DEF DryFairSpec, DrySpec
<1>2. ASSUME NEW g \in Generations
      PROVE  Assumed => (TimerOf(g) ~> Over(g))
  <2>1. Good /\ Good' /\ [DryNext]_allVars =>
            /\ Sleeping(g) => Sleeping(g)' \/ BeingSuperseded(g)' \/ StoppingBy(g, 2)' \/ Over(g)'
            /\ SupersededBy(g, 4) => SupersededBy(g, 4)' \/ SupersededBy(g, 3)' \/ Over(g)'
            /\ SupersededBy(g, 3) => SupersededBy(g, 3)' \/ SupersededBy(g, 2)' \/ Over(g)'
            /\ SupersededBy(g, 2) => SupersededBy(g, 2)' \/ SupersededBy(g, 1)' \/ Over(g)'
            /\ SupersededBy(g, 1) => SupersededBy(g, 1)' \/ Over(g)'
            /\ StoppingBy(g, 2) => StoppingBy(g, 2)' \/ StoppingBy(g, 1)' \/ Over(g)'
            /\ StoppingBy(g, 1) => StoppingBy(g, 1)' \/ Over(g)'
    BY DryMotionSuccessors
  <2>2. Good /\ Good' =>
            /\ DryTimerWakes(g) => ~Sleeping(g)'
            /\ DrySoapStep => /\ SupersededBy(g, 4) => ~SupersededBy(g, 4)'
                              /\ SupersededBy(g, 3) => ~SupersededBy(g, 3)'
                              /\ SupersededBy(g, 2) => ~SupersededBy(g, 2)'
                              /\ SupersededBy(g, 1) => ~SupersededBy(g, 1)'
            /\ TimerStoreNext => /\ StoppingBy(g, 2) => ~StoppingBy(g, 2)'
                                 /\ StoppingBy(g, 1) => ~StoppingBy(g, 1)'
    BY DryMotionLeft
  <2>3. Good => /\ Sleeping(g) => ENABLED <<DryTimerWakes(g)>>_allVars
                /\ BeingSuperseded(g) => ENABLED <<DrySoapStep>>_allVars
                /\ StoppingBy(g, 1) \/ StoppingBy(g, 2) => ENABLED <<TimerStoreNext>>_allVars
    BY DryMotionEnabled
  <2>4. Good => (TimerOf(g) => Sleeping(g) \/ BeingSuperseded(g) \/ StoppingBy(g, 1) \/ StoppingBy(g, 2))
    BY DryMotionCases
  <2>5. BeingSuperseded(g) <=>
            SupersededBy(g, 1) \/ SupersededBy(g, 2) \/ SupersededBy(g, 3) \/ SupersededBy(g, 4)
    BY DEF BeingSuperseded
  <2>6. DryFairness => DryTimerIsScheduled(g)
    <3>1. DryFairness => DryTimersAreScheduled
      BY PTL DEF DryFairness
    <3>2. DryTimersAreScheduled => DryTimerIsScheduled(g)
      BY DEF DryTimersAreScheduled
    <3> QED
      BY <3>1, <3>2
  <2>7. DryFairness => WF_allVars(DrySoapStep) /\ WF_allVars(TimerStoreNext)
    BY PTL DEF DryFairness
  <2>8. Assumed => []Good /\ [][DryNext]_allVars /\ DryFairness
    OBVIOUS
  <2> HIDE DEF Good, Assumed
  <2>9. Assumed => (StoppingBy(g, 1) ~> Over(g))
    BY <2>1, <2>2, <2>3, <2>7, <2>8, PTL
  <2>10. Assumed => (StoppingBy(g, 2) ~> StoppingBy(g, 1) \/ Over(g))
    BY <2>1, <2>2, <2>3, <2>7, <2>8, PTL
  <2>11. Assumed => (SupersededBy(g, 1) ~> Over(g))
    BY <2>1, <2>2, <2>3, <2>5, <2>7, <2>8, PTL
  <2>12. Assumed => (SupersededBy(g, 2) ~> SupersededBy(g, 1) \/ Over(g))
    BY <2>1, <2>2, <2>3, <2>5, <2>7, <2>8, PTL
  <2>13. Assumed => (SupersededBy(g, 3) ~> SupersededBy(g, 2) \/ Over(g))
    BY <2>1, <2>2, <2>3, <2>5, <2>7, <2>8, PTL
  <2>14. Assumed => (SupersededBy(g, 4) ~> SupersededBy(g, 3) \/ Over(g))
    BY <2>1, <2>2, <2>3, <2>5, <2>7, <2>8, PTL
  <2>15. Assumed => (Sleeping(g) ~> BeingSuperseded(g) \/ StoppingBy(g, 2) \/ Over(g))
    BY <2>1, <2>2, <2>3, <2>6, <2>8, PTL DEF DryTimerIsScheduled
  <2> QED
    BY <2>4, <2>5, <2>8, <2>9, <2>10, <2>11, <2>12, <2>13, <2>14, <2>15, PTL
<1>3. Assumed => \A g \in Generations : TimerOf(g) ~> Over(g)
  BY <1>2
<1> QED
  BY <1>1, <1>3 DEF MotionEnds, TimerOf, Over

=============================================================================
