--------------------------- MODULE Daemons_proofs ---------------------------
(***************************************************************************)
(* Safety of the two daemons' lives, for every set of clients, length of   *)
(* the listen queue and keep-alive limit.                                  *)
(***************************************************************************)
EXTENDS Daemons, SequenceTheorems, TLAPS

-----------------------------------------------------------------------------
(* The inductive invariant of afterveda-onvif.                             *)

(* Only the main thread takes connections off the queue. *)
AcceptHasOne == main = "accept" => backlog # <<>>

(* What is on the air follows the discovery thread, which lives from its   *)
(* start to the end of the process at most.                                *)
AirFollows ==
    /\ main \in {"args", "spawn"} => discovery = "none"
    /\ main \notin {"args", "spawn", "exited"} => discovery # "none"
    /\ main = "exited" => discovery \in {"none", "ended"}
    /\ discovery \in {"none", "open", "hello"} => onAir = "silent"
    /\ onAir = "hello" => discovery \in {"check", "listen", "bye"}

(* The flag is cleared for a reason, and the reason decides the exit code. *)
ReasonIsKept ==
    /\ ~running => signalled \/ failure
    /\ main = "join" => ~running
    /\ main = "exited" /\ discovery # "none" =>
           (exitCode = 1 <=> failure) /\ (exitCode = 0 => signalled)

(* Requests answered after the flag was cleared: none before the           *)
(* connection that was accepted when it was set, and those that connection *)
(* still has make up what is allowed.                                      *)
DrainIsCounted ==
    /\ running \/ main \in {"args", "spawn", "bind", "select", "accept"} => drained = 0
    /\ main = "serve" => drained + keepAlive <= MaxKeepAlive
    /\ drained <= MaxKeepAlive + 1

LifecycleIInv == LifecycleTypeOK /\ AcceptHasOne /\ AirFollows /\ ReasonIsKept /\ DrainIsCounted

-----------------------------------------------------------------------------
(* The inductive invariant of rail-media's start.                          *)

(* The report is made once, tells what the control thread does next, and   *)
(* the main thread goes where it says.                                     *)
ReportIsTrue ==
    /\ startup_done <=> control \in {"notify", "loop", "post", "teardown", "ended"}
    /\ startup_done => (startup_error <=> ~listens)
    /\ control \in {"loop", "post"} => listens
    /\ control \in {"teardown", "ended"} => ~listens
    /\ railMain \in {"args", "spawn"} => control = "none"
    /\ railMain \in {"check", "asleep"} => control # "none"
    /\ railMain = "reap" => startup_done /\ startup_error
    /\ railMain = "run" => startup_done /\ ~startup_error
    /\ railMain = "exited" => control \in {"none", "ended"}
    /\ contextFreed => control = "ended"

StartupIInv == StartupTypeOK /\ ReportIsTrue

IInv == LifecycleIInv /\ StartupIInv /\ HealthIsHonest

-----------------------------------------------------------------------------
(* afterveda-onvif keeps its invariant.                                    *)

(* What the queue is made of after a connection is taken or added. *)
LEMMA QueueType ==
    ASSUME NEW S, NEW q \in Seq(S)
    PROVE  /\ q # <<>> => Head(q) \in S /\ Tail(q) \in Seq(S) /\ Len(Tail(q)) < Len(q)
           /\ \A x \in S : Append(q, x) \in Seq(S) /\ Append(q, x) # <<>>
                              /\ Len(Append(q, x)) = Len(q) + 1
<1>1. q # <<>> => Head(q) \in S /\ Tail(q) \in Seq(S) /\ Len(Tail(q)) = Len(q) - 1
  BY HeadTailProperties
<1>2. Len(q) \in Nat
  BY LenProperties
<1>3. ASSUME NEW x \in S
      PROVE  Append(q, x) \in Seq(S) /\ Append(q, x) # <<>> /\ Len(Append(q, x)) = Len(q) + 1
  BY <1>3, AppendProperties
<1>4. QED
  BY <1>1, <1>2, <1>3

LEMMA Disconnected ==
    /\ [c \in Client |-> "away"] \in [Client -> {"away", "queued", "idle", "asking", "stalled", "left"}]
    /\ <<>> \in Seq(Client) /\ Len(<<>>) = 0
    /\ Len(<<>>) <= Backlog
<1>1. Len(<<>>) = 0
  OBVIOUS
<1>2. QED
  BY <1>1, LifecycleAssumption

LEMMA LifecycleStarts == LifecycleInit => LifecycleIInv
<1>1. SUFFICES ASSUME LifecycleInit PROVE LifecycleIInv
  OBVIOUS
<1>2. /\ conn \in [Client -> {"away", "queued", "idle", "asking", "stalled", "left"}]
      /\ backlog \in Seq(Client) /\ Len(backlog) <= Backlog
  BY <1>1, Disconnected DEF LifecycleInit
<1>3. /\ running = TRUE /\ main = "args" /\ failure = FALSE /\ exitCode = 0
      /\ discovery = "none" /\ onAir = "silent" /\ listening = FALSE
      /\ current = None /\ keepAlive = 0 /\ health = "none" /\ signalled = FALSE /\ drained = 0
  BY <1>1 DEF LifecycleInit
<1>4. keepAlive \in 0..MaxKeepAlive /\ drained \in 0..MaxDrained
  BY <1>3, LifecycleAssumption DEF MaxDrained
<1>5. LifecycleTypeOK
  BY <1>2, <1>3, <1>4 DEF LifecycleTypeOK
<1>6. QED
  BY <1>3, <1>5, LifecycleAssumption
     DEF LifecycleIInv, AcceptHasOne, AirFollows, ReasonIsKept, DrainIsCounted

LEMMA MainKeepsInvariant ==
    ASSUME LifecycleIInv, MainStep
    PROVE  LifecycleIInv'
<1> USE LifecycleAssumption DEF LifecycleIInv, LifecycleTypeOK, MaxDrained, mainState, discoveryState, connections
<1>0. ASSUME conn' = [c \in Client |-> "away"], backlog' = <<>>
      PROVE  /\ conn' \in [Client -> {"away", "queued", "idle", "asking", "stalled", "left"}]
             /\ backlog' \in Seq(Client) /\ Len(backlog') <= Backlog
  BY <1>0, Disconnected
<1>1. CASE ParseArgs
  <2>1. LifecycleTypeOK'
    BY <1>0, <1>1 DEF ParseArgs
  <2>2. AcceptHasOne' /\ AirFollows'
    BY <1>1 DEF ParseArgs, AcceptHasOne, AirFollows
  <2>3. ReasonIsKept'
    BY <1>1 DEF ParseArgs, AirFollows, ReasonIsKept
  <2>4. DrainIsCounted'
    BY <1>1 DEF ParseArgs, DrainIsCounted
  <2>5. QED
    BY <2>1, <2>2, <2>3, <2>4
<1>2. CASE ParseArgsEnds
  <2>1. LifecycleTypeOK'
    BY <1>0, <1>2, ZenonT(60) DEF ParseArgsEnds, Exit
  <2>2. AcceptHasOne' /\ AirFollows'
    BY <1>2 DEF ParseArgsEnds, Exit, AcceptHasOne, AirFollows
  <2>3. ReasonIsKept'
    BY <1>2 DEF ParseArgsEnds, Exit, AirFollows, ReasonIsKept
  <2>4. DrainIsCounted'
    BY <1>2 DEF ParseArgsEnds, Exit, DrainIsCounted
  <2>5. QED
    BY <2>1, <2>2, <2>3, <2>4
<1>3. CASE StartDiscovery
  <2>1. LifecycleTypeOK'
    BY <1>0, <1>3 DEF StartDiscovery
  <2>2. AcceptHasOne' /\ AirFollows'
    BY <1>3 DEF StartDiscovery, AcceptHasOne, AirFollows
  <2>3. ReasonIsKept'
    BY <1>3 DEF StartDiscovery, AirFollows, ReasonIsKept
  <2>4. DrainIsCounted'
    BY <1>3 DEF StartDiscovery, DrainIsCounted
  <2>5. QED
    BY <2>1, <2>2, <2>3, <2>4
<1>4. CASE StartDiscoveryFails
  <2>1. LifecycleTypeOK'
    BY <1>0, <1>4 DEF StartDiscoveryFails, Exit
  <2>2. AcceptHasOne' /\ AirFollows'
    BY <1>4 DEF StartDiscoveryFails, Exit, AcceptHasOne, AirFollows
  <2>3. ReasonIsKept'
    BY <1>4 DEF StartDiscoveryFails, Exit, AirFollows, ReasonIsKept
  <2>4. DrainIsCounted'
    BY <1>4 DEF StartDiscoveryFails, Exit, DrainIsCounted
  <2>5. QED
    BY <2>1, <2>2, <2>3, <2>4
<1>5. CASE BindHttp
  <2>1. LifecycleTypeOK'
    BY <1>0, <1>5 DEF BindHttp
  <2>2. AcceptHasOne' /\ AirFollows'
    BY <1>5 DEF BindHttp, AcceptHasOne, AirFollows
  <2>3. ReasonIsKept'
    BY <1>5 DEF BindHttp, AirFollows, ReasonIsKept
  <2>4. DrainIsCounted'
    BY <1>5 DEF BindHttp, DrainIsCounted
  <2>5. QED
    BY <2>1, <2>2, <2>3, <2>4
<1>6. CASE BindHttpFails
  <2>1. LifecycleTypeOK'
    BY <1>0, <1>6, ZenonT(60) DEF BindHttpFails, Unwind
  <2>2. AcceptHasOne' /\ AirFollows'
    BY <1>6 DEF BindHttpFails, Unwind, AcceptHasOne, AirFollows
  <2>3. ReasonIsKept'
    BY <1>6 DEF BindHttpFails, Unwind, AirFollows, ReasonIsKept
  <2>4. DrainIsCounted'
    BY <1>6 DEF BindHttpFails, Unwind, DrainIsCounted
  <2>5. QED
    BY <2>1, <2>2, <2>3, <2>4
<1>7. CASE CheckRunning
  <2>1. LifecycleTypeOK'
    <3>1. CASE running
      BY <1>7, <3>1 DEF CheckRunning
    <3>2. CASE ~running
      BY <1>0, <1>7, <3>2, ZenonT(60) DEF CheckRunning
    <3>3. QED
      BY <3>1, <3>2
  <2>2. AcceptHasOne' /\ AirFollows'
    BY <1>7 DEF CheckRunning, AcceptHasOne, AirFollows
  <2>3. ReasonIsKept'
    BY <1>7 DEF CheckRunning, AirFollows, ReasonIsKept
  <2>4. DrainIsCounted'
    BY <1>7 DEF CheckRunning, DrainIsCounted
  <2>5. QED
    BY <2>1, <2>2, <2>3, <2>4
<1>8. CASE Select
  <2>1. LifecycleTypeOK'
    BY <1>0, <1>8 DEF Select
  <2>2. AcceptHasOne' /\ AirFollows'
    BY <1>8 DEF Select, AcceptHasOne, AirFollows
  <2>3. ReasonIsKept'
    BY <1>8 DEF Select, AirFollows, ReasonIsKept
  <2>4. DrainIsCounted'
    BY <1>8 DEF Select, DrainIsCounted
  <2>5. QED
    BY <2>1, <2>2, <2>3, <2>4
<1>9. CASE AcceptFails
  <2>1. LifecycleTypeOK'
    BY <1>0, <1>9 DEF AcceptFails
  <2>2. AcceptHasOne' /\ AirFollows'
    BY <1>9 DEF AcceptFails, AcceptHasOne, AirFollows
  <2>3. ReasonIsKept'
    BY <1>9 DEF AcceptFails, AirFollows, ReasonIsKept
  <2>4. DrainIsCounted'
    BY <1>9 DEF AcceptFails, DrainIsCounted
  <2>5. QED
    BY <2>1, <2>2, <2>3, <2>4
<1>10. CASE ServeRequest
  <2>1. LifecycleTypeOK'
    BY <1>0, <1>10 DEF ServeRequest, Asked, NextRequest, HangUp, CountDrained, MaxDrained
  <2>2. AcceptHasOne' /\ AirFollows'
    BY <1>10 DEF ServeRequest, Asked, NextRequest, HangUp, CountDrained, MaxDrained, AcceptHasOne, AirFollows
  <2>3. ReasonIsKept'
    BY <1>10 DEF ServeRequest, Asked, NextRequest, HangUp, CountDrained, MaxDrained, AirFollows, ReasonIsKept
  <2>4. DrainIsCounted'
    BY <1>10 DEF ServeRequest, Asked, NextRequest, HangUp, CountDrained, MaxDrained, DrainIsCounted
  <2>5. QED
    BY <2>1, <2>2, <2>3, <2>4
<1>11. CASE ServeFails
  <2>1. LifecycleTypeOK'
    BY <1>0, <1>11 DEF ServeFails, Asked, HangUp, CountDrained, MaxDrained
  <2>2. AcceptHasOne' /\ AirFollows'
    BY <1>11 DEF ServeFails, Asked, HangUp, CountDrained, MaxDrained, AcceptHasOne, AirFollows
  <2>3. ReasonIsKept'
    BY <1>11 DEF ServeFails, Asked, HangUp, CountDrained, MaxDrained, AirFollows, ReasonIsKept
  <2>4. DrainIsCounted'
    BY <1>11 DEF ServeFails, Asked, HangUp, CountDrained, MaxDrained, DrainIsCounted
  <2>5. QED
    BY <2>1, <2>2, <2>3, <2>4
<1>12. CASE HandlerThrows
  <2>1. LifecycleTypeOK'
    BY <1>0, <1>12 DEF HandlerThrows, Asked, Unwind
  <2>2. AcceptHasOne' /\ AirFollows'
    BY <1>12 DEF HandlerThrows, Asked, Unwind, AcceptHasOne, AirFollows
  <2>3. ReasonIsKept'
    BY <1>12 DEF HandlerThrows, Asked, Unwind, AirFollows, ReasonIsKept
  <2>4. DrainIsCounted'
    BY <1>12 DEF HandlerThrows, Asked, Unwind, DrainIsCounted
  <2>5. QED
    BY <2>1, <2>2, <2>3, <2>4
<1>13. CASE Join
  <2>1. LifecycleTypeOK'
    BY <1>0, <1>13 DEF Join, Exit
  <2>2. AcceptHasOne' /\ AirFollows'
    BY <1>13 DEF Join, Exit, AcceptHasOne, AirFollows
  <2>3. ReasonIsKept'
    BY <1>13 DEF Join, Exit, AirFollows, ReasonIsKept
  <2>4. DrainIsCounted'
    BY <1>13 DEF Join, Exit, DrainIsCounted
  <2>5. QED
    BY <2>1, <2>2, <2>3, <2>4
<1>14. QED
  BY <1>1, <1>2, <1>3, <1>4, <1>5, <1>6, <1>7, <1>8, <1>9, <1>10, <1>11, <1>12, <1>13 DEF MainStep

(* The connection taken is the head of the queue; nothing was answered     *)
(* after the flag was cleared, since it was set when select was called.    *)
LEMMA AcceptKeepsInvariant ==
    ASSUME LifecycleIInv, Accept
    PROVE  LifecycleIInv'
<1> USE LifecycleAssumption DEF LifecycleIInv, LifecycleTypeOK, MaxDrained, mainState, discoveryState, connections
<1>1. Head(backlog) \in Client /\ Tail(backlog) \in Seq(Client) /\ Len(Tail(backlog)) <= Backlog
  <2>1. Head(backlog) \in Client /\ Tail(backlog) \in Seq(Client) /\ Len(Tail(backlog)) < Len(backlog)
    BY QueueType DEF Accept, AcceptHasOne
  <2>2. Len(backlog) \in Nat /\ Len(Tail(backlog)) \in Nat
    BY <2>1, LenProperties
  <2>3. QED
    BY <2>1, <2>2
<1>2. LifecycleTypeOK'
  BY <1>1 DEF Accept
<1>3. AcceptHasOne' /\ AirFollows' /\ ReasonIsKept' /\ DrainIsCounted'
  BY <1>2 DEF Accept, AcceptHasOne, AirFollows, ReasonIsKept, DrainIsCounted
<1>4. QED
  BY <1>2, <1>3

LEMMA HealthKeepsInvariant ==
    ASSUME LifecycleIInv, NEW verdict \in {"ok", "degraded"}, health_check(verdict)
    PROVE  LifecycleIInv'
<1> USE LifecycleAssumption DEF LifecycleIInv, LifecycleTypeOK, MaxDrained, mainState, discoveryState, connections
<1>1. LifecycleTypeOK'
  BY DEF health_check, Asked, NextRequest, HangUp, CountDrained
<1>2. AcceptHasOne' /\ AirFollows' /\ ReasonIsKept'
  BY DEF health_check, Asked, NextRequest, HangUp, CountDrained, AcceptHasOne, AirFollows, ReasonIsKept
<1>3. DrainIsCounted'
  BY DEF health_check, Asked, NextRequest, HangUp, CountDrained, DrainIsCounted
<1>4. QED
  BY <1>1, <1>2, <1>3

LEMMA DiscoveryKeepsInvariant ==
    ASSUME LifecycleIInv, DiscoveryStep
    PROVE  LifecycleIInv'
<1> USE LifecycleAssumption DEF LifecycleIInv, LifecycleTypeOK, MaxDrained, mainState, discoveryState, connections
<1>1. CASE OpenDiscovery
  <2>1. LifecycleTypeOK'
    BY <1>1 DEF OpenDiscovery, DiscoveryMoves
  <2>2. AcceptHasOne' /\ AirFollows'
    BY <1>1 DEF OpenDiscovery, DiscoveryMoves, AcceptHasOne, AirFollows
  <2>3. ReasonIsKept'
    BY <1>1 DEF OpenDiscovery, DiscoveryMoves, AirFollows, ReasonIsKept
  <2>4. DrainIsCounted'
    BY <1>1 DEF OpenDiscovery, DiscoveryMoves, DrainIsCounted
  <2>5. QED
    BY <2>1, <2>2, <2>3, <2>4
<1>2. CASE DiscoveryDisabled
  <2>1. LifecycleTypeOK'
    BY <1>2 DEF DiscoveryDisabled, DiscoveryMoves
  <2>2. AcceptHasOne' /\ AirFollows'
    BY <1>2 DEF DiscoveryDisabled, DiscoveryMoves, AcceptHasOne, AirFollows
  <2>3. ReasonIsKept'
    BY <1>2 DEF DiscoveryDisabled, DiscoveryMoves, AirFollows, ReasonIsKept
  <2>4. DrainIsCounted'
    BY <1>2 DEF DiscoveryDisabled, DiscoveryMoves, DrainIsCounted
  <2>5. QED
    BY <2>1, <2>2, <2>3, <2>4
<1>3. CASE announce_discovery_hello
  <2>1. LifecycleTypeOK'
    BY <1>3 DEF announce_discovery_hello, DiscoveryMoves
  <2>2. AcceptHasOne' /\ AirFollows'
    BY <1>3 DEF announce_discovery_hello, DiscoveryMoves, AcceptHasOne, AirFollows
  <2>3. ReasonIsKept'
    BY <1>3 DEF announce_discovery_hello, DiscoveryMoves, AirFollows, ReasonIsKept
  <2>4. DrainIsCounted'
    BY <1>3 DEF announce_discovery_hello, DiscoveryMoves, DrainIsCounted
  <2>5. QED
    BY <2>1, <2>2, <2>3, <2>4
<1>4. CASE CheckDiscovery
  <2>1. LifecycleTypeOK'
    BY <1>4 DEF CheckDiscovery, DiscoveryMoves
  <2>2. AcceptHasOne' /\ AirFollows'
    BY <1>4 DEF CheckDiscovery, DiscoveryMoves, AcceptHasOne, AirFollows
  <2>3. ReasonIsKept'
    BY <1>4 DEF CheckDiscovery, DiscoveryMoves, AirFollows, ReasonIsKept
  <2>4. DrainIsCounted'
    BY <1>4 DEF CheckDiscovery, DiscoveryMoves, DrainIsCounted
  <2>5. QED
    BY <2>1, <2>2, <2>3, <2>4
<1>5. CASE Listen
  <2>1. LifecycleTypeOK'
    BY <1>5 DEF Listen, DiscoveryMoves
  <2>2. AcceptHasOne' /\ AirFollows'
    BY <1>5 DEF Listen, DiscoveryMoves, AcceptHasOne, AirFollows
  <2>3. ReasonIsKept'
    BY <1>5 DEF Listen, DiscoveryMoves, AirFollows, ReasonIsKept
  <2>4. DrainIsCounted'
    BY <1>5 DEF Listen, DiscoveryMoves, DrainIsCounted
  <2>5. QED
    BY <2>1, <2>2, <2>3, <2>4
<1>6. CASE announce_discovery_bye
  <2>1. LifecycleTypeOK'
    BY <1>6 DEF announce_discovery_bye, DiscoveryMoves
  <2>2. AcceptHasOne' /\ AirFollows'
    BY <1>6 DEF announce_discovery_bye, DiscoveryMoves, AcceptHasOne, AirFollows
  <2>3. ReasonIsKept'
    BY <1>6 DEF announce_discovery_bye, DiscoveryMoves, AirFollows, ReasonIsKept
  <2>4. DrainIsCounted'
    BY <1>6 DEF announce_discovery_bye, DiscoveryMoves, DrainIsCounted
  <2>5. QED
    BY <2>1, <2>2, <2>3, <2>4
<1>7. QED
  BY <1>1, <1>2, <1>3, <1>4, <1>5, <1>6 DEF DiscoveryStep

LEMMA ClientKeepsInvariant ==
    ASSUME LifecycleIInv, ClientStep
    PROVE  LifecycleIInv'
<1> USE LifecycleAssumption DEF LifecycleIInv, LifecycleTypeOK, MaxDrained, mainState, discoveryState, connections
<1>1. PICK c \in Client : Connect(c) \/ Ask(c) \/ Leave(c) \/ Stall(c) \/ StallEnds(c)
  BY DEF ClientStep
<1>2. backlog' \in Seq(Client) /\ Len(backlog') <= Backlog /\ (backlog # <<>> => backlog' # <<>>)
  <2>1. CASE Connect(c)
    <3>1. Len(backlog) \in Nat
      BY LenProperties
    <3>2. QED
      BY <2>1, <3>1, QueueType DEF Connect
  <2>2. CASE Ask(c) \/ Leave(c) \/ Stall(c) \/ StallEnds(c)
    BY <2>2 DEF Ask, Leave, Stall, StallEnds
  <2>3. QED
    BY <1>1, <2>1, <2>2
<1>3. /\ conn' \in [Client -> {"away", "queued", "idle", "asking", "stalled", "left"}]
      /\ UNCHANGED <<running, mainState, discoveryState, listening, current, keepAlive, health, signalled, drained>>
  BY <1>1 DEF Connect, Ask, Leave, Stall, StallEnds, ClientMoves
<1>4. QED
  BY <1>2, <1>3 DEF AcceptHasOne, AirFollows, ReasonIsKept, DrainIsCounted

LEMMA SignalKeepsInvariant ==
    ASSUME LifecycleIInv, handle_signal
    PROVE  LifecycleIInv'
<1> USE LifecycleAssumption DEF LifecycleIInv, LifecycleTypeOK, MaxDrained, mainState, discoveryState, connections
<1>1. LifecycleTypeOK'
  <2>1. UNCHANGED <<main, failure, exitCode, discovery, onAir, listening, backlog, conn, current,
                    keepAlive, health, drained>>
    BY DEF handle_signal
  <2>2. running' \in BOOLEAN /\ signalled' \in BOOLEAN
    BY DEF handle_signal
  <2>3. QED
    BY <2>1, <2>2
<1>2. AcceptHasOne' /\ AirFollows'
  BY DEF handle_signal, AcceptHasOne, AirFollows
<1>3. ReasonIsKept' /\ DrainIsCounted'
  BY DEF handle_signal, ReasonIsKept, DrainIsCounted
<1>4. QED
  BY <1>1, <1>2, <1>3

LEMMA LifecycleStutters ==
    ASSUME LifecycleIInv, UNCHANGED lifecycleVars
    PROVE  LifecycleIInv'
  BY DEF LifecycleIInv, LifecycleTypeOK, MaxDrained, lifecycleVars, mainState, discoveryState, connections,
         AcceptHasOne, AirFollows, ReasonIsKept, DrainIsCounted

-----------------------------------------------------------------------------
(* rail-media keeps its invariant.                                         *)

LEMMA StartupStarts == StartupInit => StartupIInv
  BY DEF StartupInit, StartupIInv, StartupTypeOK, ReportIsTrue

LEMMA StartupStutters ==
    ASSUME StartupIInv, UNCHANGED startupVars
    PROVE  StartupIInv'
  BY DEF StartupIInv, StartupTypeOK, ReportIsTrue, startupVars, controlServer

(* A reported success stands: the main thread will not take it for a       *)
(* failure.                                                                *)
Started == startup_done /\ ~startup_error /\ railMain \in {"check", "asleep", "run"}

LEMMA StartupKeepsInvariant ==
    ASSUME StartupIInv, RailMainStep \/ ControlStep \/ SpuriousWakeup \/ TakePost
    PROVE  StartupIInv' /\ (Started => Started')
<1> USE DEF StartupIInv, StartupTypeOK, ReportIsTrue, Started, controlServer
<1>1. CASE RailConstructs
  BY <1>1 DEF RailConstructs, RailMoves
<1>2. CASE RailGivesUp
  BY <1>2 DEF RailGivesUp
<1>3. CASE SpawnControl
  BY <1>3 DEF SpawnControl, RailMoves
<1>4. CASE WaitForStartup
  BY <1>4 DEF WaitForStartup, RailMoves
<1>5. CASE SpuriousWakeup
  BY <1>5 DEF SpuriousWakeup, RailMoves
<1>6. CASE ReapControl
  BY <1>6 DEF ReapControl
<1>7. CASE MainLoopRunsJob
  BY <1>7 DEF MainLoopRunsJob
<1>8. CASE SetUpControl
  BY <1>8 DEF SetUpControl, ControlMoves
<1>9. CASE ReportStartup
  BY <1>9 DEF ReportStartup, ControlMoves
<1>10. CASE NotifyStartup
  BY <1>10 DEF NotifyStartup, ControlMoves
<1>11. CASE TakePost
  BY <1>11 DEF TakePost, ControlMoves
<1>12. CASE EndControl
  BY <1>12 DEF EndControl, ControlMoves
<1>13. QED
  BY <1>1, <1>2, <1>3, <1>4, <1>5, <1>6, <1>7, <1>8, <1>9, <1>10, <1>11, <1>12 DEF RailMainStep, ControlStep

-----------------------------------------------------------------------------
(* Both together.                                                          *)

LEMMA InvariantStarts == Init => IInv
  BY LifecycleStarts, StartupStarts DEF Init, IInv, LifecycleInit, HealthIsHonest

LEMMA OnlyThePageSetsHealth ==
    ASSUME MainStep \/ Accept \/ DiscoveryStep \/ ClientStep \/ handle_signal
    PROVE  health' = health
<1>1. MainStep => health' = health
  BY DEF MainStep, ParseArgs, ParseArgsEnds, StartDiscovery, StartDiscoveryFails, BindHttp, BindHttpFails,
         CheckRunning, Select, AcceptFails, ServeRequest, ServeFails, HandlerThrows, Unwind, Join
<1>2. DiscoveryStep => health' = health
  BY DEF DiscoveryStep, OpenDiscovery, DiscoveryDisabled, announce_discovery_hello, CheckDiscovery, Listen,
         announce_discovery_bye, DiscoveryMoves
<1>3. Accept \/ ClientStep \/ handle_signal => health' = health
  BY DEF Accept, ClientStep, Connect, Ask, Leave, Stall, StallEnds, ClientMoves, handle_signal
<1>4. QED
  BY <1>1, <1>2, <1>3

LEMMA InvariantIsKept ==
    ASSUME IInv, [Next]_vars
    PROVE  IInv'
<1>1. CASE (MainStep \/ Accept \/ DiscoveryStep \/ ClientStep \/ handle_signal) /\ UNCHANGED startupVars
  <2>1. LifecycleIInv'
    BY <1>1, MainKeepsInvariant, AcceptKeepsInvariant, DiscoveryKeepsInvariant, ClientKeepsInvariant,
       SignalKeepsInvariant DEF IInv
  <2>2. StartupIInv'
    BY <1>1, StartupStutters DEF IInv
  <2>3. HealthIsHonest'
    BY <1>1, OnlyThePageSetsHealth DEF IInv, HealthIsHonest, startupVars, controlServer
  <2>4. QED
    BY <2>1, <2>2, <2>3 DEF IInv
<1>2. CASE HealthPage
  <2>1. PICK verdict \in {"ok", "degraded"} : /\ health_check(verdict)
                                              /\ verdict = "ok" => RailAnswers
    BY <1>2 DEF HealthPage
  <2>2. LifecycleIInv'
    BY <2>1, HealthKeepsInvariant DEF IInv
  <2>3. StartupIInv' /\ UNCHANGED startupVars
    BY <1>2, StartupStutters DEF IInv, HealthPage
  <2>4. HealthIsHonest'
    <3>1. health' = verdict
      BY <2>1 DEF health_check
    <3>2. RailAnswers => Started
      BY DEF IInv, StartupIInv, StartupTypeOK, ReportIsTrue, RailAnswers, Started
    <3>3. QED
      BY <2>1, <2>3, <3>1, <3>2 DEF HealthIsHonest, Started, startupVars, controlServer
  <2>5. QED
    BY <2>2, <2>3, <2>4 DEF IInv
<1>3. CASE (RailMainStep \/ ControlStep \/ SpuriousWakeup \/ TakePost) /\ UNCHANGED lifecycleVars
  <2>1. LifecycleIInv' /\ health' = health
    BY <1>3, LifecycleStutters DEF IInv, lifecycleVars
  <2>2. StartupIInv' /\ (Started => Started')
    BY <1>3, StartupKeepsInvariant DEF IInv
  <2>3. HealthIsHonest'
    BY <2>1, <2>2 DEF IInv, HealthIsHonest, Started
  <2>4. QED
    BY <2>1, <2>2, <2>3 DEF IInv
<1>4. CASE UNCHANGED vars
  <2>1. LifecycleIInv' /\ StartupIInv'
    BY <1>4, LifecycleStutters, StartupStutters DEF IInv, vars
  <2>2. HealthIsHonest'
    BY <1>4 DEF IInv, HealthIsHonest, vars, lifecycleVars, startupVars, controlServer
  <2>3. QED
    BY <2>1, <2>2 DEF IInv
<1>5. QED
  BY <1>1, <1>2, <1>3, <1>4 DEF Next

(* The inductive invariant: the threads of both processes, the flag and    *)
(* the reports fit together whatever fails and whatever comes when.        *)
THEOREM Invariance == Spec => []IInv
  BY InvariantStarts, InvariantIsKept, PTL DEF Spec

(* Every variable has its type; a request is counted on accept, so         *)
(* keep_alive never exceeds its limit.                                     *)
THEOREM TypeCorrect == Spec => []TypeOK
<1>1. IInv => TypeOK
  BY DEF IInv, LifecycleIInv, StartupIInv, TypeOK
<1>2. QED
  BY <1>1, Invariance, PTL

(* However afterveda-onvif ends, its discovery thread has ended before it, *)
(* and no Hello is left standing.                                          *)
THEOREM HelloIsTakenBack == Spec => []NoStaleHello
<1>1. IInv => NoStaleHello
  BY DEF IInv, LifecycleIInv, AirFollows, NoStaleHello
<1>2. QED
  BY <1>1, Invariance, PTL

(* The flag is cleared, and the exit code chosen, for a signal or for a    *)
(* failure of HTTP, never for trouble with discovery.                      *)
THEOREM ReasonToStop == Spec => []StopsForAReason
<1>1. IInv => StopsForAReason
  BY DEF IInv, LifecycleIInv, ReasonIsKept, StopsForAReason
<1>2. QED
  BY <1>1, Invariance, PTL

(* After the order to stop at most one connection's requests are answered. *)
THEOREM DrainBound == Spec => []DrainIsBounded
<1>1. IInv => DrainIsBounded
  BY DEF IInv, LifecycleIInv, DrainIsCounted, DrainIsBounded
<1>2. QED
  BY <1>1, Invariance, PTL

(* The main loop of rail-media runs only beside a control thread that      *)
(* listens, and nothing is released under that thread.                     *)
THEOREM ControlThread == Spec => []ControlThreadIsAccountedFor
<1>1. IInv => ControlThreadIsAccountedFor
  BY DEF IInv, StartupIInv, StartupTypeOK, ReportIsTrue, ControlThreadIsAccountedFor
<1>2. QED
  BY <1>1, Invariance, PTL

(* A health page that says "ok" is not followed by a failed start.         *)
THEOREM HonestHealth == Spec => []HealthIsHonest
<1>1. IInv => HealthIsHonest
  BY DEF IInv
<1>2. QED
  BY <1>1, Invariance, PTL

-----------------------------------------------------------------------------
(* The start of rail-media comes to an end.                                *)

(* The main thread does not sleep on a condition variable that has been    *)
(* notified for the last time.                                             *)
NoLostWakeup == railMain = "asleep" => control \in {"setup", "report", "notify"}

(* What a step may do to rail-media. *)
LEMMA RailSteps ==
    [Next]_vars => UNCHANGED startupVars \/ RailMainStep \/ ControlStep \/ SpuriousWakeup \/ TakePost
  BY DEF Next, HealthPage, vars

LEMMA WakeupIsKept == IInv /\ NoLostWakeup /\ [Next]_vars => NoLostWakeup'
<1> SUFFICES ASSUME IInv, NoLostWakeup, [Next]_vars
             PROVE  NoLostWakeup'
  OBVIOUS
<1>1. CASE UNCHANGED startupVars
  BY <1>1 DEF NoLostWakeup, startupVars
<1>2. CASE RailMainStep
  BY <1>2 DEF NoLostWakeup, IInv, StartupIInv, StartupTypeOK, ReportIsTrue, RailMainStep, RailMoves,
              RailConstructs, RailGivesUp, SpawnControl, WaitForStartup, ReapControl, MainLoopRunsJob
<1>3. CASE ControlStep \/ SpuriousWakeup \/ TakePost
  BY <1>3 DEF NoLostWakeup, ControlStep, ControlMoves, RailMoves, SetUpControl, ReportStartup,
              NotifyStartup, EndControl, SpuriousWakeup, TakePost
<1> QED
  BY <1>1, <1>2, <1>3, RailSteps

(* However the threads interleave, and however often the main thread wakes *)
(* for nothing: when it sleeps, its notification is still to come.         *)
THEOREM WakeupIsNotLost == Spec => []NoLostWakeup
<1>1. Init => NoLostWakeup
  BY DEF Init, StartupInit, NoLostWakeup
<1> QED
  BY <1>1, WakeupIsKept, Invariance, PTL DEF Spec

(* The stages of a start, in their order: the control thread before, at    *)
(* and after its report while the main thread waits for it; the main       *)
(* thread told; and the way out of a start that failed.                    *)
Deciding == railMain \in {"check", "asleep"}
SettingUp == Deciding /\ control = "setup"
Reporting == Deciding /\ control = "report"
Notifying == Deciding /\ control = "notify"
Told == railMain = "check" /\ control \in {"loop", "post", "teardown", "ended"}
FailedNotifying == railMain = "reap" /\ control = "notify"
FailedEnding == railMain = "reap" /\ control = "teardown"
FailedEnded == railMain = "reap" /\ control = "ended"
Decided == railMain \in {"run", "exited"}

ControlsTurn == SettingUp \/ Reporting \/ Notifying \/ FailedNotifying \/ FailedEnding
MainsTurn == Told \/ FailedEnded

LEMMA StartStages ==
    IInv /\ NoLostWakeup /\ railMain = "check" => SettingUp \/ Reporting \/ Notifying \/ Told
  BY DEF IInv, StartupIInv, StartupTypeOK, ReportIsTrue, SettingUp, Reporting, Notifying, Told, Deciding

LEMMA StartSuccessors ==
    ASSUME IInv, NoLostWakeup, [Next]_vars
    PROVE  /\ SettingUp => SettingUp' \/ Reporting'
           /\ Reporting => Reporting' \/ Notifying'
           /\ Notifying => Notifying' \/ Told' \/ FailedNotifying' \/ Decided'
           /\ Told => Told' \/ FailedEnding' \/ FailedEnded' \/ Decided'
           /\ FailedNotifying => FailedNotifying' \/ FailedEnding'
           /\ FailedEnding => FailedEnding' \/ FailedEnded'
           /\ FailedEnded => FailedEnded' \/ Decided'
<1> USE DEF SettingUp, Reporting, Notifying, Told, FailedNotifying, FailedEnding, FailedEnded, Decided, Deciding
<1>1. CASE UNCHANGED startupVars
  BY <1>1 DEF startupVars
<1>2. CASE RailMainStep
  BY <1>2 DEF IInv, StartupIInv, StartupTypeOK, ReportIsTrue, RailMainStep, RailMoves, RailConstructs,
              RailGivesUp, SpawnControl, WaitForStartup, ReapControl, MainLoopRunsJob
<1>3. CASE ControlStep \/ SpuriousWakeup \/ TakePost
  BY <1>3 DEF IInv, StartupIInv, StartupTypeOK, ReportIsTrue, NoLostWakeup, ControlStep, ControlMoves,
              RailMoves, SetUpControl, ReportStartup, NotifyStartup, EndControl, SpuriousWakeup, TakePost
<1> QED
  BY <1>1, <1>2, <1>3, RailSteps

LEMMA StartLeft ==
    ASSUME IInv
    PROVE  /\ ControlStep => control' # control
           /\ RailMainStep /\ MainsTurn =>
                  railMain' \notin {"check", "reap"} \/ (Told /\ railMain' = "reap")
  BY DEF IInv, StartupIInv, StartupTypeOK, ReportIsTrue, ControlStep, ControlMoves, SetUpControl,
         ReportStartup, NotifyStartup, EndControl, MainsTurn, Told, FailedEnded, RailMainStep, RailMoves,
         RailConstructs, RailGivesUp, SpawnControl, WaitForStartup, ReapControl, MainLoopRunsJob

LEMMA StartEnabled ==
    OnlyTheOtherThreadBlocks =>
        /\ ControlsTurn => ENABLED <<ControlStep /\ UNCHANGED lifecycleVars>>_vars
        /\ MainsTurn => ENABLED <<RailMainStep /\ UNCHANGED lifecycleVars>>_vars
  BY DEF OnlyTheOtherThreadBlocks, ControlsTurn, MainsTurn, SettingUp, Reporting, Notifying, Told,
         FailedNotifying, FailedEnding, FailedEnded

(* The start of rail-media is decided: whatever fails, and whatever the    *)
(* timing of report, notification and wait, the main thread runs or ends.  *)
THEOREM StartDecided == FairSpec /\ []OnlyTheOtherThreadBlocks => StartupIsDecided
<1> DEFINE Good == IInv /\ NoLostWakeup /\ OnlyTheOtherThreadBlocks
           Assumed == []Good /\ [][Next]_vars /\ Fairness
<1>1. FairSpec /\ []OnlyTheOtherThreadBlocks => Assumed
  BY Invariance, WakeupIsNotLost, PTL DEF FairSpec, Spec
<1>2. Good /\ Good' /\ [Next]_vars =>
          /\ SettingUp => SettingUp' \/ Reporting'
          /\ Reporting => Reporting' \/ Notifying'
          /\ Notifying => Notifying' \/ Told' \/ FailedNotifying' \/ Decided'
          /\ Told => Told' \/ FailedEnding' \/ FailedEnded' \/ Decided'
          /\ FailedNotifying => FailedNotifying' \/ FailedEnding'
          /\ FailedEnding => FailedEnding' \/ FailedEnded'
          /\ FailedEnded => FailedEnded' \/ Decided'
  BY StartSuccessors
<1>3. Good /\ (ControlStep /\ UNCHANGED lifecycleVars) =>
          /\ SettingUp => ~SettingUp'
          /\ Reporting => ~Reporting'
          /\ Notifying => ~Notifying'
          /\ FailedNotifying => ~FailedNotifying'
          /\ FailedEnding => ~FailedEnding'
  BY StartLeft DEF SettingUp, Reporting, Notifying, FailedNotifying, FailedEnding
<1>4. Good /\ (RailMainStep /\ UNCHANGED lifecycleVars) =>
          /\ Told => ~Told'
          /\ FailedEnded => ~FailedEnded'
  BY StartLeft DEF MainsTurn, Told, FailedEnded
<1>5. Good => /\ ControlsTurn => ENABLED <<ControlStep /\ UNCHANGED lifecycleVars>>_vars
              /\ MainsTurn => ENABLED <<RailMainStep /\ UNCHANGED lifecycleVars>>_vars
  BY StartEnabled
<1>6. /\ SettingUp \/ Reporting \/ Notifying \/ FailedNotifying \/ FailedEnding => ControlsTurn
      /\ Told \/ FailedEnded => MainsTurn
  BY DEF ControlsTurn, MainsTurn
<1>7. Good => (railMain = "check" => SettingUp \/ Reporting \/ Notifying \/ Told)
  BY StartStages
<1>8. Decided <=> railMain \in {"run", "exited"}
  BY DEF Decided
<1>9. Assumed => []Good /\ [][Next]_vars /\ Fairness
  OBVIOUS
<1>10. Fairness => /\ WF_vars(RailMainStep /\ UNCHANGED lifecycleVars)
                   /\ WF_vars(ControlStep /\ UNCHANGED lifecycleVars)
  BY PTL DEF Fairness
<1> HIDE DEF Good, Assumed
<1>11. Assumed => (FailedEnded ~> Decided)
  BY <1>2, <1>4, <1>5, <1>6, <1>9, <1>10, PTL
<1>12. Assumed => (FailedEnding ~> FailedEnded)
  BY <1>2, <1>3, <1>5, <1>6, <1>9, <1>10, PTL
<1>13. Assumed => (FailedNotifying ~> FailedEnding)
  BY <1>2, <1>3, <1>5, <1>6, <1>9, <1>10, PTL
<1>14. Assumed => (Told ~> FailedEnding \/ FailedEnded \/ Decided)
  BY <1>2, <1>4, <1>5, <1>6, <1>9, <1>10, PTL
<1>15. Assumed => (Notifying ~> Told \/ FailedNotifying \/ Decided)
  BY <1>2, <1>3, <1>5, <1>6, <1>9, <1>10, PTL
<1>16. Assumed => (Reporting ~> Notifying)
  BY <1>2, <1>3, <1>5, <1>6, <1>9, <1>10, PTL
<1>17. Assumed => (SettingUp ~> Reporting)
  BY <1>2, <1>3, <1>5, <1>6, <1>9, <1>10, PTL
<1>18. Assumed => (railMain = "check" ~> Decided)
  BY <1>7, <1>9, <1>11, <1>12, <1>13, <1>14, <1>15, <1>16, <1>17, PTL
<1> QED
  BY <1>1, <1>8, <1>18, PTL DEF StartupIsDecided

(* A change that arrives before the main loop runs: the main thread may    *)
(* still have to look at the report, then it runs the job.                 *)
PostBeforeLoop == control = "post" /\ railMain = "check"
PostInLoop == control = "post" /\ railMain = "run"

LEMMA PostStages == IInv /\ NoLostWakeup /\ control = "post" => PostBeforeLoop \/ PostInLoop
  BY DEF IInv, StartupIInv, StartupTypeOK, ReportIsTrue, NoLostWakeup, PostBeforeLoop, PostInLoop

LEMMA PostSuccessors ==
    ASSUME IInv, NoLostWakeup, [Next]_vars
    PROVE  /\ PostBeforeLoop => PostBeforeLoop' \/ PostInLoop'
           /\ PostInLoop => PostInLoop' \/ control' = "loop"
           /\ RailMainStep => ~(PostBeforeLoop /\ PostBeforeLoop') /\ ~(PostInLoop /\ PostInLoop')
<1> USE DEF PostBeforeLoop, PostInLoop
<1>1. CASE UNCHANGED startupVars /\ ~RailMainStep
  BY <1>1 DEF startupVars
<1>2. CASE RailMainStep
  BY <1>2 DEF IInv, StartupIInv, StartupTypeOK, ReportIsTrue, RailMainStep, RailMoves, RailConstructs,
              RailGivesUp, SpawnControl, WaitForStartup, ReapControl, MainLoopRunsJob
<1>3. CASE (ControlStep \/ SpuriousWakeup \/ TakePost) /\ ~RailMainStep
  BY <1>3 DEF ControlStep, ControlMoves, RailMoves, SetUpControl, ReportStartup, NotifyStartup,
              EndControl, SpuriousWakeup, TakePost
<1> QED
  BY <1>1, <1>2, <1>3, RailSteps

(* A change that comes early waits for a loop that is about to run. *)
THEOREM EarlyPostAnswered == FairSpec /\ []OnlyTheOtherThreadBlocks => EarlyPostIsAnswered
<1> DEFINE Good == IInv /\ NoLostWakeup /\ OnlyTheOtherThreadBlocks
           Assumed == []Good /\ [][Next]_vars /\ Fairness
           Answered == control = "loop"
<1>1. FairSpec /\ []OnlyTheOtherThreadBlocks => Assumed
  BY Invariance, WakeupIsNotLost, PTL DEF FairSpec, Spec
<1>2. Good /\ [Next]_vars =>
          /\ PostBeforeLoop => PostBeforeLoop' \/ PostInLoop'
          /\ PostInLoop => PostInLoop' \/ Answered'
          /\ RailMainStep => ~(PostBeforeLoop /\ PostBeforeLoop') /\ ~(PostInLoop /\ PostInLoop')
  BY PostSuccessors
<1>3. Good => (PostBeforeLoop \/ PostInLoop => ENABLED <<RailMainStep /\ UNCHANGED lifecycleVars>>_vars)
  BY DEF OnlyTheOtherThreadBlocks, PostBeforeLoop, PostInLoop
<1>4. Good => (control = "post" => PostBeforeLoop \/ PostInLoop)
  BY PostStages
<1>5. Assumed => []Good /\ [][Next]_vars /\ Fairness
  OBVIOUS
<1>6. Fairness => WF_vars(RailMainStep /\ UNCHANGED lifecycleVars)
  BY PTL DEF Fairness
<1> HIDE DEF Good, Assumed, Answered
<1>7. Assumed => (PostBeforeLoop ~> PostInLoop)
  BY <1>2, <1>3, <1>5, <1>6, PTL
<1>8. Assumed => (PostInLoop ~> Answered)
  BY <1>2, <1>3, <1>5, <1>6, PTL
<1>9. Assumed => (control = "post" ~> Answered)
  BY <1>4, <1>5, <1>7, <1>8, PTL
<1> QED
  BY <1>1, <1>9, PTL DEF EarlyPostIsAnswered, Answered

=============================================================================
