--------------------------- MODULE OnvifLifecycle ---------------------------
(***************************************************************************)
(* The life of the afterveda-onvif process: core/app.cpp starts the        *)
(* WS-Discovery thread (network/discovery_server.cpp) and runs the HTTP    *)
(* server (network/http_server.cpp) on the main thread until g_running is  *)
(* false.  The HTTP server takes one connection at a time and stays with   *)
(* it as long as soap_serve keeps it alive (generated/soapServer.cpp).     *)
(*                                                                         *)
(* What a request does is the matter of other modules; here it is served,  *)
(* answered with a fault, or its handler throws.  The kernel's listen      *)
(* queue, the clients and the gSOAP runtime are outside the repository.    *)
(* A client promises nothing: it may stay connected and never ask, and an  *)
(* exchange may hang for ever in its middle.                               *)
(***************************************************************************)
EXTENDS Naturals, Sequences

CONSTANTS
    Client,        \* ONVIF clients
    None,          \* no client
    MaxKeepAlive,  \* external: max_keep_alive of the gSOAP context
    Backlog        \* length of the listen queue, 16 in the code

ASSUME LifecycleAssumption ==
    /\ None \notin Client
    /\ MaxKeepAlive \in Nat \ {0}
    /\ Backlog \in Nat \ {0}

VARIABLES
    running,    \* g_running
    main,       \* where the main thread stands
    failure,    \* an exception left http_server
    exitCode,   \* of the process
    discovery,  \* where the discovery thread stands
    onAir,      \* what the device last announced
    listening,  \* the HTTP port accepts connections
    backlog,    \* connections the kernel holds for soap_accept
    conn,       \* each client's connection
    current,    \* the client soap_serve is with
    keepAlive,  \* soap->keep_alive
    health,     \* verdict of the latest GET /health page
    signalled,  \* history: SIGINT or SIGTERM arrived
    drained     \* history: requests answered after running was cleared

mainState == <<main, failure, exitCode>>
discoveryState == <<discovery, onAir>>
connections == <<listening, backlog, conn, current, keepAlive>>
lifecycleVars == <<running, mainState, discoveryState, connections, health, signalled, drained>>

(* Bound of the history counter, one beyond what is ever right. *)
MaxDrained == MaxKeepAlive + 2

LifecycleTypeOK ==
    /\ running \in BOOLEAN
    /\ main \in {"args", "spawn", "bind", "loop", "select", "accept", "serve", "join", "exited"}
    /\ failure \in BOOLEAN
    /\ exitCode \in {0, 1}
    /\ discovery \in {"none", "open", "hello", "check", "listen", "bye", "ended"}
    /\ onAir \in {"silent", "hello", "bye", "unsaid"}
    /\ listening \in BOOLEAN
    /\ backlog \in Seq(Client) /\ Len(backlog) <= Backlog
    /\ conn \in [Client -> {"away", "queued", "idle", "asking", "stalled", "left"}]
    /\ current \in Client \union {None}
    /\ main = "serve" => current # None
    /\ keepAlive \in 0..MaxKeepAlive
    /\ health \in {"none", "ok", "degraded"}
    /\ signalled \in BOOLEAN
    /\ drained \in 0..MaxDrained

LifecycleInit ==
    /\ running = TRUE
    /\ main = "args"
    /\ failure = FALSE
    /\ exitCode = 0
    /\ discovery = "none"
    /\ onAir = "silent"
    /\ listening = FALSE
    /\ backlog = <<>>
    /\ conn = [c \in Client |-> "away"]
    /\ current = None
    /\ keepAlive = 0
    /\ health = "none"
    /\ signalled = FALSE
    /\ drained = 0

-----------------------------------------------------------------------------
(* run() and main(): from the arguments to the exit code.                  *)

(* The kernel closes what the process leaves open. *)
Exit(code) ==
    /\ main' = "exited"
    /\ exitCode' = code
    /\ listening' = FALSE
    /\ backlog' = <<>>
    /\ conn' = [c \in Client |-> "away"]
    /\ current' = None

(* The arguments are good and the signal handlers are installed. *)
ParseArgs ==
    /\ main = "args"
    /\ main' = "spawn"
    /\ UNCHANGED <<running, failure, exitCode, discoveryState, connections, health, signalled, drained>>

(* --help ends the process with 0, a bad option with 1. *)
ParseArgsEnds ==
    /\ main = "args"
    /\ \E code \in {0, 1} : Exit(code)
    /\ UNCHANGED <<running, failure, discoveryState, keepAlive, health, signalled, drained>>

StartDiscovery ==
    /\ main = "spawn"
    /\ main' = "bind"
    /\ discovery' = "open"
    /\ UNCHANGED <<running, failure, exitCode, onAir, connections, health, signalled, drained>>

(* std::thread cannot start a thread: its exception goes straight to main. *)
StartDiscoveryFails ==
    /\ main = "spawn"
    /\ Exit(1)
    /\ UNCHANGED <<running, failure, discoveryState, keepAlive, health, signalled, drained>>

(* Mutant of Unwind: the discovery thread is not told. *)
UnwindQuietly ==
    /\ failure' = TRUE
    /\ main' = "join"
    /\ UNCHANGED <<running, exitCode, discoveryState, connections, health, signalled, drained>>

(* An exception leaves http_server: run() catches it, tells the discovery  *)
(* thread to stop and joins it.  What http_server had open stays open.     *)
Unwind ==
    /\ failure' = TRUE
    /\ running' = FALSE
    /\ main' = "join"
    /\ UNCHANGED <<exitCode, discoveryState, connections, health, signalled, drained>>

(* Mutant of Join: the exit does not wait for the thread. *)
JoinNothing ==
    /\ main = "join"
    /\ Exit(IF failure THEN 1 ELSE 0)
    /\ UNCHANGED <<running, failure, discoveryState, keepAlive, health, signalled, drained>>

Join ==
    /\ main = "join"
    /\ discovery = "ended"
    /\ Exit(IF failure THEN 1 ELSE 0)
    /\ UNCHANGED <<running, failure, discoveryState, keepAlive, health, signalled, drained>>

-----------------------------------------------------------------------------
(* http_server().                                                          *)

BindHttp ==
    /\ main = "bind"
    /\ main' = "loop"
    /\ listening' = TRUE
    /\ UNCHANGED <<running, failure, exitCode, discoveryState, backlog, conn, current, keepAlive,
                   health, signalled, drained>>

(* soap_new1 or soap_bind fails. *)
BindHttpFails == main = "bind" /\ Unwind

(* Mutant of CheckRunning: the loop goes on as long as clients wait. *)
CheckRunningServesQueue ==
    /\ main = "loop"
    /\ IF running \/ backlog # <<>>
         THEN main' = "select" /\ UNCHANGED connections
         ELSE /\ main' = "join"
              /\ listening' = FALSE
              /\ backlog' = <<>>
              /\ conn' = [c \in Client |-> "away"]
              /\ UNCHANGED <<current, keepAlive>>
    /\ UNCHANGED <<running, failure, exitCode, discoveryState, health, signalled, drained>>

(* The head of the loop.  When it ends, soap_done closes the port, and     *)
(* with it the connections nobody accepted.                                *)
CheckRunning ==
    /\ main = "loop"
    /\ IF running
         THEN main' = "select" /\ UNCHANGED connections
         ELSE /\ main' = "join"
              /\ listening' = FALSE
              /\ backlog' = <<>>
              /\ conn' = [c \in Client |-> "away"]
              /\ UNCHANGED <<current, keepAlive>>
    /\ UNCHANGED <<running, failure, exitCode, discoveryState, health, signalled, drained>>

(* select reports a connection, or times out, or is interrupted. *)
Select ==
    /\ main = "select"
    /\ \/ backlog # <<>> /\ main' = "accept"
       \/ (backlog = <<>> \/ signalled) /\ main' = "loop"
    /\ UNCHANGED <<running, failure, exitCode, discoveryState, connections, health, signalled, drained>>

(* Mutant of Accept: the first request is not counted. *)
AcceptUncounted ==
    /\ main = "accept"
    /\ main' = "serve"
    /\ current' = Head(backlog)
    /\ backlog' = Tail(backlog)
    /\ conn' = [conn EXCEPT ![Head(backlog)] = IF @ = "queued" THEN "idle" ELSE @]
    /\ keepAlive' = MaxKeepAlive + 1
    /\ UNCHANGED <<running, failure, exitCode, discoveryState, listening, health, signalled, drained>>

(* soap_accept, and the head of soap_serve's loop for the first request.   *)
(* The client may have closed the connection already.                      *)
Accept ==
    /\ main = "accept"
    /\ main' = "serve"
    /\ current' = Head(backlog)
    /\ backlog' = Tail(backlog)
    /\ conn' = [conn EXCEPT ![Head(backlog)] = IF @ = "queued" THEN "idle" ELSE @]
    /\ keepAlive' = MaxKeepAlive
    /\ UNCHANGED <<running, failure, exitCode, discoveryState, listening, health, signalled, drained>>

(* No descriptor for the connection, or it is gone: back to the loop. *)
AcceptFails ==
    /\ main = "accept"
    /\ main' = "loop"
    /\ UNCHANGED <<running, failure, exitCode, discoveryState, connections, health, signalled, drained>>

-----------------------------------------------------------------------------
(* soap_serve(), with the connection of the current client.                *)

(* soap_serve returns and the connection is closed. *)
HangUp ==
    /\ main' = "loop"
    /\ current' = None
    /\ conn' = [conn EXCEPT ![current] = "away"]
    /\ UNCHANGED keepAlive

(* Mutant of NextRequest: a connection that is used is never given up. *)
NextRequestForever ==
    /\ conn' = [conn EXCEPT ![current] = "idle"]
    /\ UNCHANGED <<main, current, keepAlive>>

(* The foot and the head of the loop: another request, or enough of them. *)
NextRequest ==
    IF keepAlive = 0
      THEN HangUp
      ELSE /\ keepAlive' = keepAlive - 1
           /\ conn' = [conn EXCEPT ![current] = "idle"]
           /\ UNCHANGED <<main, current>>

Asked == main = "serve" /\ conn[current] = "asking"

CountDrained ==
    drained' = IF Asked /\ ~running /\ drained < MaxDrained THEN drained + 1 ELSE drained

(* A SOAP request is served; the client may want the connection closed. *)
ServeRequest ==
    /\ Asked
    /\ NextRequest \/ HangUp
    /\ CountDrained
    /\ UNCHANGED <<running, failure, exitCode, discoveryState, listening, backlog, health, signalled>>

(* GET /health: soap_begin_serve returns SOAP_STOP, the loop goes on. *)
health_check(verdict) ==
    /\ Asked
    /\ health' = verdict
    /\ NextRequest \/ HangUp
    /\ CountDrained
    /\ UNCHANGED <<running, failure, exitCode, discoveryState, listening, backlog, signalled>>

(* A request that cannot be read or answered: a fault at most, and the     *)
(* connection is closed.  So it is when the client has closed it.          *)
ServeFails ==
    /\ main = "serve"
    /\ conn[current] \in {"asking", "left"}
    /\ HangUp
    /\ CountDrained
    /\ UNCHANGED <<running, failure, exitCode, discoveryState, listening, backlog, health, signalled>>

(* A handler throws, as continuous_move_ptz does when it can start no      *)
(* timer thread: nothing catches it before run().                          *)
HandlerThrows == Asked /\ Unwind

-----------------------------------------------------------------------------
(* discovery_server(), in its own thread.                                  *)

DiscoveryMoves(from, to) ==
    /\ discovery = from
    /\ discovery' = to
    /\ UNCHANGED <<running, mainState, connections, health, signalled, drained>>

OpenDiscovery == DiscoveryMoves("open", "hello") /\ UNCHANGED onAir

(* Mutant of DiscoveryDisabled: the thread takes the HTTP server with it. *)
DiscoveryDisabledStopsAll ==
    /\ discovery = "open"
    /\ discovery' = "ended"
    /\ running' = FALSE
    /\ UNCHANGED <<mainState, onAir, connections, health, signalled, drained>>

(* No context, or the UDP port is taken: the thread reports it and ends. *)
DiscoveryDisabled == DiscoveryMoves("open", "ended") /\ UNCHANGED onAir

(* Without a context for it an announcement is silently left out. *)
announce_discovery_hello ==
    /\ DiscoveryMoves("hello", "check")
    /\ onAir' \in {"hello", "silent"}

CheckDiscovery == DiscoveryMoves("check", IF running THEN "listen" ELSE "bye") /\ UNCHANGED onAir

(* soap_wsdd_listen answers probes and returns after a second. *)
Listen == DiscoveryMoves("listen", "check") /\ UNCHANGED onAir

announce_discovery_bye ==
    /\ DiscoveryMoves("bye", "ended")
    /\ onAir' \in {"bye", "unsaid"}

-----------------------------------------------------------------------------
(* Clients and the operator.                                               *)

ClientMoves(c, from, to) ==
    /\ conn[c] \in from
    /\ conn' = [conn EXCEPT ![c] = to]
    /\ UNCHANGED <<running, mainState, discoveryState, listening, current, keepAlive, health, signalled, drained>>

Connect(c) ==
    /\ listening
    /\ Len(backlog) < Backlog
    /\ backlog' = Append(backlog, c)
    /\ ClientMoves(c, {"away"}, "queued")

Ask(c) == ClientMoves(c, {"idle"}, "asking") /\ UNCHANGED backlog

Leave(c) == ClientMoves(c, {"queued", "idle"}, "left") /\ UNCHANGED backlog

(* It asks, and the exchange hangs: it stops in the middle of its request  *)
(* or of reading the answer, or rail-media sends its own answer byte by    *)
(* byte, as the time limit of http_client.cpp is one of each recv.         *)
Stall(c) == ClientMoves(c, {"idle"}, "stalled") /\ UNCHANGED backlog

(* The exchange goes on, or breaks off: the request is served, or fails. *)
StallEnds(c) == ClientMoves(c, {"stalled"}, "asking") /\ UNCHANGED backlog

(* handle_signal: SIGINT or SIGTERM, at any time once it is installed. *)
handle_signal ==
    /\ main \notin {"args", "exited"}
    /\ ~signalled
    /\ signalled' = TRUE
    /\ running' = FALSE
    /\ UNCHANGED <<mainState, discoveryState, connections, health, drained>>

-----------------------------------------------------------------------------
(* Everything the main thread does but accepting and answering /health. *)
MainStep ==
    \/ ParseArgs
    \/ ParseArgsEnds
    \/ StartDiscovery
    \/ StartDiscoveryFails
    \/ BindHttp
    \/ BindHttpFails
    \/ CheckRunning
    \/ Select
    \/ AcceptFails
    \/ ServeRequest
    \/ ServeFails
    \/ HandlerThrows
    \/ Join

DiscoveryStep ==
    \/ OpenDiscovery
    \/ DiscoveryDisabled
    \/ announce_discovery_hello
    \/ CheckDiscovery
    \/ Listen
    \/ announce_discovery_bye

ClientStep == \E c \in Client : Connect(c) \/ Ask(c) \/ Leave(c) \/ Stall(c) \/ StallEnds(c)

-----------------------------------------------------------------------------
(* Properties.                                                             *)

(* The process never ends with its announcement standing: the discovery    *)
(* thread has ended, and a Hello was taken back, unless the Bye itself     *)
(* could not be sent.  This holds however the HTTP server ended, and also  *)
(* when it never got its port.                                             *)
NoStaleHello ==
    main = "exited" => discovery \in {"none", "ended"} /\ onAir # "hello"

(* The process stops because it is told to or because HTTP cannot go on,   *)
(* and its exit code says which; trouble with discovery stops nothing.     *)
StopsForAReason ==
    /\ ~running => signalled \/ failure
    /\ main = "exited" /\ discovery # "none" =>
           (exitCode = 1 <=> failure) /\ (exitCode = 0 => signalled)

(* After the order to stop the server answers the requests of at most one  *)
(* connection, and no more of them than keep-alive allows.                 *)
DrainIsBounded == drained <= MaxKeepAlive + 1

(* For ever with a client that is connected and does not ask, or in an     *)
(* exchange that hangs: soap_serve has no time limit of its own.           *)
HeldForever == [](main = "serve" /\ conn[current] \in {"idle", "stalled"})

(* Told to stop, or left by an exception, the process ends; only one       *)
(* connection that stays open without a word, or in the middle of an       *)
(* exchange, can hold it up.                                               *)
ShutdownCompletes == (~running \/ failure) ~> (main = "exited" \/ HeldForever)

(* A waiting client gets its turn however busy the others are; only one    *)
(* before it that is silent or hangs, or the end of the process, can       *)
(* prevent that.                                                           *)
EveryClientGetsItsTurn ==
    \A c \in Client : (conn[c] = "queued") ~> (conn[c] # "queued" \/ HeldForever)

=============================================================================
