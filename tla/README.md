# Verification of cctv-rasp: afterveda-onvif and rail-media

The repository holds the two daemons of a pan/tilt camera on a rail. `rail-media`
(`media-server/`) runs a GStreamer RTSP server with one stream and an HTTP control API on
libsoup. `afterveda-onvif` (`onvif-server/`) speaks ONVIF: a gSOAP HTTP server for the media,
imaging, OSD, PTZ and device services, and WS-Discovery. It drives the pan/tilt motors through a
character device, and reads and changes the stream through the control API of `rail-media`.

    ONVIF client --SOAP/HTTP--> afterveda-onvif --write()--> /dev PTZ driver --> motors
                                      |
                                      | HTTP, 1 s of silence at most, one connection per exchange
                                      v
    other clients --HTTP--> rail-media control thread --g_idle_add, condvar--> main loop
                                                                                  |
    RTSP clients <-----------RTSP----------- GStreamer RTSP server <-- factory ---+

In what follows `P:` is `onvif-server/src/ptz/ptz_device.cpp`, `MS:` is
`media-server/src/media_server.cpp`, `CS:` is `media-server/src/control_server.cpp`.

## Inventory

| Component | State | Operations | Hard parts |
|---|---|---|---|
| PTZ device control (`ptz/ptz_device.*`) | generation counter, home position, two mutexes, detached timer threads; the driver's position and velocity; four atomics in dry-run mode | continuous, relative, absolute move, stop, read status, store home | timers racing newer commands; reads outside the mutex; failing writes; restarts |
| PTZ SOAP service (`soap_ptz_service.cpp`) | none | handlers with checks and conversions | order of the checks, rounding of the timeout, a question to `rail-media` before every command |
| Rail media server (`media_server.*`) | configuration, pipeline and camera status, client count, mounted factory | preset, video, imaging and OSD changes on the main loop; callbacks of clients, media and bus | hand-over between threads, late callbacks, old media beside new |
| Rail control server (`control_server.*`) | its thread and main loop, the startup flags | the HTTP handlers, startup handshake | waits for the main loop; values worked out before they are applied |
| Rail configuration (`config.*`, `profiles.*`, `pipeline.*`, `main.cpp`) | the command line | presets, parsing, pipeline text | which combinations are accepted |
| Rail client (`rail_client.*`, `http_client.*`) | none between calls | GET and POST of settings | timeouts, truncation, a request handled after it was given up, defaults instead of errors |
| Media, Imaging, OSD SOAP services | none between calls | read, decide, write | read-modify-write over two or three exchanges |
| HTTP server (`http_server.*`, the loop of `soap_serve`) | the listening socket, the connection under way, its keep-alive count | bind, accept, serve, health page, close | one connection at a time; silent clients; shutdown beside a busy client |
| Discovery server (`discovery_server.*`) | its thread | bind, Hello, listen, Bye | fails on its own, must be joined |
| Process lifecycle (`app.*`, `main.cpp`) | the running flag, the discovery thread | arguments, signals, threads, exit code | exceptions and signals on every path, a start that half fails |
| Configuration, utilities (`core/`) | none | parsing, base64, digests | text |
| SOAP authentication and common code | none between requests | a stateless check of the digest | clocks that differ |
| Device SOAP service | none | fills responses from the configuration | - |

What makes each part correct:

* PTZ: a motion that has a timeout ends; a timer never ends a motion it was not started for; an
  acknowledgement is true; a relative move is relative to the place where the camera is.
* Rail media: the control API behaves as one register that requests change atomically; the mounted
  pipeline is the one of the reported configuration and nobody stays on an older one; the health
  status tells what the pipeline does and settles when everybody has left.
* Lifecycles: a process ends when it is told to, joins its threads and takes its announcement back on
  every way out; a startup is decided and reported; the health page does not claim what may still fail.
* Rail client and SOAP services: a partial change touches nothing else; what was decided on what was
  read fits what it is applied to; an acknowledged change is not undone by one that was reported as
  failed; every request is answered, unless a peer holds its exchange; a query reports what is in force.

`PROJECT.json` lists the hazards line by line with the properties that cover them.

## Modules

| Module | Models |
|---|---|
| `PtzAxes` | positions, velocities, clamping, scaling and narrowing of P:19-181 |
| `PtzMotion` | abstract: one camera, still or driven, with at most one deadline |
| `PtzDevice` | the SOAP thread and the timer threads over the PTZ device |
| `RailConfig` | fields, values and groups of a rail configuration; requests; presets; what is accepted |
| `RailRegister` | abstract: the control API as one atomic register |
| `RailPipeline` | clients, factories, media and the callbacks that keep the status |
| `RailMedia` | the control thread and the main loop around `RailPipeline` |
| `OnvifRail` | the ONVIF handlers over the HTTP client, and `rail-media` as the register |
| `SoapCommon` | the check of credentials and of profile tokens |
| `PtzRequest` | the checks of the PTZ handlers in their order, the duration parser |
| `PtzDryRun` | PTZ calls from their checks to the four atomics of the dry-run camera |
| `OnvifLifecycle` | `afterveda-onvif` from its arguments to its exit code, with its connections |
| `RailStartup` | `rail-media` from its arguments to its main loop |
| `Daemons` | the two processes together, joined by the health page |
| `MCPtzDevice`, `MCPtzDryRun`, `MCRailMedia`, `MCOnvifRail`, `MCDaemons` | values for TLC |
| `PtzAxes_proofs`, `PtzDevice_proofs`, `RailMedia_proofs`, `OnvifRail_proofs`, `Daemons_proofs`, `PtzDryRun_proofs`, `PtzTimeout_proofs` | theorems |

`PtzDevice` extends `PtzAxes` and instantiates `PtzMotion`; `PtzDryRun` extends `PtzDevice` and
`PtzRequest`, which extends `SoapCommon`. `RailMedia` extends `RailPipeline` and `RailConfig` and
instantiates `RailRegister`; `OnvifRail` extends `RailConfig` and takes `rail-media` as that register.
`Daemons` extends `OnvifLifecycle` and `RailStartup`.

Definitions called "Mutant of ..." stand beside the definition they vary. They are not part of any
specification: each is a plausible bug, and a run with it in place of the original must find the
property named in `PROJECT.json` violated, which shows that the property depends on the code.

### PtzDevice

Variables follow the code: `generation` is `g_motion_generation`, `home` is `g_home_position`,
`lock` is `g_command_mutex` with the kind of its holder, `asleep` are the detached timer threads by
the generation their closure captured (P:292), `soap` the place where the one SOAP thread stands.
`cause`, `lastWrite` and `readAtRest` are history.

A handler is split where another thread can come in between: `Receive` (the handler's checks
passed), `ReadStatus`/`ReadFails` (the read outside the mutex), `StoreHome`, `LockCommand` (mutex
and counter), `WriteCommand` (the write, with its outcome, and the release), `SpawnTimer` (after the
release). A timer does `TimerWakes` (sleep over, mutex taken, counter compared) and `TimerStops` (the
write, then the counter). A write is "ok", "failed" (open or write reported it; the driver got
nothing) or "unacknowledged" (the driver took it, `close` reported an error, P:79). A request that
fails the checks is `ServeWithoutEffect`. `Restart` ends the process: timers are gone, the driver
keeps its velocity.

Abstractions: time is not measured, a sleeping timer may wake at any moment, which includes every
timing. The driver is external and moves the position by one step per action within the limits. A
`write` that returns 0 for ever spins in P:68; it is a thread that never takes its write step and is
excluded by fairness only.

`PtzAxes` keeps the widths. The handlers do not limit an axis value; `std::lround` makes a `long` of its
product with the step or speed, `static_cast<int>` keeps the low bits of that (`Wrap`), and so do, in the
build, the negation and the sum with the position, whose overflow C++ leaves undefined. `OutOfRange` is what
`lround` returns for what no `long` holds. A value is a count of `1/AxisUnit`; infinities and NaN behave as one
that is too large.

### SoapCommon, PtzRequest, PtzDryRun

`require_auth` is a decision over what the header holds: user, kind of password, whether the text or
the digest fits, and the age of the timestamp. `PtzRequest` has the checks of the eight PTZ handlers
that reach the device as a set of defects and the order in which the code looks at them (`Verdict`).
`parse_ptz_timeout_ms` works on a duration that is split into numbers and units; amounts are counted
in ten-thousandths, so that half a millisecond, a millisecond and an hour have neighbours on both
sides. The code calculates in doubles, the model exactly; NaN is a kind of number of its own.

`PtzDryRun` replaces the device of `PtzDevice` by the atomics `g_dry_run_pan`, `g_dry_run_tilt`,
`g_dry_run_pan_speed` and `g_dry_run_tilt_speed`. A call is `Arrive`; `AskRail`, if credentials and token
get that far, which begins the exchange with `rail-media` that looks the profile up; `CheckCall`, the verdict
after it; `AnswerAtOnce` for a fault
or a Stop with nothing to stop, or `CallDevice`. Timers wake and store while the exchange goes on. `rail-media` may hold
it, sending byte after byte, until `PeerLetsGo`, which need not come. A status is four loads (`LoadNext`) without the mutex
and its use (`UseStatus`); a command is `BeginCommand` and one store per step (`StoreNext`); a timer
is `DryTimerWakes` and its stores (`TimerStoreNext`). All other steps are those of `PtzDevice`.
`during` is history: whether the camera moved, at each load of the call.

### RailPipeline, RailMedia

`RailPipeline` has one action per callback (MS:226-321) and one per step of GStreamer that a
callback can observe. `on_media_unprepared` is two actions, because it looks at the status under
one lock and writes it under another (MS:262, MS:265). A media's own signals come in order; those of
different media do not. A factory is shared, hence has one media at a time; media of an old and a
new factory exist together, because a client may hold the old factory while the new one is mounted
and a UDP session lingers until its timeout.

`RailMedia` adds the control thread (`Get`, `ReadHealth`/`AnswerHealth`, `Refuse`, `Post`,
`CheckDone`, `SpuriousWakeup`, `AnswerPost`) and the main loop, which performs a job in the order of `install_factory` and the
`*_now` functions: `StartJob`, `ResetStatus`, `RemoveFactory`, `AddFactory`, `CloseClient` for each
client, `ClientsClosed`, `Commit`, `SetDone`, `Notify`. All four kinds of request have this shape;
they differ in what they hand over (`HandedOver`), what they reject (`Accepted`) and their code. The
main loop accepts no connection while it performs a job; clients and media go on.

The wait for a job is the condition variable of the request (MS:114): with the mutex held the control thread
looks at `done`, and goes to sleep in the same step (`CheckDone`) or returns (`AnswerPost`). Asleep, it is woken
by `Notify` or for nothing by `SpuriousWakeup`, and looks again; nothing else wakes it. `SetDone` and `Notify` are
two steps of the main loop, the second without the mutex. So the control thread may see `done` before it is
notified, end the request and wait on another one: `Notify` then wakes nobody.

Abstractions: the text of a pipeline is the configuration it is built from. `last_error`,
timestamps, uptime, `rtsp_server_ready` (set once in the constructor) and digest authentication are
data without influence on control. `notify_one` on a condition variable that is gone (MS:169) is undefined
for the library; in the model it has no effect. The number of factories is a
bound: the main loop waits in the model until one is free.

### OnvifRail

One SOAP thread serves one request (`Receive`). An exchange is `Send` and `ExchangeEnds(result)`:
no connection, a connection that stays silent for a second or is closed, a response, or a response
that broke off within its headers. The timeout is one of each `recv` (`http_client.cpp:81`): a peer that sends
a byte now and then holds the exchange (`held`), which ends after `PeerLetsGo` only, and nothing makes the peer
let go. A request that was sent stays in `queue` when the caller gives up, and is handled later. `FromRail` gives the settings a handler works with: those of the
response, those of a response that broke off (fields that did not arrive have their default, one
number may be cut), or the built-in defaults. `ReadSettings` is the read with the decision that
follows it, `Reread` the second GET of the OSD handlers in `set_osd`, whose result is overwritten,
`WriteSettings` the POST with the answer, `CheckHealth` the `/health` page.

Imaging settings are doubles that both daemons print with the six digits of a stream (`control_server.cpp:550`,
`rail_client.cpp:157`): `Printed` is what arrives, in either direction, and `Shown` the float of a SOAP answer.
`SixDigits` and `AsFloat` are functions on the values, with the one assumption that printing a second time changes
nothing. Video settings, booleans and texts arrive as they are.

`rail-media` is taken as the register that `RailMedia` is proved to implement, so one action
handles a request. Its connections are handled in the order they were made: the control server has
one thread, `afterveda-onvif` makes its connections one after the other, and a request is sent in
one small `send`. `OtherWrites` are other clients of the control API, `RailRestarts` the end of the
process with a new command line. Of the checks in the handlers, those of authentication, tokens and
ranges end a request before any exchange and are not actions; the clamping of the bitrate is done on
the values in `Calls`.

History: `whole` says that settings were read from a complete response, `foreign` that others have
changed `rail-media` since that response. Both appear in the properties because the code gives no
guarantee without them: it has no conditional write, and a failed read is not an error.

### OnvifLifecycle, RailStartup, Daemons

`OnvifLifecycle` has three kinds of actors. The main thread is `ParseArgs`, `StartDiscovery`,
`BindHttp`, the loop (`CheckRunning`, `Select`, `Accept`) and `Join`, with a second action for every
step that can fail. With a connection it is in `soap_serve`: `ServeRequest`, `health_check`,
`ServeFails` and `NextRequest`, which counts keep-alive down as the generated loop does; that loop is
the only part of the generated code in the model. `HandlerThrows` is an exception out of a handler
(`std::thread` in `continuous_move_ptz`), which nothing catches before `run`: `Unwind`. The discovery
thread is `OpenDiscovery` or `DiscoveryDisabled`, Hello, the loop of `CheckDiscovery` and `Listen`, and
Bye. Clients connect, ask and leave as they like. An exchange may hang in its middle (`Stall`), because the client
stops in its request or `rail-media` trickles its answer; it need not go on (`StallEnds`). `Exit` closes what is open.

`RailStartup` has the main thread of `rail-media` and its control thread. The condition variable is
`WaitForStartup` (the predicate, and sleep or go on), `SpuriousWakeup` and `NotifyStartup`; `ReportStartup`
is what `signal_startup` does under the mutex. `TakePost` and `MainLoopRunsJob` are a POST reduced to
its hand-over: it may arrive before the main loop runs. The main loop is never quit by the code and
no signal handler is installed, so nothing follows `run` and the destructors are not reached.

`Daemons` runs both and gives the health page its verdict: "ok" needs a control thread that answers.

History: `signalled` and `drained` (requests answered after the running flag was cleared).

## Runs

TLC checks deadlock in all runs but two. In `lifecycle` both processes may really end. In
`ptz_dry_run` the bound of the counter ends the requests and, without a driver or a restart, nothing
else goes on.

| Run | Shows | Instance |
|---|---|---|
| `ptz_safety` | timers end only their own motion (`TimerStopsOnlyItsOwnMotion`); a healthy motion has its timer (`HealthyMotionIsWatched`); acknowledgements are true (`AcknowledgedMeansDone`); relative moves start where the camera is (`RelativeBaseIsCurrent`); threads, mutex and counter implement `PtzMotion` | 3x2 positions, axis values -5, -1, 0 with ints up to 3, all write outcomes, restarts, 3 commands; 2.1 million states |
| `ptz_liveness` | motions end or are taken over (`MotionEnds`), requests are answered (`RequestsAreAnswered`) | writes succeed; 52 thousand states |
| `ptz_lost_auto_stop` | violation: `MotionEnds` with failing client commands | timers' writes succeed |
| `rail_control` | the API is an atomic register (`ImplementsRegister`); the mounted factory is of the reported configuration (`FactoryIsCurrent`) | every configuration and request over five fields of two values and the encoder, two symmetric factories; 2.9 million states |
| `rail_pipeline` | nobody stays on an old pipeline (`NoClientOnOldPipeline`); exact count (`ClientsCounted`); the two statuses agree (`StatusesAgree`); "ready" is not left over (`ReadyHasAPipeline`) | two clients, two factories, symmetric; 0.6 million states |
| `rail_liveness` | a control thread that sleeps on a job that is done is still to be notified (`NotificationIsToCome`); control requests return (`RequestsReturn`); the status settles when the clients are gone (`StatusSettles`) | one client, two factories, presets that exist, spurious wakeups; 0.3 million states |
| `rail_error_doc` | violation: an error that was reported is overwritten | as `rail_liveness` |
| `rail_idle_doc` | violation: "idle" with a running pipeline | as `rail_liveness` |
| `onvif_rail` | partial changes touch nothing else (`OnlyNamedSettingsChange`); OSD decisions still fit (`OsdCallsFitTheOsd`); acknowledged is final (`AcknowledgedIsFinal`); calls are answered (`CallsAreAnswered`) | one change of the bitrate, of an imaging value and of each kind of the OSD, a contrast that six digits change, restarts, truncation, two connections, a peer that may hold each exchange; 0.4 million states |
| `onvif_query_doc` | violation: a query that reports defaults | one setting changed and queried |
| `ptz_dry_run` | a status is never a mixture (`StatusWasTrue`); acknowledgements are true (`AcknowledgedMeansStored`); an accepted timeout is the one asked for, a refused one is malformed or out of range (`TimeoutIsHonest`); four atomics implement `PtzMotion` (`DryRunImplementsMotion`); `MotionEnds`; calls are answered (`CallsAreAnswered`) | each defect and each limit of a duration once, moves of one and of both axes, an exchange that may be held; 40 thousand states |
| `lifecycle` | no announcement outlives the process (`NoStaleHello`); a reason to stop, and the exit code (`StopsForAReason`); one connection at most after the signal (`DrainIsBounded`); the process ends (`ShutdownCompletes`); no client is starved by a busy one (`EveryClientGetsItsTurn`); the control thread is joined (`ControlThreadIsAccountedFor`), its start decided (`StartupIsDecided`), an early POST answered (`EarlyPostIsAnswered`), the health page honest (`HealthIsHonest`) | two clients, keep-alive of one, a queue of two, every step may fail, exchanges may hang; 182 thousand states |

Why the bounds suffice. PTZ: `MaxGeneration` 3 lets two timers sleep while a third command is under
way, and timers of an old and a new motion meet in all orders; with a timer's own increments the
counter goes on past it, and no request is received any more. Three pan positions give a move that
stays within the limits and one that is clamped; an axis value of -5, with a largest int of 3, is narrowed to a
movement the other way, whose sum with a position overflows once more. Rail: a control request is handled at a time, so a
run of requests is explored by starting from every configuration; two factories are the new one and
an old one with lingering media; two clients are one on each. `rail_pipeline` uses one value per
field, as what a change does to clients and media does not look at values, and `rail_control` uses
no clients. OnvifRail: with a `Backlog` of two, a request that was given up is still in the queue
while the next one is sent, and three groups let it be of the same group or of another. As an imaging setting, one
of the three values stands for a double of more than six digits; the only change of one names brightness, so that
contrast goes through unnamed.

Dry run: `MaxGeneration` 4 and the room `Arrive` leaves give two commands beside the timers of both;
the axis values 0 and 1 tell one axis from both. Lifecycle: one client is served while the other
waits, and comes back; one further request per connection tells a connection that is given up from
one that is not; `drained` counts to one beyond what is right.

`Client` and `Factory` are symmetric in `rail_pipeline` and `rail_control` only, which have no
liveness property.

Fairness. `PtzDevice`: weak fairness of the SOAP thread's steps, of each timer's wake-up (the sleep
is finite and the mutex is held only during a write) and of its write. Weak fairness is enough although
the mutex may be taken again and again: whoever takes it before a timer does supersedes its motion,
and one timer at most takes it before a request does (`PtzDevice_proofs`). Clients and driver have
none. `RailMedia`: weak fairness of the control thread, the main loop and each media's progress,
that is, GStreamer finishes what it has begun; clients may do nothing. `OnvifRail`: weak fairness of
the SOAP thread only, which an exchange that is not held ends for by its timeout; nothing is asked of `rail-media`,
and that it lets go of an exchange is not assumed: the properties say so (`[]held`). `PtzDryRun`: as
`PtzDevice`, and the exchange before `CheckCall` as those of `OnvifRail`.
`Daemons`: weak fairness of each of the four threads, strong fairness of `Accept` only, since an accept
that fails is tried again. Clients, the operator and spurious wakeups have none. The gSOAP context has
no receive timeout (`http_server.cpp:58`), so a client that stays connected and asks nothing, or stops in its
request, holds the server for ever; the two liveness properties say so (`HeldForever`) rather than assume it away.

## Disagreements found

1. `ptz_lost_auto_stop`. Every command advances the counter before it writes. When the write fails,
   the timer of the motion still under way stands down and nothing stops the camera. The
   documentation promises an automatic stop (`docs/media-onvif-runtime/onvif-server.md:140`).
2. `rail_error_doc`. `on_media_prepared` and the second half of `on_media_unprepared` write the
   status without looking at it, over an error reported meanwhile (`media-server/README.md:99`).
3. `rail_idle_doc`. A callback of a media that was replaced sets "idle" while the pipeline on the
   mount point runs (`media-server/README.md:96`).
4. `onvif_query_doc`. A read that fails is answered with built-in defaults and SOAP OK
   (`src/README.md:147`, `docs/media-onvif-runtime/onvif-server.md:89`). The same defaults are the
   base of a partial change, which then overwrites settings that nobody named.

Some differences are noted without a run: an axis value far beyond full scale is narrowed to an int and may turn
the camera the other way (P:124, P:136; theorem `LargeAxisTurnsBack`); a SetImagingSettings that names some values
rounds the others to six digits (`rail_client.cpp:157`); the device service says that no Bye is sent
(`soap_device_service.cpp:230`), the discovery thread sends one; the PTZ service advertises timeouts
from 0.1 s (`soap_ptz_service.cpp:131`) and accepts them from half a millisecond; `parse_int` of
`media-server/src/config.cpp:38` narrows a `long` without a check; `onvif-server/README.md:81` says that
GotoPreset goes to the default position, the code goes to the stored one; and
`docs/media-onvif-runtime/media-server.md:97` says that a preset changes resolution and bitrate, the
code also takes the encoder of the preset.

## Proofs

All theorems are proved for every value of the constants that meets the named assumptions
(`RangeAssumption`, `ScaleAssumption`, `WidthAssumption`, `PtzDeviceAssumption`, `RailConfigAssumption`,
`RailPipelineAssumption`, `RailMediaAssumption`, `OnvifRailAssumption`, `LifecycleAssumption`,
`SecuredAssumption`, `PtzDryRunAssumption`). The assumptions say only what kind of values the
constants are and that ranges and scales are not empty; TLC evaluates them in the runs.

* `PtzAxes_proofs`: clamping returns a position in range; a non-zero axis value of whatever size becomes a movement
  other than zero (`AxisIsNeverLost`), in its own direction as long as its product is an int
  (`AxisKeepsDirection`), in the other one just beyond (`LargeAxisTurnsBack`); full scale is within that and is
  the maximum (`FullScaleIsTheMaximum`); the position GetStatus reports is monotonic and its limits are the ends
  of the range (`ReportedPositions`).
* `PtzDevice_proofs`: `TypeCorrect`, and the inductive invariant `IInv`. Its core is `NewestTimer`:
  at most one thread carries the newest generation (asleep, about to be started, or at its write),
  and while it does the camera executes that thread's motion. It needs that captured generations
  were issued (`GenerationsIssued`), so that a new generation is in no closure, and that the mutex is
  held exactly by a thread at its write (`HolderWrites`). The safety properties of `ptz_safety`
  follow, and with `IInv` in both states every step maps to a step or a stutter of `PtzMotion`
  (`Implements`).
* `RailMedia_proofs`: `TypeCorrect`, and `IInv`: the job is in one place (`JobIsSomewhere`); what was
  worked out on the control thread still fits when the main loop gets to it (`JobIsCurrent`, with
  the lemma `HandedOverIsTheChange`); which factory is mounted at each step (`FactoryOfStep`), whom
  the clients belong to (`ClientsOfStep`), and that a prepared signal belongs to a prepared media
  (`SignalsFollowMedia`). `NoLostWakeup` is that a control thread asleep on a job that is done has its
  notification still to come, under any interleaving and with spurious wakeups. From it follow the invariants of `rail_control` and `rail_pipeline` and the
  implementation of `RailRegister` (`Implements`).
* `OnvifRail_proofs`: `TypeCorrect`, `AcknowledgedFinal`, `OnlyNamed` and `OsdFits` from `IInv`. The one
  SOAP thread waits for one exchange, so a message that is still awaited is the last of the queue
  (`AwaitedIsLast`), and a response means that the queue is empty: all that earlier calls left there
  has been handled. A write worked out from a complete response therefore has no other write before
  it, and agrees with `rail-media` outside what was named (`SentWritesFit`; `NextWriteFits` before it is
  sent), as long as nobody else writes. For imaging settings "agrees" means after printing: what was read is
  `Printed(rail)`, and printing it again for the POST changes nothing (`PrintedAgain`), so `OnlyNamed` says that a
  setting nobody named keeps its value or loses the digits beyond the sixth. The lemma `AfterExchange` says what the four ways in which an
  exchange may end have in common.

  `RegisterIsAllThereIs` justifies the composition: `rail-media` is one action per request here and two
  threads in `RailMedia`, which is proved to implement `RailRegister`; and what changes its configuration
  here is a request of that register or a new process, a POST being served as the request it stands for, with the
  code that goes with it. It needs that a POST carries its whole group (`PostsAreWhole`), and that the groups
  of video and imaging settings are not empty; they have four and three fields in the code. `TrueAnswers` is
  what holds of finding 4: when responses do not break off, a query answered from one tells what is in force,
  as printed and as a float, unless others have written since it was given.
* `Daemons_proofs`: `TypeCorrect` and the six safety properties of `lifecycle`. The invariant of
  `afterveda-onvif` ties the announcement to the place of the discovery thread (`AirFollows`), keeps
  the reason for the cleared flag (`ReasonIsKept`) and adds the requests that were answered late to
  those the connection still has (`DrainIsCounted`). That of `rail-media` says that the report was made
  exactly when the control thread has passed it, and which way both threads then go (`ReportIsTrue`).
  `WakeupIsNotLost` adds that whenever the main thread sleeps, its notification is still to come. It holds
  without fairness, under any interleaving and any number of spurious wakeups, and is what the wait of the
  constructor (`control_server.cpp:282`) rests on.
* `PtzDryRun_proofs`: `DryTypeCorrect`, `StatusIsTrue`, `AcknowledgedIsStored` and
  `DryRunImplements` from `DryIInv`. The bookkeeping of the threads is that of `PtzDevice`; added to
  it is what the steps of a load or a command have done so far. What is left to load is the end of
  `LoadOrder`, a speed that was seen was that of a moving camera, and a pan that was at rest still is
  when the tilt is loaded, because only timers store meanwhile, and nothing but zeros (`LoadsFit`).
  What is left to store is the end of the holder's stores, and before the last one the pan has its
  new speed (`StoresFit`). That an acknowledged motion stays as it is until the mutex is taken again
  is `DoneIsDone`.
  `DryMotionWatched` is an invariant the device does not have: a camera that moves, while no command is being
  stored, has its timer started, starting or storing. On the device a failed write breaks that.
* `PtzTimeout_proofs`: `TimeoutHonesty`, for durations with any number of parts of any size. The parser
  is a fold over the parts, and the property compares it with a sum per unit over a set; both are
  shown to be the one sum of the parts. A sum is described by what makes it one, a function of
  sets of positions that adds one weight per position (`Sums`). That there is one, and that both folds
  return it whichever position they take first, is by induction on the number of positions, through the
  least counterexample (`SmallestNumber`, `ClosedUnderSuccessor`) as no induction theorem with an operator for its
  parameter can be used (`SumsExist`, `FoldIsSum`). Then the sum of all parts is the weighted sum of the three units' sums
  (`SumsAreLinear`), a call is refused for its timeout exactly if that is the first defect its handler looks for
  (`VerdictIsFirstDefect`), and `Rounding` bounds the error by half a millisecond and keeps the result out of 0.

Then liveness, as far as it can be proved: what the provers cannot do is to evaluate ENABLED, so that the
step a thread is at can be taken is a hypothesis of each of these theorems.

* `PtzDevice_proofs`, last part: `Answered` and `MotionsEnd`, the two liveness properties of
  `ptz_liveness`. The hypothesis is `[]OnlyTheMutexBlocks`. What is proved is why that and weak fairness are enough, for every number of commands. A request
  that waits is behind a timer's write (`Behind`), or beside the sleeping newest timer (`Contended`), or has no rival left
  (`Unrivalled`), and moves through them in that order only, so that one timer at most overtakes it
  (`AtMostOneTimerFirst`). A motion whose timer sleeps is the newest one, unless the command that
  supersedes it is about to write (`MotionSuccessors`); outdated timers that wake change nothing.
  `MotionsEnd` assumes that no write fails, on top of the fairness: without that the run
  `ptz_lost_auto_stop` refutes it.
* `PtzDryRun_proofs`: `DryAnswered` and `DryMotionsEnd`, from `[]DryOnlyTheMutexBlocks`. The stages are those of the
  device, with the checks before them and every load and store counted: at the mutex a call waits for
  the two stores of one timer at most (`OneTimerFirst`). Nothing is assumed of the writes: a store cannot fail,
  so that `DryMotionWatched` takes the place of that hypothesis.
  If `rail-media` holds the exchange of a call for ever the call stays there, as the property says.
* `OnvifRail_proofs`: `Answered`, from `[]NothingBlocks` and the fairness of the SOAP thread alone. A handler is a
  chain of exchanges (`NextStages`) of two steps each, and no step of `rail-media` moves it back
  (`OthersWait`). An exchange that is not held ends; one that is held stays so for ever or is let go.
* `Daemons_proofs`: `StartDecided` and `EarlyPostAnswered`, from `[]OnlyTheOtherThreadBlocks`. The stages of a
  start (`StartStages`) are left in their order by the control thread until it has notified, and by the main thread
  afterwards; a spurious wakeup moves the main thread between two places of the same stage
  (`StartSuccessors`). That the main thread sleeps only before the notification is `WakeupIsNotLost`.

Only model-checked:

* `RequestsReturn`, `StatusSettles`, `ShutdownCompletes` and `EveryClientGetsItsTurn`. All but `StatusSettles`
  count down clients or requests along the behaviour, which is an induction over temporal formulas;
  `StatusSettles` needs the callbacks of every media to come to an end in turn.
* The hypotheses `OnlyTheMutexBlocks`, `DryOnlyTheMutexBlocks`, `NothingBlocks` and `OnlyTheOtherThreadBlocks`, which
  consist of ENABLED. They say no more than what the guards of the steps say, so no run is spent on them. TLC has
  checked them on the instances of `ptz_liveness`, `ptz_dry_run`, `onvif_rail` and `lifecycle`, with the name
  as an INVARIANT of the cfg; the runs as they stand check the liveness properties themselves.

## Not modelled

* The device service, and the handlers of the media and PTZ services that only fill a response from
  constants, the configuration or the clock: no state, no decision that others depend on.
* Base64, SHA-1, XML escaping, URLs, JSON and the text of pipelines: pure text. Where text decides
  something (a response that breaks off, a duration, a digest that fits or not), the decision is
  modelled.
* Signals before the handlers are installed (they end the process as they end any other), and
  restarting by a service manager, which is in the documentation only.
* Death by SIGKILL, or by SIGPIPE: neither the gSOAP context (`http_server.cpp:58`) nor `http_client.cpp:77` asks for
  MSG_NOSIGNAL and nothing in the daemon handles the signal, so an answer to a client that has gone may end it. No Bye is sent then;
  `NoStaleHello` and `StopsForAReason` are about the ways out that the code provides.
* What ProbeMatch and Hello messages say: the discovery thread answers from constants.
* The destructors of `ControlServer` and `MediaServer` after a successful start: not reachable.
* The generated gSOAP code but for the loop of `soap_serve`, which decides how long a connection keeps
  the server. It is more than nine tenths of the lines of the tree: serialisers for every type of the
  WSDL, without state of their own. GStreamer, libsoup and the kernel driver are external as well;
  what the code can observe of them is modelled.

## Plan

Done: all modules of the table above. Left, in this order:

1. The JSON functions of both daemons (`json_escape` against the readers) over bounded inputs.
2. The exchange of the PTZ handlers with `rail-media` as a composition of `PtzDevice` and `OnvifRail`,
   to see the two queues of work of the one SOAP thread together.
