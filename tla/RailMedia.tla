----------------------------- MODULE RailMedia -----------------------------
(***************************************************************************)
(* rail-media: the control thread (control_server.cpp) and the main loop   *)
(* (media_server.cpp) around the RTSP side of RailPipeline.                *)
(*                                                                         *)
(* libsoup serves one control request at a time, on a thread of its own.   *)
(* It reads the configuration itself; a change it hands to the main loop   *)
(* with g_idle_add and waits for it on a condition variable of the         *)
(* request.  The main loop replaces the factory, closes the clients and    *)
(* stores the configuration, and meanwhile accepts no connection.  Clients *)
(* and media go on, on threads of GStreamer.                               *)
(***************************************************************************)
EXTENDS RailPipeline

CONSTANTS
    StartConfig,   \* configurations the command line may give
    Requests       \* changes the clients of the control API ask for

ASSUME RailMediaAssumption ==
    /\ StartConfig \subseteq Config
    /\ Requests \subseteq Request

VARIABLES
    current_,   \* the configuration
    control,    \* where the control thread stands
    seen,       \* local: the pipeline status GET /health has read
    job,        \* the request handed over: what was asked, the fields handed
                \* over, whether it is done and with which result
    queued,     \* the idle source of the job waits in the main loop
    main,       \* where the main loop stands in the job
    next,       \* local: the configuration the job makes
    reply       \* the latest answer

controlVars == <<current_, control, seen, job, queued, main, next, reply>>
vars == <<controlVars, pipelineVars>>

(* The control thread is in the wait of a POST: at the predicate, or asleep *)
(* on the condition variable of the request.                               *)
Waiting == control \in {"check", "asleep"}

MainStates == {"idle", "reset", "remove", "add", "close", "commit", "done", "notify"}
Values == UNION {[fields -> Value] : fields \in SUBSET Field}
Job == [request : Requests, values : Values, done : BOOLEAN, ok : BOOLEAN]

TypeOK ==
    /\ PipelineTypeOK
    /\ current_ \in Config
    /\ control \in {"idle", "health", "check", "asleep"}
    /\ seen \in PipelineStatus
    /\ job \in Job
    /\ queued \in BOOLEAN
    /\ main \in MainStates
    /\ next \in Config
    /\ reply \in [code : {200, 400, 404, 500, 503}, config : Config]

Init ==
    /\ current_ \in StartConfig
    /\ PipelineInit(current_)
    /\ control = "idle"
    /\ seen = "idle"
    /\ job \in [request : Requests, values : {<<>>}, done : {FALSE}, ok : {FALSE}]
    /\ queued = FALSE
    /\ main = "idle"
    /\ next = current_
    /\ reply = [code |-> 200, config |-> current_]

-----------------------------------------------------------------------------
(* The control thread.                                                     *)

(* GET /profile, /profiles, /imaging, /osd: parts of the configuration. *)
Get ==
    /\ control = "idle"
    /\ reply' = [code |-> 200, config |-> current_]
    /\ UNCHANGED <<current_, control, seen, job, queued, main, next, pipelineVars>>

(* GET /health reads the status first, then the configuration. *)
ReadHealth ==
    /\ control = "idle"
    /\ seen' = health.pipeline
    /\ control' = "health"
    /\ UNCHANGED <<current_, job, queued, main, next, reply, pipelineVars>>

AnswerHealth ==
    /\ control = "health"
    /\ reply' = [code |-> IF seen = "error" THEN 503 ELSE 200, config |-> current_]
    /\ control' = "idle"
    /\ seen' = "idle"    \* the local ends
    /\ UNCHANGED <<current_, job, queued, main, next, pipelineVars>>

(* A path that does not exist, or a body that is not what the path wants. *)
Refuse ==
    /\ control = "idle"
    /\ \E code \in {400, 404} : reply' = [reply EXCEPT !.code = code]
    /\ UNCHANGED <<current_, control, seen, job, queued, main, next, pipelineVars>>

(* The values are worked out from the configuration of this moment and     *)
(* handed over.                                                            *)
Post(r) ==
    /\ control = "idle"
    /\ job' = [request |-> r, values |-> HandedOver(current_, r), done |-> FALSE, ok |-> FALSE]
    /\ queued' = TRUE
    /\ control' = "check"
    /\ UNCHANGED <<current_, seen, main, next, reply, pipelineVars>>

(* Mutant of AnswerPost: it does not wait for done, only for the job to    *)
(* have left the queue.                                                    *)
AnswerPostEarly ==
    /\ control = "check"
    /\ ~queued
    /\ reply' = [code |-> Code(job.request, TRUE), config |-> next]
    /\ control' = "idle"
    /\ UNCHANGED <<current_, seen, job, queued, main, next, pipelineVars>>

(* Mutant of CheckDone: it sleeps without a look at done. *)
CheckDoneBlindly ==
    /\ control = "check"
    /\ control' = "asleep"
    /\ UNCHANGED <<current_, seen, job, queued, main, next, reply, pipelineVars>>

(* cv.wait with its predicate, under the request's mutex: when done is not *)
(* set the thread releases the mutex and sleeps, in one step.              *)
CheckDone ==
    /\ control = "check"
    /\ ~job.done
    /\ control' = "asleep"
    /\ UNCHANGED <<current_, seen, job, queued, main, next, reply, pipelineVars>>

(* A condition variable may wake its thread without a notification. *)
SpuriousWakeup ==
    /\ control = "asleep"
    /\ control' = "check"
    /\ UNCHANGED <<current_, seen, job, queued, main, next, reply, pipelineVars>>

(* cv.wait returns when it looks and done is set.  The request lives on    *)
(* this thread's stack and ends here.                                      *)
AnswerPost ==
    /\ control = "check"
    /\ job.done
    /\ reply' = [code   |-> Code(job.request, job.ok),
                 config |-> IF job.ok THEN next ELSE reply.config]
    /\ control' = "idle"
    /\ UNCHANGED <<current_, seen, job, queued, main, next, pipelineVars>>

-----------------------------------------------------------------------------
(* The main loop.                                                          *)

(* The idle source runs: the *_now function checks the request and works   *)
(* out the configuration.                                                  *)
StartJob ==
    /\ main = "idle"
    /\ queued
    /\ queued' = FALSE
    /\ IF Accepted(current_, job.request)
         THEN next' = Overlay(current_, job.values) /\ main' = "reset"
         ELSE UNCHANGED next /\ main' = "done"
    /\ UNCHANGED <<current_, control, seen, job, reply, pipelineVars>>

MainGoes(from, to) == main = from /\ main' = to

(* install_factory: the status is reset, the mounted factory taken down,   *)
(* the new one mounted.                                                    *)
ResetStatus ==
    /\ MainGoes("reset", "remove")
    /\ update_pipeline_status("idle", "not_checked")
    /\ UNCHANGED <<mounted, built, media, signal, connected, source, rtsp_clients_, broken>>
    /\ UNCHANGED <<current_, control, seen, job, queued, next, reply>>

RemoveFactory ==
    /\ MainGoes("remove", "add")
    /\ mounted' = None
    /\ UNCHANGED <<built, media, signal, health, connected, source, rtsp_clients_, broken>>
    /\ UNCHANGED <<current_, control, seen, job, queued, next, reply>>

(* Mutant of AddFactory: built from the configuration that is in place. *)
AddFactoryOfCurrent ==
    /\ MainGoes("add", "close")
    /\ \E f \in Factory :
           /\ Free(f)
           /\ mounted' = f
           /\ built' = [built EXCEPT ![f] = current_]
    /\ UNCHANGED <<media, signal, health, connected, source, rtsp_clients_, broken>>
    /\ UNCHANGED <<current_, control, seen, job, queued, next, reply>>

AddFactory ==
    /\ MainGoes("add", "close")
    /\ \E f \in Factory :
           /\ Free(f)
           /\ mounted' = f
           /\ built' = [built EXCEPT ![f] = next]
    /\ UNCHANGED <<media, signal, health, connected, source, rtsp_clients_, broken>>
    /\ UNCHANGED <<current_, control, seen, job, queued, next, reply>>

(* gst_rtsp_server_client_filter: every client is closed. *)
CloseClient(c) ==
    /\ main = "close"
    /\ on_client_closed(c)
    /\ UNCHANGED <<mounted, built, media, signal, health, broken, controlVars>>

(* Mutant of ClientsClosed: the clients are left alone. *)
ClientsLeftAlone ==
    /\ MainGoes("close", "commit")
    /\ UNCHANGED <<current_, control, seen, job, queued, next, reply, pipelineVars>>

ClientsClosed ==
    /\ MainGoes("close", "commit")
    /\ connected = {}
    /\ UNCHANGED <<current_, control, seen, job, queued, next, reply, pipelineVars>>

Commit ==
    /\ MainGoes("commit", "done")
    /\ current_' = next
    /\ job' = [job EXCEPT !.ok = TRUE]
    /\ UNCHANGED <<control, seen, queued, next, reply, pipelineVars>>

(* done is set under the request's mutex, the notification follows after   *)
(* its release.                                                            *)
SetDone ==
    /\ MainGoes("done", "notify")
    /\ job' = [job EXCEPT !.done = TRUE]
    /\ UNCHANGED <<current_, control, seen, queued, next, reply, pipelineVars>>

(* Mutant of Notify: nobody is notified. *)
NotifyNobody ==
    /\ MainGoes("notify", "idle")
    /\ UNCHANGED <<current_, control, seen, job, queued, next, reply, pipelineVars>>

(* notify_one wakes the thread that sleeps on the condition variable of    *)
(* this request.  It may have seen done without it; the request may then   *)
(* have ended, and a later one be waited for (~job.done).  notify_one on a *)
(* condition variable that is gone wakes nobody here.                      *)
Notify ==
    /\ MainGoes("notify", "idle")
    /\ control' = IF control = "asleep" /\ job.done THEN "check" ELSE control
    /\ UNCHANGED <<current_, seen, job, queued, next, reply, pipelineVars>>

-----------------------------------------------------------------------------

MainStep ==
    \/ StartJob
    \/ ResetStatus
    \/ RemoveFactory
    \/ AddFactory
    \/ \E c \in Client : CloseClient(c)
    \/ ClientsClosed
    \/ Commit
    \/ SetDone
    \/ Notify

ControlStep == AnswerHealth \/ CheckDone \/ AnswerPost

(* A connection is accepted by the main loop, between its jobs. *)
Accept(c) == main = "idle" /\ ClientConnects(c) /\ UNCHANGED controlVars

ClientLeaves(c) == ClientCloses(c) /\ UNCHANGED controlVars
ClientRequests(c) == ClientAsks(c) /\ UNCHANGED controlVars
MediaRuns(f) == MediaStep(f) /\ UNCHANGED controlVars

Next ==
    \/ Get
    \/ ReadHealth
    \/ Refuse
    \/ \E r \in Requests : Post(r)
    \/ ControlStep
    \/ SpuriousWakeup
    \/ MainStep
    \/ \E c \in Client : Accept(c) \/ ClientLeaves(c) \/ ClientRequests(c)
    \/ \E f \in Factory : MediaRuns(f)

Spec == Init /\ [][Next]_vars

(* The threads run on, and so does GStreamer: a media that was asked for   *)
(* is built and becomes ready or fails, its signals are delivered, and one *)
(* that nobody uses is taken down in the end.  Nothing is assumed of the   *)
(* clients, neither of RTSP nor of the control API, nor of wakeups without *)
(* a notification.                                                         *)
MediaProgress(f) ==
    \/ on_media_configure(f)
    \/ MediaPrepares(f)
    \/ MediaFails(f)
    \/ on_media_prepared(f)
    \/ on_media_unprepared(f)
    \/ on_media_unpreparedOverwrites(f)
    \/ ~Used(f) /\ MediaUnprepares(f)

Fairness ==
    /\ WF_vars(ControlStep)
    /\ WF_vars(MainStep)
    /\ \A f \in Factory : WF_vars(MediaProgress(f) /\ UNCHANGED controlVars)

FairSpec == Spec /\ Fairness

-----------------------------------------------------------------------------
(* Properties.                                                             *)

(* Between two changes the factory on the mount point is built from the    *)
(* configuration that GET /profile, /imaging and /osd report.              *)
FactoryIsCurrent ==
    main = "idle" => mounted # None /\ built[mounted] = current_

(* After a change no client is left on a pipeline of an older              *)
(* configuration, also when it was given its factory while the change was  *)
(* being made.                                                             *)
NoClientOnOldPipeline ==
    main = "idle" => \A c \in connected : source[c] \in {None, mounted}

(* rtsp_clients of GET /health is the number of connections, through the   *)
(* closing of clients from two sides.                                      *)
ClientsCounted == rtsp_clients_ = Cardinality(connected)

(* pipeline_status_ and camera_status_ tell the same story, although six   *)
(* callbacks and the main loop write them.                                 *)
StatusesAgree ==
    health \in { [pipeline |-> "idle",      camera |-> "not_checked"],
                 [pipeline |-> "preparing", camera |-> "checking"],
                 [pipeline |-> "ready",     camera |-> "ok"],
                 [pipeline |-> "error",     camera |-> "error"] }

(* "ready" is never left over: there is a media that was prepared and is   *)
(* not gone, in whatever order the callbacks of old and new media arrive.  *)
ReadyHasAPipeline ==
    health.pipeline = "ready" =>
        \E f \in Factory : /\ media[f] \in {"prepared", "error", "failed", "unprepared"}
                           /\ signal[f] # "prepared"

(* The control API is the register of RailRegister: a request takes effect *)
(* with the last step of the job that changes anything.                    *)
RequestPhase ==
    IF ~Waiting THEN "idle"
    ELSE IF main = "done" \/ job.done THEN "applied"
    ELSE "called"

Register == INSTANCE RailRegister
              WITH value <- current_,
                   request <- job.request,
                   phase <- RequestPhase,
                   ok <- job.ok

ImplementsRegister == Register!Spec

(* Whenever the control thread sleeps although its job is done, the        *)
(* notification is still to come: done is never set between its look at    *)
(* done and its sleep, and no notification comes before the sleep it is    *)
(* meant for.                                                              *)
NotificationIsToCome == control = "asleep" /\ job.done => main = "notify"

(* The strengthening that makes the invariants above inductive.            *)

(* The job is at one place at a time: in the queue, in the main loop, or   *)
(* done; what follows the release of the request's mutex is not part of it. *)
Working == main \in {"reset", "remove", "add", "close", "commit", "done"}

JobIsSomewhere ==
    /\ queued => Waiting /\ ~Working /\ ~job.done /\ ~job.ok
    /\ Working => Waiting /\ ~job.done
    /\ Waiting => queued \/ Working \/ job.done

(* What was worked out on the control thread still fits when the main loop *)
(* gets to it: nobody changes the configuration in between.                *)
JobIsCurrent ==
    /\ queued => job.values = HandedOver(current_, job.request)
    /\ Working /\ main # "done" =>
           /\ ~job.ok
           /\ Accepted(current_, job.request)
           /\ next = Overlay(current_, job.request.change)
    /\ (main = "done" \/ (Waiting /\ job.done)) /\ job.ok => next = current_

(* The mounted factory at each step of a change. *)
FactoryOfStep ==
    /\ main \in {"idle", "reset", "remove", "done", "notify"} =>
           mounted # None /\ built[mounted] = current_
    /\ main \in {"close", "commit"} => mounted # None /\ built[mounted] = next

ClientsOfStep ==
    /\ main \notin {"add", "close"} => \A c \in connected : source[c] \in {None, mounted}
    /\ \A c \in Client \ connected : source[c] = None

SignalsFollowMedia ==
    \A f \in Factory : signal[f] = "prepared" => media[f] = "prepared"

IInv ==
    /\ TypeOK
    /\ JobIsSomewhere
    /\ JobIsCurrent
    /\ NotificationIsToCome
    /\ FactoryOfStep
    /\ ClientsOfStep
    /\ ClientsCounted
    /\ StatusesAgree
    /\ SignalsFollowMedia
    /\ ReadyHasAPipeline

(* A control request is always answered: the main loop gets to its job     *)
(* whatever clients and media do, every path through the job sets done,    *)
(* and the notification wakes the thread that sleeps.                      *)
RequestsReturn == Waiting ~> (control = "idle")

(* Once the RTSP clients are gone for good the status comes to rest: the   *)
(* last callback to arrive does not leave it at "preparing" or "ready".    *)
StatusSettles ==
    <>[](connected = {}) => <>[](health.pipeline \in {"idle", "error"})

(* What README.md says of GET /health, once the error of the pipeline on   *)
(* the mount point has been reported on its bus: it is an error (503).     *)
FailedPipelineIsReported ==
    main = "idle" /\ mounted \in broken => health.pipeline = "error"

(* What README.md says of "idle": the camera pipeline is not running. *)
IdleMeansNotRunning ==
    main = "idle" /\ health.pipeline = "idle" =>
        ~ (media[mounted] = "prepared" /\ signal[mounted] = "none")

=============================================================================
