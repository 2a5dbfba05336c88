---------------------------- MODULE RailPipeline ----------------------------
(***************************************************************************)
(* The RTSP side of rail-media: the factory mounted on the RTSP server,    *)
(* the clients, the media GStreamer builds for them, and the status that   *)
(* the callbacks of media_server.cpp keep for GET /health.                 *)
(*                                                                         *)
(* A factory is shared, so it has at most one media at a time: media[f] is *)
(* that of factory f.  A client that took a factory before it was replaced *)
(* may still have its media built afterwards, and a media that nobody uses *)
(* may linger (a UDP session ends by a timeout), so that media of several  *)
(* factories exist together.  Their signals and bus messages arrive on     *)
(* GStreamer's threads, each media's own in order.                         *)
(*                                                                         *)
(* GStreamer and its RTSP server are outside the repository; what is       *)
(* assumed of them is what the callbacks can observe.                      *)
(***************************************************************************)
EXTENDS RailConfig, FiniteSets

CONSTANTS
    Client,     \* RTSP clients
    Factory,    \* media factories: bound on those that exist together
    None        \* no factory

ASSUME RailPipelineAssumption ==
    /\ IsFiniteSet(Client)
    /\ None \notin Factory

VARIABLES
    mounted,         \* the factory clients are given, or None
    built,           \* the configuration each factory was made from
    media,           \* external: the life of each factory's media
    signal,          \* the callback of the media that is due or under way
    health,          \* pipeline_status_ and camera_status_
    connected,       \* external: clients whose connection is accepted
    source,          \* external: the factory a client was given
    rtsp_clients_,   \* how many clients the server believes it has
    broken           \* history: factories whose media has reported an error

pipelineVars == <<mounted, built, media, signal, health, connected, source, rtsp_clients_, broken>>

MediaStates == {"none", "asked", "preparing", "prepared", "error", "failed", "unprepared"}
Signals == {"none", "prepared", "unprepared", "overwrite"}
PipelineStatus == {"idle", "preparing", "ready", "error"}
CameraStatus == {"not_checked", "checking", "ok", "error"}

PipelineTypeOK ==
    /\ mounted \in Factory \union {None}
    /\ built \in [Factory -> Config]
    /\ media \in [Factory -> MediaStates]
    /\ signal \in [Factory -> Signals]
    /\ health \in [pipeline : PipelineStatus, camera : CameraStatus]
    /\ connected \subseteq Client
    /\ source \in [Client -> Factory \union {None}]
    /\ rtsp_clients_ \in Nat
    /\ broken \subseteq Factory

PipelineInit(config) ==
    /\ mounted \in Factory
    /\ built = [f \in Factory |-> config]
    /\ media = [f \in Factory |-> "none"]
    /\ signal = [f \in Factory |-> "none"]
    /\ health = [pipeline |-> "idle", camera |-> "not_checked"]
    /\ connected = {}
    /\ source = [c \in Client |-> None]
    /\ rtsp_clients_ = 0
    /\ broken = {}

Used(f) == \E c \in connected : source[c] = f

(* Nothing refers to the factory any more, or not yet. *)
Free(f) == f # mounted /\ media[f] = "none" /\ ~Used(f)

update_pipeline_status(pipeline, camera) ==
    health' = [pipeline |-> pipeline, camera |-> camera]

-----------------------------------------------------------------------------
(* Clients.                                                                *)

(* on_client_connected, on the main thread. *)
ClientConnects(c) ==
    /\ c \notin connected
    /\ connected' = connected \union {c}
    /\ rtsp_clients_' = rtsp_clients_ + 1
    /\ UNCHANGED <<mounted, built, media, signal, health, source, broken>>

(* Mutant of on_client_closed: the last client stays counted. *)
on_client_closedKeepsLast(c) ==
    /\ c \in connected
    /\ connected' = connected \ {c}
    /\ source' = [source EXCEPT ![c] = None]
    /\ rtsp_clients_' = IF rtsp_clients_ > 1 THEN rtsp_clients_ - 1 ELSE rtsp_clients_

on_client_closed(c) ==
    /\ c \in connected
    /\ connected' = connected \ {c}
    /\ source' = [source EXCEPT ![c] = None]
    /\ rtsp_clients_' = IF rtsp_clients_ > 0 THEN rtsp_clients_ - 1 ELSE rtsp_clients_

(* The connection ends, by the client or by an error. *)
ClientCloses(c) ==
    /\ on_client_closed(c)
    /\ UNCHANGED <<mounted, built, media, signal, health, broken>>

(* DESCRIBE or SETUP of the mount point: the client is given the mounted   *)
(* factory, and joins its media unless that is on its way out.             *)
ClientAsks(c) ==
    /\ c \in connected
    /\ mounted # None
    /\ media[mounted] \notin {"error", "failed", "unprepared"}
    /\ source' = [source EXCEPT ![c] = mounted]
    /\ media' = [media EXCEPT ![mounted] = IF @ = "none" THEN "asked" ELSE @]
    /\ UNCHANGED <<mounted, built, signal, health, connected, rtsp_clients_, broken>>

-----------------------------------------------------------------------------
(* Media, and the callbacks that keep the status.                          *)

on_media_configure(f) ==
    /\ media[f] = "asked"
    /\ media' = [media EXCEPT ![f] = "preparing"]
    /\ update_pipeline_status("preparing", "checking")
    /\ UNCHANGED <<mounted, built, signal, connected, source, rtsp_clients_, broken>>

(* The media is prepared; the signal that says so is yet to come. *)
MediaPrepares(f) ==
    /\ media[f] = "preparing"
    /\ media' = [media EXCEPT ![f] = "prepared"]
    /\ signal' = [signal EXCEPT ![f] = "prepared"]
    /\ UNCHANGED <<mounted, built, health, connected, source, rtsp_clients_, broken>>

on_media_prepared(f) ==
    /\ signal[f] = "prepared"
    /\ signal' = [signal EXCEPT ![f] = "none"]
    /\ update_pipeline_status("ready", "ok")
    /\ UNCHANGED <<mounted, built, media, connected, source, rtsp_clients_, broken>>

(* Mutant of on_bus_message: the camera's status is left behind. *)
on_bus_messagePipelineOnly(f) ==
    /\ media[f] \in {"preparing", "prepared"}
    /\ health' = [health EXCEPT !.pipeline = "error"]
    /\ broken' = broken \union {f}
    /\ UNCHANGED <<mounted, built, media, signal, connected, source, rtsp_clients_>>

(* An error or end of stream, from whichever thread posts it. *)
on_bus_message(f) ==
    /\ media[f] \in {"preparing", "prepared"}
    /\ update_pipeline_status("error", "error")
    /\ broken' = broken \union {f}
    /\ UNCHANGED <<mounted, built, media, signal, connected, source, rtsp_clients_>>

(* The RTSP server learns of it and puts the media into its error state. *)
MediaFails(f) ==
    /\ media[f] = "preparing" \/ (f \in broken /\ media[f] = "prepared")
    /\ signal[f] = "none"
    /\ media' = [media EXCEPT ![f] = "error"]
    /\ UNCHANGED <<mounted, built, signal, health, connected, source, rtsp_clients_, broken>>

on_media_new_state(f) ==
    /\ media[f] = "error"
    /\ update_pipeline_status("error", "error")
    /\ UNCHANGED <<mounted, built, media, signal, connected, source, rtsp_clients_, broken>>

(* The media is taken down: its clients left or tore it down, or it        *)
(* failed, in which case its state may still say so.                       *)
MediaUnprepares(f) ==
    /\ media[f] \in {"prepared", "error"}
    /\ signal[f] = "none"
    /\ \E end \in {"unprepared", "failed"} :
           /\ end = "failed" => media[f] = "error"
           /\ media' = [media EXCEPT ![f] = end]
    /\ signal' = [signal EXCEPT ![f] = "unprepared"]
    /\ UNCHANGED <<mounted, built, health, connected, source, rtsp_clients_, broken>>

MediaGone(f) ==
    /\ media' = [media EXCEPT ![f] = "none"]
    /\ signal' = [signal EXCEPT ![f] = "none"]
    /\ broken' = broken \ {f}
    /\ UNCHANGED <<mounted, built, connected, source, rtsp_clients_>>

(* Mutant of on_media_unprepared: it takes "ready" for final, too. *)
on_media_unpreparedKeepsReady(f) ==
    /\ signal[f] = "unprepared"
    /\ \/ media[f] = "failed" /\ update_pipeline_status("error", "error") /\ MediaGone(f)
       \/ media[f] # "failed" /\ health.pipeline \in {"error", "ready"} /\ UNCHANGED health /\ MediaGone(f)
       \/ /\ media[f] # "failed" /\ health.pipeline \notin {"error", "ready"}
          /\ signal' = [signal EXCEPT ![f] = "overwrite"]
          /\ UNCHANGED <<mounted, built, media, health, connected, source, rtsp_clients_, broken>>

(* The first half of on_media_unprepared, up to the lock of health_status: *)
(* a media that is in its error state is reported, an error that has been  *)
(* reported stays.                                                         *)
on_media_unprepared(f) ==
    /\ signal[f] = "unprepared"
    /\ \/ media[f] = "failed" /\ update_pipeline_status("error", "error") /\ MediaGone(f)
       \/ media[f] # "failed" /\ health.pipeline = "error" /\ UNCHANGED health /\ MediaGone(f)
       \/ /\ media[f] # "failed" /\ health.pipeline # "error"
          /\ signal' = [signal EXCEPT ![f] = "overwrite"]
          /\ UNCHANGED <<mounted, built, media, health, connected, source, rtsp_clients_, broken>>

(* The second half, under a lock of its own. *)
on_media_unpreparedOverwrites(f) ==
    /\ signal[f] = "overwrite"
    /\ update_pipeline_status("idle", "not_checked")
    /\ MediaGone(f)

MediaStep(f) ==
    \/ on_media_configure(f)
    \/ MediaPrepares(f)
    \/ on_media_prepared(f)
    \/ on_bus_message(f)
    \/ MediaFails(f)
    \/ on_media_new_state(f)
    \/ MediaUnprepares(f)
    \/ on_media_unprepared(f)
    \/ on_media_unpreparedOverwrites(f)

=============================================================================
