------------------------------ MODULE OnvifRail ------------------------------
(***************************************************************************)
(* How afterveda-onvif reads and changes the settings of rail-media: the   *)
(* handlers of soap_media_service.cpp, soap_imaging_service.cpp and        *)
(* soap_osd_service.cpp over rail_client.cpp and http_client.cpp.          *)
(*                                                                         *)
(* ONVIF clients change some settings, rail-media is sent all settings of  *)
(* a group.  So the one SOAP thread first asks rail-media for the group,   *)
(* then posts the group with the changes.  Each exchange has a connection  *)
(* of its own and ends after a second of silence; the request it sent then *)
(* is still there for rail-media to handle.  A peer that is never silent   *)
(* for a second holds it as long as it likes.  A read that fails gives     *)
(* built-in defaults, not a fault.  Imaging settings are doubles and       *)
(* travel as decimals of six digits, in both directions.                   *)
(*                                                                         *)
(* rail-media is the register it implements (RailRegister): a request      *)
(* takes effect at one moment.  Its control thread accepts and handles     *)
(* connections one after the other, in the order they were made.           *)
(***************************************************************************)
EXTENDS RailConfig, FiniteSets, SequencesExt

CONSTANTS
    StartConfig,      \* configurations rail-media may be started with
    Defaults,         \* those of types.h: VideoProfile, ImageSettings, OsdSettings
    OfferedVideo,     \* video settings the ONVIF handler lets pass
    EnabledField, Enabled, Disabled,   \* osd_enabled and its values
    RefusedText,      \* values of the OSD text rail-media answers with 400
    TextField,        \* osd_text
    Calls,            \* ONVIF requests that pass authentication and token checks
    OtherRequests,    \* what other clients of the control API ask for
    MayRestart,       \* whether rail-media may end and start again
    MayTruncate,      \* whether a response may break off
    MayTrickle,       \* whether a peer may hold an exchange, byte by byte
    SixDigits,        \* the double that is read where one was printed
    AsFloat,          \* the float next to a double
    Backlog,          \* bound: connections waiting for rail-media
    Nothing           \* no response

Queries == {"GetVideo", "GetImaging", "GetOsd"}
Updates == {"SetVideo", "SetImaging", "SetOsd", "CreateOsd", "DeleteOsd"}
Ops == Queries \union Updates \union {"Health"}

Reads == [op : Queries \union {"Health"}, change : {<<>>}]
VideoCalls == [op : {"SetVideo"}, change : {<<>>} \union Change(VideoFields)]
ImagingCalls == [op : {"SetImaging"}, change : Change(ImagingFields)]
OsdCalls ==
    [op : {"SetOsd", "CreateOsd"}, change : {c \in [OsdFields -> Value] : c[EnabledField] = Enabled}]
        \union [op : {"DeleteOsd"}, change : [{EnabledField} -> {Disabled}]]
Call == Reads \union VideoCalls \union ImagingCalls \union OsdCalls

ASSUME OnvifRailAssumption ==
    /\ StartConfig \subseteq Config
    /\ Defaults \in Config
    /\ SupportedVideo \subseteq OfferedVideo
    /\ OfferedVideo \subseteq [VideoFields -> Value]
    /\ {EnabledField, TextField} = OsdFields /\ EnabledField # TextField
    /\ {Enabled, Disabled} \subseteq Value /\ Enabled # Disabled
    /\ Defaults[EnabledField] = Enabled
    /\ RefusedText \subseteq Value
    /\ Calls \subseteq Call
    /\ OtherRequests \subseteq Request
    /\ MayRestart \in BOOLEAN /\ MayTruncate \in BOOLEAN /\ MayTrickle \in BOOLEAN
    /\ SixDigits \in [Value -> Value]
    /\ \A v \in Value : SixDigits[SixDigits[v]] = SixDigits[v]
    /\ AsFloat \in [Value -> Value]
    /\ Backlog \in Nat \ {0}

VARIABLES
    rail,       \* external: the configuration of rail-media
    queue,      \* external: connections rail-media has not handled yet
    response,   \* external: what it answered to the exchange under way
    held,       \* external: the peer goes on sending bytes of that exchange
    stage,      \* where the SOAP thread stands
    sent,       \* whether the exchange of that stage is under way
    call,       \* the ONVIF request served, or served last
    settings,   \* local: settings of the group, as read and then as changed;
                \* a query has them as its answer
    reply,      \* "ok" or "fault"
    whole,      \* history: settings was read from a complete response
    foreign     \* history: since that response was made, rail-media has been
                \* changed by others

onvif == <<stage, sent, call, settings, reply, whole>>
vars == <<rail, queue, response, held, onvif, foreign>>

Stages == {"idle", "health", "read", "reread", "write"}

Group(op) ==
    CASE op \in {"GetVideo", "SetVideo"}     -> VideoFields
      [] op \in {"GetImaging", "SetImaging"} -> ImagingFields
      [] op \in {"GetOsd", "SetOsd", "CreateOsd", "DeleteOsd"} -> OsdFields
      [] OTHER -> {}

Settings == UNION {[fields -> Value] : fields \in {VideoFields, ImagingFields, OsdFields, {}}}

(* A GET, or the POST of a group; awaited until the SOAP thread gives up.  *)
(* named and whole are history: what the client named, and whether the     *)
(* rest comes from a complete response.                                    *)
Message ==
    [kind : {"get"}, op : Ops, awaited : BOOLEAN]
        \union [kind : {"post"}, op : Ops, awaited : BOOLEAN,
                settings : Settings, named : SUBSET Field, whole : BOOLEAN]

TypeOK ==
    /\ rail \in Config
    /\ queue \in Seq(Message) /\ Len(queue) <= Backlog
    /\ response \in {Nothing} \union [code : {200, 400, 500, 503}, body : Settings]
    /\ held \in BOOLEAN
    /\ stage \in Stages
    /\ sent \in BOOLEAN
    /\ call \in Calls
    /\ settings \in Settings
    /\ reply \in {"ok", "fault"}
    /\ whole \in BOOLEAN
    /\ foreign \in BOOLEAN

Init ==
    /\ rail \in StartConfig
    /\ queue = <<>>
    /\ response = Nothing
    /\ held = FALSE
    /\ stage = "idle"
    /\ sent = FALSE
    /\ call \in Calls
    /\ settings = <<>>
    /\ reply = "fault"
    /\ whole = FALSE
    /\ foreign = FALSE

-----------------------------------------------------------------------------
(* Exchanges: http_request_with_status.                                    *)

(* Doubles printed with the default precision of a stream and read again.  *)
(* Integers, booleans and texts arrive as they are.                        *)
Printed(values) ==
    [f \in DOMAIN values |-> IF f \in ImagingFields THEN SixDigits[values[f]] ELSE values[f]]

(* Connected and sent.  What the peer makes of it, silence or a byte every *)
(* half second, is its own affair.                                         *)
Send ==
    /\ stage # "idle"
    /\ ~sent
    /\ Len(queue) < Backlog
    /\ sent' = TRUE
    /\ queue' = Append(queue,
                   IF stage = "write"
                     THEN [kind |-> "post", op |-> call.op, awaited |-> TRUE, settings |-> Printed(settings),
                           named |-> DOMAIN call.change, whole |-> whole]
                     ELSE [kind |-> "get", op |-> call.op, awaited |-> TRUE])
    /\ held' \in {FALSE, MayTrickle}
    /\ UNCHANGED <<rail, response, stage, call, settings, reply, whole, foreign>>

Abandoned(messages) == [i \in DOMAIN messages |-> [messages[i] EXCEPT !.awaited = FALSE]]

(* Mutant of ExchangeEnds: no SO_RCVTIMEO. *)
ExchangeEndsOnlyAnswered(result) ==
    /\ stage # "idle"
    /\ \/ ~sent /\ result = Nothing /\ UNCHANGED queue
       \/ sent /\ ~held /\ response # Nothing /\ result = response /\ UNCHANGED queue
    /\ sent' = FALSE
    /\ response' = Nothing
    /\ UNCHANGED held

(* It returns: no connection could be made, or a second has passed without *)
(* a byte or the connection broke, or there is a response, which may break *)
(* off within its headers.  SO_RCVTIMEO is that of one recv: as long as    *)
(* bytes come in, the loop goes on.                                        *)
ExchangeEnds(result) ==
    /\ stage # "idle"
    /\ \/ ~sent /\ result = Nothing /\ UNCHANGED queue
       \/ /\ sent /\ ~held
          /\ \/ response = Nothing /\ result = Nothing /\ queue' = Abandoned(queue)
             \/ response # Nothing /\ result = response /\ UNCHANGED queue
             \/ response # Nothing /\ MayTruncate /\ result = Nothing /\ UNCHANGED queue
    /\ sent' = FALSE
    /\ response' = Nothing
    /\ UNCHANGED held

Success(result) == result # Nothing /\ result.code = 200

(* What the json_* functions make of a response: its values.  When it      *)
(* breaks off, fields that did not arrive have their defaults, and a       *)
(* number that was cut is some other number.                               *)
Parsed(body, fields) ==
    LET Partial(values, arrived) ==
            /\ \A f \in arrived : values[f] = body[f]
            /\ \A f \in (fields \ arrived) \intersect OsdFields : values[f] = Defaults[f]
            /\ Cardinality({f \in fields \ arrived : values[f] # Defaults[f]}) <= 1
    IN  {body}
            \union {values \in [fields -> Value] :
                        MayTruncate /\ \E arrived \in SUBSET fields : Partial(values, arrived)}

(* profiles_from_rail, imaging_settings_from_rail, osd_settings_from_rail. *)
FromRail(result, fields) ==
    IF Success(result) THEN Parsed(result.body, fields) ELSE {Restriction(Defaults, fields)}

-----------------------------------------------------------------------------
(* The handlers.                                                           *)

(* The answer to the client; the locals of the handler end. *)
AnswerWith(outcome, result) ==
    /\ stage' = "idle"
    /\ reply' = outcome
    /\ settings' = result
    /\ whole' = FALSE

Answer(outcome) == AnswerWith(outcome, <<>>)

Receive(c) ==
    /\ stage = "idle"
    /\ call' = c
    /\ stage' = IF c.op = "Health" THEN "health" ELSE "read"
    /\ settings' = <<>>
    /\ UNCHANGED <<rail, queue, response, held, sent, reply, whole, foreign>>

(* Mutant of Changed: what the client did not name is left to the defaults. *)
ChangedFromDefaults(current) ==
    [f \in DOMAIN current |-> IF f \in DOMAIN call.change THEN call.change[f] ELSE Defaults[f]]

Changed(current) ==
    [f \in DOMAIN current |-> IF f \in DOMAIN call.change THEN call.change[f] ELSE current[f]]

(* Mutant of Permitted: DeleteOSD does not look whether there is an OSD. *)
PermittedDeletesBlindly(op, current) ==
    CASE op = "SetOsd"    -> current[EnabledField] = Enabled
      [] op = "CreateOsd" -> current[EnabledField] # Enabled
      [] op = "SetVideo"  -> Changed(current) \in OfferedVideo
      [] OTHER -> TRUE

(* What a handler checks before it writes: there is an OSD, or none yet;   *)
(* the video settings, changes included, are on offer.                     *)
Permitted(op, current) ==
    CASE op \in {"SetOsd", "DeleteOsd"} -> current[EnabledField] = Enabled
      [] op = "CreateOsd" -> current[EnabledField] # Enabled
      [] op = "SetVideo"  -> Changed(current) \in OfferedVideo
      [] OTHER -> TRUE

(* The settings of a SOAP answer: those of imaging are floats. *)
Shown(values) ==
    [f \in DOMAIN values |-> IF f \in ImagingFields THEN AsFloat[values[f]] ELSE values[f]]

(* A query is answered with the settings; GetOSD with a fault when there   *)
(* is no OSD, GetOSDs with an empty list.                                  *)
AnswerQuery(current) ==
    \/ AnswerWith("ok", Shown(current))
    \/ call.op = "GetOsd" /\ current[EnabledField] # Enabled /\ Answer("fault")

(* The OSD handlers read once more in set_osd, to no effect. *)
PrepareWrite(current, complete) ==
    /\ settings' = Changed(current)
    /\ whole' = complete
    /\ stage' = IF Group(call.op) = OsdFields THEN "reread" ELSE "write"
    /\ UNCHANGED reply

ReadSettings ==
    /\ stage = "read"
    /\ \E result \in {Nothing, response} :
           /\ ExchangeEnds(result)
           /\ \E current \in FromRail(result, Group(call.op)) :
                  IF call.op \in Queries THEN AnswerQuery(current)
                  ELSE IF Permitted(call.op, current)
                    THEN PrepareWrite(current, Success(result) /\ current = result.body)
                  ELSE Answer("fault")
    /\ UNCHANGED <<rail, call, foreign>>

Reread ==
    /\ stage = "reread"
    /\ \E result \in {Nothing, response} : ExchangeEnds(result)
    /\ stage' = "write"
    /\ UNCHANGED <<rail, call, settings, reply, whole, foreign>>

(* Mutant of WriteSettings: no response is taken for success. *)
WriteSettingsOptimistic ==
    /\ stage = "write"
    /\ \E result \in {Nothing, response} :
           /\ ExchangeEnds(result)
           /\ Answer(IF result = Nothing \/ Success(result) THEN "ok" ELSE "fault")
    /\ UNCHANGED <<rail, call, foreign>>

WriteSettings ==
    /\ stage = "write"
    /\ \E result \in {Nothing, response} :
           /\ ExchangeEnds(result)
           /\ Answer(IF Success(result) THEN "ok" ELSE "fault")
    /\ UNCHANGED <<rail, call, foreign>>

(* health_check: 200 or 503. *)
CheckHealth ==
    /\ stage = "health"
    /\ \E result \in {Nothing, response} :
           /\ ExchangeEnds(result)
           /\ Answer(IF Success(result) THEN "ok" ELSE "fault")
    /\ UNCHANGED <<rail, call, foreign>>

-----------------------------------------------------------------------------
(* rail-media and its other clients.                                       *)

(* The code a POST of a group is answered with: 400 for a text that is too *)
(* long, 500 for video settings that are not supported.                    *)
PostCode(message) ==
    CASE DOMAIN message.settings = OsdFields /\ message.settings[TextField] \in RefusedText -> 400
      [] message.op = "SetVideo" /\ message.settings \notin SupportedVideo -> 500
      [] OTHER -> 200

Respond(message, code, body) ==
    response' = IF message.awaited THEN [code |-> code, body |-> body] ELSE response

HandleGet ==
    /\ queue # <<>>
    /\ Head(queue).kind = "get"
    /\ queue' = Tail(queue)
    /\ \E code \in IF Head(queue).op = "Health" THEN {200, 503} ELSE {200} :
           Respond(Head(queue), code, Printed(Restriction(rail, Group(Head(queue).op))))
    /\ foreign' = IF Head(queue).awaited /\ stage = "read" THEN FALSE ELSE foreign
    /\ UNCHANGED <<rail, held, onvif>>

HandlePost ==
    /\ queue # <<>>
    /\ Head(queue).kind = "post"
    /\ queue' = Tail(queue)
    /\ rail' = IF PostCode(Head(queue)) = 200 THEN Overlay(rail, Head(queue).settings) ELSE rail
    /\ Respond(Head(queue), PostCode(Head(queue)), <<>>)
    /\ UNCHANGED <<held, onvif, foreign>>

OtherWrites(r) ==
    /\ Accepted(rail, r)
    /\ rail' = Overlay(rail, r.change)
    /\ foreign' = TRUE
    /\ UNCHANGED <<queue, response, held, onvif>>

(* Its connections end with the process, the SOAP thread sees them close. *)
RailRestarts ==
    /\ MayRestart
    /\ rail' \in StartConfig
    /\ queue' = <<>>
    /\ foreign' = TRUE
    /\ held' = FALSE
    /\ UNCHANGED <<response, onvif>>

(* The peer has said all, closes, or is silent from now on.  It need not. *)
PeerLetsGo ==
    /\ held
    /\ held' = FALSE
    /\ UNCHANGED <<rail, queue, response, onvif, foreign>>

SoapStep == Send \/ ReadSettings \/ Reread \/ WriteSettings \/ CheckHealth

Next ==
    \/ \E c \in Calls : Receive(c)
    \/ SoapStep
    \/ HandleGet
    \/ HandlePost
    \/ \E r \in OtherRequests : OtherWrites(r)
    \/ RailRestarts
    \/ PeerLetsGo

Spec == Init /\ [][Next]_vars

(* The SOAP thread runs on.  Nothing is assumed of rail-media. *)
FairSpec == Spec /\ WF_vars(SoapStep)

(* What the liveness theorem assumes: the SOAP thread has a time limit for *)
(* every silence, so within a request it can go on unless the peer holds   *)
(* it.                                                                     *)
NothingBlocks == stage # "idle" /\ ~held => ENABLED <<SoapStep>>_vars

-----------------------------------------------------------------------------
(* Properties.                                                             *)

Waiting == {queue[i] : i \in DOMAIN queue}

(* A write that was acknowledged is the last word of this server: nothing  *)
(* it sent earlier, and answered with a fault, can still take effect.      *)
AcknowledgedIsFinal ==
    stage = "idle" /\ reply = "ok" /\ call.op \in Updates
        => \A message \in Waiting : message.kind # "post"

(* What a write was worked out from is what it is applied to, however late *)
(* rail-media handles it and whatever earlier calls left in its queue: it  *)
(* changes the settings the client named and no other, unless the read had *)
(* failed or others have changed them since.  Imaging settings that were   *)
(* not named lose the digits that were not printed, and no more.           *)
OnlyNamedSettingsChange ==
    [][\A f \in Field :
          queue # <<>> /\ HandlePost /\ Head(queue).whole /\ ~foreign /\ f \notin Head(queue).named
              => rail'[f] \in {rail[f], Printed(rail)[f]}]_vars

(* An OSD is created only where there is none, and changed or deleted only *)
(* where there is one, when the write is applied and not just when it was  *)
(* decided.                                                                *)
OsdCallsFitTheOsd ==
    [][queue # <<>> /\ HandlePost /\ Head(queue).whole /\ ~foreign /\ Group(Head(queue).op) = OsdFields
          => (rail[EnabledField] = Enabled) = (Head(queue).op # "CreateOsd")]_vars

(* Every ONVIF request is answered, even when rail-media hangs or restarts *)
(* between or within its exchanges, unless a peer holds one of them for    *)
(* ever.                                                                   *)
CallsAreAnswered == (stage # "idle") ~> (stage = "idle" \/ []held)

(* The settings in force, as an answer shows them. *)
InForce(op) == Shown(Printed(Restriction(rail, Group(op))))

(* What README.md says of the settings: a query after a change gives the   *)
(* values that are in force.                                               *)
QueriesTellTheTruth ==
    [][stage = "read" /\ stage' = "idle" /\ reply' = "ok" => settings' = InForce(call.op)]_vars

=============================================================================
