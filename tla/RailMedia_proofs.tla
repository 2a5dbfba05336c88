-------------------------- MODULE RailMedia_proofs --------------------------
(***************************************************************************)
(* Safety of rail-media for every set of fields, values, clients,          *)
(* factories and requests.                                                 *)
(***************************************************************************)
EXTENDS RailMedia, FiniteSetTheorems, TLAPS

-----------------------------------------------------------------------------
(* Configurations and requests.                                            *)

LEMMA ValuesAre ==
    ASSUME NEW v
    PROVE  v \in Values <=> \E fields \in SUBSET Field : v \in [fields -> Value]
  BY DEF Values

LEMMA RequestFields ==
    ASSUME NEW r \in Request
    PROVE  /\ r.op \in {"config", "imaging", "osd", "preset", "unknown preset"}
           /\ r.change \in Values
           /\ r.op = "config" => DOMAIN r.change \subseteq VideoFields
           /\ r.op = "imaging" => DOMAIN r.change \subseteq ImagingFields
           /\ r.op = "osd" => DOMAIN r.change \subseteq OsdFields
<1>1. ASSUME NEW fields \in SUBSET Field, NEW c \in Change(fields)
      PROVE  c \in Values /\ DOMAIN c \subseteq fields
  <2>1. PICK some \in SUBSET fields : c \in [some -> Value]
    BY DEF Change
  <2>2. QED
    BY <2>1, ValuesAre
<1>2. ASSUME NEW p \in Presets
      PROVE  PresetChange(p) \in Values
  <2>1. p \in [VideoFields -> Value]
    BY RailConfigAssumption
  <2>2. PresetChange(p) \in [VideoFields \union {EncoderField} -> Value]
    BY <2>1, RailConfigAssumption DEF PresetChange
  <2>3. QED
    BY <2>2, ValuesAre DEF Field
<1>3. VideoFields \subseteq Field /\ ImagingFields \subseteq Field /\ OsdFields \subseteq Field
  BY DEF Field
<1>4. CASE r \in [op : {"config"}, change : Change(VideoFields)]
  BY <1>1, <1>3, <1>4
<1>5. CASE r \in [op : {"imaging"}, change : Change(ImagingFields)]
  BY <1>1, <1>3, <1>5
<1>6. CASE r \in [op : {"osd"}, change : Change(OsdFields)]
  BY <1>1, <1>3, <1>6
<1>7. CASE r \in [op : {"preset"}, change : {PresetChange(p) : p \in Presets}]
  BY <1>2, <1>7
<1>8. CASE r \in [op : {"unknown preset"}, change : {PresetChange(p) : p \in Presets}]
  BY <1>2, <1>8
<1>9. QED
  BY <1>4, <1>5, <1>6, <1>7, <1>8 DEF Request

LEMMA OverlayType ==
    ASSUME NEW config \in Config, NEW v \in Values
    PROVE  Overlay(config, v) \in Config
<1>1. PICK fields \in SUBSET Field : v \in [fields -> Value]
  BY ValuesAre
<1>2. QED
  BY <1>1 DEF Overlay, Config

LEMMA HandedOverType ==
    ASSUME NEW config \in Config, NEW r \in Request
    PROVE  HandedOver(config, r) \in Values
<1> DEFINE made == Overlay(config, r.change)
<1>1. made \in [Field -> Value]
  BY OverlayType, RequestFields DEF Config
<1>2. /\ Restriction(made, ImagingFields) \in [ImagingFields -> Value]
      /\ Restriction(made, OsdFields) \in [OsdFields -> Value]
  BY <1>1 DEF Restriction, Field
<1>3. ImagingFields \subseteq Field /\ OsdFields \subseteq Field
  BY DEF Field
<1>4. /\ made \in Values
      /\ Restriction(made, ImagingFields) \in Values
      /\ Restriction(made, OsdFields) \in Values
  BY <1>1, <1>2, <1>3, ValuesAre
<1>5. QED
  BY <1>4, RequestFields DEF HandedOver

(* The values handed over, laid over the configuration they were worked    *)
(* out from, are the request's change and nothing else.                    *)
LEMMA HandedOverIsTheChange ==
    ASSUME NEW config \in Config, NEW r \in Request
    PROVE  Overlay(config, HandedOver(config, r)) = Overlay(config, r.change)
<1> DEFINE made == Overlay(config, r.change)
<1>1. made \in [Field -> Value]
  BY OverlayType, RequestFields DEF Config
<1>2. Overlay(config, made) = made
  BY <1>1 DEF Overlay
<1>3. ASSUME NEW fields \in SUBSET Field, DOMAIN r.change \subseteq fields
      PROVE  Overlay(config, Restriction(made, fields)) = made
  <2>1. DOMAIN Restriction(made, fields) = fields
    BY DEF Restriction
  <2>2. ASSUME NEW f \in Field
        PROVE  Overlay(config, Restriction(made, fields))[f] = made[f]
    <3>1. CASE f \in fields
      BY <2>1, <3>1 DEF Overlay, Restriction
    <3>2. CASE f \notin fields
      BY <1>3, <2>1, <3>2 DEF Overlay
    <3>3. QED
      BY <3>1, <3>2
  <2>3. QED
    BY <2>2 DEF Overlay
<1>4. ImagingFields \subseteq Field /\ OsdFields \subseteq Field
  BY DEF Field
<1>5. CASE r.op = "config"
  BY <1>2, <1>5 DEF HandedOver
<1>6. CASE r.op = "imaging"
  BY <1>3, <1>4, <1>6, RequestFields DEF HandedOver
<1>7. CASE r.op = "osd"
  BY <1>3, <1>4, <1>7, RequestFields DEF HandedOver
<1>8. CASE r.op \notin {"config", "imaging", "osd"}
  BY <1>8 DEF HandedOver
<1>9. QED
  BY <1>5, <1>6, <1>7, <1>8

-----------------------------------------------------------------------------
(* The steps, one by one.                                                  *)

LEMMA NextCases ==
    ASSUME Next
    PROVE  \/ Get \/ ReadHealth \/ AnswerHealth \/ Refuse \/ AnswerPost
           \/ CheckDone \/ SpuriousWakeup
           \/ \E r \in Requests : Post(r)
           \/ StartJob \/ ResetStatus \/ RemoveFactory \/ AddFactory
           \/ ClientsClosed \/ Commit \/ SetDone \/ Notify
           \/ \E c \in Client : CloseClient(c) \/ Accept(c) \/ ClientLeaves(c) \/ ClientRequests(c)
           \/ \E f \in Factory : MediaRuns(f)
  BY DEF Next, ControlStep, MainStep

LEMMA JobFields ==
    ASSUME TypeOK
    PROVE  /\ job.request \in Request /\ job.request \in Requests
           /\ job.values \in Values
           /\ job.done \in BOOLEAN /\ job.ok \in BOOLEAN
           /\ job = [request |-> job.request, values |-> job.values,
                     done |-> job.done, ok |-> job.ok]
  BY RailMediaAssumption DEF TypeOK, Job

(* Types of the RTSP side: clients, then media. *)
LEMMA ClientStepType ==
    ASSUME PipelineTypeOK, NEW c \in Client,
           ClientConnects(c) \/ ClientCloses(c) \/ ClientAsks(c)
    PROVE  PipelineTypeOK'
<1>1. CASE ClientConnects(c)
  BY <1>1 DEF PipelineTypeOK, ClientConnects
<1>2. CASE ClientCloses(c)
  BY <1>2 DEF PipelineTypeOK, ClientCloses, on_client_closed
<1>3. CASE ClientAsks(c)
  BY <1>3 DEF PipelineTypeOK, ClientAsks, MediaStates
<1>4. QED
  BY <1>1, <1>2, <1>3

LEMMA MediaStepType ==
    ASSUME PipelineTypeOK, NEW f \in Factory, MediaStep(f)
    PROVE  PipelineTypeOK'
<1> USE DEF PipelineTypeOK, update_pipeline_status, MediaStates, Signals,
            PipelineStatus, CameraStatus
<1>1. CASE on_media_configure(f)
  BY <1>1 DEF on_media_configure
<1>2. CASE MediaPrepares(f)
  BY <1>2 DEF MediaPrepares
<1>3. CASE on_media_prepared(f)
  BY <1>3 DEF on_media_prepared
<1>4. CASE on_bus_message(f)
  BY <1>4 DEF on_bus_message
<1>5. CASE MediaFails(f)
  BY <1>5 DEF MediaFails
<1>6. CASE on_media_new_state(f)
  BY <1>6 DEF on_media_new_state
<1>7. CASE MediaUnprepares(f)
  BY <1>7 DEF MediaUnprepares
<1>8. CASE on_media_unprepared(f)
  BY <1>8 DEF on_media_unprepared, MediaGone
<1>9. CASE on_media_unpreparedOverwrites(f)
  BY <1>9 DEF on_media_unpreparedOverwrites, MediaGone
<1>10. QED
  BY <1>1, <1>2, <1>3, <1>4, <1>5, <1>6, <1>7, <1>8, <1>9 DEF MediaStep

LEMMA InitType == Init => TypeOK
<1> SUFFICES ASSUME Init PROVE TypeOK
  OBVIOUS
<1>1. current_ \in Config
  BY RailMediaAssumption DEF Init
<1>2. PipelineTypeOK
  BY <1>1 DEF Init, PipelineInit, PipelineTypeOK, MediaStates, Signals, PipelineStatus, CameraStatus
<1>3. <<>> \in Values
  <2>1. <<>> \in [{} -> Value]
    OBVIOUS
  <2>2. QED
    BY <2>1, ValuesAre
<1>4. job \in Job
  BY <1>3 DEF Init, Job
<1>5. QED
  BY <1>1, <1>2, <1>4 DEF Init, TypeOK, PipelineStatus, MainStates

LEMMA NextType == TypeOK /\ [Next]_vars => TypeOK'
<1> SUFFICES ASSUME TypeOK, [Next]_vars PROVE TypeOK'
  OBVIOUS
<1> USE DEF TypeOK
<1>0. CASE UNCHANGED vars
  BY <1>0 DEF vars, controlVars, pipelineVars, PipelineTypeOK
<1>1. ASSUME UNCHANGED pipelineVars PROVE PipelineTypeOK'
  BY <1>1 DEF pipelineVars, PipelineTypeOK
<1>2. CASE Get
  BY <1>1, <1>2 DEF Get
<1>3. CASE ReadHealth
  BY <1>1, <1>3 DEF ReadHealth, PipelineTypeOK
<1>4. CASE AnswerHealth
  BY <1>1, <1>4 DEF AnswerHealth, PipelineStatus
<1>5. CASE Refuse
  BY <1>1, <1>5 DEF Refuse
<1>6. ASSUME NEW r \in Requests, Post(r) PROVE TypeOK'
  <2>1. HandedOver(current_, r) \in Values
    BY HandedOverType, RailMediaAssumption
  <2>2. job' \in Job
    BY <2>1, <1>6 DEF Post, Job
  <2>3. QED
    BY <1>1, <1>6, <2>2 DEF Post
<1>7. CASE AnswerPost
  <2>1. Code(job.request, job.ok) \in {200, 404, 500}
    BY DEF Code
  <2>2. reply'.code \in {200, 404, 500} /\ reply'.config \in Config /\ reply' = [code |-> reply'.code, config |-> reply'.config]
    BY <1>7, <2>1 DEF AnswerPost
  <2>3. QED
    BY <1>1, <1>7, <2>2 DEF AnswerPost
<1>8. CASE StartJob
  <2>1. Overlay(current_, job.values) \in Config
    BY OverlayType, JobFields
  <2>2. next' \in Config /\ main' \in MainStates
    BY <1>8, <2>1 DEF StartJob, MainStates
  <2>3. queued' \in BOOLEAN
    BY <1>8, ZenonT(60) DEF StartJob
  <2>4. UNCHANGED <<current_, control, seen, job, reply, pipelineVars>>
    BY <1>8 DEF StartJob
  <2>5. QED
    BY <1>1, <2>2, <2>3, <2>4
<1>9. CASE ResetStatus
  BY <1>9 DEF ResetStatus, MainGoes, MainStates, update_pipeline_status, PipelineTypeOK, PipelineStatus, CameraStatus
<1>10. CASE RemoveFactory
  BY <1>10 DEF RemoveFactory, MainGoes, MainStates, PipelineTypeOK
<1>11. CASE AddFactory
  BY <1>11 DEF AddFactory, MainGoes, MainStates, PipelineTypeOK
<1>12. CASE ClientsClosed
  BY <1>1, <1>12 DEF ClientsClosed, MainGoes, MainStates
<1>13. CASE Commit
  <2>1. job' \in Job
    <3>1. job' = [request |-> job.request, values |-> job.values,
                  done    |-> job.done, ok |-> TRUE]
      <4>1. job' = [job EXCEPT !.ok = TRUE]
        BY <1>13 DEF Commit
      <4>2. QED
        BY <4>1, JobFields, ZenonT(60)
    <3>2. QED
      BY <3>1, JobFields DEF Job
  <2>2. current_' \in Config /\ main' \in MainStates
    BY <1>13 DEF Commit, MainGoes, MainStates
  <2>3. UNCHANGED <<control, seen, queued, next, reply, pipelineVars>>
    BY <1>13 DEF Commit
  <2>4. QED
    BY <1>1, <2>1, <2>2, <2>3
<1>14. CASE SetDone
  <2>1. job' \in Job
    <3>1. job' = [request |-> job.request, values |-> job.values,
                  done    |-> TRUE, ok |-> job.ok]
      <4>1. job' = [job EXCEPT !.done = TRUE]
        BY <1>14 DEF SetDone
      <4>2. QED
        BY <4>1, JobFields, ZenonT(60)
    <3>2. QED
      BY <3>1, JobFields DEF Job
  <2>2. main' \in MainStates /\ UNCHANGED <<current_, control, seen, queued, next, reply, pipelineVars>>
    BY <1>14 DEF SetDone, MainGoes, MainStates
  <2>3. QED
    BY <1>1, <2>1, <2>2
<1>15. CASE Notify
  BY <1>1, <1>15 DEF Notify, MainGoes, MainStates
<1>16. ASSUME NEW c \in Client, CloseClient(c) \/ Accept(c) \/ ClientLeaves(c) \/ ClientRequests(c)
       PROVE  TypeOK'
  <2>1. UNCHANGED controlVars
    BY <1>16 DEF CloseClient, Accept, ClientLeaves, ClientRequests
  <2>2. ClientConnects(c) \/ ClientCloses(c) \/ ClientAsks(c)
    BY <1>16 DEF CloseClient, ClientCloses, Accept, ClientLeaves, ClientRequests
  <2>3. QED
    BY <2>1, <2>2, ClientStepType DEF controlVars
<1>17. ASSUME NEW f \in Factory, MediaRuns(f) PROVE TypeOK'
  BY <1>17, MediaStepType DEF MediaRuns, controlVars
<1>18. CASE CheckDone \/ SpuriousWakeup
  BY <1>1, <1>18 DEF CheckDone, SpuriousWakeup
<1>19. QED
  BY <1>0, <1>2, <1>3, <1>4, <1>5, <1>6, <1>7, <1>8, <1>9, <1>10, <1>11, <1>12,
     <1>13, <1>14, <1>15, <1>16, <1>17, <1>18, NextCases

(* Type correctness of rail-media. *)
THEOREM TypeCorrect == Spec => []TypeOK
<1>1. QED
  BY InitType, NextType, PTL DEF Spec

-----------------------------------------------------------------------------
(* The invariant, part by part.                                            *)

(* What the clients and the media do leaves both threads alone. *)
LEMMA OutsideSteps ==
    ASSUME \/ UNCHANGED vars
           \/ \E c \in Client : CloseClient(c) \/ Accept(c) \/ ClientLeaves(c) \/ ClientRequests(c)
           \/ \E f \in Factory : MediaRuns(f)
    PROVE  UNCHANGED controlVars
  BY DEF vars, CloseClient, Accept, ClientLeaves, ClientRequests, MediaRuns

LEMMA JobSomewhereStep == IInv /\ [Next]_vars => JobIsSomewhere'
<1> SUFFICES ASSUME IInv, [Next]_vars PROVE JobIsSomewhere'
  OBVIOUS
<1> USE JobFields DEF IInv, JobIsSomewhere, Working, Waiting
<1>1. CASE UNCHANGED controlVars
  BY <1>1 DEF controlVars
<1>2. CASE Get \/ ReadHealth \/ AnswerHealth \/ Refuse \/ CheckDone \/ SpuriousWakeup
  BY <1>2 DEF Get, ReadHealth, AnswerHealth, Refuse, CheckDone, SpuriousWakeup
<1>3. ASSUME NEW r \in Requests, Post(r) PROVE JobIsSomewhere'
  BY <1>3 DEF Post
<1>4. CASE AnswerPost
  BY <1>4 DEF AnswerPost
<1>5. CASE StartJob
  BY <1>5 DEF StartJob
<1>6. CASE ResetStatus \/ RemoveFactory \/ AddFactory \/ ClientsClosed
  BY <1>6 DEF ResetStatus, RemoveFactory, AddFactory, ClientsClosed, MainGoes
<1>7. CASE Commit
  <2>1. job'.done = job.done
    BY <1>7 DEF Commit
  <2>2. QED
    BY <1>7, <2>1 DEF Commit, MainGoes
<1>8. CASE SetDone
  <2>1. job'.done = TRUE
    BY <1>8 DEF SetDone
  <2>2. QED
    BY <1>8, <2>1 DEF SetDone, MainGoes
<1>9. CASE Notify
  BY <1>9 DEF Notify, MainGoes
<1>10. QED
  BY <1>1, <1>2, <1>3, <1>4, <1>5, <1>6, <1>7, <1>8, <1>9, NextCases, OutsideSteps

LEMMA JobCurrentStep == IInv /\ [Next]_vars => JobIsCurrent'
<1> SUFFICES ASSUME IInv, [Next]_vars PROVE JobIsCurrent'
  OBVIOUS
<1> USE JobFields DEF IInv, JobIsSomewhere, JobIsCurrent, Working, Waiting
<1>1. CASE UNCHANGED controlVars
  BY <1>1 DEF controlVars
<1>2. CASE Get \/ ReadHealth \/ AnswerHealth \/ Refuse \/ CheckDone \/ SpuriousWakeup
  BY <1>2 DEF Get, ReadHealth, AnswerHealth, Refuse, CheckDone, SpuriousWakeup
<1>3. ASSUME NEW r \in Requests, Post(r) PROVE JobIsCurrent'
  <2>1. /\ job'.values = HandedOver(current_, r) /\ job'.request = r
        /\ job'.done = FALSE /\ job'.ok = FALSE /\ current_' = current_ /\ main' = main
    BY <1>3 DEF Post
  <2>2. ~Working
    BY <1>3 DEF Post
  <2>3. QED
    BY <2>1, <2>2
<1>4. CASE AnswerPost
  BY <1>4 DEF AnswerPost
<1>5. CASE StartJob
  <2>1. /\ Waiting /\ ~job.done /\ ~job.ok /\ ~queued'
        /\ UNCHANGED <<current_, control, job>>
    BY <1>5 DEF StartJob
  <2>2. CASE Accepted(current_, job.request)
    <3>1. current_ \in Config
      BY DEF TypeOK
    <3>2. next' = Overlay(current_, job.request.change) /\ main' = "reset"
      BY <1>5, <2>2, <3>1, HandedOverIsTheChange DEF StartJob
    <3>3. QED
      BY <2>1, <2>2, <3>2
  <2>3. CASE ~Accepted(current_, job.request)
    <3>1. main' = "done"
      BY <1>5, <2>3 DEF StartJob
    <3>2. QED
      BY <2>1, <3>1
  <2>4. QED
    BY <2>2, <2>3
<1>6. CASE ResetStatus \/ RemoveFactory \/ AddFactory \/ ClientsClosed
  BY <1>6 DEF ResetStatus, RemoveFactory, AddFactory, ClientsClosed, MainGoes
<1>7. CASE Commit
  <2>1. current_' = next /\ next' = next /\ main' = "done" /\ ~queued /\ ~queued'
    BY <1>7 DEF Commit, MainGoes
  <2>2. QED
    BY <2>1
<1>8. CASE SetDone
  <2>1. job'.ok = job.ok
    BY <1>8 DEF SetDone
  <2>2. /\ main = "done" /\ main' = "notify" /\ UNCHANGED <<current_, next, queued>>
        /\ ~queued
    BY <1>8 DEF SetDone, MainGoes
  <2>3. QED
    BY <2>1, <2>2
<1>9. CASE Notify
  BY <1>9 DEF Notify, MainGoes
<1>10. QED
  BY <1>1, <1>2, <1>3, <1>4, <1>5, <1>6, <1>7, <1>8, <1>9, NextCases, OutsideSteps

(* The control thread sleeps only after a look at done, under the mutex    *)
(* under which done is set; and it is done that Notify follows.            *)
LEMMA WakeupStep == IInv /\ [Next]_vars => NotificationIsToCome'
<1> SUFFICES ASSUME IInv, [Next]_vars PROVE NotificationIsToCome'
  OBVIOUS
<1> USE JobFields DEF IInv, NotificationIsToCome
<1>1. CASE UNCHANGED controlVars
  BY <1>1 DEF controlVars
<1>2. CASE Get \/ ReadHealth \/ AnswerHealth \/ Refuse \/ AnswerPost \/ SpuriousWakeup
  BY <1>2 DEF Get, ReadHealth, AnswerHealth, Refuse, AnswerPost, SpuriousWakeup
<1>3. ASSUME NEW r \in Requests, Post(r) PROVE NotificationIsToCome'
  BY <1>3 DEF Post
<1>4. CASE CheckDone
  BY <1>4 DEF CheckDone
<1>5. CASE StartJob
  BY <1>5 DEF StartJob, JobIsSomewhere
<1>6. CASE ResetStatus \/ RemoveFactory \/ AddFactory \/ ClientsClosed
  BY <1>6 DEF ResetStatus, RemoveFactory, AddFactory, ClientsClosed, MainGoes
<1>7. CASE Commit
  <2>1. job'.done = job.done /\ control' = control /\ main = "commit"
    BY <1>7 DEF Commit, MainGoes
  <2>2. QED
    BY <2>1
<1>8. CASE SetDone
  BY <1>8 DEF SetDone, MainGoes
<1>9. CASE Notify
  BY <1>9 DEF Notify, MainGoes
<1>10. QED
  BY <1>1, <1>2, <1>3, <1>4, <1>5, <1>6, <1>7, <1>8, <1>9, NextCases, OutsideSteps

(* The media's own steps: neither the mounted factory, nor what it was     *)
(* built from, nor the clients.                                            *)
LEMMA MediaLeavesFactory ==
    ASSUME NEW f \in Factory, MediaStep(f)
    PROVE  UNCHANGED <<mounted, built, connected, source, rtsp_clients_>>
  BY DEF MediaStep, on_media_configure, MediaPrepares, on_media_prepared, on_bus_message,
         MediaFails, on_media_new_state, MediaUnprepares, on_media_unprepared,
         on_media_unpreparedOverwrites, MediaGone

LEMMA FactoryStep == IInv /\ [Next]_vars => FactoryOfStep'
<1> SUFFICES ASSUME IInv, [Next]_vars PROVE FactoryOfStep'
  OBVIOUS
<1> USE DEF IInv, FactoryOfStep
<1>1. CASE UNCHANGED vars
  BY <1>1 DEF vars, controlVars, pipelineVars
<1>2. CASE Get \/ ReadHealth \/ AnswerHealth \/ Refuse \/ AnswerPost \/ CheckDone \/ SpuriousWakeup
  BY <1>2 DEF Get, ReadHealth, AnswerHealth, Refuse, AnswerPost, CheckDone, SpuriousWakeup, pipelineVars
<1>3. ASSUME NEW r \in Requests, Post(r) PROVE FactoryOfStep'
  BY <1>3 DEF Post, pipelineVars
<1>4. CASE StartJob
  BY <1>4 DEF StartJob, pipelineVars
<1>5. CASE ResetStatus \/ RemoveFactory
  BY <1>5 DEF ResetStatus, RemoveFactory, MainGoes
<1>6. CASE AddFactory
  <2>1. PICK f \in Factory : mounted' = f /\ built' = [built EXCEPT ![f] = next]
    BY <1>6 DEF AddFactory
  <2>2. built'[f] = next
    BY <2>1 DEF TypeOK, PipelineTypeOK
  <2>3. QED
    BY <1>6, <2>1, <2>2, RailPipelineAssumption DEF AddFactory, MainGoes
<1>7. CASE ClientsClosed \/ SetDone \/ Notify
  BY <1>7 DEF ClientsClosed, SetDone, Notify, MainGoes, pipelineVars
<1>8. CASE Commit
  BY <1>8 DEF Commit, MainGoes, pipelineVars
<1>9. ASSUME NEW c \in Client, CloseClient(c) \/ Accept(c) \/ ClientLeaves(c) \/ ClientRequests(c)
      PROVE  FactoryOfStep'
  BY <1>9 DEF CloseClient, Accept, ClientLeaves, ClientRequests, ClientConnects,
              ClientCloses, ClientAsks, controlVars
<1>10. ASSUME NEW f \in Factory, MediaRuns(f) PROVE FactoryOfStep'
  BY <1>10, MediaLeavesFactory DEF MediaRuns, controlVars
<1>11. QED
  BY <1>1, <1>2, <1>3, <1>4, <1>5, <1>6, <1>7, <1>8, <1>9, <1>10, NextCases

LEMMA ClientsStep == IInv /\ [Next]_vars => ClientsOfStep'
<1> SUFFICES ASSUME IInv, [Next]_vars PROVE ClientsOfStep'
  OBVIOUS
<1> USE DEF IInv, ClientsOfStep, TypeOK, PipelineTypeOK
<1>1. CASE UNCHANGED vars
  BY <1>1 DEF vars, controlVars, pipelineVars
<1>2. CASE Get \/ ReadHealth \/ AnswerHealth \/ Refuse \/ AnswerPost \/ CheckDone \/ SpuriousWakeup
  BY <1>2 DEF Get, ReadHealth, AnswerHealth, Refuse, AnswerPost, CheckDone, SpuriousWakeup, pipelineVars
<1>3. ASSUME NEW r \in Requests, Post(r) PROVE ClientsOfStep'
  BY <1>3 DEF Post, pipelineVars
<1>4. CASE StartJob
  BY <1>4 DEF StartJob, pipelineVars
<1>5. CASE ResetStatus \/ RemoveFactory \/ AddFactory
  BY <1>5 DEF ResetStatus, RemoveFactory, AddFactory, MainGoes
<1>6. CASE ClientsClosed
  BY <1>6 DEF ClientsClosed, MainGoes, pipelineVars
<1>7. CASE Commit \/ SetDone \/ Notify
  BY <1>7 DEF Commit, SetDone, Notify, MainGoes, pipelineVars
<1>8. ASSUME NEW c \in Client, CloseClient(c) \/ ClientLeaves(c) PROVE ClientsOfStep'
  BY <1>8 DEF CloseClient, ClientLeaves, ClientCloses, on_client_closed, controlVars
<1>9. ASSUME NEW c \in Client, Accept(c) PROVE ClientsOfStep'
  BY <1>9 DEF Accept, ClientConnects, controlVars
<1>10. ASSUME NEW c \in Client, ClientRequests(c) PROVE ClientsOfStep'
  BY <1>10 DEF ClientRequests, ClientAsks, controlVars
<1>11. ASSUME NEW f \in Factory, MediaRuns(f) PROVE ClientsOfStep'
  BY <1>11, MediaLeavesFactory DEF MediaRuns, controlVars
<1>12. QED
  BY <1>1, <1>2, <1>3, <1>4, <1>5, <1>6, <1>7, <1>8, <1>9, <1>10, <1>11, NextCases

LEMMA CountStep == IInv /\ [Next]_vars => ClientsCounted'
<1> SUFFICES ASSUME IInv, [Next]_vars PROVE ClientsCounted'
  OBVIOUS
<1> USE DEF IInv, ClientsCounted
<1>1. IsFiniteSet(connected) /\ connected \subseteq Client
  BY RailPipelineAssumption, FS_Subset DEF TypeOK, PipelineTypeOK
<1>2. CASE UNCHANGED <<connected, rtsp_clients_>>
  BY <1>2
<1>3. ASSUME NEW c \in Client, Accept(c) PROVE ClientsCounted'
  BY <1>1, <1>3, FS_AddElement DEF Accept, ClientConnects
<1>4. ASSUME NEW c \in Client, CloseClient(c) \/ ClientLeaves(c) PROVE ClientsCounted'
  <2>1. c \in connected /\ connected' = connected \ {c}
    BY <1>4 DEF CloseClient, ClientLeaves, ClientCloses, on_client_closed
  <2>2. Cardinality(connected') = Cardinality(connected) - 1
    BY <1>1, <2>1, FS_RemoveElement
  <2>3. Cardinality(connected) \in Nat /\ Cardinality(connected) # 0
    BY <1>1, <2>1, FS_CardinalityType, FS_EmptySet
  <2>4. rtsp_clients_' = rtsp_clients_ - 1
    BY <1>4, <2>3 DEF CloseClient, ClientLeaves, ClientCloses, on_client_closed
  <2>5. QED
    BY <2>2, <2>4
<1>5. ASSUME NEW c \in Client, ClientRequests(c) PROVE ClientsCounted'
  BY <1>5, <1>2 DEF ClientRequests, ClientAsks
<1>6. ASSUME NEW f \in Factory, MediaRuns(f) PROVE ClientsCounted'
  BY <1>6, <1>2, MediaLeavesFactory DEF MediaRuns
<1>7. CASE UNCHANGED vars \/ Get \/ ReadHealth \/ AnswerHealth \/ Refuse \/ AnswerPost
           \/ CheckDone \/ SpuriousWakeup \/ (\E r \in Requests : Post(r)) \/ StartJob \/ ResetStatus \/ RemoveFactory
           \/ AddFactory \/ ClientsClosed \/ Commit \/ SetDone \/ Notify
  <2>1. UNCHANGED <<connected, rtsp_clients_>>
    BY <1>7 DEF vars, Get, ReadHealth, AnswerHealth, Refuse, AnswerPost, CheckDone,
                SpuriousWakeup, Post, StartJob,
                ResetStatus, RemoveFactory, AddFactory, ClientsClosed, Commit, SetDone,
                Notify, pipelineVars
  <2>2. QED
    BY <1>2, <2>1
<1>8. QED
  BY <1>3, <1>4, <1>5, <1>6, <1>7, NextCases

(* Steps that touch neither the status nor the media. *)
LEMMA QuietSteps ==
    ASSUME \/ UNCHANGED vars \/ Get \/ ReadHealth \/ AnswerHealth \/ Refuse \/ AnswerPost
           \/ CheckDone \/ SpuriousWakeup
           \/ \E r \in Requests : Post(r)
           \/ StartJob \/ RemoveFactory \/ AddFactory \/ ClientsClosed \/ Commit \/ SetDone \/ Notify
           \/ \E c \in Client : CloseClient(c) \/ Accept(c) \/ ClientLeaves(c)
    PROVE  UNCHANGED <<health, media, signal>>
<1>1. CASE UNCHANGED vars
  BY <1>1 DEF vars, pipelineVars
<1>2. CASE Get \/ ReadHealth \/ AnswerHealth \/ Refuse \/ AnswerPost \/ \E r \in Requests : Post(r)
  BY <1>2 DEF Get, ReadHealth, AnswerHealth, Refuse, AnswerPost, Post, pipelineVars
<1>3. CASE StartJob \/ RemoveFactory \/ AddFactory \/ ClientsClosed \/ Commit \/ SetDone \/ Notify
  BY <1>3 DEF StartJob, RemoveFactory, AddFactory, ClientsClosed, Commit, SetDone, Notify, pipelineVars
<1>4. CASE \E c \in Client : CloseClient(c) \/ Accept(c) \/ ClientLeaves(c)
  BY <1>4 DEF CloseClient, Accept, ClientLeaves, ClientConnects, ClientCloses
<1>5. CASE CheckDone \/ SpuriousWakeup
  BY <1>5 DEF CheckDone, SpuriousWakeup, pipelineVars
<1>6. QED
  BY <1>1, <1>2, <1>3, <1>4, <1>5

LEMMA StatusStep == IInv /\ [Next]_vars => StatusesAgree'
<1> SUFFICES ASSUME IInv, [Next]_vars PROVE StatusesAgree'
  OBVIOUS
<1> USE DEF IInv, StatusesAgree
<1>1. CASE UNCHANGED health
  BY <1>1
<1>2. CASE ResetStatus
  BY <1>2 DEF ResetStatus, update_pipeline_status
<1>3. ASSUME NEW c \in Client, ClientRequests(c) PROVE StatusesAgree'
  BY <1>1, <1>3 DEF ClientRequests, ClientAsks
<1>4. ASSUME NEW f \in Factory, MediaRuns(f) PROVE StatusesAgree'
  <2>1. \/ UNCHANGED health
        \/ update_pipeline_status("preparing", "checking")
        \/ update_pipeline_status("ready", "ok")
        \/ update_pipeline_status("error", "error")
        \/ update_pipeline_status("idle", "not_checked")
    BY <1>4 DEF MediaRuns, MediaStep, on_media_configure, MediaPrepares, on_media_prepared,
                on_bus_message, MediaFails, on_media_new_state, MediaUnprepares,
                on_media_unprepared, on_media_unpreparedOverwrites
  <2>2. QED
    BY <1>1, <2>1 DEF update_pipeline_status
<1>5. QED
  BY <1>1, <1>2, <1>3, <1>4, NextCases, QuietSteps

LEMMA SignalsStep == IInv /\ [Next]_vars => SignalsFollowMedia'
<1> SUFFICES ASSUME IInv, [Next]_vars PROVE SignalsFollowMedia'
  OBVIOUS
<1> USE DEF IInv, SignalsFollowMedia, TypeOK, PipelineTypeOK
<1>1. CASE UNCHANGED <<media, signal>>
  BY <1>1
<1>2. CASE ResetStatus
  BY <1>1, <1>2 DEF ResetStatus
<1>3. ASSUME NEW c \in Client, ClientRequests(c) PROVE SignalsFollowMedia'
  BY <1>3 DEF ClientRequests, ClientAsks
<1>4. ASSUME NEW f \in Factory, MediaRuns(f) PROVE SignalsFollowMedia'
  <2>1. CASE on_media_configure(f)
    BY <2>1 DEF on_media_configure
  <2>2. CASE MediaPrepares(f)
    BY <2>2 DEF MediaPrepares
  <2>3. CASE on_media_prepared(f)
    BY <2>3 DEF on_media_prepared
  <2>4. CASE on_bus_message(f) \/ on_media_new_state(f)
    BY <1>1, <2>4 DEF on_bus_message, on_media_new_state
  <2>5. CASE MediaFails(f)
    BY <2>5 DEF MediaFails
  <2>6. CASE MediaUnprepares(f)
    BY <2>6 DEF MediaUnprepares
  <2>7. CASE on_media_unprepared(f)
    BY <2>7 DEF on_media_unprepared, MediaGone
  <2>8. CASE on_media_unpreparedOverwrites(f)
    BY <2>8 DEF on_media_unpreparedOverwrites, MediaGone
  <2>9. QED
    BY <1>4, <2>1, <2>2, <2>3, <2>4, <2>5, <2>6, <2>7, <2>8 DEF MediaRuns, MediaStep
<1>5. QED
  BY <1>1, <1>2, <1>3, <1>4, NextCases, QuietSteps

LEMMA ReadyStep == IInv /\ [Next]_vars => ReadyHasAPipeline'
<1> SUFFICES ASSUME IInv, [Next]_vars PROVE ReadyHasAPipeline'
  OBVIOUS
<1> USE DEF IInv, ReadyHasAPipeline, TypeOK, PipelineTypeOK
<1>1. CASE UNCHANGED <<health, media, signal>>
  BY <1>1
<1>2. CASE health'.pipeline # "ready"
  BY <1>2
<1>3. CASE ResetStatus
  BY <1>2, <1>3 DEF ResetStatus, update_pipeline_status
<1>4. ASSUME NEW c \in Client, ClientRequests(c) PROVE ReadyHasAPipeline'
  <2>1. UNCHANGED <<health, signal>>
    BY <1>4 DEF ClientRequests, ClientAsks
  <2>2. \A f \in Factory : media[f] # "none" => media'[f] = media[f]
    BY <1>4 DEF ClientRequests, ClientAsks
  <2>3. QED
    BY <2>1, <2>2
<1>5. ASSUME NEW f \in Factory, MediaRuns(f) PROVE ReadyHasAPipeline'
  <2>1. CASE on_media_configure(f)
    BY <1>2, <2>1 DEF on_media_configure, update_pipeline_status
  <2>2. CASE MediaPrepares(f)
    BY <2>2 DEF MediaPrepares
  <2>3. CASE on_media_prepared(f)
    BY <2>3 DEF on_media_prepared, SignalsFollowMedia
  <2>4. CASE on_bus_message(f) \/ on_media_new_state(f)
    BY <1>2, <2>4 DEF on_bus_message, on_media_new_state, update_pipeline_status
  <2>5. CASE MediaFails(f)
    BY <2>5 DEF MediaFails
  <2>6. CASE MediaUnprepares(f)
    BY <2>6 DEF MediaUnprepares
  <2>7. CASE on_media_unprepared(f)
    <3>1. CASE health'.pipeline = "error"
      BY <1>2, <3>1
    <3>2. CASE UNCHANGED <<media, health>> /\ signal' = [signal EXCEPT ![f] = "overwrite"]
      BY <3>2
    <3>3. QED
      BY <2>7, <3>1, <3>2 DEF on_media_unprepared, update_pipeline_status
  <2>8. CASE on_media_unpreparedOverwrites(f)
    BY <1>2, <2>8 DEF on_media_unpreparedOverwrites, update_pipeline_status
  <2>9. QED
    BY <1>5, <2>1, <2>2, <2>3, <2>4, <2>5, <2>6, <2>7, <2>8 DEF MediaRuns, MediaStep
<1>6. QED
  BY <1>1, <1>3, <1>4, <1>5, NextCases, QuietSteps

LEMMA InitInvariant == Init => IInv
<1> SUFFICES ASSUME Init PROVE IInv
  OBVIOUS
<1>1. TypeOK
  BY InitType
<1>2. current_ \in Config /\ mounted \in Factory
  BY <1>1 DEF Init, PipelineInit, TypeOK
<1>3. job.done = FALSE /\ job.ok = FALSE /\ main = "idle" /\ control = "idle" /\ queued = FALSE
  BY DEF Init
<1>4. JobIsSomewhere /\ JobIsCurrent /\ NotificationIsToCome
  BY <1>3 DEF JobIsSomewhere, JobIsCurrent, Working, Waiting, NotificationIsToCome
<1>5. FactoryOfStep
  BY <1>2, <1>3, RailPipelineAssumption DEF Init, PipelineInit, FactoryOfStep
<1>6. ClientsOfStep
  BY DEF Init, PipelineInit, ClientsOfStep
<1>7. ClientsCounted
  BY FS_EmptySet DEF Init, PipelineInit, ClientsCounted
<1>8. StatusesAgree /\ SignalsFollowMedia /\ ReadyHasAPipeline
  BY DEF Init, PipelineInit, StatusesAgree, SignalsFollowMedia, ReadyHasAPipeline
<1>9. QED
  BY <1>1, <1>4, <1>5, <1>6, <1>7, <1>8 DEF IInv

LEMMA InvariantStep == IInv /\ [Next]_vars => IInv'
<1> SUFFICES ASSUME IInv, [Next]_vars PROVE IInv'
  OBVIOUS
<1>1. TypeOK'
  BY NextType DEF IInv
<1>2. QED
  BY <1>1, JobSomewhereStep, JobCurrentStep, WakeupStep, FactoryStep, ClientsStep, CountStep,
     StatusStep, SignalsStep, ReadyStep DEF IInv

(* The inductive invariant of rail-media. *)
THEOREM Invariance == Spec => []IInv
<1>1. QED
  BY InitInvariant, InvariantStep, PTL DEF Spec

-----------------------------------------------------------------------------
(* The safety properties.                                                  *)

(* The factory on the mount point is built from the configuration that is  *)
(* reported, whenever no change is being made.                             *)
THEOREM CurrentFactory == Spec => []FactoryIsCurrent
<1>1. IInv => FactoryIsCurrent
  BY DEF IInv, FactoryOfStep, FactoryIsCurrent
<1>2. QED
  BY <1>1, Invariance, PTL

(* No client is left on a pipeline of an older configuration. *)
THEOREM ClientsOnCurrent == Spec => []NoClientOnOldPipeline
<1>1. IInv => NoClientOnOldPipeline
  BY DEF IInv, ClientsOfStep, NoClientOnOldPipeline
<1>2. QED
  BY <1>1, Invariance, PTL

(* The client counter is the number of connections. *)
THEOREM Counted == Spec => []ClientsCounted
<1>1. IInv => ClientsCounted
  BY DEF IInv
<1>2. QED
  BY <1>1, Invariance, PTL

(* Pipeline and camera status never contradict each other. *)
THEOREM Agreement == Spec => []StatusesAgree
<1>1. IInv => StatusesAgree
  BY DEF IInv
<1>2. QED
  BY <1>1, Invariance, PTL

(* "ready" is reported only while a prepared media exists. *)
THEOREM ReadyIsPrepared == Spec => []ReadyHasAPipeline
<1>1. IInv => ReadyHasAPipeline
  BY DEF IInv
<1>2. QED
  BY <1>1, Invariance, PTL

(* Whenever the control thread sleeps on a job that is done, its           *)
(* notification is still to come.                                          *)
THEOREM NoLostWakeup == Spec => []NotificationIsToCome
<1>1. IInv => NotificationIsToCome
  BY DEF IInv
<1>2. QED
  BY <1>1, Invariance, PTL

-----------------------------------------------------------------------------
(* Refinement: the control API is one atomic register.                     *)

LEMMA InitRefines == Init => Register!Init
<1> SUFFICES ASSUME Init PROVE Register!Init
  OBVIOUS
<1>1. job.request \in Requests /\ job.ok = FALSE
  BY DEF Init
<1>2. RequestPhase = "idle"
  BY DEF Init, RequestPhase, Waiting
<1>3. QED
  BY <1>1, <1>2 DEF Init, Register!Init

(* The register's operators on configurations are those of RailConfig. *)
LEMMA SameOperators ==
    ASSUME NEW config, NEW change, NEW r, NEW ok
    PROVE  /\ Register!Overlay(config, change) = Overlay(config, change)
           /\ Register!Accepted(config, r) = Accepted(config, r)
           /\ Register!Code(r, ok) = Code(r, ok)
  BY DEF Register!Overlay, Overlay, Register!Field, Field, Register!Accepted, Accepted,
         Register!Restriction, Restriction, Register!Code, Code

LEMMA StepRefines == IInv /\ [Next]_vars => [Register!Next]_Register!vars
<1> SUFFICES ASSUME IInv, [Next]_vars PROVE [Register!Next]_Register!vars
  OBVIOUS
<1> USE JobFields DEF IInv, JobIsSomewhere, Working, RequestPhase, Waiting
<1> DEFINE stutters == UNCHANGED <<current_, job.request, RequestPhase, job.ok, reply>>
<1>1. CASE stutters
  BY <1>1 DEF Register!vars
<1>2. CASE UNCHANGED controlVars
  BY <1>1, <1>2 DEF controlVars
<1>3. CASE Get
  <2>1. Register!Query(200)
    BY <1>3 DEF Get, Register!Query
  <2>2. QED
    BY <2>1 DEF Register!Next
<1>4. CASE ReadHealth
  BY <1>1, <1>4 DEF ReadHealth
<1>5. CASE AnswerHealth
  <2>1. \E code \in {200, 503} : Register!Query(code)
    BY <1>5 DEF AnswerHealth, Register!Query
  <2>2. QED
    BY <2>1 DEF Register!Next
<1>6. CASE Refuse
  <2>1. \E code \in {400, 404} : Register!Refuse(code)
    BY <1>6 DEF Refuse, Register!Refuse
  <2>2. QED
    BY <2>1 DEF Register!Next
<1>7. ASSUME NEW r \in Requests, Post(r) PROVE [Register!Next]_Register!vars
  <2>1. /\ job'.request = r /\ job'.done = FALSE /\ job'.ok = FALSE
        /\ main' = main /\ main # "done"
    BY <1>7 DEF Post
  <2>2. Register!Call(r)
    BY <1>7, <2>1 DEF Post, Register!Call
  <2>3. QED
    BY <2>2 DEF Register!Next
<1>8. CASE AnswerPost
  <2>1. RequestPhase = "applied" /\ RequestPhase' = "idle"
    BY <1>8 DEF AnswerPost
  <2>2. job.ok => next = current_
    BY <1>8 DEF AnswerPost, JobIsCurrent
  <2>3. Register!Return
    BY <1>8, <2>1, <2>2, SameOperators DEF AnswerPost, Register!Return
  <2>4. QED
    BY <2>3 DEF Register!Next
<1>9. CASE StartJob
  <2>1. /\ Waiting /\ control' = control /\ RequestPhase = "called"
        /\ UNCHANGED <<current_, job, reply>> /\ ~job.ok /\ ~job.done
    BY <1>9 DEF StartJob
  <2>2. CASE Accepted(current_, job.request)
    <3>1. RequestPhase' = "called"
      BY <1>9, <2>1, <2>2 DEF StartJob
    <3>2. QED
      BY <1>1, <2>1, <3>1
  <2>3. CASE ~Accepted(current_, job.request)
    <3>1. RequestPhase' = "applied"
      BY <1>9, <2>1, <2>3 DEF StartJob
    <3>2. job'.ok = FALSE /\ job'.request = job.request
      BY <2>1
    <3>3. Register!Apply
      BY <2>1, <2>3, <3>1, <3>2, SameOperators DEF Register!Apply, Accepted
    <3>4. QED
      BY <3>3 DEF Register!Next
  <2>4. QED
    BY <2>2, <2>3
<1>10. CASE ResetStatus \/ RemoveFactory \/ AddFactory \/ ClientsClosed
  <2>1. UNCHANGED <<current_, control, job, reply>> /\ main # "done" /\ main' # "done"
    BY <1>10 DEF ResetStatus, RemoveFactory, AddFactory, ClientsClosed, MainGoes
  <2>2. QED
    BY <1>1, <2>1
<1>11. CASE Commit
  <2>1. /\ Waiting /\ control' = control /\ ~job.done /\ reply' = reply
        /\ job'.ok = TRUE /\ job'.request = job.request
        /\ main = "commit" /\ main' = "done" /\ current_' = next
    BY <1>11 DEF Commit, MainGoes
  <2>2. Accepted(current_, job.request) /\ next = Overlay(current_, job.request.change)
    BY <2>1 DEF JobIsCurrent
  <2>3. RequestPhase = "called" /\ RequestPhase' = "applied"
    BY <2>1
  <2>4. /\ Register!Accepted(current_, job.request) = TRUE
        /\ Register!Overlay(current_, job.request.change) = next
    BY <2>2, SameOperators DEF Accepted
  <2>5. job'.ok = Register!Accepted(current_, job.request)
    BY <2>1, <2>4
  <2>6. current_' = Register!Overlay(current_, job.request.change)
    BY <2>1, <2>4
  <2>7. Register!Apply
    BY <2>1, <2>3, <2>5, <2>6 DEF Register!Apply
  <2>8. QED
    BY <2>7 DEF Register!Next
<1>12. CASE SetDone
  <2>1. /\ job'.done = TRUE /\ job'.ok = job.ok /\ job'.request = job.request
        /\ UNCHANGED <<current_, control, reply>> /\ main = "done"
    BY <1>12 DEF SetDone, MainGoes
  <2>2. QED
    BY <1>1, <2>1
<1>13. CASE Notify
  <2>1. /\ UNCHANGED <<current_, job, reply>> /\ main # "done" /\ main' # "done"
        /\ Waiting' = Waiting
    BY <1>13 DEF Notify, MainGoes
  <2>2. QED
    BY <1>1, <2>1
<1>14. CASE CheckDone \/ SpuriousWakeup
  <2>1. UNCHANGED <<current_, main, job, reply>> /\ Waiting' = Waiting
    BY <1>14 DEF CheckDone, SpuriousWakeup
  <2>2. QED
    BY <1>1, <2>1
<1>15. QED
  BY <1>2, <1>3, <1>4, <1>5, <1>6, <1>7, <1>8, <1>9, <1>10, <1>11, <1>12, <1>13, <1>14,
     NextCases, OutsideSteps

(* The two threads, the queue and the condition variable together are one  *)
(* atomic register: no update is lost, no answer is older than its request. *)
THEOREM Implements == Spec => ImplementsRegister
<1>1. QED
  BY InitRefines, StepRefines, Invariance, PTL DEF Spec, ImplementsRegister, Register!Spec

=============================================================================
