-------------------------- MODULE OnvifRail_proofs --------------------------
(***************************************************************************)
(* Safety of the ONVIF handlers over the control API of rail-media, for    *)
(* every set of settings, requests and defaults, and every queue length.   *)
(***************************************************************************)
EXTENDS OnvifRail, SequenceTheorems, TLAPS

-----------------------------------------------------------------------------
(* The inductive invariant.                                                *)

(* Where the thread stands, and what it has at hand there. *)
StageFits ==
    /\ stage = "idle" => ~sent
    /\ ~sent => response = Nothing /\ ~held
    /\ stage = "health" => call.op = "Health"
    /\ stage = "read" => call.op # "Health"
    /\ stage \in {"reread", "write"} => call.op \in Updates /\ settings \in [Group(call.op) -> Value]
    /\ whole => stage \in {"reread", "write"}

(* The only request somebody waits for is the last one sent, and when it   *)
(* has been answered there is none left.                                   *)
AwaitedIsLast ==
    /\ response # Nothing => queue = <<>>
    /\ \A i \in DOMAIN queue :
           queue[i].awaited =>
               /\ sent
               /\ i = Len(queue)
               /\ queue[i].op = call.op
               /\ (queue[i].kind = "post") = (stage = "write")

PostsAreUpdates == \A i \in DOMAIN queue : queue[i].kind = "post" => queue[i].op \in Updates

(* A response with settings is what rail-media has, unless others have     *)
(* changed it.                                                             *)
ResponseFits ==
    response # Nothing /\ stage = "read" =>
        /\ response.body \in [Group(call.op) -> Value]
        /\ ~foreign => response.body = Printed(Restriction(rail, Group(call.op)))

(* Values to be written agree with what rail-media prints but for what was *)
(* named, and what was decided of the OSD still holds.                     *)
Fits(op, values, named) ==
    /\ \A f \in DOMAIN values \ named : values[f] = Printed(rail)[f]
    /\ op \in {"SetOsd", "DeleteOsd"} => rail[EnabledField] = Enabled
    /\ op = "CreateOsd" => rail[EnabledField] # Enabled

NoPostBefore(i) == \A j \in DOMAIN queue : j < i => queue[j].kind # "post"

(* A write worked out from a complete response has no other write before   *)
(* it, whether it is sent or still to be sent: that response came after    *)
(* all that was sent earlier.                                              *)
SentWritesFit ==
    \A i \in DOMAIN queue :
        queue[i].kind = "post" /\ queue[i].whole =>
            /\ NoPostBefore(i)
            /\ ~foreign => Fits(queue[i].op, queue[i].settings, queue[i].named)

NoPosts == \A i \in DOMAIN queue : queue[i].kind # "post"

NextWriteFits ==
    whole /\ ~(stage = "write" /\ sent) =>
        /\ NoPosts
        /\ ~foreign => Fits(call.op, settings, DOMAIN call.change)

(* Nothing is left behind an acknowledged write. *)
NothingIsLeft == stage = "idle" /\ reply = "ok" /\ call.op \in Updates => queue = <<>>

IInv ==
    /\ TypeOK
    /\ StageFits
    /\ AwaitedIsLast
    /\ PostsAreUpdates
    /\ ResponseFits
    /\ SentWritesFit
    /\ NextWriteFits
    /\ NothingIsLeft

-----------------------------------------------------------------------------
(* Groups, requests and messages.                                          *)

LEMMA GroupFields ==
    ASSUME NEW op \in Ops
    PROVE  /\ Group(op) \subseteq Field
           /\ [Group(op) -> Value] \subseteq Settings
<1>1. Group(op) \in {VideoFields, ImagingFields, OsdFields, {}}
  BY DEF Group
<1>2. QED
  BY <1>1 DEF Field, Settings

LEMMA NoSettings == <<>> \in Settings
<1>1. <<>> \in [{} -> Value]
  OBVIOUS
<1>2. QED
  BY <1>1 DEF Settings

LEMMA SettingsAre ==
    ASSUME NEW values \in Settings
    PROVE  \A f \in DOMAIN values : values[f] \in Value
<1>1. PICK fields : values \in [fields -> Value]
  BY DEF Settings
<1>2. QED
  BY <1>1

(* The groups have no field in common, so only the OSD's operations write  *)
(* the OSD.                                                                *)
LEMMA OsdOperations ==
    ASSUME NEW op \in Updates, Group(op) = OsdFields
    PROVE  op \in {"SetOsd", "CreateOsd", "DeleteOsd"}
<1>1. EnabledField \in OsdFields
  BY OnvifRailAssumption
<1>2. EnabledField \notin VideoFields /\ EnabledField \notin ImagingFields
  BY <1>1, RailConfigAssumption
<1>3. QED
  BY <1>1, <1>2 DEF Group, Updates

LEMMA ChangeFields ==
    ASSUME NEW fields, NEW c \in Change(fields)
    PROVE  DOMAIN c \subseteq fields /\ \A f \in DOMAIN c : c[f] \in Value
<1>1. PICK some \in SUBSET fields : c \in [some -> Value]
  BY DEF Change
<1>2. QED
  BY <1>1

LEMMA CallFields ==
    ASSUME NEW c \in Calls
    PROVE  /\ c.op \in Ops
           /\ DOMAIN c.change \subseteq Field
           /\ \A f \in DOMAIN c.change : c.change[f] \in Value
<1>1. VideoFields \subseteq Field /\ ImagingFields \subseteq Field /\ OsdFields \subseteq Field
  BY DEF Field
<1>2. DOMAIN <<>> = {}
  OBVIOUS
<1>3. CASE c \in Reads
  BY <1>2, <1>3 DEF Reads, Ops
<1>4. CASE c \in VideoCalls
  <2>1. c.op = "SetVideo" /\ (c.change = <<>> \/ c.change \in Change(VideoFields))
    BY <1>4 DEF VideoCalls
  <2>2. QED
    BY <1>1, <1>2, <2>1, ChangeFields DEF Ops, Updates
<1>5. CASE c \in ImagingCalls
  <2>1. c.op = "SetImaging" /\ c.change \in Change(ImagingFields)
    BY <1>5 DEF ImagingCalls
  <2>2. QED
    BY <1>1, <2>1, ChangeFields DEF Ops, Updates
<1>6. CASE c \in OsdCalls
  <2>1. c.op \in {"SetOsd", "CreateOsd", "DeleteOsd"}
    BY <1>6 DEF OsdCalls
  <2>2. c.change \in [OsdFields -> Value] \/ c.change \in [{EnabledField} -> {Disabled}]
    BY <1>6 DEF OsdCalls
  <2>3. EnabledField \in OsdFields /\ Disabled \in Value
    BY OnvifRailAssumption
  <2>4. QED
    BY <1>1, <2>1, <2>2, <2>3 DEF Ops, Updates
<1>7. c \in Reads \union VideoCalls \union ImagingCalls \union OsdCalls
  BY OnvifRailAssumption DEF Call
<1>8. QED
  BY <1>3, <1>4, <1>5, <1>6, <1>7

LEMMA RequestValues ==
    ASSUME NEW r \in Request
    PROVE  \A f \in DOMAIN r.change : r.change[f] \in Value
<1>1. ASSUME NEW p \in Presets
      PROVE  \A f \in DOMAIN PresetChange(p) : PresetChange(p)[f] \in Value
  BY RailConfigAssumption DEF PresetChange
<1>2. \/ r.change \in Change(VideoFields)
      \/ r.change \in Change(ImagingFields)
      \/ r.change \in Change(OsdFields)
      \/ \E p \in Presets : r.change = PresetChange(p)
  BY DEF Request
<1>3. QED
  BY <1>1, <1>2, ChangeFields

LEMMA OverlayIsAConfig ==
    ASSUME NEW config \in Config, NEW values, \A f \in DOMAIN values : values[f] \in Value
    PROVE  Overlay(config, values) \in Config
  BY DEF Overlay, Config

LEMMA RestrictionFields ==
    ASSUME NEW config \in Config, NEW fields \in SUBSET Field
    PROVE  Restriction(config, fields) \in [fields -> Value]
  BY DEF Restriction, Config

(* Printing keeps the fields, and whatever is no imaging setting; printed  *)
(* again, values stay the same.                                            *)
LEMMA PrintedFields ==
    ASSUME NEW fields, NEW values \in [fields -> Value]
    PROVE  /\ Printed(values) \in [fields -> Value]
           /\ DOMAIN Printed(values) = DOMAIN values
           /\ \A f \in fields : f \notin ImagingFields => Printed(values)[f] = values[f]
  BY OnvifRailAssumption DEF Printed

LEMMA ShownFields ==
    ASSUME NEW fields, NEW values \in [fields -> Value]
    PROVE  Shown(values) \in [fields -> Value]
  BY OnvifRailAssumption DEF Shown

(* Values with an unnamed part that was printed keep it when printed.      *)
LEMMA PrintedAgain ==
    ASSUME rail \in Config, NEW op, NEW fields \in SUBSET Field, NEW values \in [fields -> Value],
           NEW named, Fits(op, values, named)
    PROVE  Fits(op, Printed(values), named)
<1>1. ASSUME NEW f \in fields \ named
      PROVE  Printed(values)[f] = Printed(rail)[f]
  <2>1. values[f] = Printed(rail)[f] /\ f \in DOMAIN rail /\ rail[f] \in Value
    BY <1>1 DEF Fits, Config
  <2>2. CASE f \in ImagingFields
    <3>1. Printed(rail)[f] = SixDigits[rail[f]]
      BY <2>1, <2>2 DEF Printed
    <3>2. Printed(values)[f] = SixDigits[SixDigits[rail[f]]]
      BY <1>1, <2>1, <2>2, <3>1 DEF Printed
    <3> QED
      BY <2>1, <3>1, <3>2, OnvifRailAssumption
  <2>3. CASE f \notin ImagingFields
    BY <1>1, <2>1, <2>3 DEF Printed
  <2> QED
    BY <2>2, <2>3
<1> QED
  BY <1>1, PrintedFields DEF Fits

(* Messages stay what they are: the same ones in the same order, but for   *)
(* whether somebody waits for them.                                        *)
Same(m, n) ==
    /\ m.kind = n.kind
    /\ m.op = n.op
    /\ n.kind = "post" => m.settings = n.settings /\ m.named = n.named /\ m.whole = n.whole

(* A message, and the same message when nobody waits for it any more.      *)
LEMMA MessageFields ==
    ASSUME NEW m \in Message
    PROVE  /\ m.kind \in {"get", "post"} /\ m.op \in Ops /\ m.awaited \in BOOLEAN
           /\ m.kind = "post" => m.settings \in Settings /\ m.whole \in BOOLEAN
<1>1. CASE m \in [kind : {"get"}, op : Ops, awaited : BOOLEAN]
  BY <1>1
<1>2. CASE m \in [kind : {"post"}, op : Ops, awaited : BOOLEAN,
                   settings : Settings, named : SUBSET Field, whole : BOOLEAN]
  BY <1>2
<1>3. QED
  BY <1>1, <1>2 DEF Message

LEMMA NobodyWaits ==
    ASSUME NEW m \in Message, NEW n, n = [m EXCEPT !.awaited = FALSE]
    PROVE  n \in Message /\ Same(n, m) /\ ~n.awaited
<1>1. CASE m \in [kind : {"get"}, op : Ops, awaited : BOOLEAN]
  BY <1>1 DEF Message, Same
<1>2. CASE m \in [kind : {"post"}, op : Ops, awaited : BOOLEAN,
                   settings : Settings, named : SUBSET Field, whole : BOOLEAN]
  BY <1>2 DEF Message, Same
<1>3. QED
  BY <1>1, <1>2 DEF Message

(* However an exchange ends, nobody waits for a message any more; and when *)
(* it ends with a response, no message is left.                            *)
LEMMA AfterExchange ==
    ASSUME TypeOK, StageFits, AwaitedIsLast, NEW result \in {Nothing, response}, ExchangeEnds(result)
    PROVE  /\ sent' = FALSE /\ response' = Nothing /\ held' = FALSE
           /\ queue' \in Seq(Message) /\ Len(queue') = Len(queue) /\ DOMAIN queue' = DOMAIN queue
           /\ \A i \in DOMAIN queue : Same(queue'[i], queue[i]) /\ ~queue'[i].awaited
           /\ result # Nothing => result = response /\ queue' = <<>>
<1>1. sent' = FALSE /\ response' = Nothing /\ held' = FALSE
  BY DEF ExchangeEnds, StageFits, TypeOK
<1>2. queue \in Seq(Message) /\ Len(queue) \in Nat
  BY LenProperties DEF TypeOK
<1>3. CASE UNCHANGED queue /\ (~sent \/ response # Nothing)
  <2>1. \A i \in DOMAIN queue : ~queue[i].awaited
    <3>1. CASE ~sent
      BY <3>1 DEF AwaitedIsLast
    <3>2. CASE response # Nothing
      BY <3>2 DEF AwaitedIsLast
    <3>3. QED
      BY <1>3, <3>1, <3>2
  <2>2. result # Nothing => result = response /\ queue' = <<>>
    BY <1>3 DEF AwaitedIsLast
  <2>3. QED
    BY <1>1, <1>2, <1>3, <2>1, <2>2 DEF Same
<1>4. CASE sent /\ response = Nothing /\ result = Nothing /\ queue' = Abandoned(queue)
  <2>1. DOMAIN queue = 1..Len(queue)
    BY <1>2
  <2>2. \A i \in DOMAIN queue : queue[i] \in Message
    BY <1>2, ElementOfSeq
  <2>3. /\ DOMAIN queue' = DOMAIN queue
        /\ \A i \in DOMAIN queue : queue'[i] = [queue[i] EXCEPT !.awaited = FALSE]
    BY <1>4 DEF Abandoned
  <2>4. \A i \in DOMAIN queue : queue'[i] \in Message /\ Same(queue'[i], queue[i]) /\ ~queue'[i].awaited
    <3>1. ASSUME NEW i \in DOMAIN queue
          PROVE  queue'[i] \in Message /\ Same(queue'[i], queue[i]) /\ ~queue'[i].awaited
      <4>1. queue[i] \in Message
        BY <2>2
      <4>2. queue'[i] = [queue[i] EXCEPT !.awaited = FALSE]
        BY <2>3
      <4>3. QED
        BY <4>1, <4>2, NobodyWaits
    <3>2. QED
      BY <3>1
  <2>5. queue' \in [1..Len(queue) -> Message]
    BY <1>4, <2>1, <2>3, <2>4 DEF Abandoned
  <2>6. queue' \in Seq(Message) /\ Len(queue') = Len(queue)
    BY <1>2, <2>5, SeqDef, LenProperties
  <2>7. QED
    BY <1>1, <1>4, <2>3, <2>4, <2>6
<1>5. QED
  BY <1>3, <1>4 DEF ExchangeEnds, StageFits

(* What it keeps, as long as rail-media is the same.                       *)
LEMMA ExchangeKeeps ==
    ASSUME IInv, NEW result \in {Nothing, response}, ExchangeEnds(result), UNCHANGED <<rail, foreign>>
    PROVE  /\ queue' \in Seq(Message) /\ Len(queue') <= Backlog
           /\ sent' = FALSE /\ response' = Nothing /\ held' = FALSE
           /\ AwaitedIsLast' /\ PostsAreUpdates' /\ ResponseFits' /\ SentWritesFit'
           /\ NoPosts => NoPosts'
           /\ result # Nothing => result = response /\ queue' = <<>>
<1>1. /\ sent' = FALSE /\ response' = Nothing /\ held' = FALSE
      /\ queue' \in Seq(Message) /\ Len(queue') = Len(queue) /\ DOMAIN queue' = DOMAIN queue
      /\ \A i \in DOMAIN queue : Same(queue'[i], queue[i]) /\ ~queue'[i].awaited
      /\ result # Nothing => result = response /\ queue' = <<>>
  BY AfterExchange DEF IInv
<1>2. Len(queue') <= Backlog
  BY <1>1 DEF IInv, TypeOK
<1>3. AwaitedIsLast' /\ ResponseFits'
  BY <1>1 DEF AwaitedIsLast, ResponseFits
<1>4. PostsAreUpdates' /\ (NoPosts => NoPosts')
  BY <1>1 DEF IInv, PostsAreUpdates, NoPosts, Same
<1>5. ASSUME NEW i \in DOMAIN queue', queue'[i].kind = "post", queue'[i].whole
      PROVE  /\ NoPostBefore(i)'
             /\ ~foreign' => Fits(queue[i].op, queue[i].settings, queue[i].named)'
  <2>1. Same(queue'[i], queue[i]) /\ i \in DOMAIN queue
    BY <1>1, <1>5
  <2>2. queue[i].kind = "post" /\ queue[i].whole
    BY <1>5, <2>1 DEF Same
  <2>3. NoPostBefore(i) /\ (~foreign => Fits(queue[i].op, queue[i].settings, queue[i].named))
    BY <2>1, <2>2 DEF IInv, SentWritesFit
  <2>4. NoPostBefore(i)'
    BY <1>1, <2>3 DEF NoPostBefore, Same
  <2>5. ~foreign' => Fits(queue[i].op, queue[i].settings, queue[i].named)'
    BY <2>1, <2>2, <2>3 DEF Fits, Same, Printed
  <2>6. QED
    BY <2>4, <2>5
<1>6. SentWritesFit'
  BY <1>5 DEF SentWritesFit
<1>7. QED
  BY <1>1, <1>2, <1>3, <1>4, <1>6

-----------------------------------------------------------------------------
(* Each step keeps the invariant.                                          *)

LEMMA InitHolds ==
    ASSUME Init
    PROVE  IInv
<1>1. queue = <<>> /\ DOMAIN queue = {} /\ Len(queue) = 0 /\ queue \in Seq(Message)
  BY EmptySeq DEF Init
<1>2. settings \in Settings
  BY NoSettings DEF Init
<1>3. TypeOK
  <2>1. rail \in Config /\ Len(queue) <= Backlog
    BY <1>1, OnvifRailAssumption DEF Init
  <2>2. QED
    BY <1>1, <1>2, <2>1 DEF Init, TypeOK, Stages
<1>4. StageFits
  BY DEF Init, StageFits
<1>5. AwaitedIsLast /\ PostsAreUpdates /\ SentWritesFit /\ NothingIsLeft
  BY <1>1 DEF AwaitedIsLast, PostsAreUpdates, SentWritesFit, NothingIsLeft
<1>6. ResponseFits /\ NextWriteFits
  BY DEF Init, ResponseFits, NextWriteFits
<1>7. QED
  BY <1>3, <1>4, <1>5, <1>6 DEF IInv

LEMMA ReceiveKeeps ==
    ASSUME IInv, NEW c \in Calls, Receive(c)
    PROVE  IInv'
<1>1. /\ stage = "idle" /\ stage' \in {"health", "read"}
      /\ stage' = "health" <=> c.op = "Health"
      /\ call' = c /\ settings' = <<>>
      /\ UNCHANGED <<rail, queue, response, held, sent, reply, whole, foreign>>
  BY DEF Receive
<1>2. ~sent /\ response = Nothing /\ ~held /\ ~whole
  BY <1>1 DEF IInv, TypeOK, StageFits
<1>3. settings' \in Settings
  BY <1>1, NoSettings
<1>4. TypeOK'
  BY <1>1, <1>3 DEF IInv, TypeOK, Stages
<1>5. StageFits'
  BY <1>1, <1>2 DEF StageFits
<1>6. AwaitedIsLast' /\ PostsAreUpdates'
  BY <1>1, <1>2 DEF IInv, AwaitedIsLast, PostsAreUpdates
<1>7. ResponseFits' /\ NextWriteFits' /\ NothingIsLeft'
  BY <1>1, <1>2 DEF ResponseFits, NextWriteFits, NothingIsLeft
<1>8. SentWritesFit'
  BY <1>1 DEF IInv, SentWritesFit, NoPostBefore, Fits, Printed
<1>9. QED
  BY <1>4, <1>5, <1>6, <1>7, <1>8 DEF IInv

(* The message Send appends. *)
NewMessage ==
    IF stage = "write"
      THEN [kind |-> "post", op |-> call.op, awaited |-> TRUE, settings |-> Printed(settings),
            named |-> DOMAIN call.change, whole |-> whole]
      ELSE [kind |-> "get", op |-> call.op, awaited |-> TRUE]

LEMMA SendKeeps ==
    ASSUME IInv, Send
    PROVE  IInv'
<1>1. /\ stage # "idle" /\ ~sent /\ sent'
      /\ Len(queue) < Backlog
      /\ queue' = Append(queue, NewMessage)
      /\ held' \in BOOLEAN
      /\ UNCHANGED <<rail, response, stage, call, settings, reply, whole, foreign>>
  BY OnvifRailAssumption DEF Send, NewMessage
<1>2. response = Nothing
  BY <1>1 DEF IInv, StageFits
<1>3. call.op \in Ops /\ DOMAIN call.change \subseteq Field
  BY CallFields DEF IInv, TypeOK
<1>4. NewMessage \in Message
  <2>1. CASE stage = "write"
    <3>1. Printed(settings) \in Settings /\ whole \in BOOLEAN
      BY <1>3, <2>1, PrintedFields, GroupFields DEF IInv, TypeOK, StageFits
    <3>2. QED
      BY <1>3, <2>1, <3>1 DEF NewMessage, Message
  <2>2. CASE stage # "write"
    BY <1>3, <2>2 DEF NewMessage, Message
  <2>3. QED
    BY <2>1, <2>2
<1>5. queue \in Seq(Message) /\ Len(queue) \in Nat /\ Backlog \in Nat
  BY LenProperties, OnvifRailAssumption DEF IInv, TypeOK
<1>6. /\ queue' \in Seq(Message)
      /\ Len(queue') = Len(queue) + 1
      /\ DOMAIN queue = 1..Len(queue) /\ DOMAIN queue' = 1..Len(queue)+1
      /\ \A i \in DOMAIN queue : queue'[i] = queue[i]
      /\ queue'[Len(queue)+1] = NewMessage
  BY <1>1, <1>4, <1>5, AppendProperties, LenProperties
<1>7. \A i \in DOMAIN queue' : i \in DOMAIN queue \/ i = Len(queue) + 1
  BY <1>5, <1>6
<1>8. \A i \in DOMAIN queue : ~queue[i].awaited
  BY <1>1 DEF IInv, AwaitedIsLast
<1>9. /\ NewMessage.op = call.op
      /\ NewMessage.kind = IF stage = "write" THEN "post" ELSE "get"
      /\ stage = "write" => /\ NewMessage.settings = Printed(settings)
                            /\ NewMessage.named = DOMAIN call.change
                            /\ NewMessage.whole = whole
  BY DEF NewMessage
<1>10. TypeOK'
  <2>1. Len(queue') <= Backlog
    BY <1>1, <1>5, <1>6
  <2>2. QED
    BY <1>1, <1>6, <2>1 DEF IInv, TypeOK
<1>11. StageFits' /\ ResponseFits' /\ NothingIsLeft'
  BY <1>1, <1>2 DEF IInv, StageFits, ResponseFits, NothingIsLeft
<1>12. AwaitedIsLast'
  BY <1>1, <1>2, <1>6, <1>7, <1>8, <1>9 DEF AwaitedIsLast
<1>13. PostsAreUpdates'
  <2>1. stage = "write" => call.op \in Updates
    BY DEF IInv, StageFits
  <2>2. QED
    BY <1>6, <1>7, <1>9, <2>1 DEF IInv, PostsAreUpdates
<1>14. SentWritesFit'
  <2>1. ASSUME NEW i \in DOMAIN queue', queue'[i].kind = "post", queue'[i].whole
        PROVE  /\ NoPostBefore(i)'
               /\ ~foreign' => Fits(queue[i].op, queue[i].settings, queue[i].named)'
    <3>1. CASE i \in DOMAIN queue
      <4>1. queue[i].kind = "post" /\ queue[i].whole /\ queue'[i] = queue[i]
        BY <1>6, <2>1, <3>1
      <4>2. NoPostBefore(i) /\ (~foreign => Fits(queue[i].op, queue[i].settings, queue[i].named))
        BY <3>1, <4>1 DEF IInv, SentWritesFit
      <4>3. \A j \in DOMAIN queue' : j < i => j \in DOMAIN queue
        BY <1>5, <1>6, <3>1
      <4>4. NoPostBefore(i)'
        BY <1>6, <4>2, <4>3 DEF NoPostBefore
      <4>5. QED
        BY <1>1, <4>1, <4>2, <4>4 DEF Fits, Printed
    <3>2. CASE i = Len(queue) + 1
      <4>1. queue'[i] = NewMessage /\ stage = "write" /\ whole
        BY <1>6, <1>9, <2>1, <3>2
      <4>2. NoPosts /\ (~foreign => Fits(call.op, settings, DOMAIN call.change))
        BY <1>1, <4>1 DEF IInv, NextWriteFits
      <4>3. \A j \in DOMAIN queue' : j < i => j \in DOMAIN queue
        BY <1>5, <1>6, <3>2
      <4>4. NoPostBefore(i)'
        BY <1>6, <4>2, <4>3 DEF NoPostBefore, NoPosts
      <4>5. ~foreign => Fits(call.op, Printed(settings), DOMAIN call.change)
        <5>1. rail \in Config /\ settings \in [Group(call.op) -> Value]
          BY <4>1 DEF IInv, TypeOK, StageFits
        <5>2. Group(call.op) \in SUBSET Field
          BY <1>3, GroupFields
        <5> QED
          BY <4>2, <5>1, <5>2, PrintedAgain
      <4>6. QED
        BY <1>1, <1>9, <4>1, <4>4, <4>5 DEF Fits, Printed
    <3>3. QED
      BY <1>7, <2>1, <3>1, <3>2
  <2>2. QED
    BY <2>1 DEF SentWritesFit
<1>15. NextWriteFits'
  <2>1. ASSUME whole', ~(stage' = "write" /\ sent')
        PROVE  NoPosts' /\ (~foreign' => Fits(call.op, settings, DOMAIN call.change)')
    <3>1. stage # "write" /\ whole
      BY <1>1, <2>1
    <3>2. NoPosts /\ (~foreign => Fits(call.op, settings, DOMAIN call.change))
      BY <3>1 DEF IInv, NextWriteFits
    <3>3. NoPosts'
      BY <1>6, <1>7, <1>9, <3>1, <3>2 DEF NoPosts
    <3>4. QED
      BY <1>1, <3>2, <3>3 DEF Fits, Printed
  <2>2. QED
    BY <2>1 DEF NextWriteFits
<1>16. QED
  BY <1>10, <1>11, <1>12, <1>13, <1>14, <1>15 DEF IInv

LEMMA RereadKeeps ==
    ASSUME IInv, Reread
    PROVE  IInv'
<1>1. PICK result \in {Nothing, response} : ExchangeEnds(result)
  BY DEF Reread
<1>2. /\ stage = "reread" /\ stage' = "write"
      /\ UNCHANGED <<rail, call, settings, reply, whole, foreign>>
  BY DEF Reread
<1>3. /\ queue' \in Seq(Message) /\ Len(queue') <= Backlog
      /\ sent' = FALSE /\ response' = Nothing /\ held' = FALSE
      /\ AwaitedIsLast' /\ PostsAreUpdates' /\ ResponseFits' /\ SentWritesFit'
      /\ NoPosts => NoPosts'
  BY <1>1, <1>2, ExchangeKeeps
<1>4. TypeOK'
  BY <1>2, <1>3, ZenonT(60) DEF IInv, TypeOK, Stages
<1>5. StageFits'
  BY <1>2, <1>3 DEF IInv, StageFits
<1>6. NextWriteFits'
  BY <1>2, <1>3 DEF IInv, NextWriteFits, Fits, Printed
<1>7. NothingIsLeft'
  BY <1>2 DEF NothingIsLeft
<1>8. QED
  BY <1>3, <1>4, <1>5, <1>6, <1>7 DEF IInv

(* The end of a handler that does not write, or has written.               *)
LEMMA AnswerKeeps ==
    ASSUME IInv, NEW result \in {Nothing, response}, ExchangeEnds(result),
           NEW outcome \in {"ok", "fault"}, NEW values \in Settings, AnswerWith(outcome, values),
           UNCHANGED <<rail, call, foreign>>,
           outcome = "ok" => result # Nothing \/ call.op \notin Updates
    PROVE  IInv'
<1>1. stage' = "idle" /\ reply' = outcome /\ settings' = values /\ whole' = FALSE
  BY DEF AnswerWith
<1>2. /\ queue' \in Seq(Message) /\ Len(queue') <= Backlog
      /\ sent' = FALSE /\ response' = Nothing /\ held' = FALSE
      /\ AwaitedIsLast' /\ PostsAreUpdates' /\ ResponseFits' /\ SentWritesFit'
      /\ result # Nothing => queue' = <<>>
  BY ExchangeKeeps
<1>4. TypeOK'
  BY <1>1, <1>2, ZenonT(60) DEF IInv, TypeOK, Stages
<1>5. StageFits' /\ NextWriteFits'
  BY <1>1, <1>2 DEF StageFits, NextWriteFits
<1>6. NothingIsLeft'
  BY <1>1, <1>2 DEF NothingIsLeft
<1>7. QED
  BY <1>2, <1>4, <1>5, <1>6 DEF IInv

LEMMA WriteKeeps ==
    ASSUME IInv, WriteSettings
    PROVE  IInv'
<1>1. PICK result \in {Nothing, response} :
          /\ ExchangeEnds(result)
          /\ AnswerWith(IF Success(result) THEN "ok" ELSE "fault", <<>>)
  BY DEF WriteSettings, Answer
<1>2. UNCHANGED <<rail, call, foreign>>
  BY DEF WriteSettings
<1>3. <<>> \in Settings
  BY NoSettings
<1>4. CASE Success(result)
  BY <1>1, <1>2, <1>3, <1>4, AnswerKeeps DEF Success
<1>5. CASE ~Success(result)
  BY <1>1, <1>2, <1>3, <1>5, AnswerKeeps
<1>6. QED
  BY <1>4, <1>5

LEMMA HealthKeeps ==
    ASSUME IInv, CheckHealth
    PROVE  IInv'
<1>1. PICK result \in {Nothing, response} :
          /\ ExchangeEnds(result)
          /\ AnswerWith(IF Success(result) THEN "ok" ELSE "fault", <<>>)
  BY DEF CheckHealth, Answer
<1>2. UNCHANGED <<rail, call, foreign>>
  BY DEF CheckHealth
<1>3. <<>> \in Settings
  BY NoSettings
<1>4. CASE Success(result)
  BY <1>1, <1>2, <1>3, <1>4, AnswerKeeps DEF Success
<1>5. CASE ~Success(result)
  BY <1>1, <1>2, <1>3, <1>5, AnswerKeeps
<1>6. QED
  BY <1>4, <1>5

(* What a handler takes for the settings has the fields of its group, and  *)
(* comes from a complete response if it is equal to its body.              *)
LEMMA FromRailFields ==
    ASSUME IInv, stage = "read", NEW result \in {Nothing, response},
           NEW current \in FromRail(result, Group(call.op))
    PROVE  current \in [Group(call.op) -> Value]
<1>1. call.op \in Ops
  BY CallFields DEF IInv, TypeOK
<1>2. Group(call.op) \subseteq Field
  BY <1>1, GroupFields
<1>3. CASE Success(result)
  <2>1. result = response /\ response # Nothing
    BY <1>3 DEF Success
  <2>2. result.body \in [Group(call.op) -> Value]
    BY <2>1 DEF IInv, ResponseFits
  <2>3. current \in Parsed(result.body, Group(call.op))
    BY <1>3 DEF FromRail
  <2>4. QED
    BY <2>2, <2>3 DEF Parsed
<1>4. CASE ~Success(result)
  <2>1. current = Restriction(Defaults, Group(call.op))
    BY <1>4 DEF FromRail
  <2>2. QED
    BY <1>2, <2>1, RestrictionFields, OnvifRailAssumption
<1>5. QED
  BY <1>3, <1>4

LEMMA ReadKeeps ==
    ASSUME IInv, ReadSettings
    PROVE  IInv'
<1>0. PICK result \in {Nothing, response} :
          /\ ExchangeEnds(result)
          /\ \E current \in FromRail(result, Group(call.op)) :
                 IF call.op \in Queries THEN AnswerQuery(current)
                 ELSE IF Permitted(call.op, current)
                   THEN PrepareWrite(current, Success(result) /\ current = result.body)
                 ELSE Answer("fault")
  BY DEF ReadSettings
<1>1. PICK current \in FromRail(result, Group(call.op)) :
          /\ ExchangeEnds(result)
          /\ IF call.op \in Queries THEN AnswerQuery(current)
             ELSE IF Permitted(call.op, current)
               THEN PrepareWrite(current, Success(result) /\ current = result.body)
             ELSE Answer("fault")
  BY <1>0
<1>2. stage = "read" /\ UNCHANGED <<rail, call, foreign>>
  BY DEF ReadSettings
<1>3. call.op \in Ops /\ call.op # "Health" /\ \A f \in DOMAIN call.change : call.change[f] \in Value
  BY <1>2, CallFields DEF IInv, TypeOK, StageFits
<1>4. current \in [Group(call.op) -> Value] /\ current \in Settings /\ <<>> \in Settings
  BY <1>2, <1>3, FromRailFields, GroupFields, NoSettings
<1>5. CASE call.op \in Queries
  <2>1. call.op \notin Updates
    BY <1>5 DEF Queries, Updates
  <2>2. AnswerWith("ok", Shown(current)) \/ AnswerWith("fault", <<>>)
    BY <1>1, <1>5 DEF AnswerQuery, Answer
  <2>3. Shown(current) \in Settings
    BY <1>3, <1>4, ShownFields, GroupFields
  <2>4. QED
    BY <1>1, <1>2, <1>4, <2>1, <2>2, <2>3, AnswerKeeps
<1>6. CASE call.op \notin Queries /\ ~Permitted(call.op, current)
  <2>1. AnswerWith("fault", <<>>)
    BY <1>1, <1>6 DEF Answer
  <2>2. QED
    BY <1>1, <1>2, <1>4, <2>1, AnswerKeeps
<1>7. CASE call.op \notin Queries /\ Permitted(call.op, current)
  <2>1. /\ settings' = Changed(current)
        /\ whole' = (Success(result) /\ current = result.body)
        /\ stage' \in {"reread", "write"}
        /\ UNCHANGED reply
    BY <1>1, <1>7 DEF PrepareWrite
  <2>2. call.op \in Updates
    BY <1>3, <1>7 DEF Ops
  <2>3. /\ queue' \in Seq(Message) /\ Len(queue') <= Backlog
        /\ sent' = FALSE /\ response' = Nothing /\ held' = FALSE
        /\ AwaitedIsLast' /\ PostsAreUpdates' /\ ResponseFits' /\ SentWritesFit'
        /\ result # Nothing => result = response /\ queue' = <<>>
    BY <1>1, <1>2, ExchangeKeeps
  <2>4. settings' \in [Group(call.op) -> Value]
    BY <1>3, <1>4, <2>1 DEF Changed
  <2>5. settings' \in Settings
    BY <1>3, <2>4, GroupFields
  <2>6. TypeOK'
    BY <1>2, <2>1, <2>3, <2>5 DEF IInv, TypeOK, Stages
  <2>7. StageFits'
    BY <1>2, <2>1, <2>2, <2>3, <2>4 DEF StageFits
  <2>8. NothingIsLeft'
    BY <2>1 DEF NothingIsLeft
  <2>9. NextWriteFits'
    <3>1. SUFFICES ASSUME whole'
                   PROVE  NoPosts' /\ (~foreign => Fits(call.op, settings, DOMAIN call.change)')
      BY <1>2 DEF NextWriteFits
    <3>2. result # Nothing /\ result = response /\ current = response.body /\ queue' = <<>>
      BY <2>1, <2>3, <3>1 DEF Success
    <3>3. NoPosts'
      BY <3>2 DEF NoPosts
    <3>4. ASSUME ~foreign
          PROVE  Fits(call.op, settings, DOMAIN call.change)'
      <4>1. \A f \in Group(call.op) : current[f] = Printed(rail)[f]
        <5>1. Group(call.op) \subseteq Field
          BY <1>3, GroupFields
        <5>2. current = Printed(Restriction(rail, Group(call.op)))
          BY <1>2, <3>2, <3>4 DEF IInv, ResponseFits
        <5> QED
          BY <5>1, <5>2 DEF IInv, TypeOK, Config, Printed, Restriction
      <4>2. \A f \in DOMAIN settings' \ DOMAIN call.change : settings'[f] = Printed(rail)[f]
        BY <1>4, <2>1, <4>1 DEF Changed
      <4>3. /\ call.op \in {"SetOsd", "DeleteOsd", "CreateOsd"} => EnabledField \in Group(call.op)
            /\ Printed(rail)[EnabledField] = rail[EnabledField]
        <5>1. EnabledField \in OsdFields /\ EnabledField \in Field /\ EnabledField \notin ImagingFields
          BY OnvifRailAssumption, RailConfigAssumption DEF Field
        <5>2. Printed(rail)[EnabledField] = rail[EnabledField]
          BY <5>1, PrintedFields DEF IInv, TypeOK, Config
        <5> QED
          BY <5>1, <5>2 DEF Group
      <4>4. /\ call.op \in {"SetOsd", "DeleteOsd"} => current[EnabledField] = Enabled
            /\ call.op = "CreateOsd" => current[EnabledField] # Enabled
        BY <1>7 DEF Permitted
      <4>5. /\ call.op \in {"SetOsd", "DeleteOsd"} => rail[EnabledField] = Enabled
            /\ call.op = "CreateOsd" => rail[EnabledField] # Enabled
        BY <4>1, <4>3, <4>4
      <4>6. QED
        BY <1>2, <4>2, <4>5 DEF Fits, Printed
    <3>5. QED
      BY <3>3, <3>4
  <2>10. QED
    BY <2>3, <2>6, <2>7, <2>8, <2>9 DEF IInv
<1>8. QED
  BY <1>5, <1>6, <1>7

(* What rail-media leaves in its queue when it takes the first connection. *)
LEMMA AfterHead ==
    ASSUME IInv, queue # <<>>, queue' = Tail(queue)
    PROVE  /\ Head(queue) = queue[1] /\ 1 \in DOMAIN queue
           /\ Head(queue) \in Message
           /\ queue' \in Seq(Message) /\ Len(queue') <= Backlog
           /\ \A i \in DOMAIN queue' :
                  i \in Nat /\ i + 1 \in DOMAIN queue /\ i + 1 # 1 /\ queue'[i] = queue[i + 1]
           /\ \A i \in DOMAIN queue' : i + 1 = Len(queue) => i = Len(queue')
           /\ Head(queue).awaited => queue' = <<>>
           /\ response = Nothing
<1>1. queue \in Seq(Message) /\ Len(queue) \in Nat /\ Len(queue) <= Backlog /\ Backlog \in Nat
  BY LenProperties, OnvifRailAssumption DEF IInv, TypeOK
<1>2. DOMAIN queue = 1..Len(queue) /\ Len(queue) >= 1
  BY <1>1, LenProperties, EmptySeq
<1>3. /\ Head(queue) = queue[1] /\ 1 \in DOMAIN queue
      /\ Head(queue) \in Message
  BY <1>1, <1>2, HeadTailProperties, ElementOfSeq
<1>4. /\ queue' \in Seq(Message)
      /\ Len(queue') = Len(queue) - 1
      /\ \A i \in 1..Len(queue') : queue'[i] = queue[i + 1]
  BY <1>1, HeadTailProperties
<1>5. DOMAIN queue' = 1..Len(queue')
  BY <1>4, LenProperties
<1>6. ASSUME Head(queue).awaited
      PROVE  queue' = <<>>
  <2>1. Len(queue) = 1
    BY <1>3, <1>6 DEF IInv, AwaitedIsLast
  <2>2. QED
    BY <1>4, <2>1, EmptySeq
<1>7. response = Nothing
  BY DEF IInv, AwaitedIsLast
<1>8. QED
  BY <1>1, <1>2, <1>3, <1>4, <1>5, <1>6, <1>7

LEMMA GetKeeps ==
    ASSUME IInv, HandleGet
    PROVE  IInv'
<1> DEFINE m == Head(queue)
<1>0. foreign' = IF m.awaited /\ stage = "read" THEN FALSE ELSE foreign
  BY DEF HandleGet
<1>1. /\ queue # <<>> /\ queue' = Tail(queue) /\ m.kind = "get"
      /\ UNCHANGED <<rail, held, stage, sent, call, settings, reply, whole>>
  BY DEF HandleGet, onvif
<1>2. PICK code \in {200, 503} : Respond(m, code, Printed(Restriction(rail, Group(m.op))))
  BY DEF HandleGet
<1>3. /\ m = queue[1] /\ 1 \in DOMAIN queue
      /\ m \in Message
      /\ queue' \in Seq(Message) /\ Len(queue') <= Backlog
      /\ \A i \in DOMAIN queue' :
             i \in Nat /\ i + 1 \in DOMAIN queue /\ i + 1 # 1 /\ queue'[i] = queue[i + 1]
      /\ \A i \in DOMAIN queue' : i + 1 = Len(queue) => i = Len(queue')
      /\ m.awaited => queue' = <<>>
      /\ response = Nothing
  BY <1>1, AfterHead
<1>4. m.op \in Ops /\ m.awaited \in BOOLEAN
  BY <1>3, MessageFields
<1>5. Printed(Restriction(rail, Group(m.op))) \in [Group(m.op) -> Value]
  BY <1>4, GroupFields, RestrictionFields, PrintedFields DEF IInv, TypeOK
<1>6. Printed(Restriction(rail, Group(m.op))) \in Settings
  BY <1>4, <1>5, GroupFields
<1> HIDE DEF m
<1>7. CASE m.awaited
  <2>1. /\ queue' = <<>>
        /\ response' = [code |-> code, body |-> Printed(Restriction(rail, Group(m.op)))]
    BY <1>2, <1>3, <1>7 DEF Respond
  <2>2. m.op = call.op /\ sent /\ stage # "write"
    BY <1>1, <1>3, <1>7 DEF IInv, AwaitedIsLast
  <2>3. TypeOK'
    <3>1. foreign' \in BOOLEAN
      BY <1>0 DEF IInv, TypeOK
    <3>2. response' \in [code : {200, 400, 500, 503}, body : Settings]
      BY <1>6, <2>1
    <3>3. QED
      BY <1>1, <1>3, <3>1, <3>2 DEF IInv, TypeOK
  <2>4. StageFits'
    BY <1>1, <2>2 DEF IInv, StageFits
  <2>5. AwaitedIsLast' /\ PostsAreUpdates' /\ SentWritesFit'
    BY <2>1 DEF AwaitedIsLast, PostsAreUpdates, SentWritesFit
  <2>6. ResponseFits'
    BY <1>1, <1>5, <2>1, <2>2 DEF ResponseFits, Restriction, Printed
  <2>7. NextWriteFits'
    <3>1. stage = "read" => ~whole
      BY DEF IInv, StageFits
    <3>2. foreign' = foreign \/ ~whole'
      BY <1>0, <1>1, <3>1
    <3>3. NoPosts'
      BY <2>1 DEF NoPosts
    <3>4. QED
      BY <1>1, <3>2, <3>3 DEF IInv, NextWriteFits, Fits, Printed
  <2>8. NothingIsLeft'
    BY <2>1 DEF NothingIsLeft
  <2>9. QED
    BY <2>3, <2>4, <2>5, <2>6, <2>7, <2>8 DEF IInv
<1>8. CASE ~m.awaited
  <2>1. response' = Nothing /\ foreign' = foreign
    BY <1>0, <1>2, <1>3, <1>8 DEF Respond
  <2>2. TypeOK'
    BY <1>1, <1>3, <2>1 DEF IInv, TypeOK
  <2>3. StageFits' /\ ResponseFits'
    BY <1>1, <2>1 DEF IInv, StageFits, ResponseFits
  <2>4. AwaitedIsLast'
    BY <1>1, <1>3, <2>1 DEF IInv, AwaitedIsLast
  <2>5. PostsAreUpdates' /\ (NoPosts => NoPosts')
    BY <1>3 DEF IInv, PostsAreUpdates, NoPosts
  <2>6. SentWritesFit'
    <3>1. ASSUME NEW i \in DOMAIN queue', queue'[i].kind = "post", queue'[i].whole
          PROVE  /\ NoPostBefore(i)'
                 /\ ~foreign' => Fits(queue[i].op, queue[i].settings, queue[i].named)'
      <4>1. i + 1 \in DOMAIN queue /\ queue'[i] = queue[i + 1] /\ i \in Nat
        BY <1>3
      <4>2. /\ NoPostBefore(i + 1)
            /\ ~foreign => Fits(queue[i + 1].op, queue[i + 1].settings, queue[i + 1].named)
        BY <3>1, <4>1 DEF IInv, SentWritesFit
      <4>3. NoPostBefore(i)'
        BY <1>3, <4>1, <4>2 DEF NoPostBefore
      <4>4. ~foreign' => Fits(queue[i + 1].op, queue[i + 1].settings, queue[i + 1].named) /\ rail' = rail
        BY <1>1, <2>1, <4>2
      <4>5. ~foreign' => Fits(queue'[i].op, queue'[i].settings, queue'[i].named) /\ rail' = rail
        BY <4>1, <4>4
      <4>6. QED
        BY <4>3, <4>5 DEF Fits, Printed
    <3>2. QED
      BY <3>1 DEF SentWritesFit
  <2>7. NextWriteFits'
    BY <1>1, <2>1, <2>5 DEF IInv, NextWriteFits, Fits, Printed
  <2>8. NothingIsLeft'
    BY <1>1 DEF IInv, NothingIsLeft
  <2>9. QED
    BY <2>2, <2>3, <2>4, <2>5, <2>6, <2>7, <2>8 DEF IInv
<1>9. QED
  BY <1>4, <1>7, <1>8

LEMMA PostKeeps ==
    ASSUME IInv, HandlePost
    PROVE  IInv'
<1> DEFINE m == Head(queue)
<1>1. /\ queue # <<>> /\ queue' = Tail(queue) /\ m.kind = "post"
      /\ rail' = IF PostCode(m) = 200 THEN Overlay(rail, m.settings) ELSE rail
      /\ Respond(m, PostCode(m), <<>>)
      /\ UNCHANGED <<held, stage, sent, call, settings, reply, whole, foreign>>
  BY DEF HandlePost, onvif
<1>2. /\ m = queue[1] /\ 1 \in DOMAIN queue
      /\ m \in Message
      /\ queue' \in Seq(Message) /\ Len(queue') <= Backlog
      /\ \A i \in DOMAIN queue' :
             i \in Nat /\ i + 1 \in DOMAIN queue /\ i + 1 # 1 /\ queue'[i] = queue[i + 1]
      /\ \A i \in DOMAIN queue' : i + 1 = Len(queue) => i = Len(queue')
      /\ m.awaited => queue' = <<>>
      /\ response = Nothing
  BY <1>1, AfterHead
<1>3. m.settings \in Settings
  BY <1>1, <1>2, MessageFields
<1>4. rail' \in Config
  BY <1>1, <1>3, SettingsAre, OverlayIsAConfig DEF IInv, TypeOK
<1>5. PostCode(m) \in {200, 400, 500}
  BY DEF PostCode
<1> HIDE DEF m
<1>6. /\ ~m.awaited => response' = Nothing
      /\ m.awaited => /\ response' = [code |-> PostCode(m), body |-> <<>>]
                      /\ queue' = <<>> /\ stage = "write" /\ sent
  <2>1. m.awaited => stage = "write" /\ sent
    BY <1>1, <1>2 DEF IInv, AwaitedIsLast
  <2>2. QED
    BY <1>1, <1>2, <2>1 DEF Respond
<1>7. response' \in {Nothing} \union [code : {200, 400, 500, 503}, body : Settings]
  BY <1>5, <1>6, NoSettings
<1>8. TypeOK'
  BY <1>1, <1>2, <1>4, <1>7 DEF IInv, TypeOK
<1>9. StageFits' /\ ResponseFits'
  BY <1>1, <1>6 DEF IInv, StageFits, ResponseFits
<1>10. AwaitedIsLast'
  BY <1>1, <1>2, <1>6 DEF IInv, AwaitedIsLast
<1>11. PostsAreUpdates'
  BY <1>2 DEF IInv, PostsAreUpdates
<1>12. SentWritesFit'
  <2>1. ASSUME NEW i \in DOMAIN queue', queue'[i].kind = "post", queue'[i].whole
        PROVE  FALSE
    <3>1. i + 1 \in DOMAIN queue /\ queue'[i] = queue[i + 1] /\ 1 < i + 1
      <4>1. i + 1 \in DOMAIN queue /\ queue'[i] = queue[i + 1] /\ i \in Nat /\ i + 1 # 1
        BY <1>2
      <4>2. QED
        BY <4>1
    <3>2. NoPostBefore(i + 1)
      BY <2>1, <3>1 DEF IInv, SentWritesFit
    <3>3. QED
      BY <1>1, <1>2, <3>1, <3>2 DEF NoPostBefore
  <2>2. QED
    BY <2>1 DEF SentWritesFit
<1>13. NextWriteFits'
  <2>1. ~NoPosts
    BY <1>1, <1>2 DEF NoPosts
  <2>2. QED
    BY <1>1, <2>1 DEF IInv, NextWriteFits
<1>14. NothingIsLeft'
  BY <1>1 DEF IInv, NothingIsLeft
<1>15. QED
  BY <1>8, <1>9, <1>10, <1>11, <1>12, <1>13, <1>14 DEF IInv

LEMMA OtherWritesKeep ==
    ASSUME IInv, NEW r \in OtherRequests, OtherWrites(r)
    PROVE  IInv'
<1>1. /\ rail' = Overlay(rail, r.change)
      /\ foreign' = TRUE
      /\ UNCHANGED <<queue, response, held, stage, sent, call, settings, reply, whole>>
  BY DEF OtherWrites, onvif
<1>2. r \in Request
  BY OnvifRailAssumption
<1>3. rail' \in Config
  BY <1>1, <1>2, RequestValues, OverlayIsAConfig DEF IInv, TypeOK
<1>4. TypeOK'
  BY <1>1, <1>3 DEF IInv, TypeOK
<1>5. StageFits' /\ AwaitedIsLast' /\ PostsAreUpdates' /\ NothingIsLeft'
  BY <1>1 DEF IInv, StageFits, AwaitedIsLast, PostsAreUpdates, NothingIsLeft
<1>6. ResponseFits'
  BY <1>1 DEF IInv, ResponseFits
<1>7. SentWritesFit'
  BY <1>1 DEF IInv, SentWritesFit, NoPostBefore
<1>8. NextWriteFits'
  BY <1>1 DEF IInv, NextWriteFits, NoPosts
<1>9. QED
  BY <1>4, <1>5, <1>6, <1>7, <1>8 DEF IInv

LEMMA RestartKeeps ==
    ASSUME IInv, RailRestarts
    PROVE  IInv'
<1>1. /\ rail' \in StartConfig
      /\ queue' = <<>>
      /\ foreign' = TRUE
      /\ held' = FALSE
      /\ UNCHANGED <<response, stage, sent, call, settings, reply, whole>>
  BY DEF RailRestarts, onvif
<1>2. queue' \in Seq(Message) /\ Len(queue') <= Backlog /\ DOMAIN queue' = {}
  BY <1>1, EmptySeq, OnvifRailAssumption
<1>3. rail' \in Config
  BY <1>1, OnvifRailAssumption
<1>4. TypeOK'
  BY <1>1, <1>2, <1>3 DEF IInv, TypeOK
<1>5. StageFits' /\ ResponseFits'
  BY <1>1 DEF IInv, StageFits, ResponseFits
<1>6. AwaitedIsLast' /\ PostsAreUpdates' /\ SentWritesFit' /\ NothingIsLeft'
  BY <1>1, <1>2 DEF AwaitedIsLast, PostsAreUpdates, SentWritesFit, NothingIsLeft
<1>7. NextWriteFits'
  BY <1>1, <1>2 DEF NextWriteFits, NoPosts
<1>8. QED
  BY <1>4, <1>5, <1>6, <1>7 DEF IInv

(* Steps that leave all but held alone. *)
LEMMA StutterKeeps ==
    ASSUME IInv, UNCHANGED vars \/ PeerLetsGo
    PROVE  IInv'
<1>1. /\ UNCHANGED <<rail, queue, response, stage, sent, call, settings, reply, whole, foreign>>
      /\ held' \in {held, FALSE}
  BY DEF vars, onvif, PeerLetsGo
<1>2. TypeOK'
  <2>1. TypeOK /\ held \in BOOLEAN
    BY DEF IInv, TypeOK
  <2>2. held' \in BOOLEAN
    BY <1>1, <2>1
  <2>3. QED
    BY <1>1, <2>1, <2>2, ZenonT(60) DEF TypeOK
<1>3. StageFits' /\ AwaitedIsLast' /\ PostsAreUpdates' /\ ResponseFits' /\ NothingIsLeft'
  <2>1. StageFits'
    <3>1. ~held => ~held'
      BY <1>1 DEF IInv, TypeOK
    <3> QED
      BY <1>1, <3>1 DEF IInv, StageFits
  <2>2. AwaitedIsLast' /\ PostsAreUpdates' /\ NothingIsLeft'
    BY <1>1 DEF IInv, AwaitedIsLast, PostsAreUpdates, NothingIsLeft
  <2>3. ResponseFits'
    BY <1>1 DEF IInv, ResponseFits, Printed, Restriction
  <2> QED
    BY <2>1, <2>2, <2>3
<1>4. SentWritesFit'
  BY <1>1 DEF IInv, SentWritesFit, NoPostBefore, Fits, Printed
<1>5. NextWriteFits'
  BY <1>1 DEF IInv, NextWriteFits, NoPosts, Fits, Printed
<1>6. QED
  BY <1>2, <1>3, <1>4, <1>5 DEF IInv

-----------------------------------------------------------------------------
(* The theorems.                                                           *)

(* Whatever the SOAP thread, rail-media and its other clients do, the only *)
(* request somebody waits for is the last one sent, and a write worked out *)
(* from a complete response has no other write before it.                  *)
THEOREM Invariance == Spec => []IInv
<1>1. Init => IInv
  BY InitHolds
<1>2. ASSUME IInv, [Next]_vars
      PROVE  IInv'
  <2>1. CASE UNCHANGED vars \/ PeerLetsGo
    BY <1>2, <2>1, StutterKeeps
  <2>2. CASE \E c \in Calls : Receive(c)
    BY <1>2, <2>2, ReceiveKeeps
  <2>3. CASE Send
    BY <1>2, <2>3, SendKeeps
  <2>4. CASE ReadSettings
    BY <1>2, <2>4, ReadKeeps
  <2>5. CASE Reread
    BY <1>2, <2>5, RereadKeeps
  <2>6. CASE WriteSettings
    BY <1>2, <2>6, WriteKeeps
  <2>7. CASE CheckHealth
    BY <1>2, <2>7, HealthKeeps
  <2>8. CASE HandleGet
    BY <1>2, <2>8, GetKeeps
  <2>9. CASE HandlePost
    BY <1>2, <2>9, PostKeeps
  <2>10. CASE \E r \in OtherRequests : OtherWrites(r)
    BY <1>2, <2>10, OtherWritesKeep
  <2>11. CASE RailRestarts
    BY <1>2, <2>11, RestartKeeps
  <2>12. QED
    BY <1>2, <2>1, <2>2, <2>3, <2>4, <2>5, <2>6, <2>7, <2>8, <2>9, <2>10, <2>11 DEF Next, SoapStep
<1>3. QED
  BY <1>1, <1>2, PTL DEF Spec

(* Every variable keeps its type; no more than Backlog connections wait.   *)
THEOREM TypeCorrect == Spec => []TypeOK
<1>1. IInv => TypeOK
  BY DEF IInv
<1>2. QED
  BY <1>1, Invariance, PTL

(* When a client has been told that its write succeeded, no write of this  *)
(* server is on its way to rail-media any more.                            *)
THEOREM AcknowledgedFinal == Spec => []AcknowledgedIsFinal
<1>1. IInv => AcknowledgedIsFinal
  BY DEF IInv, NothingIsLeft, AcknowledgedIsFinal, Waiting
<1>2. QED
  BY <1>1, Invariance, PTL

(* A write that was worked out from a complete response changes, when      *)
(* rail-media carries it out, no setting the client did not name, unless   *)
(* others have changed rail-media since.  An imaging setting it did not    *)
(* name may lose the digits beyond the sixth; others stay as they are.     *)
THEOREM OnlyNamed == Spec => OnlyNamedSettingsChange
<1>1. ASSUME IInv, NEW f \in Field, queue # <<>>, HandlePost, Head(queue).whole, ~foreign,
             f \notin Head(queue).named
      PROVE  rail'[f] \in {rail[f], Printed(rail)[f]}
  <2>1. Head(queue) = queue[1] /\ 1 \in DOMAIN queue
    BY <1>1, AfterHead DEF HandlePost
  <2>2. Fits(queue[1].op, queue[1].settings, queue[1].named)
    BY <1>1, <2>1 DEF IInv, SentWritesFit, HandlePost
  <2>3. rail' = rail \/ rail' = Overlay(rail, queue[1].settings)
    BY <1>1, <2>1 DEF HandlePost
  <2>4. CASE rail' = Overlay(rail, queue[1].settings) /\ f \in DOMAIN queue[1].settings
    <3>1. rail'[f] = queue[1].settings[f]
      BY <2>4 DEF Overlay
    <3> QED
      BY <1>1, <2>1, <2>2, <2>4, <3>1 DEF Fits
  <2>5. CASE rail' = Overlay(rail, queue[1].settings) /\ f \notin DOMAIN queue[1].settings
    BY <2>5 DEF Overlay
  <2>6. QED
    BY <2>3, <2>4, <2>5
<1>2. IInv => [\A f \in Field :
                  queue # <<>> /\ HandlePost /\ Head(queue).whole /\ ~foreign /\ f \notin Head(queue).named
                      => rail'[f] \in {rail[f], Printed(rail)[f]}]_vars
  BY <1>1
<1>3. QED
  BY <1>2, Invariance, PTL DEF OnlyNamedSettingsChange

(* What that theorem leaves open, it leaves open to imaging settings only. *)
LEMMA OthersArePrintedExactly ==
    ASSUME rail \in Config, NEW f \in Field \ ImagingFields
    PROVE  Printed(rail)[f] = rail[f]
  BY PrintedFields DEF Config

(* At the moment it is carried out, an OSD is created where there is none, *)
(* and changed or deleted where there is one.                              *)
THEOREM OsdFits == Spec => OsdCallsFitTheOsd
<1>1. ASSUME IInv, queue # <<>>, HandlePost, Head(queue).whole, ~foreign,
             Group(Head(queue).op) = OsdFields
      PROVE  (rail[EnabledField] = Enabled) = (Head(queue).op # "CreateOsd")
  <2>1. Head(queue) = queue[1] /\ 1 \in DOMAIN queue
    BY <1>1, AfterHead DEF HandlePost
  <2>2. Fits(queue[1].op, queue[1].settings, queue[1].named)
    BY <1>1, <2>1 DEF IInv, SentWritesFit, HandlePost
  <2>3. queue[1].op \in {"SetOsd", "CreateOsd", "DeleteOsd"}
    BY <1>1, <2>1, OsdOperations DEF IInv, PostsAreUpdates, HandlePost
  <2>4. QED
    BY <2>1, <2>2, <2>3 DEF Fits
<1>2. IInv => [queue # <<>> /\ HandlePost /\ Head(queue).whole /\ ~foreign
                   /\ Group(Head(queue).op) = OsdFields
                   => (rail[EnabledField] = Enabled) = (Head(queue).op # "CreateOsd")]_vars
  BY <1>1
<1>3. QED
  BY <1>2, Invariance, PTL DEF OsdCallsFitTheOsd

-----------------------------------------------------------------------------
(* rail-media as a register.                                               *)

(* The request of the control API that a POST is.                          *)
RequestOf(message) ==
    [op |-> CASE message.op = "SetVideo"   -> "config"
              [] message.op = "SetImaging" -> "imaging"
              [] OTHER -> "osd",
     change |-> message.settings]

(* rail-media serves a POST as RailRegister does, which RailMedia          *)
(* implements: it refuses it unseen, or applies or rejects the request,    *)
(* with the code that goes with it.                                        *)
ServedAsRegister(message) ==
    LET r == RequestOf(message)
        ok == Accepted(rail, r)
    IN  \/ PostCode(message) = 400 /\ rail' = rail
        \/ /\ r \in Request
           /\ PostCode(message) = Code(r, ok)
           /\ rail' = IF ok THEN Overlay(rail, r.change) ELSE rail

(* Every change of rail-media's configuration is a request of the register *)
(* or the start of a new process, and a POST of this server is the request *)
(* it was meant to be.                                                     *)
RailIsTheRegister ==
    [][/\ queue # <<>> /\ HandlePost => ServedAsRegister(Head(queue))
       /\ \/ rail' = rail
          \/ rail' \in StartConfig
          \/ \E r \in Request : Accepted(rail, r) /\ rail' = Overlay(rail, r.change)]_vars

(* A POST carries the whole group of its operation. *)
PostsAreWhole ==
    \A i \in DOMAIN queue : queue[i].kind = "post" => queue[i].settings \in [Group(queue[i].op) -> Value]

LEMMA PostsStayWhole == IInv /\ PostsAreWhole /\ [Next]_vars => PostsAreWhole'
<1> SUFFICES ASSUME IInv, PostsAreWhole, [Next]_vars
             PROVE  PostsAreWhole'
  OBVIOUS
<1>1. CASE UNCHANGED queue
  BY <1>1 DEF PostsAreWhole
<1>2. CASE Send
  <2>1. queue' = Append(queue, NewMessage) /\ queue \in Seq(Message)
    BY <1>2 DEF Send, NewMessage, IInv, TypeOK
  <2>2. NewMessage.kind = "post" => NewMessage.settings \in [Group(NewMessage.op) -> Value]
    BY PrintedFields DEF NewMessage, IInv, StageFits
  <2>3. \A i \in DOMAIN queue' : queue'[i] = NewMessage \/ (i \in DOMAIN queue /\ queue'[i] = queue[i])
    BY <2>1
  <2> QED
    BY <2>2, <2>3 DEF PostsAreWhole
<1>3. ASSUME NEW result \in {Nothing, response}, ExchangeEnds(result)
      PROVE  PostsAreWhole'
  <2>1. /\ DOMAIN queue' = DOMAIN queue
        /\ \A i \in DOMAIN queue : Same(queue'[i], queue[i])
    BY <1>3, AfterExchange DEF IInv
  <2> QED
    BY <2>1 DEF PostsAreWhole, Same
<1>4. CASE HandleGet \/ HandlePost
  <2>1. queue # <<>> /\ queue' = Tail(queue)
    BY <1>4 DEF HandleGet, HandlePost
  <2>2. \A i \in DOMAIN queue' : i + 1 \in DOMAIN queue /\ queue'[i] = queue[i + 1]
    BY <2>1, AfterHead
  <2> QED
    BY <2>2 DEF PostsAreWhole
<1>5. CASE RailRestarts
  <2>1. DOMAIN queue' = {}
    BY <1>5, EmptySeq DEF RailRestarts
  <2> QED
    BY <2>1 DEF PostsAreWhole
<1> QED
  BY <1>1, <1>2, <1>3, <1>4, <1>5
     DEF Next, SoapStep, Receive, ReadSettings, Reread, WriteSettings, CheckHealth, OtherWrites, PeerLetsGo,
         vars, onvif

THEOREM WholeGroups == Spec => []PostsAreWhole
<1>1. Init => PostsAreWhole
  BY EmptySeq DEF Init, PostsAreWhole
<1> QED
  BY <1>1, PostsStayWhole, Invariance, PTL DEF Spec

(* What Accepted looks at is the group itself when the group is whole.     *)
LEMMA WholeGroupIsTheGroup ==
    ASSUME NEW config \in Config, NEW fields \in SUBSET Field, NEW values \in [fields -> Value]
    PROVE  Restriction(Overlay(config, values), fields) = values
<1>1. \A f \in fields : Overlay(config, values)[f] = values[f]
  BY DEF Overlay
<1> QED
  BY <1>1 DEF Restriction

LEMMA WholeChange ==
    ASSUME NEW fields, fields # {}, NEW values \in [fields -> Value]
    PROVE  values \in Change(fields)
<1>1. fields \in (SUBSET fields) \ {{}}
  OBVIOUS
<1> QED
  BY <1>1 DEF Change

LEMMA RequestsOfGroups ==
    ASSUME VideoFields # {}, ImagingFields # {},
           NEW m, m.op \in Updates, m.settings \in [Group(m.op) -> Value]
    PROVE  /\ RequestOf(m) \in Request
           /\ RequestOf(m).change = m.settings
           /\ RequestOf(m).op = "config" <=> m.op = "SetVideo"
           /\ RequestOf(m).op \in {"config", "imaging", "osd"}
<1>1. OsdFields # {}
  BY OnvifRailAssumption
<1> DEFINE r == RequestOf(m)
<1>2. CASE m.op = "SetVideo"
  <2>1. r = [op |-> "config", change |-> m.settings] /\ m.settings \in Change(VideoFields)
    BY <1>2, WholeChange DEF RequestOf, Group
  <2> QED
    BY <1>2, <2>1 DEF Request
<1>3. CASE m.op = "SetImaging"
  <2>1. r = [op |-> "imaging", change |-> m.settings] /\ m.settings \in Change(ImagingFields)
    BY <1>3, WholeChange DEF RequestOf, Group
  <2> QED
    BY <1>3, <2>1 DEF Request
<1>4. CASE m.op \in {"SetOsd", "CreateOsd", "DeleteOsd"}
  <2>1. r = [op |-> "osd", change |-> m.settings] /\ m.settings \in Change(OsdFields)
    BY <1>1, <1>4, WholeChange DEF RequestOf, Group
  <2> QED
    BY <1>4, <2>1 DEF Request
<1> QED
  BY <1>2, <1>3, <1>4 DEF Updates

(* A POST is served as a request of the register. *)
LEMMA PostIsARequest ==
    ASSUME VideoFields # {}, ImagingFields # {}, IInv, PostsAreWhole, queue # <<>>, HandlePost
    PROVE  ServedAsRegister(Head(queue)) /\ (rail' = rail \/ Accepted(rail, RequestOf(Head(queue))))
<1> DEFINE m == Head(queue)
           r == RequestOf(m)
<1>1. m = queue[1] /\ 1 \in DOMAIN queue /\ queue[1].kind = "post"
  BY AfterHead DEF HandlePost
<1>2. m.op \in Updates /\ m.settings \in [Group(m.op) -> Value]
  BY <1>1 DEF PostsAreWhole, IInv, PostsAreUpdates
<1>3. /\ r \in Request
      /\ r.change = m.settings
      /\ r.op = "config" <=> m.op = "SetVideo"
      /\ r.op \in {"config", "imaging", "osd"}
  BY <1>2, RequestsOfGroups
<1>4. rail' = IF PostCode(m) = 200 THEN Overlay(rail, m.settings) ELSE rail
  BY DEF HandlePost
<1>5. Accepted(rail, r) <=> ~(m.op = "SetVideo" /\ m.settings \notin SupportedVideo)
  <2>1. CASE m.op = "SetVideo"
    <3>1. m.settings \in [VideoFields -> Value] /\ VideoFields \in SUBSET Field /\ rail \in Config
      BY <1>2, <2>1 DEF Group, Field, IInv, TypeOK
    <3>2. Restriction(Overlay(rail, m.settings), VideoFields) = m.settings
      BY <3>1, WholeGroupIsTheGroup
    <3> QED
      BY <1>3, <2>1, <3>2 DEF Accepted
  <2>2. CASE m.op # "SetVideo"
    BY <1>3, <2>2 DEF Accepted
  <2> QED
    BY <2>1, <2>2
<1>6. \/ PostCode(m) = 400
      \/ PostCode(m) = 200 /\ Accepted(rail, r)
      \/ PostCode(m) = 500 /\ ~Accepted(rail, r)
  <2>1. VideoFields # OsdFields
    BY OnvifRailAssumption, RailConfigAssumption
  <2>2. CASE m.op = "SetVideo"
    <3>1. DOMAIN m.settings # OsdFields
      BY <1>2, <2>1, <2>2 DEF Group
    <3> QED
      BY <1>5, <2>2, <3>1 DEF PostCode
  <2>3. CASE m.op # "SetVideo"
    BY <1>5, <2>3 DEF PostCode
  <2> QED
    BY <2>2, <2>3
<1> HIDE DEF m, r
<1>7. Code(r, TRUE) = 200 /\ Code(r, FALSE) = 500
  BY <1>3 DEF Code
<1>8. CASE PostCode(m) = 400
  BY <1>4, <1>8 DEF ServedAsRegister, m
<1>9. CASE PostCode(m) = 200 /\ Accepted(rail, r)
  BY <1>3, <1>4, <1>7, <1>9 DEF ServedAsRegister, m, r
<1>10. CASE PostCode(m) = 500 /\ ~Accepted(rail, r)
  <2>1. rail' = rail
    BY <1>4, <1>10
  <2>2. PostCode(m) = Code(r, Accepted(rail, r))
    BY <1>7, <1>10, Zenon DEF Code
  <2> QED
    BY <1>3, <1>10, <2>1, <2>2, Zenon DEF ServedAsRegister, m, r
<1> QED
  BY <1>6, <1>8, <1>9, <1>10

(* To take rail-media as the register that RailMedia implements is right:  *)
(* nothing here changes its configuration but requests of that register,   *)
(* and a POST is served as such a request.  (The groups have four, three   *)
(* and two fields in the code.)                                            *)
THEOREM RegisterIsAllThereIs ==
    ASSUME VideoFields # {}, ImagingFields # {}
    PROVE  Spec => RailIsTheRegister
<1> DEFINE Changes ==
        /\ queue # <<>> /\ HandlePost => ServedAsRegister(Head(queue))
        /\ \/ rail' = rail
           \/ rail' \in StartConfig
           \/ \E r \in Request : Accepted(rail, r) /\ rail' = Overlay(rail, r.change)
<1>1. ASSUME IInv, PostsAreWhole, Next
      PROVE  Changes
  <2>1. queue # <<>> /\ HandlePost => ServedAsRegister(Head(queue))
    BY <1>1, PostIsARequest
  <2>2. CASE HandlePost
    <3>1. queue # <<>>
      BY <2>2 DEF HandlePost
    <3>2. rail' = rail \/ \E r \in Request : Accepted(rail, r) /\ rail' = Overlay(rail, r.change)
      BY <1>1, <2>2, <3>1, PostIsARequest, OnvifRailAssumption DEF ServedAsRegister
    <3> QED
      BY <2>1, <3>2
  <2>3. CASE \E r \in OtherRequests : OtherWrites(r)
    BY <2>1, <2>3, OnvifRailAssumption DEF OtherWrites
  <2>4. CASE RailRestarts
    BY <2>1, <2>4 DEF RailRestarts
  <2>5. CASE (\E c \in Calls : Receive(c)) \/ SoapStep \/ HandleGet \/ PeerLetsGo
    <3>1. rail' = rail
      BY <2>5 DEF PeerLetsGo, Receive, SoapStep, Send, ReadSettings, Reread, WriteSettings, CheckHealth, HandleGet
    <3> QED
      BY <2>1, <3>1
  <2> QED
    BY <1>1, <2>2, <2>3, <2>4, <2>5 DEF Next
<1>2. IInv /\ PostsAreWhole /\ [Next]_vars => [Changes]_vars
  BY <1>1
<1> QED
  BY <1>2, Invariance, WholeGroups, PTL DEF Spec, RailIsTheRegister

(* Queries.                                                                *)

(* How a query comes to say something else: its read fails or breaks off,  *)
(* or others write while it is on its way.  From a complete response it    *)
(* tells the truth, whatever waits in the queue of rail-media.             *)
CompleteAnswersAreTrue ==
    [][stage = "read" /\ stage' = "idle" /\ reply' = "ok" /\ Success(response) /\ ~MayTruncate /\ ~foreign
          => settings' = InForce(call.op)]_vars

THEOREM TrueAnswers == Spec => CompleteAnswersAreTrue
<1>1. ASSUME IInv, [Next]_vars, stage = "read", stage' = "idle", reply' = "ok", Success(response),
             ~MayTruncate, ~foreign
      PROVE  settings' = InForce(call.op)
  <2>1. ReadSettings
    BY <1>1 DEF Next, SoapStep, Receive, Send, Reread, WriteSettings, CheckHealth, HandleGet, HandlePost,
                OtherWrites, RailRestarts, PeerLetsGo, vars, onvif
  <2>2. PICK result \in {Nothing, response} :
            /\ ExchangeEnds(result)
            /\ \E current \in FromRail(result, Group(call.op)) :
                   IF call.op \in Queries THEN AnswerQuery(current)
                   ELSE IF Permitted(call.op, current)
                     THEN PrepareWrite(current, Success(result) /\ current = result.body)
                   ELSE Answer("fault")
    BY <2>1 DEF ReadSettings
  <2>3. PICK current \in FromRail(result, Group(call.op)) :
            IF call.op \in Queries THEN AnswerQuery(current)
            ELSE IF Permitted(call.op, current)
              THEN PrepareWrite(current, Success(result) /\ current = result.body)
            ELSE Answer("fault")
    BY <2>2
  <2>4. result = response
    BY <1>1, <2>2 DEF ExchangeEnds, Success, IInv, StageFits
  <2>5. current = response.body
    BY <1>1, <2>3, <2>4 DEF FromRail, Parsed
  <2>6. settings' = Shown(current)
    BY <1>1, <2>3 DEF AnswerQuery, AnswerWith, Answer, PrepareWrite
  <2> QED
    BY <1>1, <2>5, <2>6 DEF IInv, ResponseFits, Success, InForce
<1>2. IInv /\ [Next]_vars =>
          [stage = "read" /\ stage' = "idle" /\ reply' = "ok" /\ Success(response) /\ ~MayTruncate
               /\ ~foreign => settings' = InForce(call.op)]_vars
  BY <1>1
<1> QED
  BY <1>2, Invariance, PTL DEF Spec, CompleteAnswersAreTrue

-----------------------------------------------------------------------------
(* Every call is answered.  A stage of a handler is an exchange in two     *)
(* steps, before and after its request is sent, and no stage comes back.   *)

Busy == {"read", "reread", "write", "health"}

NextStages(s) ==
    CASE s = "read"   -> {"reread", "write", "idle"}
      [] s = "reread" -> {"write"}
      [] OTHER        -> {"idle"}

Unsent(s) == stage = s /\ ~sent
Held(s) == stage = s /\ sent /\ held
Sent(s) == stage = s /\ sent /\ ~held
Over(s) == stage \in NextStages(s)
Ends(s) == (stage = s) ~> (Over(s) \/ []held)

(* Nobody but the SOAP thread moves a handler on, and nothing but another  *)
(* exchange makes a peer hold it that has let go.                          *)
LEMMA OthersWait ==
    stage # "idle" /\ [Next]_vars => SoapStep \/ (UNCHANGED <<stage, sent>> /\ held' \in {held, FALSE})
<1> SUFFICES ASSUME stage # "idle", [Next]_vars
             PROVE  SoapStep \/ (UNCHANGED <<stage, sent>> /\ held' \in {held, FALSE})
  OBVIOUS
<1>1. ASSUME NEW c \in Calls, Receive(c)
      PROVE  FALSE
  BY <1>1 DEF Receive
<1>2. CASE HandleGet \/ HandlePost \/ RailRestarts \/ PeerLetsGo \/ UNCHANGED vars
  BY <1>2 DEF HandleGet, HandlePost, RailRestarts, PeerLetsGo, vars, onvif
<1>3. ASSUME NEW r \in OtherRequests, OtherWrites(r)
      PROVE  UNCHANGED <<stage, sent, held>>
  BY <1>3 DEF OtherWrites, onvif
<1> QED
  BY <1>1, <1>2, <1>3 DEF Next

(* A step of the SOAP thread sends the request or ends an exchange that no *)
(* peer holds.                                                             *)
LEMMA StageSteps ==
    ASSUME IInv, NEW s \in Busy, stage = s, SoapStep
    PROVE  \/ ~sent /\ (Sent(s)' \/ Held(s)')
           \/ ~Held(s) /\ Over(s)'
<1> USE DEF Busy, NextStages, Sent, Held, Over
<1>1. CASE Send
  BY <1>1, OnvifRailAssumption DEF Send
<1>2. ASSUME NEW result \in {Nothing, response}, ExchangeEnds(result)
      PROVE  ~Held(s)
  BY <1>2 DEF ExchangeEnds
<1>3. CASE ReadSettings
  BY <1>2, <1>3 DEF ReadSettings, AnswerQuery, AnswerWith, Answer, PrepareWrite
<1>4. CASE Reread \/ WriteSettings \/ CheckHealth
  BY <1>2, <1>4 DEF Reread, WriteSettings, CheckHealth, AnswerWith, Answer
<1> QED
  BY <1>1, <1>3, <1>4 DEF SoapStep

LEMMA StageEnds ==
    ASSUME NEW s \in Busy
    PROVE  FairSpec /\ []NothingBlocks => Ends(s)
<1> DEFINE Assumed == [][Next]_vars /\ WF_vars(SoapStep) /\ []NothingBlocks /\ []IInv
<1>1. FairSpec /\ []NothingBlocks => Assumed
  BY Invariance, PTL DEF FairSpec, Spec
<1>2. IInv /\ [Next]_vars =>
          /\ Unsent(s) => Unsent(s)' \/ Sent(s)' \/ Held(s)' \/ Over(s)'
          /\ Held(s) => Held(s)' \/ Sent(s)'
          /\ Sent(s) => Sent(s)' \/ Over(s)'
  BY StageSteps, OthersWait DEF Unsent, Sent, Held, Busy, IInv, TypeOK
<1>3. IInv /\ SoapStep => /\ Unsent(s) => ~Unsent(s)'
                          /\ Sent(s) => ~Sent(s)'
  BY StageSteps DEF Unsent, Sent, Held, Over, Busy, NextStages
<1>4. IInv /\ NothingBlocks => (Unsent(s) \/ Sent(s) => ENABLED <<SoapStep>>_vars)
  BY DEF NothingBlocks, Unsent, Sent, Busy, IInv, StageFits
<1>5. IInv => (stage = s => Unsent(s) \/ Sent(s) \/ Held(s))
  BY DEF Unsent, Sent, Held, IInv, TypeOK
<1>6. Held(s) => held
  BY DEF Held
<1>7. Assumed => [][Next]_vars /\ WF_vars(SoapStep) /\ []NothingBlocks /\ []IInv
  BY PTL
<1> HIDE DEF Assumed
<1>8. Assumed => (Sent(s) ~> Over(s))
  BY <1>2, <1>3, <1>4, <1>7, PTL
<1>9. Assumed => (Held(s) ~> (Sent(s) \/ []held))
  BY <1>2, <1>6, <1>7, PTL
<1>10. Assumed => (Unsent(s) ~> (Sent(s) \/ Held(s) \/ Over(s)))
  BY <1>2, <1>3, <1>4, <1>7, PTL
<1> QED
  BY <1>1, <1>5, <1>7, <1>8, <1>9, <1>10, PTL DEF Ends

(* Every ONVIF request is answered, with any number of calls before it and *)
(* whatever rail-media does or leaves undone, unless the peer of an        *)
(* exchange holds it for ever.                                             *)
THEOREM Answered == FairSpec /\ []NothingBlocks => CallsAreAnswered
<1>1. FairSpec /\ []NothingBlocks => Ends("read") /\ Ends("reread") /\ Ends("write") /\ Ends("health")
  BY StageEnds DEF Busy
<1>2. /\ Over("read") => stage = "reread" \/ stage = "write" \/ stage = "idle"
      /\ Over("reread") => stage = "write"
      /\ Over("write") => stage = "idle"
      /\ Over("health") => stage = "idle"
  BY DEF Over, NextStages
<1>3. IInv => (stage # "idle" => stage = "read" \/ stage = "reread" \/ stage = "write" \/ stage = "health")
  BY DEF IInv, TypeOK, Stages
<1>4. FairSpec => []IInv
  BY Invariance, PTL DEF FairSpec
<1> QED
  BY <1>1, <1>2, <1>3, <1>4, PTL DEF CallsAreAnswered, Ends

=============================================================================
