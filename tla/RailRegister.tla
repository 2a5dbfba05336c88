---------------------------- MODULE RailRegister ----------------------------
(***************************************************************************)
(* What the control API of rail-media promises: one configuration, shared  *)
(* by all clients.  A request takes effect at one moment between its       *)
(* arrival and its answer, changes exactly the fields it names, or nothing *)
(* when it is rejected, and its answer is the configuration it made.       *)
(* Queries answer with the configuration there is.                         *)
(***************************************************************************)
EXTENDS RailConfig

CONSTANTS StartConfig, Requests

VARIABLES
    value,     \* the configuration
    request,   \* the request under way, or the last one
    phase,     \* of the request: "called", "applied", or "idle" when answered
    ok,        \* whether it was carried out
    reply      \* the latest answer

vars == <<value, request, phase, ok, reply>>

Init ==
    /\ value \in StartConfig
    /\ request \in Requests
    /\ phase = "idle"
    /\ ok = FALSE
    /\ reply = [code |-> 200, config |-> value]

Query(code) ==
    /\ phase = "idle"
    /\ reply' = [code |-> code, config |-> value]
    /\ UNCHANGED <<value, request, phase, ok>>

Refuse(code) ==
    /\ phase = "idle"
    /\ reply' = [reply EXCEPT !.code = code]
    /\ UNCHANGED <<value, request, phase, ok>>

Call(r) ==
    /\ phase = "idle"
    /\ request' = r
    /\ phase' = "called"
    /\ ok' = FALSE
    /\ UNCHANGED <<value, reply>>

Apply ==
    /\ phase = "called"
    /\ phase' = "applied"
    /\ ok' = Accepted(value, request)
    /\ value' = IF ok' THEN Overlay(value, request.change) ELSE value
    /\ UNCHANGED <<request, reply>>

Return ==
    /\ phase = "applied"
    /\ phase' = "idle"
    /\ reply' = [code   |-> Code(request, ok),
                 config |-> IF ok THEN value ELSE reply.config]
    /\ UNCHANGED <<value, request, ok>>

Next ==
    \/ \E code \in {200, 503} : Query(code)
    \/ \E code \in {400, 404} : Refuse(code)
    \/ \E r \in Requests : Call(r)
    \/ Apply
    \/ Return

Spec == Init /\ [][Next]_vars

=============================================================================
