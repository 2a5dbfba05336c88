----------------------------- MODULE PtzMotion -----------------------------
(***************************************************************************)
(* What PTZ control promises, without threads, locks or generations: the   *)
(* camera is still or driven, and a driven camera has at most ONE          *)
(* deadline.  While the deadline is set nobody touches the motion: either  *)
(* the deadline comes due and ends the motion, or a newer command first    *)
(* takes the deadline away.                                                *)
(***************************************************************************)
VARIABLES
    motion,    \* "still" or "driven"
    deadline   \* "none", "set", or "due" once its time is over

vars == <<motion, deadline>>

TypeOK ==
    /\ motion \in {"still", "driven"}
    /\ deadline \in {"none", "set", "due"}

Init ==
    /\ motion = "still"
    /\ deadline = "none"

(* The deadline no longer applies: a newer command owns the camera, the    *)
(* stop at the deadline failed, or the process is gone.                    *)
Revoke ==
    /\ deadline # "none"
    /\ deadline' = "none"
    /\ UNCHANGED motion

(* A velocity command takes effect, with a deadline of its own. *)
Drive ==
    /\ deadline = "none"
    /\ motion' \in {"still", "driven"}
    /\ deadline' = "set"

(* A stop or an absolute position takes effect. *)
Halt ==
    /\ deadline = "none"
    /\ motion' = "still"
    /\ UNCHANGED deadline

(* A velocity command takes effect although its caller is told it failed:  *)
(* no deadline comes with it.                                              *)
DriveUnacknowledged ==
    /\ deadline = "none"
    /\ motion' = "driven"
    /\ UNCHANGED deadline

ComeDue ==
    /\ deadline = "set"
    /\ deadline' = "due"
    /\ UNCHANGED motion

Expire ==
    /\ deadline = "due"
    /\ motion' = "still"
    /\ deadline' = "none"

Next ==
    \/ Revoke
    \/ Drive
    \/ Halt
    \/ DriveUnacknowledged
    \/ ComeDue
    \/ Expire

Spec == Init /\ [][Next]_vars

=============================================================================
