----------------------------- MODULE MCDaemons -----------------------------
(***************************************************************************)
(* Values for the small instance of Daemons.  Two clients: one is served   *)
(* while the other waits, and comes back.  One more request after the      *)
(* first is enough to tell a connection that is given up from one that is  *)
(* not.                                                                    *)
(***************************************************************************)
EXTENDS Daemons
=============================================================================
