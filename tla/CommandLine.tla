---------------------------- MODULE CommandLine ----------------------------
(***************************************************************************)
(* What the command line is promised of a command: it is called when no    *)
(* other command is, and either returns its status code, or returns        *)
(* CMDLINE_RETCODE_EXCUTING_CONTINUE and calls cmd_ready() once, later.    *)
(* The one way out of the promise: cmd_ready() may never be called.        *)
(***************************************************************************)

VARIABLE phase

Init == phase = "idle"

Call == phase = "idle" /\ phase' = "calling"

Return == phase = "calling" /\ phase' = "idle"

Continue == phase = "calling" /\ phase' = "waiting"

Answer == phase = "waiting" /\ phase' = "answered"

GiveUp == phase = "waiting" /\ phase' = "forgotten"

Ready == phase = "answered" /\ phase' = "idle"

Next == Call \/ Return \/ Continue \/ Answer \/ GiveUp \/ Ready

Spec == Init /\ [][Next]_phase
=============================================================================
