----------------------------- MODULE BottomHalf -----------------------------
(***************************************************************************)
(* What the deferred part of an interrupt handler promises, in whatever    *)
(* way a driver defers it (lessons 16, 17 and 18): a press of the button   *)
(* is followed by a run that begins after it, presses that come before     *)
(* that run begins share it, runs do not overlap and there is none without *)
(* a press, and once the driver has shut it down no run begins.            *)
(***************************************************************************)
VARIABLES
    pending,    \* a press that no run has answered yet
    busy,       \* a run is in progress
    shutdown    \* "no", "begun" or "done": how far remove has come

halfVars == <<pending, busy, shutdown>>

Init ==
    /\ pending = FALSE
    /\ busy = FALSE
    /\ shutdown = "no"

Press ==
    /\ pending' = TRUE
    /\ UNCHANGED <<busy, shutdown>>

Serve ==
    /\ shutdown # "done"
    /\ pending /\ ~busy
    /\ pending' = FALSE
    /\ busy' = TRUE
    /\ UNCHANGED shutdown

Finish ==
    /\ busy
    /\ busy' = FALSE
    /\ UNCHANGED <<pending, shutdown>>

\* Shutting down may drop a press.
BeginShutdown ==
    /\ shutdown = "no"
    /\ shutdown' = "begun"
    /\ pending' \in {pending, FALSE}
    /\ UNCHANGED busy

\* It is over when the run in progress is.
EndShutdown ==
    /\ shutdown = "begun"
    /\ ~busy
    /\ shutdown' = "done"
    /\ UNCHANGED <<pending, busy>>

Next == Press \/ Serve \/ Finish \/ BeginShutdown \/ EndShutdown

Spec == Init /\ [][Next]_halfVars
=============================================================================
