-------------------------------- MODULE Task --------------------------------
(***************************************************************************)
(* What the supervisor expects of the body of a job, and a caller of a     *)
(* call that can be cancelled: it ends once, is reported as cancelled only *)
(* if somebody asked for it, and ends when it is asked to                  *)
(* (the closure given to spawn_job, gui-engine/src/job.rs).                *)
(***************************************************************************)
CONSTANTS
    Ends,       \* the ways to end, Cancelled among them
    Cancelled,
    None        \* the result of a task that is under way, none of Ends

VARIABLES
    asked,      \* whether somebody has asked the task to stop
    result

taskVars == <<asked, result>>

TaskInit == asked = FALSE /\ result = None

Ask == ~asked /\ asked' = TRUE /\ UNCHANGED result

End ==
    /\ result = None
    /\ result' \in {e \in Ends : e = Cancelled => asked}
    /\ UNCHANGED asked

TaskNext == Ask \/ End

TaskSpec == TaskInit /\ [][TaskNext]_taskVars /\ WF_taskVars(asked /\ End)
=============================================================================
