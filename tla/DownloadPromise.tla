---------------------------- MODULE DownloadPromise ----------------------------
(***************************************************************************)
(* What a client that starts, polls and cancels downloads of one model may *)
(* rely on, whatever the workers do: COMPLETED is shown only when the      *)
(* model can be loaded and is final, CANCELLED only if somebody asked, an  *)
(* answer once given changes only by a cancel, and a model that can be     *)
(* loaded stays so, unless it comes in archives and another task is at it  *)
(* (src/core/src/infrastructure/download/download_orchestrator.cpp).       *)
(***************************************************************************)
CONSTANTS Tasks

VARIABLES
  shown,      \* the phase a poll of the task shows
  asked,      \* tasks somebody asked to cancel
  packed,     \* the model comes in archives
  loadable    \* its files are in place, and its registry entry, if any, names them

promiseVars == <<shown, asked, packed, loadable>>

Init ==
  /\ shown = [t \in Tasks |-> "none"]
  /\ asked = {}
  /\ packed \in BOOLEAN /\ loadable \in BOOLEAN

Show(t, from, to) == shown[t] \in from /\ shown' = [shown EXCEPT ![t] = to]

Begin(t) == Show(t, {"none"}, "active") /\ UNCHANGED <<asked, packed, loadable>>
Complete(t) == loadable /\ Show(t, {"active"}, "completed") /\ UNCHANGED <<asked, packed, loadable>>
Fail(t) == Show(t, {"active"}, "failed") /\ UNCHANGED <<asked, packed, loadable>>

Ask(t) ==
  /\ shown[t] # "none"
  /\ asked' = asked \cup {t}
  /\ UNCHANGED <<shown, packed, loadable>>

(* A task that failed may still be cancelled.                              *)
Cancel(t) ==
  /\ t \in asked
  /\ Show(t, {"active", "failed", "cancelled"}, "cancelled")
  /\ UNCHANGED <<asked, packed, loadable>>

AtWork == \E t \in Tasks : shown[t] = "active"

(* The work of some task makes the model loadable.                         *)
Provide ==
  /\ AtWork
  /\ loadable' = TRUE
  /\ UNCHANGED <<shown, asked, packed>>

(* An archive is extracted over what an earlier task has left.             *)
Withdraw ==
  /\ packed /\ AtWork
  /\ loadable' = FALSE
  /\ UNCHANGED <<shown, asked, packed>>

Next ==
  \/ \E t \in Tasks : Begin(t) \/ Complete(t) \/ Fail(t) \/ Ask(t) \/ Cancel(t)
  \/ Provide \/ Withdraw

Spec == Init /\ [][Next]_promiseVars
===============================================================================
