----------------------------- MODULE FileTransfer -----------------------------
(***************************************************************************)
(* What fetching one file promises whoever will load it: the destination   *)
(* holds what it held before, nothing, or the whole payload, and a caller  *)
(* is told OK only while the whole payload is there                        *)
(* (src/core/src/infrastructure/http/rac_http_download.cpp).               *)
(***************************************************************************)
CONSTANTS Failures   \* the answers that are not OK

VARIABLES
  dest,     \* "absent", "stale" (what was there before) or "whole"
  answer    \* "none" while a transfer runs or the process has forgotten

transferVars == <<dest, answer>>

Init ==
  /\ dest \in {"absent", "stale"}
  /\ answer = "none"

(* A new transfer, or a new process: the last answer is forgotten.         *)
Forget ==
  /\ answer' = "none"
  /\ UNCHANGED dest

(* What was there before goes only to make room for the payload.           *)
Discard ==
  /\ answer = "none" /\ dest = "stale"
  /\ dest' = "absent"
  /\ UNCHANGED answer

Land ==
  /\ answer = "none" /\ dest = "absent"
  /\ dest' = "whole"
  /\ answer' = "OK"

(* The payload had landed in an earlier transfer.                          *)
Confirm ==
  /\ dest = "whole"
  /\ answer' = "OK"
  /\ UNCHANGED dest

Fail ==
  /\ answer' \in Failures
  /\ UNCHANGED dest

Next == Forget \/ Discard \/ Land \/ Confirm \/ Fail

Spec == Init /\ [][Next]_transferVars
===============================================================================
