----------------------------- MODULE HttpDownload -----------------------------
(***************************************************************************)
(* One file fetched by one worker: the resume checks, the stream into      *)
(* "<dest>.part", the judgement of the response, the checksum and the      *)
(* rename onto the destination, in the bounded retry loop around it        *)
(* (src/core/src/infrastructure/http/rac_http_download.cpp, and            *)
(* execute_stream_with_retry and process_plan_file of                      *)
(* src/core/src/infrastructure/download/download_orchestrator.cpp).        *)
(*                                                                         *)
(* A file is the sequence of its blocks; block i of the payload is i, and  *)
(* Junk, which may be smaller, is the body of an error page.  Blocks of    *)
(* the payload are far above the 1 KiB stub limit, and the catalog knows   *)
(* the payload's size.  Blocks reach the file as they are written: bytes a *)
(* dying process still buffered are a crash one block earlier.             *)
(***************************************************************************)
EXTENDS Naturals, Sequences, FiniteSets

CONSTANTS
  Blocks,        \* size of the payload
  Checked,       \* whether the plan carries a SHA-256 for the file
  Replies,       \* how the server may answer
  MaxAttempts,   \* kMaxAttempts
  MaxStarts,     \* bound on the transfers started
  NoFile

Junk == 0
Payload == [i \in 1..Blocks |-> i]
Bytes == Seq(Junk..Blocks)
Older == <<Junk>>     \* a file of another size, from an earlier release

ASSUME HttpAssumptions ==
  /\ Blocks \in Nat /\ Blocks > 1
  /\ Checked \in BOOLEAN
  /\ MaxAttempts \in Nat \ {0} /\ MaxStarts \in Nat
  /\ Replies \subseteq {"tail", "full", "error", "complete", "unsatisfiable"}
  /\ NoFile \notin Bytes

VARIABLES
  part,      \* "<dest>.part"
  tmp,       \* "<dest>.rac_resume_fallback.tmp", while a replay is shifted
  final,     \* the destination
  cancel,    \* cancel_requested, or the abort flag of a parallel worker
  at,        \* where the transfer is
  req,       \* the request, across its attempts
  resp,      \* one attempt's response
  status,    \* what the caller is told
  starts     \* transfers started

diskVars == <<part, tmp, final>>
vars == <<diskVars, cancel, at, req, resp, status, starts>>

(* base is base_resume_from, resume is req.resume_from_byte.  first says   *)
(* whether the file is the first of its plan.                              *)
Requests == [first : BOOLEAN, base : Nat, resume : Nat, attempt : 0..MaxAttempts]
NoRequest == [first |-> TRUE, base |-> 0, resume |-> 0, attempt |-> 0]

(* prefix is effective_resume_from, sent is ctx.bytes_written, hashed is   *)
(* what the running digest covers.                                         *)
AllReplies == {"tail", "full", "error", "complete", "unsatisfiable"}
Responses == [prefix : Nat, reply : AllReplies, sent : Nat, hashed : Bytes]
NoResponse == [prefix |-> 0, reply |-> "full", sent |-> 0, hashed |-> <<>>]

Failures == {"CANCELLED", "NETWORK_ERROR", "SERVER_ERROR", "CHECKSUM_FAILED",
             "FILE_ERROR", "OVERSIZE_PARTIAL"}

Size(f) == IF f = NoFile THEN 0 ELSE Len(f)

Goto(to) == at' = to /\ UNCHANGED status
Return(s) == at' = "idle" /\ status' = s /\ req' = NoRequest /\ resp' = NoResponse

HttpInit ==
  /\ part = NoFile /\ tmp = NoFile /\ final \in {NoFile, Older}
  /\ cancel = FALSE /\ at = "idle"
  /\ req = NoRequest /\ resp = NoResponse
  /\ status = "none" /\ starts = 0

-----------------------------------------------------------------------------
(* A transfer begins.                                                      *)

(* The destination already has the expected size: nothing is fetched.      *)
AlreadyComplete ==
  /\ at = "idle" /\ starts < MaxStarts
  /\ Size(final) = Blocks
  /\ status' = "OK" /\ starts' = starts + 1
  /\ UNCHANGED <<diskVars, cancel, at, req, resp>>

(* rac_download_start_proto looks only at the partial of the first file.   *)
RejectOversize ==
  /\ at = "idle" /\ starts < MaxStarts
  /\ Size(part) > Blocks
  /\ status' = "OVERSIZE_PARTIAL" /\ starts' = starts + 1
  /\ UNCHANGED <<diskVars, cancel, at, req, resp>>

(* The first file resumes from its partial, the others are asked for       *)
(* afresh.                                                                 *)
Start(isFirst) ==
  /\ at = "idle" /\ starts < MaxStarts
  /\ Size(final) # Blocks
  /\ isFirst => Size(part) <= Blocks
  /\ LET offset == IF isFirst THEN Size(part) ELSE 0
     IN  req' = [first |-> isFirst, base |-> offset, resume |-> offset, attempt |-> 1]
  /\ at' = "try" /\ status' = "none" /\ starts' = starts + 1
  /\ cancel' = FALSE
  /\ UNCHANGED <<diskVars, resp>>

(* Every attempt looks at the flags first.                                 *)
StopBeforeAttempt ==
  /\ at = "try" /\ cancel
  /\ Return("CANCELLED")
  /\ UNCHANGED <<diskVars, cancel, starts>>

-----------------------------------------------------------------------------
(* Opening the sidecar.                                                    *)
ResumeMismatch == req.resume > 0 /\ Size(part) # req.resume

(* The partial is not the one the request continues, or cannot be opened.  *)
OpenFails ==
  /\ at = "try" /\ ~cancel
  /\ Return("FILE_ERROR")
  /\ UNCHANGED <<diskVars, cancel, starts>>

LooksLikeStub(f) == f[1] = Junk

(* Deviation: a fresh request truncates whatever partial it finds.         *)
ResumeAsRequested == req.resume

(* A fresh request that finds a partial keeps it, unless it looks like an  *)
(* error page; the heuristic does not look at a partial that is resumed.   *)
ResumeFrom ==
  IF req.resume = 0 /\ Size(part) > 0
  THEN IF LooksLikeStub(part) THEN 0 ELSE Size(part)
  ELSE req.resume

(* How a server may answer a request for what follows the offset.          *)
Answers(offset) ==
  Replies \cap {r \in AllReplies :
    /\ r = "tail" => offset \in 1..(Blocks - 1)
    /\ r = "complete" => offset = Blocks}

Open ==
  /\ at = "try" /\ ~cancel /\ ~ResumeMismatch
  /\ Goto("stream")
  /\ part' = IF ResumeFrom = 0 THEN <<>> ELSE part
  /\ \E r \in Answers(ResumeFrom) :
       resp' = [prefix |-> ResumeFrom, reply |-> r, sent |-> 0, hashed |-> part']
  /\ UNCHANGED <<tmp, final, cancel, req, starts>>

-----------------------------------------------------------------------------
(* The stream.                                                             *)
Body ==
  CASE resp.reply = "full" -> Payload
    [] resp.reply = "tail" -> SubSeq(Payload, resp.prefix + 1, Blocks)
    [] OTHER -> <<Junk>>

MoreToCome == at = "stream" /\ resp.sent < Len(Body)

(* A partial deleted under the open stream takes the bytes written with    *)
(* it: they go to a file that has no name.                                 *)
Written(b) == IF part = NoFile THEN NoFile ELSE Append(part, b)

(* on_chunk writes, hashes, and only then asks whether to go on.           *)
Chunk ==
  /\ MoreToCome
  /\ LET b == Body[resp.sent + 1]
     IN  /\ part' = Written(b)
         /\ IF cancel THEN Return("CANCELLED")
            ELSE /\ resp' = [resp EXCEPT !.sent = @ + 1, !.hashed = Append(@, b)]
                 /\ UNCHANGED <<at, status, req>>
  /\ UNCHANGED <<tmp, final, cancel, starts>>

(* The disk is full, or the file can no longer be written.                 *)
WriteFails ==
  /\ MoreToCome
  /\ Return("FILE_ERROR")
  /\ UNCHANGED <<diskVars, cancel, starts>>

(* The response ends without an error, though perhaps before its time.     *)
StreamEnds ==
  /\ at = "stream"
  /\ Goto("judge")
  /\ UNCHANGED <<diskVars, cancel, req, resp, starts>>

(* Deviation: one attempt too many.                                        *)
TransientOnceMore ==
  IF req.attempt <= MaxAttempts /\ ~cancel
  THEN Goto("backoff") /\ UNCHANGED req /\ resp' = NoResponse
  ELSE Return("NETWORK_ERROR")

(* A transient error is retried while attempts are left and nobody has     *)
(* asked to stop.                                                          *)
Transient ==
  IF req.attempt < MaxAttempts /\ ~cancel
  THEN Goto("backoff") /\ UNCHANGED req /\ resp' = NoResponse
  ELSE Return("NETWORK_ERROR")

ConnectionDrops ==
  /\ at = "stream"
  /\ Transient
  /\ UNCHANGED <<diskVars, cancel, starts>>

Retry ==
  /\ at = "backoff"
  /\ Goto("try")
  /\ req' = [req EXCEPT !.attempt = @ + 1,
                        !.resume = IF Size(part) > 0 THEN Size(part) ELSE req.base]
  /\ UNCHANGED <<diskVars, cancel, resp, starts>>

-----------------------------------------------------------------------------
(* The judgement of a response that ended without a transport error.       *)
Truncated == SubSeq(part, 1, resp.prefix)

(* The server ignored the range and sent everything again.                 *)
Replayed == resp.reply = "full" /\ resp.prefix > 0 /\ resp.sent >= resp.prefix

(* Truncating the partial or moving it aside fails, for one because it is  *)
(* gone; or it is moved aside, a file cannot be opened, and it is put back.*)
SidecarFails ==
  /\ at = "judge"
  /\ \/ resp.reply = "complete" /\ resp.sent > 0
     \/ resp.reply = "unsatisfiable" /\ resp.prefix > 0
     \/ Replayed
  /\ Return("FILE_ERROR")
  /\ UNCHANGED <<diskVars, cancel, starts>>

(* What reading the sidecar back gives the digest.                         *)
ReadBack(f) == IF f = NoFile THEN <<>> ELSE f

(* 416 whose Content-Range total is the resume offset: all is on disk.     *)
CompleteVia416 ==
  /\ at = "judge" /\ resp.reply = "complete"
  /\ resp.sent > 0 => part # NoFile
  /\ Goto("verify")
  /\ part' = IF part = NoFile THEN NoFile ELSE Truncated
  /\ resp' = [resp EXCEPT !.sent = 0, !.hashed = ReadBack(part')]
  /\ UNCHANGED <<tmp, final, cancel, req, starts>>

(* Any other 416: the error page is rolled back and the attempt retried.   *)
RollBack416 ==
  /\ at = "judge" /\ resp.reply = "unsatisfiable"
  /\ resp.prefix > 0 => part # NoFile
  /\ part' = IF resp.prefix > 0 THEN Truncated ELSE NoFile
  /\ Transient
  /\ UNCHANGED <<tmp, final, cancel, starts>>

(* The sidecar is moved aside and copied back without the old prefix.      *)
ShiftOut ==
  /\ at = "judge" /\ Replayed /\ part # NoFile
  /\ Goto("shift")
  /\ tmp' = part /\ part' = <<>>
  /\ UNCHANGED <<final, cancel, req, resp, starts>>

(* Moved aside, not opened, and not put back: the guard removes it.        *)
RestoreFails ==
  /\ at = "judge" /\ Replayed /\ part # NoFile
  /\ Return("FILE_ERROR")
  /\ part' \in {NoFile, <<>>}
  /\ UNCHANGED <<tmp, final, cancel, starts>>

(* The copy, without the old prefix, when it has come to block n; it goes  *)
(* to a file without a name if the sidecar is deleted meanwhile.           *)
CopiedUpTo(n) == IF part = NoFile THEN NoFile ELSE SubSeq(tmp, resp.prefix + 1, n)

ShiftBack ==
  /\ at = "shift"
  /\ Goto("verify")
  /\ part' = CopiedUpTo(Len(tmp))
  /\ tmp' = NoFile
  /\ resp' = [resp EXCEPT !.hashed = ReadBack(part')]
  /\ UNCHANGED <<final, cancel, req, starts>>

(* The copy ends early: a write fails, and so does the transfer; or a read *)
(* or the last flush fails, which nobody looks at.  The guard removes the  *)
(* file that was moved aside, with everything that had arrived.            *)
ShiftCutShort ==
  /\ at = "shift"
  /\ \E n \in resp.prefix..(Len(tmp) - 1) : part' = CopiedUpTo(n)
  /\ tmp' = NoFile
  /\ \/ Return("FILE_ERROR")
     \/ /\ Goto("verify") /\ UNCHANGED req
        /\ resp' = [resp EXCEPT !.hashed = ReadBack(part')]
  /\ UNCHANGED <<final, cancel, starts>>

(* Any other 4xx or 5xx fails, and leaves its body in the sidecar.         *)
ServerError ==
  /\ at = "judge" /\ resp.reply = "error"
  /\ Return("SERVER_ERROR")
  /\ UNCHANGED <<diskVars, cancel, starts>>

Accept ==
  /\ at = "judge" /\ resp.reply \in {"full", "tail"} /\ ~Replayed
  /\ Goto("verify")
  /\ UNCHANGED <<diskVars, cancel, req, resp, starts>>

-----------------------------------------------------------------------------
(* Verification and the rename.                                            *)

(* Deviation: a file the server calls complete is not hashed.              *)
TrustsTheServer == Checked /\ resp.reply # "complete" => resp.hashed = Payload

DigestMatches == Checked => resp.hashed = Payload

(* The sidecar stays: the next transfer resumes from it.                   *)
ChecksumFails ==
  /\ at = "verify" /\ ~DigestMatches
  /\ Return("CHECKSUM_FAILED")
  /\ UNCHANGED <<diskVars, cancel, starts>>

RemoveStale ==
  /\ at = "verify" /\ DigestMatches
  /\ Goto("rename")
  /\ final' = NoFile
  /\ UNCHANGED <<part, tmp, cancel, req, resp, starts>>

(* Deviation: the rename's error code is not looked at.                    *)
RenameUnchecked ==
  /\ at = "rename"
  /\ Return("OK")
  /\ IF part = NoFile THEN UNCHANGED <<part, final>> ELSE final' = part /\ part' = NoFile
  /\ UNCHANGED <<tmp, cancel, starts>>

(* The rename fails if the sidecar is gone, and may fail although it is    *)
(* there.  The last progress callback's wish to stop is not looked at.     *)
Rename ==
  /\ at = "rename"
  /\ \/ Return("FILE_ERROR") /\ UNCHANGED <<part, final>>
     \/ part # NoFile /\ Return("OK") /\ final' = part /\ part' = NoFile
  /\ UNCHANGED <<tmp, cancel, starts>>

-----------------------------------------------------------------------------
(* The world around the transfer.                                          *)
RequestCancel ==
  /\ at # "idle" /\ ~cancel
  /\ cancel' = TRUE
  /\ UNCHANGED <<diskVars, at, req, resp, status, starts>>

(* rac_download_cancel_proto, told to delete the partial of a task that    *)
(* has stopped, deletes the first file's sidecar, whoever writes it now.   *)
Sweep ==
  /\ part # NoFile
  /\ at = "idle" \/ (req.first /\ starts > 1)
  /\ part' = NoFile
  /\ UNCHANGED <<tmp, final, cancel, at, req, resp, status, starts>>

(* The process dies and is started again: what is on disk stays.  Nothing  *)
(* reads a temporary file the shift left behind.                           *)
Crash ==
  /\ at # "idle"
  /\ Return("none")
  /\ cancel' = FALSE /\ tmp' = NoFile
  /\ UNCHANGED <<part, final, starts>>

Transfer ==
  \/ StopBeforeAttempt \/ OpenFails \/ Open
  \/ Chunk \/ WriteFails \/ StreamEnds \/ ConnectionDrops \/ Retry
  \/ SidecarFails \/ CompleteVia416 \/ RollBack416 \/ ShiftOut \/ ShiftBack
  \/ RestoreFails \/ ShiftCutShort
  \/ ServerError \/ Accept \/ ChecksumFails \/ RemoveStale \/ Rename

HttpNext ==
  \/ AlreadyComplete \/ RejectOversize
  \/ \E isFirst \in BOOLEAN : Start(isFirst)
  \/ Transfer
  \/ RequestCancel \/ Sweep \/ Crash

HttpSpec == HttpInit /\ [][HttpNext]_vars

-----------------------------------------------------------------------------
(* Properties.                                                             *)

(* The variables keep to their types, and no transfer is under way while   *)
(* the caller has an answer.                                               *)
HttpTypeOK ==
  /\ part \in Bytes \cup {NoFile} /\ tmp \in Bytes \cup {NoFile}
  /\ final \in Bytes \cup {NoFile}
  /\ cancel \in BOOLEAN
  /\ at \in {"idle", "try", "stream", "judge", "shift", "verify", "rename", "backoff"}
  /\ req \in Requests /\ resp \in Responses
  /\ status \in Failures \cup {"none", "OK"}
  /\ starts \in 0..MaxStarts
  /\ at # "idle" => status = "none"
  /\ at = "shift" => tmp # NoFile

(* Nothing but the whole payload ever replaces the file at the             *)
(* destination, through drops, resumes, replays, error pages, deletions    *)
(* and crashes (the comment at rac_http_download.cpp:745-756).  It holds   *)
(* for a file whose checksum is known, and if what the stream accepted     *)
(* reaches the file: nobody looks at the flush that precedes the close.    *)
FinalIsWhole == final \in {NoFile, Older, Payload}

(* How much of the payload a file starts with.                             *)
GoodBlocks(f) ==
  IF f = NoFile THEN 0
  ELSE Cardinality({n \in 1..Len(f) : n <= Blocks /\ \A i \in 1..n : f[i] = i})

(* The files a later attempt or a loader can still use.                    *)
Held == {part, final} \cup IF at = "shift" THEN {tmp} ELSE {}

(* The shift after a replay copies the file and cannot finish.             *)
CopyFails == RestoreFails \/ ShiftCutShort

(* While nobody deletes the partial, there is one step of a transfer that  *)
(* loses payload that had reached the disk: a shift that cannot finish its *)
(* copy, whose guard removes the only whole file                           *)
(* (rac_http_download.cpp:666-692).  No other step does: not the fresh     *)
(* request that finds a partial, not the rollback of an error page, not a  *)
(* shift that succeeds or is undone (rac_http_download.cpp:274-293).       *)
GoodPrefixKept ==
  [][Transfer /\ ~CopyFails /\ part # NoFile =>
       \A f \in Held : \E g \in Held' : GoodBlocks(g) >= GoodBlocks(f)]_vars

(* The abstract view: what a loader finds at the destination.              *)
Dest ==
  IF final = NoFile THEN "absent" ELSE IF final = Payload THEN "whole" ELSE "stale"

Promise == INSTANCE FileTransfer WITH dest <- Dest, answer <- status

(* The transfer implements FileTransfer: the destination goes from its old *)
(* content through nothing to the payload, never back, and OK is answered  *)
(* only when the payload is there.                                         *)
KeepsPromise == Promise!Spec
===============================================================================
