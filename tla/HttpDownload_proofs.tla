------------------------- MODULE HttpDownload_proofs -------------------------
(***************************************************************************)
(* A download with a checksum keeps its promise for every payload size,    *)
(* every server and every bound on attempts: what is renamed onto the      *)
(* destination is what the running digest has covered, even when the       *)
(* partial is deleted under the stream, rolled back or shifted.            *)
(***************************************************************************)
EXTENDS HttpDownload, SequenceTheorems, FiniteSetTheorems, TLAPS

Open4 == {"stream", "judge", "verify", "rename"}

(* The open partial is the prefix it was opened with and what was written. *)
Lengths ==
  /\ at \in {"stream", "judge"} /\ part # NoFile => Len(part) = resp.prefix + resp.sent
  /\ at = "shift" => Len(tmp) = resp.prefix + resp.sent

(* The digest covers the partial, as long as the partial has a name.       *)
DigestCovers == at \in Open4 /\ part # NoFile => resp.hashed = part

AttemptsLeft == at = "backoff" => req.attempt < MaxAttempts

(* Nothing is fetched over a payload that is there, and the rename finds   *)
(* the destination empty.                                                  *)
NotYetThere ==
  /\ at # "idle" => final # Payload
  /\ at = "rename" => DigestMatches /\ final = NoFile

HttpInv == HttpTypeOK /\ Lengths /\ DigestCovers /\ AttemptsLeft /\ NotYetThere

-----------------------------------------------------------------------------
LEMMA PayloadTyped ==
  /\ Payload \in Bytes /\ Older \in Bytes /\ <<>> \in Bytes /\ <<Junk>> \in Bytes
  /\ Len(Payload) = Blocks /\ Len(Older) = 1 /\ Payload # Older
  /\ Payload # NoFile /\ Older # NoFile
<1>1. /\ Blocks \in Nat /\ Blocks > 1 /\ NoFile \notin Bytes
  BY HttpAssumptions
<1>2. Payload \in [1..Blocks -> Junk..Blocks]
  BY <1>1 DEF Payload, Junk
<1>3. Payload \in Bytes /\ Len(Payload) = Blocks
  <2>1. Payload \in Seq(Junk..Blocks)
    BY <1>1, <1>2, SeqDef
  <2>2. DOMAIN Payload = 1..Len(Payload) /\ Len(Payload) \in Nat /\ DOMAIN Payload = 1..Blocks
    BY <1>2, <2>1, LenProperties
  <2>3. Blocks \in 1..Len(Payload) /\ Len(Payload) \in 1..Blocks
    BY <1>1, <2>2
  <2>4. Len(Payload) = Blocks
    <3>1. \A m, n \in Nat : m \in 1..n /\ n \in 1..m => m = n
      OBVIOUS
    <3>2. QED
      BY <1>1, <2>2, <2>3, <3>1, Zenon
  <2>5. QED
    BY <2>1, <2>4 DEF Bytes
<1>4. <<Junk>> \in Bytes /\ Len(<<Junk>>) = 1 /\ <<>> \in Bytes
  BY <1>1 DEF Bytes, Junk
<1>5. QED
  BY <1>1, <1>3, <1>4 DEF Older

(* Cutting a file leaves a file.                                           *)
LEMMA CutTyped ==
  ASSUME NEW f \in Bytes, NEW m \in 1..(Len(f) + 1), NEW n \in 0..Len(f)
  PROVE  SubSeq(f, m, n) \in Bytes
<1>1. \A i \in m..n : f[i] \in Junk..Blocks
  <2> TAKE i \in m..n
  <2>1. f \in Seq(Junk..Blocks) /\ i \in 1..Len(f)
    BY LenProperties DEF Bytes
  <2>2. QED
    BY <2>1, ElementOfSeq
<1>2. QED
  BY <1>1, SubSeqProperties DEF Bytes

LEMMA BodyTyped ==
  ASSUME HttpTypeOK, NEW i \in 1..Len(Body)
  PROVE  Body[i] \in Junk..Blocks
<1>1. resp.prefix \in Nat /\ Blocks \in Nat
  BY HttpAssumptions DEF HttpTypeOK, Responses
<1>2. \A j \in (resp.prefix + 1)..Blocks : Payload[j] \in Junk..Blocks
  BY <1>1 DEF Payload, Junk
<1>3. SubSeq(Payload, resp.prefix + 1, Blocks) \in Bytes
  BY <1>1, <1>2, SubSeqProperties DEF Bytes
<1>4. Body \in Bytes
  BY <1>3, PayloadTyped DEF Body
<1>5. QED
  BY <1>4, ElementOfSeq DEF Bytes

LEMMA EmptyRequestsTyped ==
  NoRequest \in Requests /\ NoResponse \in Responses
BY HttpAssumptions, PayloadTyped
   DEF NoRequest, NoResponse, Requests, Responses, AllReplies

-----------------------------------------------------------------------------
LEMMA HttpInitially ==
  HttpInit => HttpInv
<1> SUFFICES ASSUME HttpInit PROVE HttpInv
  OBVIOUS
<1>1. HttpTypeOK
  <2>1. 0 \in 0..MaxStarts
    BY HttpAssumptions
  <2>2. QED
    BY <2>1, EmptyRequestsTyped, PayloadTyped DEF HttpInit, HttpTypeOK
<1>2. QED
  BY <1>1 DEF HttpInit, HttpInv, Lengths, DigestCovers, AttemptsLeft, NotYetThere, Open4

LEMMA HttpStep ==
  ASSUME HttpInv, [HttpNext]_vars
  PROVE  HttpInv'
<1> USE DEF HttpInv, diskVars, Goto, Return
<1>a. /\ Blocks \in Nat /\ Blocks > 1 /\ MaxAttempts \in Nat \ {0} /\ MaxStarts \in Nat
      /\ NoFile \notin Bytes
  BY HttpAssumptions
<1>b. HttpTypeOK /\ req \in Requests /\ resp \in Responses /\ starts \in Nat
  BY <1>a DEF HttpTypeOK
<1>c. ASSUME at' = "idle", req' = NoRequest, resp' = NoResponse,
             status' \in Failures \cup {"none", "OK"},
             part' \in Bytes \cup {NoFile}, tmp' \in Bytes \cup {NoFile},
             final' \in Bytes \cup {NoFile}, cancel' \in BOOLEAN, starts' = starts
      PROVE  HttpInv'
  BY <1>b, <1>c, EmptyRequestsTyped
     DEF HttpTypeOK, Lengths, DigestCovers, AttemptsLeft, NotYetThere, Open4
<1>d. /\ part \in Bytes \cup {NoFile} /\ tmp \in Bytes \cup {NoFile}
      /\ final \in Bytes \cup {NoFile} /\ cancel \in BOOLEAN
  BY <1>b DEF HttpTypeOK
<1>1. CASE UNCHANGED vars
  BY <1>1 DEF vars, HttpTypeOK, Lengths, DigestCovers, AttemptsLeft, NotYetThere, DigestMatches
<1>2. CASE AlreadyComplete \/ RejectOversize
  BY <1>2, <1>a, <1>b DEF AlreadyComplete, RejectOversize, HttpTypeOK, Lengths, DigestCovers,
     AttemptsLeft, NotYetThere, DigestMatches, Failures, Open4
<1>3. ASSUME NEW isFirst \in BOOLEAN, Start(isFirst)
      PROVE  HttpInv'
  <2>1. Size(part) \in Nat
    BY <1>d DEF Size, Bytes
  <2>2. req' \in Requests
    BY <1>3, <2>1, <1>a DEF Start, Requests
  <2>3. final # Payload
    BY <1>3, PayloadTyped DEF Start, Size
  <2>4. QED
    <3>1. starts' \in 0..MaxStarts
      BY <1>3, <1>a, <1>b DEF Start
    <3>2. HttpTypeOK'
      BY <1>3, <1>b, <1>d, <2>2, <3>1 DEF Start, HttpTypeOK
    <3>3. QED
      BY <1>3, <2>3, <3>2 DEF Start, Lengths, DigestCovers, AttemptsLeft, NotYetThere, Open4
<1>4. CASE StopBeforeAttempt \/ OpenFails \/ WriteFails \/ SidecarFails \/ ServerError
           \/ ChecksumFails \/ Crash
  BY <1>4, <1>c, <1>d DEF StopBeforeAttempt, OpenFails, WriteFails, SidecarFails,
     ServerError, ChecksumFails, Crash, Failures
<1>5. CASE Open
  <2>1. ResumeFrom \in Nat /\ (ResumeFrom = 0 \/ (part # NoFile /\ Len(part) = ResumeFrom))
    BY <1>5, <1>b, <1>d DEF Open, ResumeFrom, ResumeMismatch, Size, Requests, Bytes
  <2>2. part' \in Bytes /\ Len(part') = ResumeFrom
    BY <1>5, <2>1, <1>d, PayloadTyped DEF Open
  <2>3. PICK r \in AllReplies :
          resp' = [prefix |-> ResumeFrom, reply |-> r, sent |-> 0, hashed |-> part']
    BY <1>5 DEF Open, Answers
  <2>4. resp' \in Responses /\ resp'.prefix = ResumeFrom /\ resp'.sent = 0
        /\ resp'.hashed = part'
    BY <2>1, <2>2, <2>3 DEF Responses
  <2>5. QED
    BY <1>5, <1>b, <2>1, <2>2, <2>4 DEF Open, HttpTypeOK, Lengths, DigestCovers,
       AttemptsLeft, NotYetThere, Open4
<1>6. CASE Chunk
  <2> DEFINE b == Body[resp.sent + 1]
  <2>1. b \in Junk..Blocks
    <3>1. resp.sent + 1 \in 1..Len(Body)
      <4>1. resp.sent \in Nat /\ resp.sent < Len(Body)
        BY <1>6, <1>b DEF Chunk, MoreToCome, Responses
      <4>2. Body \in Bytes \/ Len(Body) \in Nat
        <5>1. resp.prefix \in Nat
          BY <1>b DEF Responses
        <5>2. \A j \in (resp.prefix + 1)..Blocks : Payload[j] \in Junk..Blocks
          BY <1>a, <5>1 DEF Payload, Junk
        <5>3. SubSeq(Payload, resp.prefix + 1, Blocks) \in Bytes
          BY <1>a, <5>1, <5>2, SubSeqProperties DEF Bytes
        <5>4. QED
          BY <5>3, PayloadTyped DEF Body
      <4>3. QED
        BY <4>1, <4>2 DEF Bytes
    <3>2. QED
      BY <3>1, <1>b, BodyTyped
  <2>2. part' = Written(b)
    BY <1>6 DEF Chunk
  <2>3. part' \in Bytes \cup {NoFile}
    BY <2>1, <2>2, <1>d DEF Written, Bytes
  <2>4. CASE cancel
    BY <1>6, <2>3, <2>4, <1>c, <1>d DEF Chunk, Failures
  <2>5. CASE ~cancel
    <3>1. /\ resp' = [resp EXCEPT !.sent = @ + 1, !.hashed = Append(@, b)]
          /\ UNCHANGED <<at, status, req, tmp, final, cancel, starts>> /\ at = "stream"
      BY <1>6, <2>5 DEF Chunk, MoreToCome
    <3>2. /\ resp' \in Responses /\ resp'.prefix = resp.prefix
          /\ resp'.sent = resp.sent + 1 /\ resp'.hashed = Append(resp.hashed, b)
      <4>1. Append(resp.hashed, b) \in Bytes
        BY <2>1, <1>b, AppendProperties DEF Responses, Bytes
      <4>2. resp.sent + 1 \in Nat
        BY <1>b DEF Responses
      <4>3. QED
        BY <3>1, <4>1, <4>2, <1>b DEF Responses
    <3>3. part' # NoFile => part # NoFile /\ part' = Append(part, b)
      BY <2>2 DEF Written
    <3>4. Lengths'
      <4>1. part' # NoFile => Len(part') = Len(part) + 1 /\ part \in Bytes
        BY <3>3, <2>1, <1>d DEF Bytes
      <4>2. resp.prefix \in Nat /\ resp.sent \in Nat
        BY <1>b DEF Responses
      <4>3. QED
        BY <3>1, <3>2, <3>3, <4>1, <4>2 DEF Lengths
    <3>5. DigestCovers'
      BY <3>1, <3>2, <3>3 DEF DigestCovers, Open4
    <3>6. HttpTypeOK' /\ AttemptsLeft' /\ NotYetThere'
      BY <3>1, <3>2, <2>3, <1>b DEF HttpTypeOK, AttemptsLeft, NotYetThere
    <3>7. QED
      BY <3>4, <3>5, <3>6
  <2>6. QED
    BY <2>4, <2>5, <1>d
<1>7. CASE StreamEnds \/ Accept
  BY <1>7, <1>b DEF StreamEnds, Accept, HttpTypeOK, Lengths, DigestCovers, AttemptsLeft,
     NotYetThere, Open4
<1>8. ASSUME Transient, at # "idle", part' \in Bytes \cup {NoFile},
             UNCHANGED <<tmp, final, cancel, starts>>
      PROVE  HttpInv'
  <2>1. CASE req.attempt < MaxAttempts /\ ~cancel
    BY <1>8, <2>1, <1>b, EmptyRequestsTyped DEF Transient, HttpTypeOK, Lengths,
       DigestCovers, AttemptsLeft, NotYetThere, Open4
  <2>2. CASE ~(req.attempt < MaxAttempts /\ ~cancel)
    BY <1>8, <2>2, <1>c, <1>d DEF Transient, Failures
  <2>3. QED
    BY <2>1, <2>2
<1>9. CASE ConnectionDrops
  BY <1>9, <1>8, <1>d DEF ConnectionDrops
<1>10. CASE Retry
  <2>1. Size(part) \in Nat
    BY <1>d DEF Size, Bytes
  <2>2. req' \in Requests
    <3>1. req.attempt + 1 \in 0..MaxAttempts
      BY <1>10, <1>a, <1>b DEF Retry, Requests, AttemptsLeft
    <3>2. (IF Size(part) > 0 THEN Size(part) ELSE req.base) \in Nat
      BY <2>1, <1>b DEF Requests
    <3>3. QED
      BY <1>10, <3>1, <3>2, <1>b DEF Retry, Requests
  <2>3. QED
    BY <1>10, <2>2, <1>b DEF Retry, HttpTypeOK, Lengths, DigestCovers, AttemptsLeft,
       NotYetThere, Open4
<1>e. ASSUME at = "judge", part # NoFile
      PROVE  Truncated \in Bytes
  <2>1. part \in Bytes /\ resp.prefix \in Nat /\ resp.sent \in Nat
        /\ Len(part) = resp.prefix + resp.sent
    BY <1>e, <1>b, <1>d DEF Lengths, Responses
  <2>2. 1 \in 1..(Len(part) + 1) /\ resp.prefix \in 0..Len(part)
    BY <2>1
  <2>3. QED
    BY <2>1, <2>2, CutTyped DEF Truncated
<1>11. CASE CompleteVia416
  <2>1. part' \in Bytes \cup {NoFile}
    BY <1>11, <1>e DEF CompleteVia416
  <2>2. ReadBack(part') \in Bytes
    BY <2>1, PayloadTyped DEF ReadBack
  <2>3. resp' \in Responses /\ resp'.hashed = ReadBack(part')
    BY <1>11, <2>2, <1>b DEF CompleteVia416, Responses
  <2>4. QED
    BY <1>11, <2>1, <2>3, <1>b DEF CompleteVia416, HttpTypeOK, Lengths, DigestCovers,
       AttemptsLeft, NotYetThere, ReadBack, Open4
<1>12. CASE RollBack416
  <2>1. part' \in Bytes \cup {NoFile}
    BY <1>12, <1>b, <1>e DEF RollBack416, Responses
  <2>2. QED
    BY <1>12, <2>1, <1>8 DEF RollBack416
<1>13. CASE ShiftOut
  BY <1>13, <1>b, <1>d, PayloadTyped DEF ShiftOut, HttpTypeOK, Lengths, DigestCovers,
     AttemptsLeft, NotYetThere, Open4
<1>f. ASSUME at = "shift", NEW n \in resp.prefix..Len(tmp)
      PROVE  CopiedUpTo(n) \in Bytes \cup {NoFile}
  <2>1. /\ tmp \in Bytes /\ resp.prefix \in Nat /\ resp.sent \in Nat
        /\ Len(tmp) = resp.prefix + resp.sent
    BY <1>f, <1>b, <1>d DEF HttpTypeOK, Lengths, Responses
  <2>2. resp.prefix + 1 \in 1..(Len(tmp) + 1) /\ n \in 0..Len(tmp)
    BY <2>1
  <2>3. QED
    BY <2>1, <2>2, CutTyped DEF CopiedUpTo
<1>g. ASSUME at = "shift", at' = "verify", part' \in Bytes \cup {NoFile}, tmp' = NoFile,
             resp' = [resp EXCEPT !.hashed = ReadBack(part')],
             UNCHANGED <<final, cancel, req, status, starts>>
      PROVE  HttpInv'
  <2>1. ReadBack(part') \in Bytes
    BY <1>g, PayloadTyped DEF ReadBack
  <2>2. resp' \in Responses /\ resp'.hashed = ReadBack(part')
    BY <1>g, <2>1, <1>b DEF Responses
  <2>3. QED
    BY <1>g, <2>2, <1>b DEF HttpTypeOK, Lengths, DigestCovers,
       AttemptsLeft, NotYetThere, ReadBack, Open4
<1>h. at = "shift" => Len(tmp) \in resp.prefix..Len(tmp)
  BY <1>b, <1>d DEF HttpTypeOK, Lengths, Responses
<1>14. CASE ShiftBack
  <2>1. part' \in Bytes \cup {NoFile}
    BY <1>14, <1>f, <1>h DEF ShiftBack
  <2>2. QED
    BY <1>14, <1>g, <2>1 DEF ShiftBack
<1>20. CASE RestoreFails
  BY <1>20, <1>c, <1>d, PayloadTyped DEF RestoreFails, Failures
<1>21. CASE ShiftCutShort
  <2>1. PICK n \in resp.prefix..(Len(tmp) - 1) : part' = CopiedUpTo(n)
    BY <1>21 DEF ShiftCutShort
  <2>2. at = "shift" /\ n \in resp.prefix..Len(tmp)
    BY <1>21, <2>1, <1>h, <1>b DEF ShiftCutShort, Responses
  <2>3. part' \in Bytes \cup {NoFile}
    BY <1>f, <2>1, <2>2
  <2>4. CASE Return("FILE_ERROR")
    BY <1>21, <2>3, <2>4, <1>c, <1>d DEF ShiftCutShort, Failures
  <2>5. CASE Goto("verify") /\ UNCHANGED req /\ resp' = [resp EXCEPT !.hashed = ReadBack(part')]
    BY <1>21, <2>3, <2>5, <1>g DEF ShiftCutShort
  <2>6. QED
    BY <1>21, <2>4, <2>5 DEF ShiftCutShort
<1>15. CASE RemoveStale
  BY <1>15, <1>b, PayloadTyped DEF RemoveStale, HttpTypeOK, Lengths, DigestCovers,
     AttemptsLeft, NotYetThere, DigestMatches, Open4
<1>16. CASE Rename
  BY <1>16, <1>c, <1>d DEF Rename, Failures
<1>17. CASE RequestCancel
  BY <1>17, <1>b DEF RequestCancel, HttpTypeOK, Lengths, DigestCovers, AttemptsLeft,
     NotYetThere, DigestMatches
<1>18. CASE Sweep
  BY <1>18, <1>b DEF Sweep, HttpTypeOK, Lengths, DigestCovers, AttemptsLeft,
     NotYetThere, DigestMatches
<1>19. QED
  BY <1>1, <1>2, <1>3, <1>4, <1>5, <1>6, <1>7, <1>9, <1>10, <1>11, <1>12, <1>13, <1>14,
     <1>15, <1>16, <1>17, <1>18, <1>20, <1>21 DEF HttpNext, Transfer

LEMMA HttpInvariant ==
  HttpSpec => []HttpInv
BY HttpInitially, HttpStep, PTL DEF HttpSpec

(* The variables of a transfer keep to their types.                        *)
THEOREM HttpTypeCorrect ==
  HttpSpec => []HttpTypeOK
BY HttpInvariant, PTL DEF HttpInv

-----------------------------------------------------------------------------
(* The payload of a file with a checksum replaces nothing but itself.      *)
LEMMA FinalStep ==
  ASSUME Checked, HttpInv, FinalIsWhole, [HttpNext]_vars
  PROVE  FinalIsWhole'
<1> USE DEF HttpInv, diskVars, Goto, Return
<1>1. CASE Rename
  <2>1. part # NoFile => part = Payload
    BY <1>1 DEF Rename, NotYetThere, DigestMatches, DigestCovers, Open4
  <2>2. QED
    BY <1>1, <2>1 DEF Rename, FinalIsWhole
<1>2. CASE RemoveStale
  BY <1>2 DEF RemoveStale, FinalIsWhole
<1>3. CASE UNCHANGED final
  BY <1>3 DEF FinalIsWhole, Older, Payload
<1>4. QED
  BY <1>1, <1>2, <1>3 DEF HttpNext, Transfer, vars, AlreadyComplete, RejectOversize, Start,
     StopBeforeAttempt, OpenFails, Open, Chunk, WriteFails, StreamEnds, ConnectionDrops,
     Retry, SidecarFails, CompleteVia416, RollBack416, ShiftOut, ShiftBack, RestoreFails,
     ShiftCutShort, ServerError, Accept, ChecksumFails, RequestCancel, Sweep, Crash

LEMMA FinalInvariant ==
  ASSUME Checked
  PROVE  HttpSpec => [](HttpInv /\ FinalIsWhole)
<1>1. HttpInit => FinalIsWhole
  BY DEF HttpInit, FinalIsWhole
<1>2. HttpInv /\ FinalIsWhole /\ [HttpNext]_vars => FinalIsWhole'
  BY FinalStep
<1>3. QED
  BY HttpInvariant, <1>1, <1>2, PTL DEF HttpSpec

(* With a checksum, the destination holds what it held before, nothing, or *)
(* the whole payload, whatever the server, the disk and the clients do     *)
(* (rac_http_download.cpp:731-778).                                        *)
THEOREM FinalAlwaysWhole ==
  ASSUME Checked
  PROVE  HttpSpec => []FinalIsWhole
BY FinalInvariant, PTL

-----------------------------------------------------------------------------
LEMMA StepKeepsPromise ==
  ASSUME Checked, HttpInv, FinalIsWhole, [HttpNext]_vars
  PROVE  [Promise!Next]_(Promise!transferVars)
<1> USE DEF HttpInv, diskVars, Goto, Return, Promise!Next, Promise!transferVars
<1>0. FinalIsWhole' /\ (at # "idle" => status = "none")
  BY FinalStep DEF HttpTypeOK
<1>1. CASE Rename
  <2>1. /\ final = NoFile /\ status = "none"
        /\ part # NoFile => part = Payload
    BY <1>1, <1>0 DEF Rename, NotYetThere, DigestMatches, DigestCovers, Open4
  <2>2. CASE status' = "FILE_ERROR" /\ UNCHANGED final
    BY <2>2 DEF Promise!Fail, Dest, Failures, Payload
  <2>3. CASE part # NoFile /\ status' = "OK" /\ final' = part
    BY <2>1, <2>3, PayloadTyped DEF Promise!Land, Dest
  <2>4. QED
    BY <1>1, <2>2, <2>3 DEF Rename
<1>2. CASE RemoveStale
  BY <1>2, <1>0, PayloadTyped DEF RemoveStale, Promise!Discard, Dest, NotYetThere, FinalIsWhole
<1>3. CASE AlreadyComplete
  <2>1. final = Payload
    <3>1. Size(NoFile) = 0 /\ Size(Older) = 1 /\ Blocks > 1
      BY PayloadTyped, HttpAssumptions DEF Size
    <3>2. final # NoFile /\ final # Older
      BY <1>3, <3>1, HttpAssumptions DEF AlreadyComplete
    <3>3. QED
      BY <3>2 DEF FinalIsWhole
  <2>2. QED
    BY <1>3, <2>1, PayloadTyped DEF AlreadyComplete, Promise!Confirm, Dest
<1>4. CASE UNCHANGED final /\ (status' = status \/ status' = "none" \/ status' \in Failures)
  BY <1>4 DEF Dest, Promise!Forget, Promise!Fail, Payload
<1>5. CASE Transient /\ UNCHANGED final
  BY <1>5, <1>4 DEF Transient, Failures
<1>6. QED
  BY <1>1, <1>2, <1>3, <1>4, <1>5 DEF HttpNext, Transfer, vars, RejectOversize, Start,
     StopBeforeAttempt, OpenFails, Open, Chunk, WriteFails, StreamEnds, ConnectionDrops,
     Retry, SidecarFails, CompleteVia416, RollBack416, ShiftOut, ShiftBack, RestoreFails,
     ShiftCutShort, ServerError, Accept, ChecksumFails, RequestCancel, Sweep, Crash, Failures

(* With a checksum, the transfer implements FileTransfer.                  *)
THEOREM TransferImplements ==
  ASSUME Checked
  PROVE  HttpSpec => KeepsPromise
<1>1. HttpInit => Promise!Init
  BY PayloadTyped DEF HttpInit, Promise!Init, Dest
<1>2. HttpInv /\ FinalIsWhole /\ [HttpNext]_vars => [Promise!Next]_(Promise!transferVars)
  BY StepKeepsPromise
<1>3. QED
  BY <1>1, <1>2, FinalInvariant, PTL DEF HttpSpec, KeepsPromise, Promise!Spec
-----------------------------------------------------------------------------
(* What the open partial holds beyond the prefix it was opened with: the   *)
(* body, block by block; and while a replay is shifted, the payload.       *)
Streamed ==
  /\ at \in {"stream", "judge"} =>
       /\ resp.sent <= Len(Body)
       /\ resp.reply = "complete" => resp.prefix = Blocks
       /\ part # NoFile => \A j \in 1..resp.sent : part[resp.prefix + j] = Body[j]
  /\ at = "shift" =>
       /\ resp.prefix \in 1..resp.sent /\ resp.sent <= Blocks
       /\ \A j \in 1..resp.sent : tmp[resp.prefix + j] = j
       /\ part \in {NoFile, <<>>}

LEMMA BodyLength ==
  ASSUME HttpTypeOK
  PROVE  /\ Len(Body) \in Nat
         /\ resp.reply = "full" => Body = Payload
         /\ resp.reply \notin {"full", "tail"} => Body = <<Junk>>
<1>1. resp.prefix \in Nat /\ Blocks \in Nat
  BY HttpAssumptions DEF HttpTypeOK, Responses
<1>2. \A j \in (resp.prefix + 1)..Blocks : Payload[j] \in Junk..Blocks
  BY <1>1 DEF Payload, Junk
<1>3. SubSeq(Payload, resp.prefix + 1, Blocks) \in Bytes
  BY <1>1, <1>2, SubSeqProperties DEF Bytes
<1>4. Body \in Bytes
  BY <1>3, PayloadTyped DEF Body
<1>5. Len(Body) \in Nat
  BY <1>4 DEF Bytes
<1>6. QED
  BY <1>5 DEF Body

LEMMA StreamedStep ==
  ASSUME HttpInv, Streamed, [HttpNext]_vars
  PROVE  Streamed'
<1> USE DEF HttpInv, diskVars, Goto, Return
<1>1. /\ HttpTypeOK /\ resp \in Responses /\ resp.prefix \in Nat /\ resp.sent \in Nat /\ Blocks \in Nat
      /\ part \in Bytes \cup {NoFile} /\ NoFile \notin Bytes /\ <<>> \in Bytes
  BY HttpAssumptions, PayloadTyped DEF HttpTypeOK, Responses
<1>2. ASSUME at' \notin {"stream", "judge", "shift"}
      PROVE  Streamed'
  BY <1>2 DEF Streamed
<1>3. ASSUME at' = at, UNCHANGED <<tmp, resp>>, part' \in {part, NoFile}
      PROVE  Streamed'
  <2>1. Body' = Body
    BY <1>3 DEF Body
  <2>2. QED
    BY <1>3, <2>1 DEF Streamed
<1>4. CASE Open
  <2>1. PICK r \in Answers(ResumeFrom) :
          resp' = [prefix |-> ResumeFrom, reply |-> r, sent |-> 0, hashed |-> part']
    BY <1>4 DEF Open
  <2>2. /\ resp'.sent = 0 /\ resp'.prefix = ResumeFrom /\ resp'.reply = r
        /\ r = "complete" => ResumeFrom = Blocks
    BY <2>1 DEF Answers
  <2>3. Len(Body') \in Nat
    <3>1. ResumeFrom \in Nat
      BY <1>1, HttpAssumptions DEF HttpTypeOK, Requests, ResumeFrom, Size, Bytes
    <3>2. \A j \in (ResumeFrom + 1)..Blocks : Payload[j] \in Junk..Blocks
      BY <1>1, <3>1 DEF Payload, Junk
    <3>3. SubSeq(Payload, ResumeFrom + 1, Blocks) \in Bytes
      BY <1>1, <3>1, <3>2, SubSeqProperties DEF Bytes
    <3>4. Body' \in Bytes
      BY <2>2, <3>3, PayloadTyped DEF Body
    <3>5. QED
      BY <3>4 DEF Bytes
  <2>4. QED
    BY <1>4, <2>2, <2>3 DEF Open, Streamed
<1>5. CASE Chunk
  <2> DEFINE b == Body[resp.sent + 1]
  <2>1. CASE cancel
    BY <1>2, <1>5, <2>1 DEF Chunk
  <2>2. CASE ~cancel
    <3>1. /\ at = "stream" /\ at' = "stream" /\ resp.sent < Len(Body)
          /\ part' = Written(b) /\ UNCHANGED tmp
          /\ resp' = [resp EXCEPT !.sent = @ + 1, !.hashed = Append(@, b)]
      BY <1>5, <2>2 DEF Chunk, MoreToCome
    <3>2. /\ resp'.sent = resp.sent + 1 /\ resp'.prefix = resp.prefix /\ resp'.reply = resp.reply
      BY <1>1, <3>1 DEF Responses
    <3>3. Body' = Body
      BY <3>2 DEF Body
    <3>4. ASSUME part # NoFile, NEW j \in 1..(resp.sent + 1)
          PROVE  Append(part, b)[resp.prefix + j] = Body[j]
      <4>1. part \in Bytes /\ Len(part) = resp.prefix + resp.sent
        BY <1>1, <3>1, <3>4 DEF Lengths
      <4>2. CASE j = resp.sent + 1
        <5>1. resp.prefix + j = Len(part) + 1
          BY <1>1, <4>1, <4>2
        <5>2. Append(part, b)[Len(part) + 1] = b
          BY <4>1, AppendProperties DEF Bytes
        <5>3. QED
          BY <4>2, <5>1, <5>2
      <4>3. CASE j # resp.sent + 1
        <5>1. j \in 1..resp.sent /\ resp.prefix + j \in 1..Len(part)
          BY <1>1, <4>1, <4>3
        <5>2. Append(part, b)[resp.prefix + j] = part[resp.prefix + j]
          BY <4>1, <5>1 DEF Bytes
        <5>3. QED
          BY <3>1, <3>4, <5>1, <5>2 DEF Streamed
      <4>4. QED
        BY <4>2, <4>3
    <3>5. Len(Body) \in Nat
      BY <1>1, BodyLength
    <3>6. part' # NoFile => part # NoFile /\ part' = Append(part, b)
      BY <3>1 DEF Written
    <3>7. resp'.sent <= Len(Body)
      BY <1>1, <3>1, <3>2, <3>5
    <3>8. QED
      BY <3>1, <3>2, <3>3, <3>4, <3>6, <3>7 DEF Streamed
  <2>3. QED
    BY <2>1, <2>2
<1>6. CASE StreamEnds
  <2>1. Body' = Body
    BY <1>6 DEF StreamEnds, Body
  <2>2. QED
    BY <1>6, <2>1 DEF StreamEnds, Streamed
<1>7. CASE ShiftOut
  <2>1. /\ at = "judge" /\ resp.reply = "full" /\ resp.prefix > 0 /\ resp.sent >= resp.prefix
        /\ part # NoFile /\ tmp' = part /\ part' = <<>> /\ resp' = resp /\ at' = "shift"
    BY <1>7 DEF ShiftOut, Replayed
  <2>2. Body = Payload /\ Len(Payload) = Blocks
    BY <1>1, <2>1, BodyLength, PayloadTyped
  <2>3. resp.sent <= Blocks /\ \A j \in 1..resp.sent : part[resp.prefix + j] = Payload[j]
    BY <2>1, <2>2 DEF Streamed
  <2>4. \A j \in 1..resp.sent : Payload[j] = j
    BY <1>1, <2>3 DEF Payload
  <2>5. resp.prefix \in 1..resp.sent
    BY <1>1, <2>1
  <2>6. ASSUME NEW j \in 1..resp.sent
        PROVE  part[resp.prefix + j] = j
    BY <2>1, <2>3, <2>4, <2>6
  <2>7. /\ resp'.prefix \in 1..resp'.sent /\ resp'.sent <= Blocks
        /\ \A j \in 1..resp'.sent : tmp'[resp'.prefix + j] = j
        /\ part' \in {NoFile, <<>>}
    BY <2>1, <2>3, <2>5, <2>6
  <2>8. QED
    BY <2>1, <2>7 DEF Streamed
<1>8. CASE CompleteVia416 \/ RollBack416 \/ ConnectionDrops \/ ShiftBack \/ Accept \/ Retry
           \/ RemoveStale \/ Rename \/ SidecarFails \/ ServerError \/ ChecksumFails \/ WriteFails
           \/ StopBeforeAttempt \/ OpenFails \/ Crash \/ AlreadyComplete \/ RejectOversize
           \/ RestoreFails \/ ShiftCutShort \/ \E isFirst \in BOOLEAN : Start(isFirst)
  BY <1>2, <1>8 DEF CompleteVia416, RollBack416, ConnectionDrops, Transient, ShiftBack, Accept, Retry,
     RemoveStale, Rename, SidecarFails, ServerError, ChecksumFails, WriteFails, StopBeforeAttempt,
     OpenFails, Crash, AlreadyComplete, RejectOversize, RestoreFails, ShiftCutShort, Start
<1>9. CASE RequestCancel \/ Sweep \/ UNCHANGED vars
  BY <1>3, <1>9 DEF RequestCancel, Sweep, vars
<1>10. QED
  BY <1>4, <1>5, <1>6, <1>7, <1>8, <1>9 DEF HttpNext, Transfer

-----------------------------------------------------------------------------
(* How much of the payload a file starts with, and when another file       *)
(* starts with at least as much.                                           *)
GoodSet(f) == {n \in 1..Len(f) : n <= Blocks /\ \A i \in 1..n : f[i] = i}

LEMMA GoodBlocksOf ==
  ASSUME NEW f \in Bytes
  PROVE  /\ GoodSet(f) \subseteq 1..Blocks /\ IsFiniteSet(GoodSet(f))
         /\ GoodBlocks(f) = Cardinality(GoodSet(f)) /\ GoodBlocks(f) \in Nat
<1>1. Len(f) \in Nat /\ f # NoFile /\ Blocks \in Nat
  BY HttpAssumptions DEF Bytes
<1>2. GoodSet(f) \subseteq 1..Blocks
  BY <1>1 DEF GoodSet
<1>3. IsFiniteSet(1..Blocks)
  BY <1>1, FS_Interval
<1>4. IsFiniteSet(GoodSet(f))
  BY <1>2, <1>3, FS_Subset
<1>5. GoodBlocks(f) = Cardinality(GoodSet(f))
  BY <1>1 DEF GoodBlocks, GoodSet
<1>6. QED
  BY <1>2, <1>4, <1>5, FS_CardinalityType

LEMMA GoodMonotone ==
  ASSUME NEW f \in Bytes, NEW g \in Bytes, GoodSet(f) \subseteq GoodSet(g)
  PROVE  GoodBlocks(g) >= GoodBlocks(f)
<1>1. Cardinality(GoodSet(f)) <= Cardinality(GoodSet(g))
  BY GoodBlocksOf, FS_Subset
<1>2. QED
  BY <1>1, GoodBlocksOf

(* A file that is not there, is empty or starts with an error page is      *)
(* worth nothing.                                                          *)
LEMMA GoodNone ==
  ASSUME NEW f \in Bytes \cup {NoFile}, f = NoFile \/ f = <<>> \/ f[1] = Junk,
         NEW g \in Bytes \cup {NoFile}
  PROVE  GoodBlocks(g) >= GoodBlocks(f)
<1>1. GoodBlocks(g) \in Nat
  <2>1. CASE g = NoFile
    BY <2>1 DEF GoodBlocks
  <2>2. CASE g \in Bytes
    BY <2>2, GoodBlocksOf
  <2>3. QED
    BY <2>1, <2>2
<1>2. GoodBlocks(f) = 0
  <2>1. CASE f = NoFile
    BY <2>1 DEF GoodBlocks
  <2>2. CASE f \in Bytes /\ f # NoFile
    <3>1. GoodSet(f) = {}
      <4>1. ASSUME NEW n \in GoodSet(f) PROVE FALSE
        <5>1. n \in 1..Len(f) /\ f[1] = 1 /\ Len(f) \in Nat
          BY <2>2 DEF GoodSet, Bytes
        <5>2. QED
          BY <2>2, <5>1 DEF Junk
      <4>2. QED
        BY <4>1
    <3>2. QED
      BY <2>2, <3>1, GoodBlocksOf, FS_EmptySet
  <2>3. QED
    BY <2>1, <2>2
<1>3. QED
  BY <1>1, <1>2

(* Writing on keeps what there is.                                         *)
LEMMA GoodAppend ==
  ASSUME NEW f \in Bytes, NEW b \in Junk..Blocks
  PROVE  Append(f, b) \in Bytes /\ GoodBlocks(Append(f, b)) >= GoodBlocks(f)
<1>1. /\ Append(f, b) \in Bytes /\ Len(f) \in Nat /\ Len(Append(f, b)) = Len(f) + 1
      /\ \A i \in 1..Len(f) : Append(f, b)[i] = f[i]
  BY AppendProperties DEF Bytes
<1>2. GoodSet(f) \subseteq GoodSet(Append(f, b))
  BY <1>1 DEF GoodSet
<1>3. QED
  BY <1>1, <1>2, GoodMonotone

(* Cutting a file where the payload ends, or where it goes wrong, loses    *)
(* nothing.                                                                *)
LEMMA GoodCut ==
  ASSUME NEW f \in Bytes, NEW n \in 0..Len(f),
         n >= Blocks \/ n = Len(f) \/ f[n + 1] # n + 1
  PROVE  SubSeq(f, 1, n) \in Bytes /\ GoodBlocks(SubSeq(f, 1, n)) >= GoodBlocks(f)
<1>1. Len(f) \in Nat /\ n \in Nat /\ Blocks \in Nat
  BY HttpAssumptions DEF Bytes
<1>2. SubSeq(f, 1, n) \in Bytes
  BY <1>1, CutTyped
<1>3. /\ Len(SubSeq(f, 1, n)) = n
      /\ \A i \in 1..n : SubSeq(f, 1, n)[i] = f[i]
  BY <1>1, <1>2 DEF Bytes
<1>4. GoodSet(f) \subseteq GoodSet(SubSeq(f, 1, n))
  <2> SUFFICES ASSUME NEW k \in GoodSet(f) PROVE k \in GoodSet(SubSeq(f, 1, n))
    OBVIOUS
  <2>1. k \in 1..Len(f) /\ k <= Blocks /\ \A i \in 1..k : f[i] = i
    BY DEF GoodSet
  <2>2. k <= n
    <3>1. CASE k > n
      <4>1. n + 1 \in 1..k /\ n < Blocks /\ n # Len(f)
        BY <1>1, <2>1, <3>1
      <4>2. QED
        BY <1>1, <2>1, <4>1
    <3>2. QED
      BY <1>1, <2>1, <3>1
  <2>3. QED
    BY <1>1, <1>3, <2>1, <2>2 DEF GoodSet
<1>5. QED
  BY <1>2, <1>4, GoodMonotone

(* Taking the old prefix out of a partial with a whole replay behind it.   *)
LEMMA GoodShift ==
  ASSUME NEW f \in Bytes, NEW p \in Nat, NEW k \in Nat, p \in 1..k, k <= Blocks, Len(f) = p + k,
         \A j \in 1..k : f[p + j] = j
  PROVE  /\ SubSeq(f, p + 1, Len(f)) \in Bytes
         /\ GoodBlocks(SubSeq(f, p + 1, Len(f))) >= GoodBlocks(f)
<1> DEFINE g == SubSeq(f, p + 1, Len(f))
<1>1. Len(f) \in Nat /\ Blocks \in Nat
  BY HttpAssumptions DEF Bytes
<1>2. g \in Bytes
  BY <1>1, CutTyped
<1>3. Len(g) = k /\ \A i \in 1..k : g[i] = f[p + i]
  BY <1>1, <1>2 DEF Bytes
<1>4. GoodSet(f) \subseteq GoodSet(g)
  <2> SUFFICES ASSUME NEW n \in GoodSet(f) PROVE n \in GoodSet(g)
    OBVIOUS
  <2>1. n \in 1..Len(f) /\ n <= Blocks /\ \A i \in 1..n : f[i] = i
    BY DEF GoodSet
  <2>2. n <= p
    <3>1. CASE n > p
      <4>1. p + 1 \in 1..n /\ f[p + 1] = 1
        BY <1>1, <2>1, <3>1
      <4>2. f[p + 1] = p + 1
        BY <2>1, <4>1
      <4>3. QED
        BY <4>1, <4>2
    <3>2. QED
      BY <1>1, <2>1, <3>1
  <2>3. QED
    BY <1>1, <1>3, <2>1, <2>2 DEF GoodSet
<1>5. QED
  BY <1>2, <1>4, GoodMonotone

-----------------------------------------------------------------------------
(* A step leaves at least as much of the payload on disk as it found.      *)
KeepsGood == \A f \in Held : \E g \in Held' : GoodBlocks(g) >= GoodBlocks(f)

LEMMA GoodKept ==
  ASSUME HttpInv, FinalIsWhole, Streamed, Transfer, ~CopyFails, part # NoFile
  PROVE  KeepsGood
<1> USE DEF HttpInv, diskVars, Goto, Return
<1>1. /\ HttpTypeOK /\ HttpTypeOK'
      /\ part \in Bytes /\ final \in Bytes \cup {NoFile} /\ tmp \in Bytes \cup {NoFile}
      /\ resp.prefix \in Nat /\ resp.sent \in Nat /\ Blocks \in Nat /\ NoFile \notin Bytes
      /\ part' \in Bytes \cup {NoFile}
  <2>1. HttpTypeOK'
    BY HttpStep DEF HttpNext
  <2>2. QED
    BY <2>1, HttpAssumptions DEF HttpTypeOK, Responses
<1>2. ASSUME NEW f \in Bytes \cup {NoFile} PROVE GoodBlocks(f) >= GoodBlocks(f)
  <2>1. CASE f = NoFile
    BY <2>1 DEF GoodBlocks
  <2>2. CASE f \in Bytes
    BY <2>2, GoodBlocksOf
  <2>3. QED
    BY <2>1, <2>2
<1>3. at # "shift" => Held = {part, final}
  BY DEF Held
<1>4. part' \in Held' /\ final' \in Held' /\ (at' = "shift" => tmp' \in Held')
  BY DEF Held
<1>5. ASSUME at # "shift", final' = final, GoodBlocks(part') >= GoodBlocks(part)
      PROVE  KeepsGood
  BY <1>1, <1>2, <1>3, <1>4, <1>5 DEF KeepsGood
<1>6. CASE at # "shift" /\ final' = final /\ part' = part
  BY <1>1, <1>2, <1>5, <1>6
<1>7. CASE Open
  <2>1. CASE ResumeFrom = 0
    <3>1. part = <<>> \/ part[1] = Junk
      <4>1. req.resume = 0 => Size(part) = 0 \/ part[1] = Junk
        BY <1>1, <2>1 DEF ResumeFrom, LooksLikeStub, Size, Bytes
      <4>2. req.resume \in Nat /\ ResumeFrom = 0 => req.resume = 0 \/ ResumeFrom = req.resume
        BY DEF ResumeFrom
      <4>3. req.resume = 0
        BY <2>1, <4>2 DEF ResumeFrom
      <4>4. QED
        BY <1>1, <4>1, <4>3 DEF Size, Bytes
    <3>2. QED
      BY <1>1, <1>5, <1>7, <3>1, GoodNone DEF Open
  <2>2. CASE ResumeFrom # 0
    BY <1>6, <1>7, <2>2 DEF Open
  <2>3. QED
    BY <2>1, <2>2
<1>8. CASE Chunk
  <2>1. Body[resp.sent + 1] \in Junk..Blocks
    <3>1. resp.sent + 1 \in 1..Len(Body)
      BY <1>1, <1>8, BodyLength DEF Chunk, MoreToCome
    <3>2. QED
      BY <1>1, <3>1, BodyTyped
  <2>2. part' = Append(part, Body[resp.sent + 1]) /\ at # "shift" /\ final' = final
    BY <1>8 DEF Chunk, MoreToCome, Written
  <2>3. QED
    BY <1>1, <1>5, <2>1, <2>2, GoodAppend
<1>9. ASSUME at = "judge", resp.reply \notin {"full", "tail"}
      PROVE  /\ resp.prefix \in 0..Len(part) /\ Len(part) = resp.prefix + resp.sent
             /\ resp.prefix = Len(part) \/ (part[resp.prefix + 1] = Junk /\ Junk # resp.prefix + 1)
  <2>1. Len(part) = resp.prefix + resp.sent
    BY <1>9 DEF Lengths
  <2>2. resp.sent # 0 => part[resp.prefix + 1] = Body[1] /\ Body[1] = Junk
    <3>1. resp.sent # 0 => 1 \in 1..resp.sent
      BY <1>1
    <3>2. Body = <<Junk>>
      BY <1>1, <1>9, BodyLength
    <3>3. QED
      BY <1>9, <3>1, <3>2 DEF Streamed
  <2>3. Junk # resp.prefix + 1
    BY <1>1 DEF Junk
  <2>4. QED
    BY <1>1, <2>1, <2>2, <2>3
<1>10. CASE CompleteVia416
  <2>1. at = "judge" /\ resp.reply = "complete" /\ part' = SubSeq(part, 1, resp.prefix) /\ final' = final
    BY <1>10 DEF CompleteVia416, Truncated
  <2>2. QED
    BY <1>1, <1>5, <1>9, <2>1, GoodCut
<1>11. CASE RollBack416
  <2>1. /\ at = "judge" /\ resp.reply = "unsatisfiable" /\ final' = final
        /\ part' = IF resp.prefix > 0 THEN SubSeq(part, 1, resp.prefix) ELSE NoFile
    BY <1>11 DEF RollBack416, Truncated
  <2>2. CASE resp.prefix > 0
    BY <1>1, <1>5, <1>9, <2>1, <2>2, GoodCut
  <2>3. CASE ~(resp.prefix > 0)
    <3>1. resp.prefix = 0
      BY <1>1, <2>3
    <3>2. part = <<>> \/ part[1] = Junk
      BY <1>1, <1>9, <2>1, <3>1 DEF Bytes
    <3>3. QED
      BY <1>1, <1>5, <2>1, <3>2, GoodNone
  <2>4. QED
    BY <2>2, <2>3
<1>12. CASE ShiftOut
  <2>1. at = "judge" /\ at' = "shift" /\ tmp' = part /\ final' = final
    BY <1>12 DEF ShiftOut
  <2>2. QED
    BY <1>1, <1>2, <1>3, <1>4, <2>1 DEF KeepsGood
<1>13. CASE ShiftBack
  <2>1. /\ at = "shift" /\ part' = SubSeq(tmp, resp.prefix + 1, Len(tmp)) /\ final' = final
        /\ tmp \in Bytes /\ Len(tmp) = resp.prefix + resp.sent
    BY <1>1, <1>13 DEF ShiftBack, CopiedUpTo, HttpTypeOK, Lengths
  <2>2. /\ resp.prefix \in 1..resp.sent /\ resp.sent <= Blocks /\ part = <<>>
        /\ \A j \in 1..resp.sent : tmp[resp.prefix + j] = j
    BY <2>1 DEF Streamed
  <2>3. GoodBlocks(part') >= GoodBlocks(tmp)
    BY <1>1, <2>1, <2>2, GoodShift
  <2>4. GoodBlocks(part') >= GoodBlocks(part)
    BY <1>1, <2>2, GoodNone
  <2>5. Held = {part, final, tmp}
    BY <2>1 DEF Held
  <2>6. QED
    BY <1>1, <1>2, <1>4, <2>1, <2>3, <2>4, <2>5 DEF KeepsGood
<1>14. CASE RemoveStale
  <2>1. at = "verify" /\ part' = part /\ final # Payload
    BY <1>14 DEF RemoveStale, NotYetThere
  <2>2. final = NoFile \/ final[1] = Junk
    BY <2>1 DEF FinalIsWhole, Older
  <2>3. QED
    BY <1>1, <1>2, <1>3, <1>4, <2>1, <2>2, GoodNone DEF KeepsGood
<1>15. CASE Rename
  <2>1. CASE part' = part /\ final' = final
    BY <1>6, <1>15, <2>1 DEF Rename
  <2>2. CASE final' = part
    <3>1. at = "rename" /\ final = NoFile
      BY <1>15 DEF Rename, NotYetThere
    <3>2. QED
      BY <1>1, <1>2, <1>3, <1>4, <2>2, <3>1, GoodNone DEF KeepsGood
  <2>3. QED
    BY <1>15, <2>1, <2>2 DEF Rename
<1>16. CASE StopBeforeAttempt \/ OpenFails \/ WriteFails \/ StreamEnds \/ ConnectionDrops
  BY <1>6, <1>16 DEF StopBeforeAttempt, OpenFails, WriteFails, MoreToCome, StreamEnds, ConnectionDrops
<1>17. CASE Retry \/ SidecarFails \/ ServerError \/ Accept \/ ChecksumFails
  BY <1>6, <1>17 DEF Retry, SidecarFails, ServerError, Accept, ChecksumFails
<1>18. QED
  BY <1>7, <1>8, <1>10, <1>11, <1>12, <1>13, <1>14, <1>15, <1>16, <1>17 DEF Transfer, CopyFails

(* With a checksum, while nobody deletes the partial, the one step of a    *)
(* transfer that loses payload that had reached the disk is a shift that   *)
(* cannot finish its copy (rac_http_download.cpp:666-692).                 *)
THEOREM NoGoodPrefixLost ==
  ASSUME Checked
  PROVE  HttpSpec => GoodPrefixKept
<1>1. HttpInit => Streamed
  BY DEF HttpInit, Streamed
<1>2. HttpInv /\ Streamed /\ [HttpNext]_vars => Streamed'
  BY StreamedStep
<1>3. HttpInv /\ FinalIsWhole /\ Streamed =>
        [Transfer /\ ~CopyFails /\ part # NoFile =>
           \A f \in Held : \E g \in Held' : GoodBlocks(g) >= GoodBlocks(f)]_vars
  BY GoodKept DEF KeepsGood
<1>4. QED
  BY <1>1, <1>2, <1>3, FinalInvariant, PTL DEF HttpSpec, GoodPrefixKept
=============================================================================
