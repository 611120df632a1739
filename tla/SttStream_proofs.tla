--------------------------- MODULE SttStream_proofs ---------------------------
(***************************************************************************)
(* For every set of threads and sessions: the feeds and dispatches a       *)
(* session counts are the threads that are in them, one thread cleans a    *)
(* session up, and so a session that has left the registry is silent, none *)
(* survives a teardown, and every provider stream has one keeper.          *)
(***************************************************************************)
EXTENDS SttStream, FiniteSetTheorems, TLAPS

ProviderPoints == {"call", "provider", "provided", "dispatch", "callback"}
FeedOnly == {"create", "install", "discard", "buffer", "release"}
CleanPoints == {"take", "admit", "close", "erase", "destroy", "finish"}
OutsidePoints == {"idle", "sweep", "lock", "hush", "drain", "reopen", "quiesce"}
TearPoints == {"sweep", "end", "wait", "take", "close", "erase", "destroy", "finish",
               "lock", "hush", "drain", "reopen"}

OpType ==
  [term : {"active", "stop", "cancel"}, shut : BOOLEAN, drop : BOOLEAN, deferred : BOOLEAN,
   claimed : BOOLEAN, finished : BOOLEAN, feeds : Int, dispatches : Int,
   handle : Streams \cup {NoStream}, unsupported : BOOLEAN, pending : BOOLEAN,
   fed : 0..MaxChunks]

ThreadType ==
  [pc : Points, s : Sessions \cup {NoSession}, h : Streams \cup {NoStream},
   job : {"none", "feed", "refuse", "stop", "cancel", "deferred"}, back : Points,
   saw : 0..MaxTeardowns, tearing : BOOLEAN, todo : SUBSET Sessions]

(* The types, without the claim that the counters stay above zero.         *)
Types ==
  /\ accepting \in BOOLEAN
  /\ epoch \in 0..MaxTeardowns
  /\ session \in [Sessions -> {"unissued", "live", "erased"}]
  /\ op \in [Sessions -> OpType]
  /\ stream \in [Streams -> {"none", "open", "destroyed"}]
  /\ mtx \in Threads \cup {NoThread}
  /\ slot \in {"set", "unset", "freed"}
  /\ th \in [Threads -> ThreadType]

(* What a thread is doing fits where it is.                                *)
ThreadOK(f) ==
  /\ f.pc \notin OutsidePoints => f.s \in Sessions
  /\ f.pc \in FeedOnly \cup {"feed"} => f.job = "feed"
  /\ f.pc \in {"end", "wait"} => f.job \in {"stop", "cancel"}
  /\ f.pc \in CleanPoints => f.job \in {"stop", "cancel", "deferred", "refuse"}
  /\ f.pc = "admit" => f.job = "stop"
  /\ f.pc \in ProviderPoints =>
       \/ f.job \in {"feed", "stop"}
       \/ f.job = "refuse" /\ f.pc \in {"dispatch", "callback"} /\ f.h = NoStream /\ f.back = "idle"
  /\ f.pc \in {"dispatch", "callback"} /\ f.job # "refuse" =>
       f.back \in {"provided", IF f.job = "feed" THEN "release" ELSE "close"}
  /\ f.pc = "discard" => f.back \in {"release", "call"}
  /\ f.pc \in OutsidePoints \cup {"start", "feed", "end", "wait", "take"} => f.h = NoStream
  /\ f.pc \in OutsidePoints => f.job = "none"
  /\ f.tearing => f.pc \in TearPoints /\ (f.pc \in CleanPoints \cup {"end", "wait"} => f.job = "cancel")
  /\ f.pc \in {"sweep", "lock", "hush", "drain", "reopen"} => f.tearing
  /\ f.pc \in {"lock", "hush", "drain", "reopen"} => f.todo = {}
ThreadsOK == \A t \in Threads : ThreadOK(th[t])

Feeding(t, s) == th[t].s = s /\ th[t].job = "feed" /\ th[t].pc \in FeedOnly \cup ProviderPoints
Calling(t, s) == th[t].s = s /\ th[t].pc = "callback"
Cleaning(t, s) ==
  /\ th[t].s = s
  /\ th[t].pc \in CleanPoints \/ (th[t].pc \in ProviderPoints /\ th[t].job = "stop")

FeedsOf(s) == {t \in Threads : Feeding(t, s)}
CallsOf(s) == {t \in Threads : Calling(t, s)}

(* The counters count threads.                                             *)
Counted ==
  \A s \in Sessions : /\ op[s].feeds = Cardinality(FeedsOf(s))
                      /\ op[s].dispatches = Cardinality(CallsOf(s))

-----------------------------------------------------------------------------
LEMMA ThreadTyped ==
  ASSUME NEW f \in ThreadType
  PROVE  /\ f.pc \in Points /\ f.s \in Sessions \cup {NoSession} /\ f.back \in Points
         /\ f.h \in Streams \cup {NoStream} /\ f.todo \subseteq Sessions
         /\ f.tearing \in BOOLEAN /\ f.saw \in 0..MaxTeardowns
         /\ f.job \in {"none", "feed", "refuse", "stop", "cancel", "deferred"}
BY DEF ThreadType

Jobs == {"none", "feed", "refuse", "stop", "cancel", "deferred"}
Terms == {"active", "stop", "cancel"}
Handles == Streams \cup {NoStream}

(* Writing some fields of a thread's or a session's record.                *)
LEMMA ThreadWritten ==
  ASSUME NEW f \in ThreadType
  PROVE  /\ \A p, b \in Points : [f EXCEPT !.pc = p, !.back = b] \in ThreadType
         /\ \A p \in Points, h \in Handles : [f EXCEPT !.pc = p, !.h = h] \in ThreadType
         /\ \A p \in Points, h \in Handles : [f EXCEPT !.h = h, !.pc = p] \in ThreadType
         /\ \A p, b \in Points, h \in Handles :
              [f EXCEPT !.pc = p, !.back = b, !.h = h] \in ThreadType
         /\ \A p, b \in Points, j \in Jobs :
              [f EXCEPT !.pc = p, !.job = j, !.back = b] \in ThreadType
         /\ \A p \in Points, s \in Sessions, j \in Jobs :
              [f EXCEPT !.pc = p, !.s = s, !.job = j] \in ThreadType
         /\ \A p \in Points, s \in Sessions, n \in 0..MaxTeardowns :
              [f EXCEPT !.pc = p, !.s = s, !.saw = n] \in ThreadType
         /\ \A p \in Points, s \in Sessions, j \in Jobs, d \in SUBSET Sessions :
              [f EXCEPT !.pc = p, !.s = s, !.job = j, !.todo = d] \in ThreadType
         /\ \A p \in Points, d \in SUBSET Sessions :
              [f EXCEPT !.pc = p, !.tearing = TRUE, !.todo = d] \in ThreadType
BY DEF ThreadType, Jobs, Handles

LEMMA OpWritten ==
  ASSUME NEW o \in OpType
  PROVE  /\ \A b \in BOOLEAN : /\ [o EXCEPT !.shut = b] \in OpType
                               /\ [o EXCEPT !.drop = b] \in OpType
                               /\ [o EXCEPT !.claimed = b] \in OpType
                               /\ [o EXCEPT !.finished = b] \in OpType
                               /\ [o EXCEPT !.unsupported = b] \in OpType
                               /\ [o EXCEPT !.pending = b] \in OpType
         /\ \A b, c \in BOOLEAN : [o EXCEPT !.drop = b, !.deferred = c] \in OpType
         /\ \A b, c \in BOOLEAN, how \in Terms :
              [o EXCEPT !.shut = b, !.term = how, !.drop = c] \in OpType
         /\ \A h \in Handles : [o EXCEPT !.handle = h] \in OpType
         /\ \A h \in Handles, b \in BOOLEAN : [o EXCEPT !.handle = h, !.pending = b] \in OpType
         /\ \A n \in Int, k \in 0..MaxChunks : [o EXCEPT !.feeds = n, !.fed = k] \in OpType
         /\ \A n \in Int : [o EXCEPT !.feeds = n] \in OpType /\ [o EXCEPT !.dispatches = n] \in OpType
BY DEF OpType, Terms, Handles

LEMMA Named ==
  /\ "idle" \in Points /\ "start" \in Points /\ "feed" \in Points /\ "create" \in Points
  /\ "install" \in Points /\ "discard" \in Points /\ "buffer" \in Points
  /\ "call" \in Points /\ "provider" \in Points /\ "provided" \in Points
  /\ "dispatch" \in Points /\ "callback" \in Points /\ "release" \in Points
  /\ "end" \in Points /\ "wait" \in Points /\ "take" \in Points
  /\ "admit" \in Points /\ "close" \in Points /\ "erase" \in Points
  /\ "destroy" \in Points /\ "finish" \in Points /\ "sweep" \in Points
  /\ "feed" \in Jobs /\ "refuse" \in Jobs /\ "deferred" \in Jobs /\ "stop" \in Jobs /\ "cancel" \in Jobs
  /\ NoStream \in Handles /\ Streams \subseteq Handles
BY DEF Points, Jobs, Handles

LEMMA EndedTyped ==
  ASSUME NEW o \in OpType, NEW how \in {"stop", "cancel"}
  PROVE  Ended(o, how) \in OpType
<1>1. o.term \in {"active", "stop", "cancel"} /\ o.drop \in BOOLEAN
  BY DEF OpType
<1>2. (IF o.term = "active" \/ how = "cancel" THEN how ELSE o.term) \in {"active", "stop", "cancel"}
      /\ (o.drop \/ how = "cancel") \in BOOLEAN
  BY <1>1
<1>3. QED
  BY <1>2, OpWritten DEF Ended, Terms

LEMMA RestingTyped ==
  Resting \in ThreadType /\ FreshOps \in OpType
BY SttAssumption DEF Resting, FreshOps, ThreadType, OpType, Points

-----------------------------------------------------------------------------
(* Types, and threads where they can be.                                   *)
BaseInv == Types /\ ThreadsOK

ThreadFine == th' \in [Threads -> ThreadType] /\ ThreadsOK'

LEMMA Moved ==
  ASSUME BaseInv, NEW t \in Threads, NEW f \in ThreadType, ThreadOK(f),
         th' = [th EXCEPT ![t] = f]
  PROVE  ThreadFine /\ th'[t] = f
BY DEF BaseInv, Types, ThreadsOK, ThreadFine

LEMMA Went ==
  ASSUME BaseInv, NEW t \in Threads, NEW p \in Points, Goto(t, p),
         ThreadOK([th[t] EXCEPT !.pc = p])
  PROVE  ThreadFine
<1>1. th[t] \in ThreadType
  BY DEF BaseInv, Types
<1>2. [th[t] EXCEPT !.pc = p] \in ThreadType
  BY <1>1 DEF ThreadType
<1>3. th' = [th EXCEPT ![t] = [th[t] EXCEPT !.pc = p]]
  BY DEF Goto
<1>4. QED
  BY <1>2, <1>3, Moved

LEMMA RestingOK ==
  ThreadOK(Resting)
BY DEF ThreadOK, Resting, OutsidePoints, FeedOnly, CleanPoints, ProviderPoints, TearPoints

LEMMA Returned ==
  ASSUME BaseInv, NEW t \in Threads, Return(t)
  PROVE  /\ ThreadFine
         /\ th'[t].pc \in {"idle", "sweep"} /\ th'[t].s = NoSession /\ th'[t].job = "none"
         /\ th'[t].h = NoStream
         /\ th'[t].tearing = th[t].tearing
         /\ th[t].tearing => th'[t].pc = "sweep" /\ th'[t].todo = th[t].todo
         /\ \A u \in Threads : u # t => th'[u] = th[u]
<1> DEFINE f == [Resting EXCEPT !.pc = "sweep", !.tearing = TRUE, !.todo = th[t].todo]
<1>1. th[t] \in ThreadType /\ th \in [Threads -> ThreadType]
  BY DEF BaseInv, Types
<1>2. f \in ThreadType
  BY <1>1, RestingTyped DEF ThreadType, Points
<1>3. f.pc = "sweep" /\ f.s = NoSession /\ f.job = "none" /\ f.tearing = TRUE
      /\ f.todo = th[t].todo /\ f.h = NoStream
  BY DEF Resting
<1>4. ThreadOK(f)
  BY <1>3 DEF ThreadOK, OutsidePoints, FeedOnly, CleanPoints, ProviderPoints, TearPoints
<1>5. CASE th[t].tearing
  <2>1. th' = [th EXCEPT ![t] = f]
    BY <1>1, <1>5 DEF Return
  <2>2. ThreadFine /\ th'[t] = f
    BY <1>2, <1>4, <2>1, Moved
  <2>3. QED
    BY <1>1, <1>3, <1>5, <2>1, <2>2
<1>6. CASE ~th[t].tearing
  <2>1. th' = [th EXCEPT ![t] = Resting]
    BY <1>1, <1>6 DEF Return
  <2>2. ThreadFine /\ th'[t] = Resting
    BY <2>1, RestingTyped, RestingOK, Moved
  <2>3. Resting.pc = "idle" /\ Resting.s = NoSession /\ Resting.job = "none"
        /\ Resting.tearing = FALSE /\ Resting.h = NoStream
    BY DEF Resting
  <2>4. th[t].tearing = FALSE
    BY <1>1, <1>6 DEF ThreadType
  <2>5. QED
    BY <1>1, <1>6, <2>1, <2>2, <2>3, <2>4
<1>7. QED
  BY <1>5, <1>6

(* The end of an operation: the thread goes on, rests, or cleans up.       *)
LEMMA Released ==
  ASSUME BaseInv, NEW t \in Threads, NEW o \in OpType, NEW next \in Points \cup {"return"},
         th[t].s \in Sessions, Release(t, o, next),
         next # "return" => ThreadOK([th[t] EXCEPT !.pc = next])
  PROVE  ThreadFine
<1> DEFINE j == IF th[t].job = "refuse" THEN "refuse" ELSE "deferred"
           f == [Resting EXCEPT !.pc = "take", !.s = th[t].s, !.job = j]
           g == [th[t] EXCEPT !.pc = next]
<1>1. th[t] \in ThreadType /\ th \in [Threads -> ThreadType]
  BY DEF BaseInv, Types
<1>2. f.pc = "take" /\ f.s = th[t].s /\ f.job \in {"refuse", "deferred"} /\ f.tearing = FALSE
      /\ f.todo = {} /\ f.h = NoStream
  BY DEF Resting
<1>3. f \in ThreadType
  <2>1. "take" \in Points /\ th[t].s \in Sessions \cup {NoSession}
    BY DEF Points
  <2>2. QED
    BY <2>1, RestingTyped DEF ThreadType
<1>4. ThreadOK(f)
  BY <1>2 DEF ThreadOK, OutsidePoints, FeedOnly, CleanPoints, ProviderPoints, TearPoints
<1>5. next # "return" => g \in ThreadType
  BY <1>1 DEF ThreadType
<1>6. PICK k \in ThreadType : ThreadOK(k) /\ th' = [th EXCEPT ![t] = k]
  <2>1. CASE Abandoned(o)
    BY <1>1, <1>3, <1>4, <2>1 DEF Release
  <2>2. CASE ~Abandoned(o) /\ next = "return"
    BY <1>1, <2>2, RestingTyped, RestingOK DEF Release
  <2>3. CASE ~Abandoned(o) /\ next # "return"
    BY <1>1, <1>5, <2>3 DEF Release
  <2>4. QED
    BY <2>1, <2>2, <2>3
<1>7. QED
  BY <1>6, Moved

LEMMA BaseStep ==
  ASSUME BaseInv, [SttNext]_vars
  PROVE  BaseInv'
<1> DEFINE Sets == OutsidePoints \cup FeedOnly \cup CleanPoints \cup ProviderPoints \cup TearPoints
<1> USE SttAssumption
<1>0. /\ th \in [Threads -> ThreadType] /\ op \in [Sessions -> OpType]
      /\ session \in [Sessions -> {"unissued", "live", "erased"}]
      /\ stream \in [Streams -> {"none", "open", "destroyed"}]
      /\ accepting \in BOOLEAN /\ epoch \in 0..MaxTeardowns /\ mtx \in Threads \cup {NoThread}
      /\ slot \in {"set", "unset", "freed"} /\ MaxTeardowns \in Nat /\ MaxChunks \in Nat
  BY DEF BaseInv, Types
<1>1. CASE UNCHANGED vars
  BY <1>1 DEF vars, BaseInv, Types, ThreadsOK
<1>2. ASSUME ThreadFine, op' \in [Sessions -> OpType], session' \in [Sessions -> {"unissued", "live", "erased"}],
             stream' \in [Streams -> {"none", "open", "destroyed"}], accepting' \in BOOLEAN,
             epoch' \in 0..MaxTeardowns, mtx' \in Threads \cup {NoThread}, slot' \in {"set", "unset", "freed"}
      PROVE  BaseInv'
  BY <1>2 DEF BaseInv, Types, ThreadFine
<1>3. ASSUME NEW t \in Threads, NEW f \in ThreadType, th' = [th EXCEPT ![t] = f], ThreadOK(f)
      PROVE  ThreadFine
  BY <1>3, Moved
<1>4. \A t \in Threads : th[t] \in ThreadType /\ ThreadOK(th[t])
  BY <1>0 DEF BaseInv, ThreadsOK
<1> HIDE SttAssumption
<1>5. ASSUME NEW t \in Threads, NEW s \in Sessions, StartCheck(t, s)
      PROVE  BaseInv'
  <2> DEFINE f == [th[t] EXCEPT !.pc = "start", !.s = s, !.saw = epoch]
  <2>1. f \in ThreadType /\ th' = [th EXCEPT ![t] = f]
    <3>1. f \in ThreadType
      BY <1>0, <1>4, ThreadWritten, Named
    <3>2. th' = [th EXCEPT ![t] = f]
      BY <1>5 DEF StartCheck
    <3>3. QED
      BY <3>1, <3>2
  <2>2. ThreadOK(f)
    BY <1>4, <1>5 DEF StartCheck, At, ThreadOK, ThreadType, OutsidePoints, FeedOnly, CleanPoints,
       ProviderPoints, TearPoints
  <2>3. QED
    BY <1>0, <1>2, <1>5, <2>1, <2>2, Moved DEF StartCheck
<1>6. ASSUME NEW t \in Threads, NEW s \in Sessions, FeedLookup(t, s)
      PROVE  BaseInv'
  <2> DEFINE f == [th[t] EXCEPT !.pc = "feed", !.s = s, !.job = "feed"]
  <2>1. f \in ThreadType /\ th' = [th EXCEPT ![t] = f]
    <3>1. f \in ThreadType
      BY <1>0, <1>4, ThreadWritten, Named
    <3>2. th' = [th EXCEPT ![t] = f]
      BY <1>6 DEF FeedLookup
    <3>3. QED
      BY <3>1, <3>2
  <2>2. ThreadOK(f)
    BY <1>4, <1>6 DEF FeedLookup, At, ThreadOK, ThreadType, OutsidePoints, FeedOnly, CleanPoints,
       ProviderPoints, TearPoints
  <2>3. QED
    BY <1>0, <1>2, <1>6, <2>1, <2>2, Moved DEF FeedLookup
<1>7. ASSUME NEW t \in Threads, NEW s \in Sessions, NEW how \in {"stop", "cancel"},
             EndLookup(t, s, how), At(t, "idle") \/ (At(t, "sweep") /\ how = "cancel")
      PROVE  BaseInv'
  <2> DEFINE d == th[t].todo \ {s}
             f == [th[t] EXCEPT !.pc = "end", !.s = s, !.job = how, !.todo = d]
  <2>1. f \in ThreadType /\ th' = [th EXCEPT ![t] = f]
    <3>0. d \in SUBSET Sessions /\ how \in Jobs
      BY <1>4, ThreadTyped DEF Jobs
    <3>1. f \in ThreadType
      BY <1>4, <3>0, ThreadWritten, Named
    <3>2. th' = [th EXCEPT ![t] = [th[t] EXCEPT !.pc = "end", !.s = s, !.job = how, !.todo = d]]
      BY <1>7 DEF EndLookup
    <3>3. QED
      BY <3>1, <3>2
  <2>2. ThreadOK(f)
    BY <1>4, <1>7 DEF At, ThreadOK, ThreadType, OutsidePoints, FeedOnly, CleanPoints,
       ProviderPoints, TearPoints
  <2>3. op' \in [Sessions -> OpType]
    <3>1. [op[s] EXCEPT !.shut = TRUE] \in OpType
      BY <1>0, OpWritten
    <3>2. op' = [op EXCEPT ![s] = [op[s] EXCEPT !.shut = TRUE]]
      BY <1>0, <1>7 DEF EndLookup
    <3>3. QED
      BY <1>0, <3>1, <3>2
  <2>4. QED
    BY <1>0, <1>2, <1>7, <2>1, <2>2, <2>3, Moved DEF EndLookup
<1>8. ASSUME NEW t \in Threads, NEW how \in {"stop", "cancel"}, CallbackEnds(t, how)
      PROVE  BaseInv'
  <2>1. th[t].s \in Sessions /\ ThreadFine
    BY <1>0, <1>4, <1>8 DEF CallbackEnds, At, ThreadOK, OutsidePoints, ThreadFine, BaseInv, ThreadsOK
  <2>2. Ended(op[th[t].s], how) \in OpType
    BY <1>0, <2>1, EndedTyped
  <2>3. op' \in [Sessions -> OpType]
    <3> DEFINE o == Ended(op[th[t].s], how)
    <3>1. (o.deferred \/ ~o.claimed) \in BOOLEAN
      OBVIOUS
    <3>2. [o EXCEPT !.drop = TRUE, !.deferred = @ \/ ~o.claimed] \in OpType
      BY <2>2, <3>1, OpWritten
    <3>3. QED
      BY <1>0, <1>8, <2>1, <3>2 DEF CallbackEnds
  <2>4. QED
    BY <1>0, <1>2, <1>8, <2>1, <2>3 DEF CallbackEnds
<1>9. ASSUME NEW t \in Threads, BeginTeardown(t)
      PROVE  BaseInv'
  <2> DEFINE f == [th[t] EXCEPT !.pc = "sweep", !.tearing = TRUE, !.todo = Live]
  <2>1. f \in ThreadType /\ th' = [th EXCEPT ![t] = f]
    <3>1. f \in ThreadType
      BY <1>0, <1>4, ThreadWritten, Named DEF Live
    <3>2. th' = [th EXCEPT ![t] = f]
      BY <1>9 DEF BeginTeardown
    <3>3. QED
      BY <3>1, <3>2
  <2>2. ThreadOK(f)
    BY <1>4, <1>9 DEF BeginTeardown, At, ThreadOK, ThreadType, OutsidePoints, FeedOnly, CleanPoints,
       ProviderPoints, TearPoints
  <2>3. epoch' \in 0..MaxTeardowns
    BY <1>0, <1>9 DEF BeginTeardown
  <2>4. QED
    BY <1>0, <1>2, <1>9, <2>1, <2>2, <2>3, Moved DEF BeginTeardown
<1>10. ASSUME NEW t \in Threads, Unset(t) \/ Quiesce(t)
       PROVE  BaseInv'
  <2>1. PICK p \in {"quiesce", "idle"} : Goto(t, p) /\ th[t].pc \in {"quiesce", "idle"}
    BY <1>10 DEF Unset, Quiesce, At
  <2>2. ThreadOK([th[t] EXCEPT !.pc = p])
    BY <1>4, <2>1 DEF ThreadOK, ThreadType, OutsidePoints, FeedOnly, CleanPoints,
       ProviderPoints, TearPoints
  <2>3. ThreadFine
    BY <2>1, <2>2, Went DEF Points
  <2>4. QED
    BY <1>0, <1>2, <1>10, <2>3 DEF Unset, Quiesce
<1>11. ASSUME NEW t \in Threads,
              StartCommit(t) \/ FeedTooLate(t) \/ EndJoin(t) \/ RefusalDropped(t)
       PROVE  BaseInv'
  <2>1. ThreadFine
    BY <1>11, Returned DEF StartCommit, FeedTooLate, EndJoin, RefusalDropped
  <2>2. session' \in [Sessions -> {"unissued", "live", "erased"}]
    BY <1>0, <1>11 DEF StartCommit, FeedTooLate, EndJoin, RefusalDropped
  <2>3. QED
    BY <1>0, <1>2, <1>11, <2>1, <2>2 DEF StartCommit, FeedTooLate, EndJoin, RefusalDropped
<1>12. ASSUME NEW t \in Threads, FeedAdmit(t)
       PROVE  BaseInv'
  <2> DEFINE o == op[th[t].s]
             f == [th[t] EXCEPT !.pc = FeedRoute(o), !.h = o.handle]
  <2>1. th[t].pc = "feed" /\ th[t].s \in Sessions /\ o \in OpType
    BY <1>0, <1>4, <1>12 DEF FeedAdmit, At, ThreadOK, OutsidePoints
  <2>2. FeedRoute(o) \in {"buffer", "create", "call"} /\ o.handle \in Streams \cup {NoStream}
    BY <2>1 DEF FeedRoute, OpType
  <2>3. f \in ThreadType /\ th' = [th EXCEPT ![t] = f]
    <3>1. f \in ThreadType
      BY <1>4, <2>2, ThreadWritten, Named DEF OpType, Handles
    <3>2. th' = [th EXCEPT ![t] = f]
      BY <1>12 DEF FeedAdmit
    <3>3. QED
      BY <3>1, <3>2
  <2>4. ThreadOK(f)
    BY <1>4, <2>1, <2>2 DEF ThreadOK, ThreadType, OutsidePoints, FeedOnly, CleanPoints,
       ProviderPoints, TearPoints
  <2>5. o.feeds + 1 \in Int /\ o.fed + 1 \in 0..MaxChunks
    BY <1>0, <1>12, <2>1 DEF FeedAdmit, OpType
  <2>6. op' \in [Sessions -> OpType]
    <3>1. [o EXCEPT !.feeds = o.feeds + 1, !.fed = o.fed + 1] \in OpType
      BY <2>1, <2>5, OpWritten
    <3>2. op' = [op EXCEPT ![th[t].s] = [o EXCEPT !.feeds = o.feeds + 1, !.fed = o.fed + 1]]
      BY <1>0, <1>12, <2>1 DEF FeedAdmit
    <3>3. QED
      BY <1>0, <3>1, <3>2
  <2>7. QED
    BY <1>0, <1>2, <1>12, <2>3, <2>4, <2>6, Moved DEF FeedAdmit
<1>13. ASSUME NEW t \in Threads, CreateStream(t)
       PROVE  BaseInv'
  <2>1. ThreadOK([th[t] EXCEPT !.pc = "install"])
    BY <1>4, <1>13 DEF CreateStream, At, ThreadOK, ThreadType, OutsidePoints, FeedOnly, CleanPoints,
       ProviderPoints, TearPoints
  <2>2. ThreadFine
    BY <1>13, <2>1, Went DEF CreateStream, Points
  <2>3. QED
    BY <1>0, <1>2, <1>13, <2>2 DEF CreateStream
<1>14. ASSUME NEW t \in Threads, CreateUnsupported(t)
       PROVE  BaseInv'
  <2>1. PICK p \in {"release", "buffer"} : Goto(t, p)
    BY <1>14 DEF CreateUnsupported
  <2>2. ThreadOK([th[t] EXCEPT !.pc = p])
    BY <1>4, <1>14, <2>1 DEF CreateUnsupported, At, ThreadOK, ThreadType, OutsidePoints, FeedOnly,
       CleanPoints, ProviderPoints, TearPoints
  <2>3. ThreadFine
    BY <2>1, <2>2, Went DEF Points
  <2>4. op' \in [Sessions -> OpType]
    <3> DEFINE b == op[th[t].s].unsupported \/ op[th[t].s].term # "cancel"
    <3>1. th[t].s \in Sessions
      BY <1>4, <1>14 DEF CreateUnsupported, At, ThreadOK, OutsidePoints
    <3>2. [op[th[t].s] EXCEPT !.unsupported = b] \in OpType
      BY <1>0, <3>1, OpWritten
    <3>3. op' = [op EXCEPT ![th[t].s] = [op[th[t].s] EXCEPT !.unsupported = b]]
      BY <1>14 DEF CreateUnsupported
    <3>4. QED
      BY <1>0, <3>2, <3>3
  <2>5. QED
    BY <1>0, <1>2, <1>14, <2>3, <2>4 DEF CreateUnsupported
<1>15. ASSUME NEW t \in Threads, CreateFails(t)
       PROVE  BaseInv'
  <2> DEFINE f == [th[t] EXCEPT !.pc = "dispatch", !.back = "release"]
  <2>1. f \in ThreadType /\ th' = [th EXCEPT ![t] = f]
    <3>1. f \in ThreadType
      BY <1>0, <1>4, ThreadWritten, Named
    <3>2. th' = [th EXCEPT ![t] = f]
      BY <1>15 DEF CreateFails
    <3>3. QED
      BY <3>1, <3>2
  <2>2. ThreadOK(f)
    BY <1>4, <1>15 DEF CreateFails, At, ThreadOK, ThreadType, OutsidePoints, FeedOnly, CleanPoints,
       ProviderPoints, TearPoints
  <2>3. QED
    BY <1>0, <1>2, <1>15, <2>1, <2>2, Moved DEF CreateFails
<1>16. ASSUME NEW t \in Threads, InstallStream(t)
       PROVE  BaseInv'
  <2> DEFINE f == [th[t] EXCEPT !.pc = "call", !.h = Mine(t)]
  <2>1. th[t].pc = "install" /\ th[t].s \in Sessions /\ Mine(t) \in Streams
    BY <1>4, <1>16 DEF InstallStream, At, ThreadOK, OutsidePoints, Mine, Streams
  <2>2. f \in ThreadType /\ th' = [th EXCEPT ![t] = f]
    <3>1. f \in ThreadType
      BY <1>4, <2>1, ThreadWritten, Named DEF OpType, Handles
    <3>2. th' = [th EXCEPT ![t] = f]
      BY <1>16 DEF InstallStream
    <3>3. QED
      BY <3>1, <3>2
  <2>3. ThreadOK(f)
    BY <1>4, <2>1 DEF ThreadOK, ThreadType, OutsidePoints, FeedOnly, CleanPoints,
       ProviderPoints, TearPoints
  <2>4. op' \in [Sessions -> OpType]
    BY <1>0, <1>16, <2>1, OpWritten DEF InstallStream, Handles
  <2>5. QED
    BY <1>0, <1>2, <1>16, <2>2, <2>3, <2>4, Moved DEF InstallStream
<1>17. ASSUME NEW t \in Threads, StreamRedundant(t)
       PROVE  BaseInv'
  <2>1. th[t].pc = "install" /\ th[t].s \in Sessions /\ op[th[t].s].handle \in Streams \cup {NoStream}
    BY <1>0, <1>4, <1>17 DEF StreamRedundant, At, ThreadOK, OutsidePoints, OpType
  <2>2. PICK b \in {"release", "call"}, h \in Streams \cup {NoStream} :
          th' = [th EXCEPT ![t] = [th[t] EXCEPT !.pc = "discard", !.back = b, !.h = h]]
    <3>1. CASE op[th[t].s].term = "cancel"
      <4>1. [th[t] EXCEPT !.pc = "discard", !.back = "release"]
            = [th[t] EXCEPT !.pc = "discard", !.back = "release", !.h = th[t].h]
        BY <1>4 DEF ThreadType
      <4>2. QED
        BY <1>0, <1>4, <1>17, <3>1, <4>1 DEF StreamRedundant, ThreadType
    <3>2. CASE op[th[t].s].term # "cancel"
      BY <1>0, <1>17, <2>1, <3>2 DEF StreamRedundant
    <3>3. QED
      BY <3>1, <3>2
  <2> DEFINE f == [th[t] EXCEPT !.pc = "discard", !.back = b, !.h = h]
  <2>3. f \in ThreadType
    BY <1>4, ThreadWritten, Named
  <2>4. ThreadOK(f)
    BY <1>4, <2>1 DEF ThreadOK, ThreadType, OutsidePoints, FeedOnly, CleanPoints,
       ProviderPoints, TearPoints
  <2>5. QED
    BY <1>0, <1>2, <1>17, <2>2, <2>3, <2>4, Moved DEF StreamRedundant
<1>18. ASSUME NEW t \in Threads, DiscardStream(t)
       PROVE  BaseInv'
  <2>1. th[t].pc = "discard" /\ th[t].back \in {"release", "call"} /\ Goto(t, th[t].back)
    BY <1>4, <1>18 DEF DiscardStream, At, ThreadOK
  <2>2. ThreadOK([th[t] EXCEPT !.pc = th[t].back])
    BY <1>4, <2>1 DEF ThreadOK, ThreadType, OutsidePoints, FeedOnly, CleanPoints,
       ProviderPoints, TearPoints
  <2>3. ThreadFine
    BY <2>1, <2>2, Went DEF Points
  <2>4. QED
    BY <1>0, <1>2, <1>18, <2>3 DEF DiscardStream
<1>19. ASSUME NEW t \in Threads, Buffer(t)
       PROVE  BaseInv'
  <2>1. PICK p \in {"release", "call"} : Goto(t, p)
    BY <1>19 DEF Buffer
  <2>2. ThreadOK([th[t] EXCEPT !.pc = p])
    BY <1>4, <1>19, <2>1 DEF Buffer, At, ThreadOK, ThreadType, OutsidePoints, FeedOnly,
       CleanPoints, ProviderPoints, TearPoints
  <2>3. ThreadFine
    BY <2>1, <2>2, Went DEF Points
  <2>4. op' \in [Sessions -> OpType]
    <3>1. th[t].s \in Sessions
      BY <1>4, <1>19 DEF Buffer, At, ThreadOK, OutsidePoints
    <3>2. PICK b \in BOOLEAN : op' = [op EXCEPT ![th[t].s] = [op[th[t].s] EXCEPT !.pending = b]]
      BY <1>19 DEF Buffer
    <3>3. [op[th[t].s] EXCEPT !.pending = b] \in OpType
      BY <1>0, <3>1, OpWritten
    <3>4. QED
      BY <1>0, <3>2, <3>3
  <2>5. QED
    BY <1>0, <1>2, <1>19, <2>3, <2>4 DEF Buffer
<1>20. ASSUME NEW t \in Threads, EnterProvider(t) \/ AdmitFlush(t) \/ CloseGate(t) \/ SweepDone(t)
                                 \/ Hush(t) \/ DestroyStream(t) \/ EraseSession(t)
       PROVE  BaseInv'
  <2>1. PICK p \in {"provider", "call", "close", "erase", "lock", "drain", "finish", "destroy"} :
          Goto(t, p) /\ ThreadOK([th[t] EXCEPT !.pc = p])
    <3>1. CASE EnterProvider(t)
      BY <1>4, <3>1 DEF EnterProvider, At, ThreadOK, ThreadType, OutsidePoints, FeedOnly,
         CleanPoints, ProviderPoints, TearPoints
    <3>2. CASE AdmitFlush(t)
      BY <1>4, <3>2 DEF AdmitFlush, At, ThreadOK, ThreadType, OutsidePoints, FeedOnly,
         CleanPoints, ProviderPoints, TearPoints
    <3>3. CASE CloseGate(t)
      BY <1>4, <3>3 DEF CloseGate, At, ThreadOK, ThreadType, OutsidePoints, FeedOnly,
         CleanPoints, ProviderPoints, TearPoints
    <3>4. CASE SweepDone(t)
      BY <1>4, <3>4 DEF SweepDone, At, ThreadOK, ThreadType, OutsidePoints, FeedOnly,
         CleanPoints, ProviderPoints, TearPoints
    <3>5. CASE Hush(t)
      BY <1>4, <3>5 DEF Hush, At, ThreadOK, ThreadType, OutsidePoints, FeedOnly,
         CleanPoints, ProviderPoints, TearPoints
    <3>6. CASE DestroyStream(t)
      BY <1>4, <3>6 DEF DestroyStream, At, ThreadOK, ThreadType, OutsidePoints, FeedOnly,
         CleanPoints, ProviderPoints, TearPoints
    <3>7. CASE EraseSession(t)
      BY <1>4, <3>7 DEF EraseSession, At, ThreadOK, ThreadType, OutsidePoints, FeedOnly,
         CleanPoints, ProviderPoints, TearPoints
    <3>8. QED
      BY <1>20, <3>1, <3>2, <3>3, <3>4, <3>5, <3>6, <3>7
  <2>2. ThreadFine
    BY <2>1, Went DEF Points
  <2>3. op' \in [Sessions -> OpType]
    <3>1. CASE CloseGate(t)
      <4>1. th[t].s \in Sessions
        BY <1>4, <3>1 DEF CloseGate, At, ThreadOK, OutsidePoints
      <4>2. [op[th[t].s] EXCEPT !.drop = TRUE] \in OpType
        BY <1>0, <4>1, OpWritten
      <4>3. op' = [op EXCEPT ![th[t].s] = [op[th[t].s] EXCEPT !.drop = TRUE]]
        BY <3>1 DEF CloseGate
      <4>4. QED
        BY <1>0, <4>2, <4>3
    <3>2. QED
      BY <1>0, <1>20, <3>1 DEF EnterProvider, AdmitFlush, SweepDone, Hush, DestroyStream,
         EraseSession
  <2>4. QED
    BY <1>0, <1>2, <1>20, <2>2, <2>3 DEF EnterProvider, AdmitFlush, CloseGate, SweepDone, Hush,
       DestroyStream, EraseSession
<1>21. ASSUME NEW t \in Threads, ProviderEmits(t) \/ ProviderReturns(t)
       PROVE  BaseInv'
  <2>1. th[t].pc \in {"provider", "provided"} /\ th[t].job \in {"feed", "stop"}
        /\ AfterCall(t) = IF th[t].job = "feed" THEN "release" ELSE "close"
    BY <1>4, <1>21 DEF ProviderEmits, ProviderReturns, At, ThreadOK, ProviderPoints, AfterCall
  <2>2. ThreadFine
    <3>1. CASE Goto(t, AfterCall(t))
      <4>1. ThreadOK([th[t] EXCEPT !.pc = AfterCall(t)])
        BY <1>4, <2>1 DEF ThreadOK, ThreadType, OutsidePoints, FeedOnly,
           CleanPoints, ProviderPoints, TearPoints
      <4>2. QED
        BY <2>1, <3>1, <4>1, Went DEF Points
    <3>2. ASSUME NEW b \in {"provided", AfterCall(t)},
                 th' = [th EXCEPT ![t] = [th[t] EXCEPT !.pc = "dispatch", !.back = b]]
          PROVE  ThreadFine
      <4> DEFINE f == [th[t] EXCEPT !.pc = "dispatch", !.back = b]
      <4>1. f \in ThreadType
        BY <1>4, <2>1, ThreadWritten, Named
      <4>2. ThreadOK(f)
        BY <1>4, <2>1 DEF ThreadOK, ThreadType, OutsidePoints, FeedOnly,
           CleanPoints, ProviderPoints, TearPoints
      <4>3. QED
        BY <3>2, <4>1, <4>2, Moved
    <3>3. QED
      BY <1>21, <3>1, <3>2 DEF ProviderEmits, ProviderReturns
  <2>3. QED
    BY <1>0, <1>2, <1>21, <2>2 DEF ProviderEmits, ProviderReturns
<1>22. ASSUME NEW t \in Threads, Dispatch(t) \/ DispatchDropped(t)
       PROVE  BaseInv'
  <2>0. /\ th[t].pc = "dispatch" /\ th[t].s \in Sessions
        /\ th[t].job # "refuse" =>
             /\ th[t].job \in {"feed", "stop"}
             /\ th[t].back \in {"provided", IF th[t].job = "feed" THEN "release" ELSE "close"}
    BY <1>4, <1>22 DEF Dispatch, DispatchDropped, At, ThreadOK, ProviderPoints, OutsidePoints
  <2>1. PICK p \in {"callback", th[t].back} :
          Goto(t, p) /\ (p = "callback" \/ th[t].job # "refuse")
    BY <1>22 DEF Dispatch, DispatchDropped, Refusing
  <2>2. ThreadOK([th[t] EXCEPT !.pc = p])
    <3>1. CASE p = "callback"
      BY <1>4, <2>0, <3>1 DEF ThreadOK, ThreadType, OutsidePoints, FeedOnly, CleanPoints,
         ProviderPoints, TearPoints
    <3>2. CASE p # "callback"
      BY <1>4, <2>0, <2>1, <3>2 DEF ThreadOK, ThreadType, OutsidePoints, FeedOnly, CleanPoints,
         ProviderPoints, TearPoints
    <3>3. QED
      BY <3>1, <3>2
  <2>3. ThreadFine
    <3>1. p \in Points
      BY <1>4, <2>1, ThreadTyped, Named
    <3>2. QED
      BY <2>1, <2>2, <3>1, Went
  <2>4. op' \in [Sessions -> OpType]
    <3>1. [op[th[t].s] EXCEPT !.dispatches = op[th[t].s].dispatches + 1] \in OpType
      <4>1. op[th[t].s].dispatches + 1 \in Int /\ op[th[t].s] \in OpType
        BY <1>0, <2>0 DEF OpType
      <4>2. QED
        BY <4>1, OpWritten
    <3>2. QED
      BY <1>0, <1>22, <2>0, <3>1 DEF Dispatch, DispatchDropped
  <2>5. QED
    BY <1>0, <1>2, <1>22, <2>3, <2>4 DEF Dispatch, DispatchDropped
<1>23. ASSUME NEW t \in Threads, CallbackReturns(t) \/ FeedReturns(t) \/ RefusalReturns(t)
       PROVE  BaseInv'
  <2>0. th[t].pc \in {"callback", "release"} /\ th[t].s \in Sessions /\ op[th[t].s] \in OpType
    BY <1>0, <1>4, <1>23 DEF CallbackReturns, FeedReturns, RefusalReturns, At, ThreadOK, OutsidePoints
  <2>1. PICK o \in OpType, next \in Points \cup {"return"} :
          /\ Release(t, o, next)
          /\ next # "return" => At(t, "callback") /\ ~Refusing(t) /\ next = th[t].back
    <3>1. [op[th[t].s] EXCEPT !.dispatches = @ - 1] \in OpType
          /\ [op[th[t].s] EXCEPT !.feeds = @ - 1] \in OpType
      BY <2>0 DEF OpType
    <3>2. th[t].back \in Points
      BY <1>4 DEF ThreadType
    <3>3. QED
      BY <1>23, <3>1, <3>2 DEF CallbackReturns, FeedReturns, RefusalReturns
  <2>2. next # "return" => ThreadOK([th[t] EXCEPT !.pc = next])
    BY <1>4, <2>1 DEF At, Refusing, ThreadOK, ThreadType, OutsidePoints, FeedOnly, CleanPoints,
       ProviderPoints, TearPoints
  <2>3. ThreadFine
    BY <2>0, <2>1, <2>2, Released
  <2>4. op' \in [Sessions -> OpType]
    <3>1. [o EXCEPT !.claimed = @ \/ Abandoned(o)] \in OpType
      BY DEF OpType, Abandoned, Quiescent
    <3>2. QED
      BY <1>0, <2>1, <3>1 DEF Release
  <2>5. QED
    BY <1>0, <1>2, <1>23, <2>3, <2>4 DEF CallbackReturns, FeedReturns, RefusalReturns
<1>24. ASSUME NEW t \in Threads, EndShut(t) \/ EndClaim(t)
       PROVE  BaseInv'
  <2>0. th[t].pc \in {"end", "wait"} /\ th[t].s \in Sessions /\ th[t].job \in {"stop", "cancel"}
    BY <1>4, <1>24 DEF EndShut, EndClaim, At, ThreadOK, OutsidePoints
  <2>1. PICK p \in {"wait", "take"} : Goto(t, p)
    BY <1>24 DEF EndShut, EndClaim
  <2>2. ThreadOK([th[t] EXCEPT !.pc = p])
    BY <1>4, <2>0 DEF ThreadOK, ThreadType, OutsidePoints, FeedOnly, CleanPoints,
       ProviderPoints, TearPoints
  <2>3. ThreadFine
    BY <2>1, <2>2, Went DEF Points
  <2>4. op' \in [Sessions -> OpType]
    <3>1. Ended(op[th[t].s], th[t].job) \in OpType
      BY <1>0, <2>0, EndedTyped
    <3>2. QED
      <4>1. [op[th[t].s] EXCEPT !.claimed = TRUE] \in OpType
        BY <1>0, <2>0, OpWritten
      <4>2. CASE EndShut(t)
        BY <1>0, <3>1, <4>2 DEF EndShut
      <4>3. CASE EndClaim(t)
        <5>1. op' = [op EXCEPT ![th[t].s] = [op[th[t].s] EXCEPT !.claimed = TRUE]]
          BY <4>3 DEF EndClaim
        <5>2. QED
          BY <1>0, <4>1, <5>1
      <4>4. QED
        BY <1>24, <4>2, <4>3
  <2>5. QED
    BY <1>0, <1>2, <1>24, <2>3, <2>4 DEF EndShut, EndClaim
<1>25. ASSUME NEW t \in Threads, TakeHandle(t)
       PROVE  BaseInv'
  <2> DEFINE o == op[th[t].s]
             f == [th[t] EXCEPT !.h = o.handle,
                                !.pc = IF WorthFlushing(o, th[t].job) THEN "admit" ELSE "close"]
  <2>1. th[t].pc = "take" /\ th[t].s \in Sessions /\ o \in OpType
    BY <1>0, <1>4, <1>25 DEF TakeHandle, At, ThreadOK, OutsidePoints
  <2>2. f \in ThreadType /\ th' = [th EXCEPT ![t] = f]
    <3>1. f \in ThreadType
      BY <1>4, <2>1, ThreadWritten, Named DEF OpType, Handles
    <3>2. th' = [th EXCEPT ![t] = f]
      BY <1>25 DEF TakeHandle
    <3>3. QED
      BY <3>1, <3>2
  <2>3. WorthFlushing(o, th[t].job) => th[t].job = "stop"
    BY DEF WorthFlushing
  <2>4. ThreadOK(f)
    BY <1>4, <2>1, <2>3 DEF ThreadOK, ThreadType, OutsidePoints, FeedOnly, CleanPoints,
       ProviderPoints, TearPoints
  <2>5. op' \in [Sessions -> OpType]
    <3>1. [o EXCEPT !.handle = NoStream, !.pending = FALSE] \in OpType
      BY <2>1, OpWritten DEF Handles
    <3>2. op' = [op EXCEPT ![th[t].s] = [o EXCEPT !.handle = NoStream, !.pending = FALSE]]
      BY <1>0, <1>25, <2>1 DEF TakeHandle
    <3>3. QED
      BY <1>0, <3>1, <3>2
  <2>6. QED
    BY <1>0, <1>2, <1>25, <2>2, <2>4, <2>5, Moved DEF TakeHandle
<1>26. ASSUME NEW t \in Threads, Finish(t)
       PROVE  BaseInv'
  <2>1. ThreadFine
    BY <1>26, Returned DEF Finish
  <2>2. op' \in [Sessions -> OpType]
    <3>1. th[t].s \in Sessions
      BY <1>4, <1>26 DEF Finish, At, ThreadOK, OutsidePoints
    <3>2. [op[th[t].s] EXCEPT !.finished = TRUE] \in OpType
      BY <1>0, <3>1, OpWritten
    <3>3. op' = [op EXCEPT ![th[t].s] = [op[th[t].s] EXCEPT !.finished = TRUE]]
      BY <1>26 DEF Finish
    <3>4. QED
      BY <1>0, <3>2, <3>3
  <2>3. QED
    BY <1>0, <1>2, <1>26, <2>1, <2>2 DEF Finish
<1>27. ASSUME NEW t \in Threads, NEW s \in Sessions, SweepSkips(t, s)
       PROVE  BaseInv'
  <2> DEFINE f == [th[t] EXCEPT !.todo = @ \ {s}]
  <2>1. f \in ThreadType /\ th' = [th EXCEPT ![t] = f]
    BY <1>0, <1>4, <1>27 DEF SweepSkips, ThreadType
  <2>2. ThreadOK(f)
    BY <1>4, <1>27 DEF SweepSkips, At, ThreadOK, ThreadType, OutsidePoints, FeedOnly, CleanPoints,
       ProviderPoints, TearPoints
  <2>3. QED
    BY <1>0, <1>2, <1>27, <2>1, <2>2, Moved DEF SweepSkips
<1>28. ASSUME NEW t \in Threads, LockComponent(t) \/ DrainModel(t)
       PROVE  BaseInv'
  <2>1. PICK p \in {"drain", "hush", "reopen"} : Goto(t, p) /\ th[t].pc \in {"lock", "drain"}
    BY <1>28 DEF LockComponent, DrainModel, At
  <2>2. ThreadOK([th[t] EXCEPT !.pc = p])
    BY <1>4, <2>1 DEF ThreadOK, ThreadType, OutsidePoints, FeedOnly, CleanPoints,
       ProviderPoints, TearPoints
  <2>3. ThreadFine
    BY <2>1, <2>2, Went DEF Points
  <2>4. QED
    BY <1>0, <1>2, <1>28, <2>3 DEF LockComponent, DrainModel
<1>29. ASSUME NEW t \in Threads, EndTeardown(t)
       PROVE  BaseInv'
  <2>1. ThreadFine
    BY <1>29, Moved, RestingTyped, RestingOK DEF EndTeardown
  <2>2. QED
    BY <1>0, <1>2, <1>29, <2>1 DEF EndTeardown
<1>30. ASSUME NEW t \in Threads, FeedMalformed(t)
       PROVE  BaseInv'
  <2> DEFINE f == [th[t] EXCEPT !.pc = "dispatch", !.job = "refuse", !.back = "idle"]
  <2>1. f \in ThreadType /\ th' = [th EXCEPT ![t] = f]
    <3>1. f \in ThreadType
      BY <1>4, ThreadWritten, Named
    <3>2. th' = [th EXCEPT ![t] = f]
      BY <1>30 DEF FeedMalformed
    <3>3. QED
      BY <3>1, <3>2
  <2>2. ThreadOK(f)
    BY <1>4, <1>30 DEF FeedMalformed, At, ThreadOK, ThreadType, OutsidePoints, FeedOnly, CleanPoints,
       ProviderPoints, TearPoints
  <2>3. QED
    BY <1>0, <1>2, <1>30, <2>1, <2>2, Moved DEF FeedMalformed
<1>31. CASE Call
  BY <1>5, <1>6, <1>7, <1>8, <1>9, <1>10, <1>31, SttAssumption DEF Call, EndCalled
<1>32. ASSUME NEW t \in Threads, CallStep(t)
       PROVE  BaseInv'
  BY <1>7, <1>10, <1>11, <1>12, <1>13, <1>14, <1>15, <1>16, <1>17, <1>18, <1>19, <1>20, <1>21,
     <1>22, <1>23, <1>24, <1>25, <1>26, <1>27, <1>28, <1>29, <1>30, <1>32 DEF CallStep, SweepCancels
<1>33. QED
  BY <1>1, <1>31, <1>32 DEF SttNext

LEMMA BaseInitially ==
  SttInit => BaseInv
<1> SUFFICES ASSUME SttInit PROVE BaseInv
  OBVIOUS
<1>1. 0 \in 0..MaxTeardowns
  BY SttAssumption
<1>2. Types
  BY <1>1, RestingTyped DEF SttInit, Types
<1>3. ThreadsOK
  BY RestingOK DEF SttInit, ThreadsOK
<1>4. QED
  BY <1>2, <1>3 DEF BaseInv

-----------------------------------------------------------------------------
(* Who counts, who cleans up, and what a session is by then.               *)
ClaimsOK ==
  \A s \in Sessions :
    /\ op[s].claimed => op[s].term # "active" /\ op[s].feeds = 0 /\ session[s] # "unissued"
    /\ op[s].deferred => op[s].term # "active"
    /\ op[s].finished => session[s] = "erased"
    /\ session[s] = "erased" => op[s].claimed

CleansOK ==
  \A t \in Threads, s \in Sessions : Cleaning(t, s) =>
    /\ op[s].claimed /\ ~op[s].finished
    /\ session[s] = IF th[t].pc \in {"destroy", "finish"} THEN "erased" ELSE "live"

OneCleaner ==
  \A t, u \in Threads, s \in Sessions : Cleaning(t, s) /\ Cleaning(u, s) => t = u

EndsOK == \A t \in Threads : th[t].pc = "wait" => op[th[t].s].term # "active"

(* Only a thread that is starting a session knows an id that is not used.  *)
IssuedOK ==
  \A t \in Threads, s \in Sessions : th[t].s = s =>
    IF th[t].pc = "start" THEN session[s] = "unissued" ELSE session[s] # "unissued"

OneStarts ==
  \A t, u \in Threads : th[t].pc = "start" /\ th[u].pc = "start" /\ th[t].s = th[u].s => t = u

(* A refusal is told to the callback of a session nobody has begun to clean. *)
RefusalsOK ==
  \A t \in Threads, s \in Sessions :
    Calling(t, s) /\ th[t].job = "refuse" => ~op[s].claimed

SessionInv ==
  /\ BaseInv /\ Counted /\ ClaimsOK /\ CleansOK /\ OneCleaner /\ EndsOK /\ IssuedOK /\ OneStarts
  /\ RefusalsOK

(* A step of t that neither counts nor claims anything.                    *)
Neutral(t) ==
  /\ \A u \in Threads : u # t => th'[u] = th[u]
  /\ session' = session
  /\ \A s \in Sessions :
       /\ op'[s].feeds = op[s].feeds /\ op'[s].dispatches = op[s].dispatches
       /\ op'[s].claimed = op[s].claimed /\ op'[s].finished = op[s].finished
       /\ op[s].term # "active" => op'[s].term # "active"
       /\ op'[s].deferred => op[s].deferred \/ op'[s].term # "active"
       /\ Feeding(t, s)' <=> Feeding(t, s)
       /\ Calling(t, s)' <=> Calling(t, s)
       /\ Cleaning(t, s)' <=> Cleaning(t, s)
       /\ th'[t].s = s => session[s] # "unissued"
  /\ th'[t].pc \in {"destroy", "finish"} <=> th[t].pc \in {"destroy", "finish"}
  /\ th'[t].pc # "start"
  /\ th'[t].pc = "wait" => op'[th'[t].s].term # "active"
  /\ th'[t].pc = "callback" => th'[t].job = th[t].job

LEMMA NeutralStep ==
  ASSUME SessionInv, NEW t \in Threads, Neutral(t), BaseInv'
  PROVE  SessionInv'
<1> USE DEF SessionInv
<1>1. \A u \in Threads, s \in Sessions : /\ Feeding(u, s)' <=> Feeding(u, s)
                                         /\ Calling(u, s)' <=> Calling(u, s)
                                         /\ Cleaning(u, s)' <=> Cleaning(u, s)
  BY DEF Neutral, Feeding, Calling, Cleaning
<1>2. Counted'
  <2>1. \A s \in Sessions : FeedsOf(s)' = FeedsOf(s) /\ CallsOf(s)' = CallsOf(s)
    BY <1>1 DEF FeedsOf, CallsOf
  <2>2. QED
    BY <2>1 DEF Neutral, Counted
<1>3. ClaimsOK'
  BY DEF Neutral, ClaimsOK
<1>4. CleansOK'
  BY <1>1 DEF Neutral, CleansOK
<1>5. OneCleaner'
  BY <1>1 DEF OneCleaner
<1>6. EndsOK'
  <2>1. ASSUME NEW u \in Threads, u # t, th[u].pc = "wait"
        PROVE  op'[th[u].s].term # "active"
    BY <2>1 DEF Neutral, EndsOK, BaseInv, ThreadsOK, ThreadOK, OutsidePoints
  <2>2. QED
    BY <2>1 DEF Neutral, EndsOK
<1>7. IssuedOK'
  BY DEF Neutral, IssuedOK
<1>8. OneStarts'
  BY DEF Neutral, OneStarts
<1>10. RefusalsOK'
  BY <1>1 DEF Neutral, RefusalsOK, Calling
<1>9. QED
  BY <1>2, <1>3, <1>4, <1>5, <1>6, <1>7, <1>8, <1>10

LEMMA Fields ==
  ASSUME BaseInv, NEW t \in Threads
  PROVE  /\ th \in [Threads -> ThreadType] /\ th[t] \in ThreadType /\ ThreadOK(th[t])
         /\ op \in [Sessions -> OpType] /\ NoSession \notin Sessions
         /\ th[t].pc \notin OutsidePoints => th[t].s \in Sessions /\ op[th[t].s] \in OpType
BY SttAssumption DEF BaseInv, Types, ThreadsOK, ThreadOK

LEMMA GotoFields ==
  ASSUME BaseInv, NEW t \in Threads, NEW p, Goto(t, p)
  PROVE  /\ th'[t].pc = p /\ th'[t].s = th[t].s /\ th'[t].job = th[t].job
         /\ th'[t].h = th[t].h /\ th'[t].back = th[t].back
         /\ th'[t].tearing = th[t].tearing /\ th'[t].todo = th[t].todo
         /\ \A u \in Threads : u # t => th'[u] = th[u]
BY Fields DEF Goto, ThreadType

(* Moving on without a count, a claim or a session.                        *)
LEMMA QuietSteps ==
  ASSUME SessionInv, NEW t \in Threads,
         \/ CreateStream(t) \/ CreateUnsupported(t) \/ CreateFails(t)
         \/ InstallStream(t) \/ StreamRedundant(t) \/ DiscardStream(t) \/ Buffer(t)
  PROVE  Neutral(t)
<1>0. /\ th \in [Threads -> ThreadType] /\ th[t] \in ThreadType /\ ThreadOK(th[t])
      /\ th[t].pc \notin OutsidePoints => th[t].s \in Sessions /\ op[th[t].s] \in OpType
      /\ op \in [Sessions -> OpType]
  BY Fields DEF SessionInv
<1>1. th[t].pc \in FeedOnly /\ th[t].job = "feed" /\ th[t].s \in Sessions /\ th[t].pc # "release"
  BY <1>0 DEF CreateStream, CreateUnsupported, CreateFails, InstallStream, StreamRedundant,
     DiscardStream, Buffer, At, ThreadOK, FeedOnly, OutsidePoints
<1>2. session[th[t].s] # "unissued"
  BY <1>1 DEF SessionInv, IssuedOK, FeedOnly
<1>3. /\ th'[t].pc \in {"install", "buffer", "release", "dispatch", "call", "discard"}
      /\ th'[t].s = th[t].s /\ th'[t].job = th[t].job
      /\ \A u \in Threads : u # t => th'[u] = th[u]
  <2>1. th[t].pc = "discard" => th[t].back \in {"release", "call"}
    BY <1>0 DEF ThreadOK
  <2>2. CASE CreateStream(t) \/ CreateUnsupported(t) \/ DiscardStream(t) \/ Buffer(t)
    <3>1. PICK p \in {"install", "buffer", "release", "call"} : Goto(t, p)
      BY <2>1, <2>2 DEF CreateStream, CreateUnsupported, DiscardStream, Buffer, At
    <3>2. QED
      BY <3>1, GotoFields DEF SessionInv
  <2>3. CASE CreateFails(t)
    BY <1>0, <2>3 DEF CreateFails, ThreadType
  <2>4. CASE InstallStream(t)
    BY <1>0, <2>4 DEF InstallStream, ThreadType
  <2>5. CASE StreamRedundant(t)
    BY <1>0, <2>5 DEF StreamRedundant, ThreadType
  <2>6. QED
    BY <2>2, <2>3, <2>4, <2>5
<1>4. \A s \in Sessions :
        /\ op'[s].feeds = op[s].feeds /\ op'[s].dispatches = op[s].dispatches
        /\ op'[s].claimed = op[s].claimed /\ op'[s].finished = op[s].finished
        /\ op'[s].term = op[s].term /\ op'[s].deferred = op[s].deferred
  BY <1>0, <1>1 DEF CreateStream, CreateUnsupported, CreateFails, InstallStream, StreamRedundant,
     DiscardStream, Buffer, OpType
<1>5. session' = session
  BY DEF CreateStream, CreateUnsupported, CreateFails, InstallStream, StreamRedundant,
     DiscardStream, Buffer
<1>6. QED
  BY <1>1, <1>2, <1>3, <1>4, <1>5 DEF Neutral, Feeding, Calling, Cleaning, FeedOnly, ProviderPoints,
     CleanPoints

LEMMA ProviderSteps ==
  ASSUME SessionInv, NEW t \in Threads,
         EnterProvider(t) \/ ProviderEmits(t) \/ ProviderReturns(t) \/ DispatchDropped(t)
  PROVE  Neutral(t)
<1>0. /\ th \in [Threads -> ThreadType] /\ th[t] \in ThreadType /\ ThreadOK(th[t])
      /\ th[t].pc \notin OutsidePoints => th[t].s \in Sessions /\ op[th[t].s] \in OpType
  BY Fields DEF SessionInv
<1>1. /\ th[t].pc \in ProviderPoints /\ th[t].pc # "callback"
      /\ th[t].job \in {"feed", "stop"} /\ th[t].s \in Sessions
  BY <1>0 DEF EnterProvider, ProviderEmits, ProviderReturns, DispatchDropped, Refusing, At, ThreadOK,
     ProviderPoints, OutsidePoints
<1>2. session[th[t].s] # "unissued"
  BY <1>1 DEF SessionInv, IssuedOK, ProviderPoints
<1>3. /\ th'[t].pc \in {"provider", "provided", "dispatch"}
           \cup (IF th[t].job = "feed" THEN {"release"} ELSE {"close"})
      /\ th'[t].s = th[t].s /\ th'[t].job = th[t].job
      /\ \A u \in Threads : u # t => th'[u] = th[u]
  <2>1. th[t].pc = "dispatch" =>
          th[t].back \in {"provided", IF th[t].job = "feed" THEN "release" ELSE "close"}
    BY <1>0, <1>1 DEF ThreadOK
  <2>2. QED
    <3>1. CASE EnterProvider(t) \/ DispatchDropped(t)
      BY <1>0, <2>1, <3>1, GotoFields DEF EnterProvider, DispatchDropped, At, SessionInv
    <3>2. CASE ProviderEmits(t)
      BY <1>0, <3>2 DEF ProviderEmits, ThreadType
    <3>3. CASE ProviderReturns(t)
      <4>1. CASE Goto(t, AfterCall(t))
        BY <1>1, <4>1, GotoFields DEF AfterCall, SessionInv
      <4>2. CASE th' = [th EXCEPT ![t] = [@ EXCEPT !.pc = "dispatch", !.back = AfterCall(t)]]
        BY <1>0, <4>2 DEF ThreadType
      <4>3. QED
        BY <3>3, <4>1, <4>2 DEF ProviderReturns
    <3>4. QED
      BY <3>1, <3>2, <3>3
<1>4. op' = op /\ session' = session
  BY DEF EnterProvider, ProviderEmits, ProviderReturns, DispatchDropped
<1>5. QED
  BY <1>1, <1>2, <1>3, <1>4 DEF Neutral, Feeding, Calling, Cleaning, FeedOnly, ProviderPoints,
     CleanPoints

(* ... of the thread that cleans a session up.                             *)
LEMMA CleanSteps ==
  ASSUME SessionInv, NEW t \in Threads,
         TakeHandle(t) \/ AdmitFlush(t) \/ CloseGate(t) \/ DestroyStream(t)
  PROVE  Neutral(t)
<1>0. /\ th \in [Threads -> ThreadType] /\ th[t] \in ThreadType /\ ThreadOK(th[t])
      /\ th[t].pc \notin OutsidePoints => th[t].s \in Sessions /\ op[th[t].s] \in OpType
      /\ op \in [Sessions -> OpType]
  BY Fields DEF SessionInv
<1>1. /\ th[t].pc \in {"take", "admit", "close", "destroy"} /\ th[t].s \in Sessions
      /\ th[t].job \in {"stop", "cancel", "deferred", "refuse"}
      /\ th[t].pc = "admit" => th[t].job = "stop"
  BY <1>0 DEF TakeHandle, AdmitFlush, CloseGate, DestroyStream, At, ThreadOK, CleanPoints, OutsidePoints
<1>2. session[th[t].s] # "unissued"
  BY <1>1 DEF SessionInv, IssuedOK
<1>3. /\ th'[t].s = th[t].s /\ th'[t].job = th[t].job
      /\ th[t].pc = "take" => th'[t].pc \in {"admit", "close"}
      /\ th[t].pc = "admit" => th'[t].pc \in {"call", "close"}
      /\ th[t].pc = "close" => th'[t].pc = "erase"
      /\ th[t].pc = "destroy" => th'[t].pc = "finish"
      /\ \A u \in Threads : u # t => th'[u] = th[u]
  <2>1. CASE TakeHandle(t)
    BY <1>0, <2>1 DEF TakeHandle, At, ThreadType
  <2>2. CASE AdmitFlush(t) \/ CloseGate(t) \/ DestroyStream(t)
    BY <2>2, GotoFields DEF AdmitFlush, CloseGate, DestroyStream, At, SessionInv
  <2>3. QED
    BY <2>1, <2>2
<1>4. \A s \in Sessions :
        /\ op'[s].feeds = op[s].feeds /\ op'[s].dispatches = op[s].dispatches
        /\ op'[s].claimed = op[s].claimed /\ op'[s].finished = op[s].finished
        /\ op'[s].term = op[s].term /\ op'[s].deferred = op[s].deferred
  BY <1>0, <1>1 DEF TakeHandle, AdmitFlush, CloseGate, DestroyStream, OpType
<1>5. session' = session
  BY DEF TakeHandle, AdmitFlush, CloseGate, DestroyStream
<1>6. QED
  BY <1>1, <1>2, <1>3, <1>4, <1>5 DEF Neutral, Feeding, Calling, Cleaning, FeedOnly, ProviderPoints,
     CleanPoints

(* ... of a thread that ends a session.                                    *)
LEMMA EndSteps ==
  ASSUME SessionInv, NEW t \in Threads,
         \/ \E s \in Sessions, how \in {"stop", "cancel"} :
              EndLookup(t, s, how) /\ th[t].pc \in {"idle", "sweep"}
         \/ EndShut(t)
         \/ FeedMalformed(t)
         \/ \E s \in Sessions : FeedLookup(t, s)
         \/ \E how \in {"stop", "cancel"} : CallbackEnds(t, how)
  PROVE  Neutral(t)
<1>0. /\ th \in [Threads -> ThreadType] /\ th[t] \in ThreadType /\ ThreadOK(th[t])
      /\ th[t].pc \notin OutsidePoints => th[t].s \in Sessions /\ op[th[t].s] \in OpType
      /\ op \in [Sessions -> OpType]
  BY Fields DEF SessionInv
<1>1. ASSUME NEW s \in Sessions, NEW how \in {"stop", "cancel"}, EndLookup(t, s, how),
             th[t].pc \in {"idle", "sweep"}
      PROVE  Neutral(t)
  <2>1. /\ th'[t].pc = "end" /\ th'[t].s = s /\ \A u \in Threads : u # t => th'[u] = th[u]
        /\ th'[t].job = how
    BY <1>0, <1>1 DEF EndLookup, ThreadType
  <2>2. \A z \in Sessions :
          /\ op'[z].feeds = op[z].feeds /\ op'[z].dispatches = op[z].dispatches
          /\ op'[z].claimed = op[z].claimed /\ op'[z].finished = op[z].finished
          /\ op'[z].term = op[z].term /\ op'[z].deferred = op[z].deferred
    BY <1>0, <1>1 DEF EndLookup, OpType
  <2>3. session' = session /\ session[s] = "live"
    BY <1>1 DEF EndLookup
  <2>4. QED
    BY <1>1, <2>1, <2>2, <2>3 DEF Neutral, Feeding, Calling, Cleaning, FeedOnly, ProviderPoints,
       CleanPoints
<1>2. ASSUME EndShut(t)
      PROVE  Neutral(t)
  <2>1. th[t].pc = "end" /\ th[t].s \in Sessions /\ th[t].job \in {"stop", "cancel"}
    BY <1>0, <1>2 DEF EndShut, At, ThreadOK, OutsidePoints
  <2>2. /\ th'[t].pc = "wait" /\ th'[t].s = th[t].s /\ th'[t].job = th[t].job
        /\ \A u \in Threads : u # t => th'[u] = th[u]
    BY <1>0, <1>2 DEF EndShut, Goto, ThreadType
  <2>3. \A z \in Sessions :
          /\ op'[z].feeds = op[z].feeds /\ op'[z].dispatches = op[z].dispatches
          /\ op'[z].claimed = op[z].claimed /\ op'[z].finished = op[z].finished
          /\ op[z].term # "active" => op'[z].term # "active"
          /\ op'[z].deferred = op[z].deferred
          /\ z = th[t].s => op'[z].term # "active"
    BY <1>0, <1>2, <2>1 DEF EndShut, Ended, OpType
  <2>4. session' = session /\ session[th[t].s] # "unissued"
    BY <1>2, <2>1 DEF EndShut, SessionInv, IssuedOK
  <2>5. QED
    BY <2>1, <2>2, <2>3, <2>4 DEF Neutral, Feeding, Calling, Cleaning, FeedOnly, ProviderPoints,
       CleanPoints
<1>3. ASSUME NEW s \in Sessions, FeedLookup(t, s)
      PROVE  Neutral(t)
  <2>1. /\ th'[t].pc = "feed" /\ th'[t].s = s /\ \A u \in Threads : u # t => th'[u] = th[u]
        /\ th'[t].job = "feed" /\ th[t].pc = "idle"
    BY <1>0, <1>3 DEF FeedLookup, At, ThreadType
  <2>2. op' = op /\ session' = session /\ session[s] = "live"
    BY <1>3 DEF FeedLookup
  <2>3. QED
    BY <2>1, <2>2 DEF Neutral, Feeding, Calling, Cleaning, FeedOnly, ProviderPoints, CleanPoints
<1>4. ASSUME NEW how \in {"stop", "cancel"}, CallbackEnds(t, how)
      PROVE  Neutral(t)
  <2>1. th[t].pc = "callback" /\ th[t].s \in Sessions
    BY <1>0, <1>4 DEF CallbackEnds, At, OutsidePoints
  <2>2. \A z \in Sessions :
          /\ op'[z].feeds = op[z].feeds /\ op'[z].dispatches = op[z].dispatches
          /\ op'[z].claimed = op[z].claimed /\ op'[z].finished = op[z].finished
          /\ op[z].term # "active" => op'[z].term # "active"
          /\ op'[z].deferred => op[z].deferred \/ op'[z].term # "active"
    BY <1>0, <1>4, <2>1 DEF CallbackEnds, Ended, OpType
  <2>3. th' = th /\ session' = session /\ session[th[t].s] # "unissued"
    BY <1>4, <2>1 DEF CallbackEnds, SessionInv, IssuedOK
  <2>4. QED
    BY <2>1, <2>2, <2>3 DEF Neutral, Feeding, Calling, Cleaning
<1>5. ASSUME FeedMalformed(t)
      PROVE  Neutral(t)
  <2>1. /\ th'[t].pc = "dispatch" /\ th'[t].s = th[t].s /\ \A u \in Threads : u # t => th'[u] = th[u]
        /\ th'[t].job = "refuse" /\ th[t].pc = "feed"
    BY <1>0, <1>5 DEF FeedMalformed, At, ThreadType
  <2>2. op' = op /\ session' = session
    BY <1>5 DEF FeedMalformed
  <2>3. \A s \in Sessions : th'[t].s = s => session[s] # "unissued"
    BY <2>1 DEF SessionInv, IssuedOK
  <2>4. QED
    BY <2>1, <2>2, <2>3 DEF Neutral, Feeding, Calling, Cleaning, FeedOnly, ProviderPoints, CleanPoints
<1>6. QED
  BY <1>1, <1>2, <1>3, <1>4, <1>5

(* ... of a thread in no session, or done with one.                        *)
LEMMA OutsideSteps ==
  ASSUME SessionInv, NEW t \in Threads,
         \/ BeginTeardown(t) \/ (\E s \in Sessions : SweepSkips(t, s)) \/ SweepDone(t)
         \/ LockComponent(t) \/ Hush(t) \/ DrainModel(t) \/ EndTeardown(t)
         \/ Unset(t) \/ Quiesce(t) \/ FeedTooLate(t) \/ EndJoin(t)
         \/ RefusalDropped(t)
  PROVE  Neutral(t)
<1>0. /\ th \in [Threads -> ThreadType] /\ th[t] \in ThreadType /\ NoSession \notin Sessions
      /\ BaseInv
  BY Fields DEF SessionInv
<1>1. \/ th[t].pc \in OutsidePoints \cup {"feed", "wait"}
      \/ th[t].pc = "dispatch" /\ th[t].job = "refuse"
  BY DEF BeginTeardown, SweepSkips, SweepDone, LockComponent, Hush, DrainModel, EndTeardown, Unset,
     Quiesce, FeedTooLate, EndJoin, RefusalDropped, Refusing, At, OutsidePoints
<1>2. /\ th'[t].pc \in OutsidePoints
      /\ th'[t].s \in {th[t].s, NoSession}
      /\ \A u \in Threads : u # t => th'[u] = th[u]
  <2>1. CASE FeedTooLate(t) \/ EndJoin(t) \/ RefusalDropped(t)
    BY <1>0, <2>1, Returned DEF FeedTooLate, EndJoin, RefusalDropped, OutsidePoints
  <2>2. CASE EndTeardown(t)
    BY <1>0, <2>2 DEF EndTeardown, Resting, OutsidePoints
  <2>3. CASE BeginTeardown(t) \/ (\E s \in Sessions : SweepSkips(t, s)) \/ SweepDone(t)
    <3>1. CASE BeginTeardown(t)
      BY <1>0, <3>1 DEF BeginTeardown, ThreadType, OutsidePoints
    <3>2. CASE \E s \in Sessions : SweepSkips(t, s)
      BY <1>0, <3>2 DEF SweepSkips, At, ThreadType, OutsidePoints
    <3>3. CASE SweepDone(t)
      BY <3>3, GotoFields, <1>0 DEF SweepDone, OutsidePoints
    <3>4. QED
      BY <2>3, <3>1, <3>2, <3>3
  <2>4. CASE LockComponent(t) \/ Hush(t) \/ DrainModel(t) \/ Unset(t) \/ Quiesce(t)
    BY <1>0, <2>4 DEF LockComponent, Hush, DrainModel, Unset, Quiesce, At, Goto, ThreadType, OutsidePoints
  <2>5. QED
    BY <2>1, <2>2, <2>3, <2>4
<1>3. op' = op /\ session' = session
  BY DEF BeginTeardown, SweepSkips, SweepDone, LockComponent, Hush, DrainModel, EndTeardown, Unset,
     Quiesce, FeedTooLate, EndJoin, RefusalDropped
<1>4. \A s \in Sessions : th'[t].s = s => session[s] # "unissued"
  BY <1>0, <1>1, <1>2 DEF SessionInv, IssuedOK, OutsidePoints
<1>5. QED
  BY <1>1, <1>2, <1>3, <1>4 DEF Neutral, Feeding, Calling, Cleaning, OutsidePoints, FeedOnly,
     ProviderPoints, CleanPoints

-----------------------------------------------------------------------------
(* The steps that count, claim, issue or erase.                            *)

(* What one thread's move does to the sets that are counted.               *)
LEMMA Recount ==
  ASSUME BaseInv, NEW t \in Threads, NEW s \in Sessions,
         \A u \in Threads : u # t => th'[u] = th[u]
  PROVE  /\ (Feeding(t, s)' <=> Feeding(t, s)) => FeedsOf(s)' = FeedsOf(s)
         /\ (Calling(t, s)' <=> Calling(t, s)) => CallsOf(s)' = CallsOf(s)
         /\ Feeding(t, s)' /\ ~Feeding(t, s)
              => Cardinality(FeedsOf(s)') = Cardinality(FeedsOf(s)) + 1
         /\ ~Feeding(t, s)' /\ Feeding(t, s)
              => Cardinality(FeedsOf(s)') = Cardinality(FeedsOf(s)) - 1
         /\ Calling(t, s)' /\ ~Calling(t, s)
              => Cardinality(CallsOf(s)') = Cardinality(CallsOf(s)) + 1
         /\ ~Calling(t, s)' /\ Calling(t, s)
              => Cardinality(CallsOf(s)') = Cardinality(CallsOf(s)) - 1
<1>1. IsFiniteSet(FeedsOf(s)) /\ IsFiniteSet(CallsOf(s))
  BY SttAssumption, FS_Subset DEF FeedsOf, CallsOf
<1>2. \A u \in Threads : u # t => (Feeding(u, s)' <=> Feeding(u, s)) /\ (Calling(u, s)' <=> Calling(u, s))
  BY DEF Feeding, Calling
<1>3. /\ (Feeding(t, s)' <=> Feeding(t, s)) => FeedsOf(s)' = FeedsOf(s)
      /\ (Calling(t, s)' <=> Calling(t, s)) => CallsOf(s)' = CallsOf(s)
      /\ Feeding(t, s)' /\ ~Feeding(t, s) => FeedsOf(s)' = FeedsOf(s) \cup {t} /\ t \notin FeedsOf(s)
      /\ ~Feeding(t, s)' /\ Feeding(t, s) => FeedsOf(s)' = FeedsOf(s) \ {t} /\ t \in FeedsOf(s)
      /\ Calling(t, s)' /\ ~Calling(t, s) => CallsOf(s)' = CallsOf(s) \cup {t} /\ t \notin CallsOf(s)
      /\ ~Calling(t, s)' /\ Calling(t, s) => CallsOf(s)' = CallsOf(s) \ {t} /\ t \in CallsOf(s)
  BY <1>2 DEF FeedsOf, CallsOf
<1>4. ASSUME NEW S, IsFiniteSet(S)
      PROVE  /\ t \notin S => Cardinality(S \cup {t}) = Cardinality(S) + 1
             /\ t \in S => Cardinality(S \ {t}) = Cardinality(S) - 1
  BY <1>4, FS_AddElement, FS_RemoveElement
<1>5. QED
  BY <1>1, <1>3, <1>4

(* A count of zero means that nobody is there.                             *)
LEMMA NobodyCounted ==
  ASSUME BaseInv, Counted, NEW s \in Sessions
  PROVE  /\ op[s].feeds \in Nat /\ op[s].dispatches \in Nat
         /\ op[s].feeds = 0 => \A t \in Threads : ~Feeding(t, s)
         /\ op[s].dispatches = 0 => \A t \in Threads : ~Calling(t, s)
<1>1. IsFiniteSet(FeedsOf(s)) /\ IsFiniteSet(CallsOf(s))
  BY SttAssumption, FS_Subset DEF FeedsOf, CallsOf
<1>2. Cardinality(FeedsOf(s)) \in Nat /\ Cardinality(CallsOf(s)) \in Nat
  BY <1>1, FS_CardinalityType
<1>3. /\ Cardinality(FeedsOf(s)) = 0 => FeedsOf(s) = {}
      /\ Cardinality(CallsOf(s)) = 0 => CallsOf(s) = {}
  BY <1>1, FS_EmptySet
<1>4. QED
  BY <1>2, <1>3 DEF Counted, FeedsOf, CallsOf

LEMMA StartSteps ==
  ASSUME SessionInv, BaseInv', NEW t \in Threads, StartCommit(t) \/ \E s \in Sessions : StartCheck(t, s)
  PROVE  SessionInv'
<1>0. /\ th \in [Threads -> ThreadType] /\ th[t] \in ThreadType /\ ThreadOK(th[t])
      /\ th[t].pc \notin OutsidePoints => th[t].s \in Sessions
      /\ NoSession \notin Sessions /\ BaseInv
  BY Fields DEF SessionInv
<1>1. ASSUME \A u \in Threads : u # t => th'[u] = th[u], op' = op,
             th[t].pc \in {"idle", "start"}, th'[t].pc \in {"idle", "start", "sweep"},
             \A s \in Sessions : session[s] = "unissued" \/ session'[s] = session[s]
      PROVE  /\ Counted'
             /\ \A u \in Threads, s \in Sessions : Cleaning(u, s)' <=> Cleaning(u, s)
             /\ OneCleaner' /\ EndsOK'
             /\ CleansOK' \/ session' # session
             /\ RefusalsOK'
  <2>1. \A u \in Threads, s \in Sessions : /\ Feeding(u, s)' <=> Feeding(u, s)
                                           /\ Calling(u, s)' <=> Calling(u, s)
                                           /\ Cleaning(u, s)' <=> Cleaning(u, s)
    BY <1>1 DEF Feeding, Calling, Cleaning, FeedOnly, ProviderPoints, CleanPoints
  <2>2. Counted'
    <3>1. \A s \in Sessions : FeedsOf(s)' = FeedsOf(s) /\ CallsOf(s)' = CallsOf(s)
      BY <2>1 DEF FeedsOf, CallsOf
    <3>2. QED
      BY <1>1, <3>1 DEF SessionInv, Counted
  <2>3. OneCleaner'
    BY <2>1 DEF SessionInv, OneCleaner
  <2>4. EndsOK'
    BY <1>1 DEF SessionInv, EndsOK
  <2>5. session' = session => CleansOK'
    <3>1. ASSUME session' = session, NEW u \in Threads, NEW s \in Sessions, Cleaning(u, s)'
          PROVE  th'[u] = th[u] /\ Cleaning(u, s)
      BY <1>1, <2>1, <3>1 DEF Cleaning, CleanPoints, ProviderPoints
    <3>2. QED
      BY <1>1, <3>1 DEF SessionInv, CleansOK
  <2>6. RefusalsOK'
    BY <1>1, <2>1 DEF SessionInv, RefusalsOK, Calling
  <2>7. QED
    BY <2>1, <2>2, <2>3, <2>4, <2>5, <2>6
<1>2. ASSUME NEW s \in Sessions, StartCheck(t, s)
      PROVE  SessionInv'
  <2>1. /\ th'[t].pc = "start" /\ th'[t].s = s /\ \A u \in Threads : u # t => th'[u] = th[u]
        /\ op' = op /\ session' = session /\ th[t].pc = "idle" /\ session[s] = "unissued"
        /\ \A u \in Threads : ~(th[u].pc = "start" /\ th[u].s = s)
    BY <1>0, <1>2 DEF StartCheck, At, ThreadType
  <2>2. IssuedOK' /\ OneStarts'
    BY <2>1 DEF SessionInv, IssuedOK, OneStarts
  <2>3. ClaimsOK'
    BY <2>1 DEF SessionInv, ClaimsOK
  <2>4. QED
    BY <1>1, <2>1, <2>2, <2>3 DEF SessionInv
<1>3. ASSUME StartCommit(t)
      PROVE  SessionInv'
  <2>1. th[t].pc = "start" /\ th[t].s \in Sessions /\ session[th[t].s] = "unissued"
    BY <1>0, <1>3 DEF StartCommit, At, OutsidePoints, SessionInv, IssuedOK
  <2>2. /\ th'[t].pc \in {"idle", "sweep"} /\ th'[t].s = NoSession
        /\ \A u \in Threads : u # t => th'[u] = th[u]
        /\ op' = op
    BY <1>0, <1>3, Returned DEF StartCommit
  <2>3. session' \in {session, [session EXCEPT ![th[t].s] = "live"]}
    BY <1>3 DEF StartCommit
  <2>4. session \in [Sessions -> {"unissued", "live", "erased"}]
    BY <1>0 DEF BaseInv, Types
  <2>5. \A s \in Sessions : session[s] = "unissued" \/ session'[s] = session[s]
    BY <2>1, <2>3, <2>4
  <2>6. \A u \in Threads : u # t => th[u].s # th[t].s
    BY <2>1 DEF SessionInv, IssuedOK, OneStarts
  <2>7. IssuedOK'
    <3>1. ASSUME NEW u \in Threads, NEW s \in Sessions, th'[u].s = s
          PROVE  th'[u] = th[u] /\ session'[s] = session[s]
      BY <1>0, <2>2, <2>3, <2>4, <2>6, <3>1
    <3>2. QED
      BY <3>1 DEF SessionInv, IssuedOK
  <2>8. OneStarts'
    BY <2>2 DEF SessionInv, OneStarts
  <2>9. ClaimsOK'
    BY <2>1, <2>2, <2>3, <2>4 DEF SessionInv, ClaimsOK
  <2>10. CleansOK'
    <3>1. ASSUME NEW u \in Threads, NEW s \in Sessions, Cleaning(u, s)'
          PROVE  th'[u] = th[u] /\ Cleaning(u, s) /\ session'[s] = session[s]
      BY <1>0, <2>2, <2>3, <2>4, <2>6, <3>1 DEF Cleaning, CleanPoints, ProviderPoints
    <3>2. QED
      BY <2>2, <3>1 DEF SessionInv, CleansOK
  <2>11. QED
    BY <1>1, <2>1, <2>2, <2>5, <2>7, <2>8, <2>9, <2>10 DEF SessionInv
<1>4. QED
  BY <1>2, <1>3

(* A step that counts, and leaves everything else as it is.                *)
LEMMA CountStep ==
  ASSUME SessionInv, BaseInv', NEW t \in Threads,
         \A u \in Threads : u # t => th'[u] = th[u], session' = session,
         th'[t].s \in {th[t].s, NoSession},
         th[t].pc # "start", th'[t].pc \notin {"start", "wait", "destroy", "finish"},
         \A s \in Sessions : /\ Cleaning(t, s)' => Cleaning(t, s)
                             /\ op'[s].claimed = op[s].claimed /\ op'[s].finished = op[s].finished
                             /\ op'[s].term = op[s].term /\ op'[s].deferred = op[s].deferred
                             /\ op[s].claimed => op'[s].feeds = op[s].feeds,
         th[t].pc \notin {"destroy", "finish"}, Counted',
         \A s \in Sessions : Calling(t, s)' /\ th'[t].job = "refuse" => ~op'[s].claimed
  PROVE  SessionInv'
<1>0. NoSession \notin Sessions /\ BaseInv
  BY SttAssumption DEF SessionInv
<1>1. \A u \in Threads, s \in Sessions : Cleaning(u, s)' => Cleaning(u, s)
  BY DEF Cleaning
<1>2. ClaimsOK'
  BY DEF SessionInv, ClaimsOK
<1>3. CleansOK'
  BY <1>1 DEF SessionInv, CleansOK
<1>4. OneCleaner'
  BY <1>1 DEF SessionInv, OneCleaner
<1>5. EndsOK'
  <2>1. ASSUME NEW u \in Threads, u # t, th[u].pc = "wait"
        PROVE  op'[th[u].s].term # "active"
    BY <1>0, <2>1 DEF SessionInv, EndsOK, BaseInv, ThreadsOK, ThreadOK, OutsidePoints
  <2>2. QED
    BY <2>1 DEF EndsOK
<1>6. IssuedOK'
  BY <1>0 DEF SessionInv, IssuedOK
<1>7. OneStarts'
  BY DEF SessionInv, OneStarts
<1>8. RefusalsOK'
  BY DEF SessionInv, RefusalsOK, Calling
<1>9. QED
  BY <1>2, <1>3, <1>4, <1>5, <1>6, <1>7, <1>8 DEF SessionInv

LEMMA FeedAdmitStep ==
  ASSUME SessionInv, BaseInv', NEW t \in Threads, NEW s \in Sessions, s = th[t].s, FeedAdmit(t)
  PROVE  SessionInv'
<1>0. /\ th \in [Threads -> ThreadType] /\ th[t] \in ThreadType /\ ThreadOK(th[t]) /\ BaseInv
      /\ op \in [Sessions -> OpType] /\ Counted /\ ClaimsOK
      /\ th[t].pc = "feed" /\ s \in Sessions /\ th[t].job = "feed"
  <2>1. th[t].pc = "feed"
    BY DEF FeedAdmit, At
  <2>2. QED
    BY <2>1, Fields DEF SessionInv, ThreadOK, OutsidePoints
<1>1. /\ th'[t].pc \in {"buffer", "create", "call"} /\ th'[t].s = s /\ th'[t].job = "feed"
      /\ \A u \in Threads : u # t => th'[u] = th[u]
  BY <1>0 DEF FeedAdmit, FeedRoute, ThreadType
<1>2. /\ op[s].term = "active" /\ op'[s].feeds = op[s].feeds + 1 /\ session' = session
      /\ \A z \in Sessions :
           /\ z # s => op'[z] = op[z]
           /\ op'[z].dispatches = op[z].dispatches
           /\ op'[z].claimed = op[z].claimed /\ op'[z].finished = op[z].finished
           /\ op'[z].term = op[z].term /\ op'[z].deferred = op[z].deferred
  BY <1>0 DEF FeedAdmit, OpType
<1>3. ~op[s].claimed
  BY <1>0, <1>2 DEF ClaimsOK
<1>4. /\ Feeding(t, s)' /\ ~Feeding(t, s)
      /\ \A z \in Sessions : z # s => ~Feeding(t, z)' /\ ~Feeding(t, z)
      /\ \A z \in Sessions : ~Calling(t, z)' /\ ~Calling(t, z) /\ ~Cleaning(t, z)'
  BY <1>0, <1>1 DEF Feeding, Calling, Cleaning, FeedOnly, ProviderPoints, CleanPoints
<1>5. Counted'
  <2>1. op'[s].feeds = Cardinality(FeedsOf(s)')
    BY <1>0, <1>1, <1>2, <1>4, Recount DEF Counted
  <2>2. \A z \in Sessions : z # s => op'[z].feeds = Cardinality(FeedsOf(z)')
    BY <1>0, <1>1, <1>2, <1>4, Recount DEF Counted
  <2>3. \A z \in Sessions : op'[z].dispatches = Cardinality(CallsOf(z)')
    BY <1>0, <1>1, <1>2, <1>4, Recount DEF Counted
  <2>4. QED
    BY <2>1, <2>2, <2>3 DEF Counted
<1>6. QED
  BY <1>0, <1>1, <1>2, <1>3, <1>4, <1>5, CountStep

LEMMA DispatchStep ==
  ASSUME SessionInv, BaseInv', NEW t \in Threads, NEW s \in Sessions, s = th[t].s, Dispatch(t)
  PROVE  SessionInv'
<1>0. /\ th \in [Threads -> ThreadType] /\ th[t] \in ThreadType /\ ThreadOK(th[t]) /\ BaseInv
      /\ op \in [Sessions -> OpType] /\ Counted /\ ClaimsOK
      /\ th[t].pc = "dispatch" /\ s \in Sessions
  <2>1. th[t].pc = "dispatch"
    BY DEF Dispatch, At
  <2>2. QED
    BY <2>1, Fields DEF SessionInv, ThreadOK, OutsidePoints
<1>1. /\ th'[t].pc = "callback" /\ th'[t].s = s /\ th'[t].job = th[t].job
      /\ \A u \in Threads : u # t => th'[u] = th[u]
  BY <1>0, GotoFields DEF Dispatch
<1>2. /\ op'[s].dispatches = op[s].dispatches + 1 /\ session' = session
      /\ \A z \in Sessions :
           /\ z # s => op'[z] = op[z]
           /\ op'[z].feeds = op[z].feeds
           /\ op'[z].claimed = op[z].claimed /\ op'[z].finished = op[z].finished
           /\ op'[z].term = op[z].term /\ op'[z].deferred = op[z].deferred
  BY <1>0 DEF Dispatch, OpType
<1>3. /\ Calling(t, s)' /\ ~Calling(t, s)
      /\ \A z \in Sessions : z # s => ~Calling(t, z)' /\ ~Calling(t, z)
      /\ \A z \in Sessions : (Feeding(t, z)' <=> Feeding(t, z)) /\ (Cleaning(t, z)' <=> Cleaning(t, z))
  BY <1>0, <1>1 DEF Feeding, Calling, Cleaning, FeedOnly, ProviderPoints, CleanPoints
<1>4. Counted'
  <2>1. op'[s].dispatches = Cardinality(CallsOf(s)')
    BY <1>0, <1>1, <1>2, <1>3, Recount DEF Counted
  <2>2. \A z \in Sessions : z # s => op'[z].dispatches = Cardinality(CallsOf(z)')
    BY <1>0, <1>1, <1>2, <1>3, Recount DEF Counted
  <2>3. \A z \in Sessions : op'[z].feeds = Cardinality(FeedsOf(z)')
    BY <1>0, <1>1, <1>2, <1>3, Recount DEF Counted
  <2>4. QED
    BY <2>1, <2>2, <2>3 DEF Counted
<1>5. \A z \in Sessions : Calling(t, z)' /\ th'[t].job = "refuse" => ~op'[z].claimed
  <2>1. CASE th[t].job = "refuse"
    <3>1. op[s].term = "active" \/ op[s].feeds > 0
      BY <2>1 DEF Dispatch, Deliverable, Admissible
    <3>2. ~op[s].claimed
      BY <1>0, <3>1 DEF ClaimsOK
    <3>3. QED
      BY <1>2, <1>3, <3>2
  <2>2. QED
    BY <1>1, <2>1
<1>6. QED
  BY <1>0, <1>1, <1>2, <1>3, <1>4, <1>5, CountStep

(* Nothing is abandoned when a callback returns: the feed or the flush it  *)
(* runs in is still counted, or still cleaning up.                         *)
LEMMA CallbackGoesOn ==
  ASSUME SessionInv, NEW t \in Threads, NEW s \in Sessions, s = th[t].s, CallbackReturns(t)
  PROVE  /\ th'[t].pc = th[t].back /\ th'[t].s = s /\ th'[t].job = th[t].job
         /\ \A u \in Threads : u # t => th'[u] = th[u]
         /\ op' = [op EXCEPT ![s] = [op[s] EXCEPT !.dispatches = op[s].dispatches - 1]]
         /\ session' = session
<1> DEFINE o == [op[s] EXCEPT !.dispatches = op[s].dispatches - 1]
<1>0. /\ th \in [Threads -> ThreadType] /\ th[t] \in ThreadType /\ ThreadOK(th[t]) /\ BaseInv
      /\ op \in [Sessions -> OpType] /\ Counted /\ CleansOK
      /\ th[t].pc = "callback" /\ s \in Sessions /\ th[t].job \in {"feed", "stop"}
      /\ th[t].back \in {"provided", IF th[t].job = "feed" THEN "release" ELSE "close"}
  <2>1. th[t].pc = "callback"
    BY DEF CallbackReturns, At
  <2>2. QED
    BY <2>1, Fields DEF CallbackReturns, Refusing, SessionInv, ThreadOK, OutsidePoints, ProviderPoints
<1>1. ~Abandoned(o)
  <2>1. op[s].feeds = 0 => ~Feeding(t, s)
    BY <1>0, NobodyCounted
  <2>2. op[s].claimed \/ op[s].feeds # 0
    BY <1>0, <2>1 DEF Feeding, Cleaning, CleansOK, ProviderPoints
  <2>3. o.feeds = op[s].feeds /\ o.claimed = op[s].claimed
    BY <1>0 DEF OpType
  <2>4. QED
    BY <2>2, <2>3 DEF Abandoned, Quiescent
<1>2. Release(t, o, th[t].back) /\ session' = session
  BY DEF CallbackReturns
<1>3. /\ th'[t].pc = th[t].back /\ th'[t].s = s /\ th'[t].job = th[t].job
      /\ \A u \in Threads : u # t => th'[u] = th[u]
  <2>1. th[t].back # "return"
    BY <1>0
  <2>2. QED
    BY <1>0, <1>1, <1>2, <2>1 DEF Release, ThreadType
<1>4. op' = [op EXCEPT ![s] = o]
  <2>1. op' = [op EXCEPT ![s] = [o EXCEPT !.claimed = o.claimed \/ FALSE]]
    BY <1>1, <1>2 DEF Release
  <2>2. [o EXCEPT !.claimed = o.claimed \/ FALSE] = o
    BY <1>0 DEF OpType
  <2>3. QED
    BY <2>1, <2>2
<1>5. QED
  BY <1>2, <1>3, <1>4

LEMMA CallbackStep ==
  ASSUME SessionInv, BaseInv', NEW t \in Threads, NEW s \in Sessions, s = th[t].s, CallbackReturns(t)
  PROVE  SessionInv'
<1>0. /\ th \in [Threads -> ThreadType] /\ th[t] \in ThreadType /\ ThreadOK(th[t]) /\ BaseInv
      /\ op \in [Sessions -> OpType] /\ Counted
      /\ th[t].pc = "callback" /\ s \in Sessions /\ th[t].job \in {"feed", "stop"}
      /\ th[t].back \in {"provided", IF th[t].job = "feed" THEN "release" ELSE "close"}
  <2>1. th[t].pc = "callback"
    BY DEF CallbackReturns, At
  <2>2. QED
    BY <2>1, Fields DEF CallbackReturns, Refusing, SessionInv, ThreadOK, OutsidePoints, ProviderPoints
<1>3. /\ th'[t].pc = th[t].back /\ th'[t].s = s /\ th'[t].job = th[t].job
      /\ \A u \in Threads : u # t => th'[u] = th[u]
      /\ op' = [op EXCEPT ![s] = [op[s] EXCEPT !.dispatches = op[s].dispatches - 1]]
      /\ session' = session
  BY CallbackGoesOn
<1>4. /\ op'[s].dispatches = op[s].dispatches - 1
      /\ \A z \in Sessions :
           /\ z # s => op'[z] = op[z]
           /\ op'[z].feeds = op[z].feeds
           /\ op'[z].claimed = op[z].claimed /\ op'[z].finished = op[z].finished
           /\ op'[z].term = op[z].term /\ op'[z].deferred = op[z].deferred
  BY <1>0, <1>3 DEF OpType
<1>5. /\ Calling(t, s) /\ ~Calling(t, s)'
      /\ \A z \in Sessions : z # s => ~Calling(t, z)' /\ ~Calling(t, z)
      /\ \A z \in Sessions : (Feeding(t, z)' <=> Feeding(t, z)) /\ (Cleaning(t, z)' <=> Cleaning(t, z))
  BY <1>0, <1>3 DEF Feeding, Calling, Cleaning, FeedOnly, ProviderPoints, CleanPoints
<1>6. Counted'
  <2>1. op'[s].dispatches = Cardinality(CallsOf(s)')
    BY <1>0, <1>3, <1>4, <1>5, Recount DEF Counted
  <2>2. \A z \in Sessions : z # s => op'[z].dispatches = Cardinality(CallsOf(z)')
    BY <1>0, <1>3, <1>4, <1>5, Recount DEF Counted
  <2>3. \A z \in Sessions : op'[z].feeds = Cardinality(FeedsOf(z)')
    BY <1>0, <1>3, <1>4, <1>5, Recount DEF Counted
  <2>4. QED
    BY <2>1, <2>2, <2>3 DEF Counted
<1>7. \A z \in Sessions : ~Calling(t, z)'
  BY <1>5
<1>8. QED
  BY <1>0, <1>3, <1>4, <1>5, <1>6, <1>7, CountStep

(* The last operation of a session that its own callback ended: its thread *)
(* claims the cleanup.                                                     *)
LEMMA AbandonedStep ==
  ASSUME SessionInv, BaseInv', NEW t \in Threads, NEW s \in Sessions, s = th[t].s,
         th[t].pc # "start", th'[t].pc = "take", th'[t].s = s,
         \A u \in Threads : u # t => th'[u] = th[u],
         session' = session, op[s].deferred, ~op[s].claimed,
         op'[s].claimed, op'[s].feeds = 0, op'[s].dispatches = 0,
         \A z \in Sessions :
           /\ z # s => op'[z] = op[z]
           /\ op'[z].finished = op[z].finished
           /\ op'[z].term = op[z].term /\ op'[z].deferred = op[z].deferred,
         Counted'
  PROVE  SessionInv'
<1>0. /\ BaseInv /\ ClaimsOK /\ CleansOK /\ IssuedOK /\ NoSession \notin Sessions
      /\ session \in [Sessions -> {"unissued", "live", "erased"}]
  BY SttAssumption DEF SessionInv, BaseInv, Types
<1>1. session[s] = "live"
  BY <1>0 DEF ClaimsOK, IssuedOK
<1>2. \A u \in Threads : ~Cleaning(u, s)
  BY <1>0 DEF CleansOK
<1>3. /\ \A u \in Threads, z \in Sessions : u # t => (Cleaning(u, z)' <=> Cleaning(u, z))
      /\ \A z \in Sessions : Cleaning(t, z)' => z = s
  BY DEF Cleaning
<1>4. ClaimsOK'
  BY <1>0, <1>1 DEF ClaimsOK
<1>5. CleansOK'
  <2>1. ASSUME NEW u \in Threads, NEW z \in Sessions, Cleaning(u, z)'
        PROVE  /\ op'[z].claimed /\ ~op'[z].finished
               /\ session'[z] = IF th'[u].pc \in {"destroy", "finish"} THEN "erased" ELSE "live"
    <3>1. CASE u = t
      <4>1. z = s /\ ~op[s].finished
        BY <1>0, <1>1, <1>3, <2>1, <3>1 DEF ClaimsOK
      <4>2. QED
        BY <1>1, <3>1, <4>1
    <3>2. CASE u # t
      <4>1. Cleaning(u, z) /\ z # s
        BY <1>2, <1>3, <2>1, <3>2
      <4>2. QED
        BY <1>0, <3>2, <4>1 DEF CleansOK
    <3>3. QED
      BY <3>1, <3>2
  <2>2. QED
    BY <2>1 DEF CleansOK
<1>6. OneCleaner'
  BY <1>2, <1>3 DEF SessionInv, OneCleaner
<1>7. EndsOK'
  <2>1. ASSUME NEW u \in Threads, u # t, th[u].pc = "wait"
        PROVE  op'[th[u].s].term # "active"
    BY <1>0, <2>1 DEF SessionInv, EndsOK, BaseInv, ThreadsOK, ThreadOK, OutsidePoints
  <2>2. QED
    BY <2>1 DEF EndsOK
<1>8. IssuedOK'
  BY <1>0, <1>1 DEF IssuedOK
<1>9. OneStarts'
  BY DEF SessionInv, OneStarts
<1>10. RefusalsOK'
  <2>1. ASSUME NEW u \in Threads
        PROVE  ~Calling(u, s)'
    <3>1. IsFiniteSet(CallsOf(s)')
      BY SttAssumption, FS_Subset DEF CallsOf
    <3>2. CallsOf(s)' = {}
      BY <3>1, FS_EmptySet DEF Counted
    <3>3. QED
      BY <3>2 DEF CallsOf
  <2>2. QED
    BY <2>1 DEF SessionInv, RefusalsOK, Calling
<1>11. QED
  BY <1>4, <1>5, <1>6, <1>7, <1>8, <1>9, <1>10 DEF SessionInv

(* A feed's end: if it was the last operation of a session that its own    *)
(* callback ended, its thread cleans up.                                   *)
LEMMA FeedReturnsStep ==
  ASSUME SessionInv, BaseInv', NEW t \in Threads, NEW s \in Sessions, s = th[t].s, FeedReturns(t)
  PROVE  SessionInv'
<1> DEFINE o == [op[s] EXCEPT !.feeds = op[s].feeds - 1]
<1>0. /\ th \in [Threads -> ThreadType] /\ th[t] \in ThreadType /\ ThreadOK(th[t]) /\ BaseInv
      /\ op \in [Sessions -> OpType] /\ Counted /\ ClaimsOK /\ CleansOK /\ IssuedOK
      /\ th[t].pc = "release" /\ th[t].job = "feed" /\ NoSession \notin Sessions
  <2>1. th[t].pc = "release"
    BY DEF FeedReturns, At
  <2>2. QED
    BY <2>1, Fields DEF SessionInv, ThreadOK, FeedOnly
<1>1. Release(t, o, "return") /\ session' = session
  BY DEF FeedReturns
<1>2. /\ op'[s].feeds = op[s].feeds - 1
      /\ op'[s].claimed = (op[s].claimed \/ Abandoned(o))
      /\ \A z \in Sessions :
           /\ z # s => op'[z] = op[z]
           /\ op'[z].dispatches = op[z].dispatches /\ op'[z].finished = op[z].finished
           /\ op'[z].term = op[z].term /\ op'[z].deferred = op[z].deferred
  BY <1>0, <1>1 DEF Release, OpType
<1>3. Feeding(t, s) /\ ~op[s].claimed
  <2>1. Feeding(t, s)
    BY <1>0 DEF Feeding, FeedOnly
  <2>2. op[s].feeds # 0
    BY <1>0, <2>1, NobodyCounted
  <2>3. QED
    BY <1>0, <2>1, <2>2 DEF ClaimsOK
<1>4. Abandoned(o) => op[s].deferred /\ op'[s].feeds = 0 /\ op'[s].dispatches = 0
  BY <1>0, <1>2 DEF Abandoned, Quiescent, OpType
<1>5. /\ Abandoned(o) => th'[t].pc = "take" /\ th'[t].s = s
      /\ ~Abandoned(o) => th'[t].pc = "idle" /\ th'[t].s = NoSession /\ th'[t].job = "none"
      /\ \A u \in Threads : u # t => th'[u] = th[u]
  BY <1>0, <1>1 DEF Release, Resting, ThreadType
<1>6. /\ ~Feeding(t, s)'
      /\ \A z \in Sessions : z # s => ~Feeding(t, z)' /\ ~Feeding(t, z)
      /\ \A z \in Sessions : ~Calling(t, z)' /\ ~Calling(t, z) /\ ~Cleaning(t, z)
  BY <1>0, <1>5 DEF Feeding, Calling, Cleaning, FeedOnly, ProviderPoints, CleanPoints
<1>7. Counted'
  <2>1. op'[s].feeds = Cardinality(FeedsOf(s)')
    BY <1>0, <1>2, <1>3, <1>5, <1>6, Recount DEF Counted
  <2>2. \A z \in Sessions : z # s => op'[z].feeds = Cardinality(FeedsOf(z)')
    BY <1>0, <1>2, <1>5, <1>6, Recount DEF Counted
  <2>3. \A z \in Sessions : op'[z].dispatches = Cardinality(CallsOf(z)')
    BY <1>0, <1>2, <1>5, <1>6, Recount DEF Counted
  <2>4. QED
    BY <2>1, <2>2, <2>3 DEF Counted
<1>8. CASE ~Abandoned(o)
  <2>1. \A z \in Sessions : ~Cleaning(t, z)'
    BY <1>5, <1>8 DEF Cleaning, CleanPoints, ProviderPoints
  <2>2. op'[s].claimed = op[s].claimed
    BY <1>0, <1>2, <1>8 DEF OpType
  <2>3. \A z \in Sessions : /\ op'[z].claimed = op[z].claimed
                            /\ op[z].claimed => op'[z].feeds = op[z].feeds
    BY <1>2, <1>3, <2>2
  <2>4. QED
    BY <1>0, <1>1, <1>2, <1>5, <1>6, <1>7, <1>8, <2>1, <2>3, CountStep
<1>9. CASE Abandoned(o)
  BY <1>0, <1>1, <1>2, <1>3, <1>4, <1>5, <1>7, <1>9, AbandonedStep
<1>10. QED
  BY <1>8, <1>9

(* The end of a refused chunk's callback, which may be the last operation  *)
(* of a session too.                                                       *)
LEMMA RefusalGoesOn ==
  ASSUME SessionInv, NEW t \in Threads, NEW s \in Sessions, s = th[t].s, RefusalReturns(t)
  PROVE  /\ th[t].pc = "callback" /\ th[t].job = "refuse" /\ th[t].h = NoStream
         /\ \/ th'[t].pc = "take" /\ th'[t].s = s /\ th'[t].h = NoStream /\ ~th'[t].tearing
                /\ th'[t].job = "refuse"
            \/ th'[t].pc = "idle" /\ th'[t].s = NoSession /\ th'[t].job = "none"
                /\ th'[t].h = NoStream
         /\ th'[t].tearing = FALSE
         /\ \A u \in Threads : u # t => th'[u] = th[u]
         /\ \A z \in Sessions : op'[z].handle = op[z].handle
         /\ UNCHANGED <<accepting, epoch, session, stream, mtx, slot>>
<1>1. /\ th \in [Threads -> ThreadType] /\ ThreadOK(th[t]) /\ op \in [Sessions -> OpType]
      /\ th[t].pc = "callback" /\ th[t].job = "refuse"
  BY Fields DEF RefusalReturns, Refusing, At, SessionInv
<1>2. th[t].h = NoStream
  BY <1>1 DEF ThreadOK, ProviderPoints
<1>3. /\ Resting.pc = "idle" /\ Resting.s = NoSession /\ Resting.job = "none"
      /\ Resting.h = NoStream /\ Resting.tearing = FALSE
  BY DEF Resting
<1>4. QED
  BY <1>1, <1>2, <1>3 DEF RefusalReturns, Release, Resting, OpType

LEMMA RefusalReturnsStep ==
  ASSUME SessionInv, BaseInv', NEW t \in Threads, NEW s \in Sessions, s = th[t].s, RefusalReturns(t)
  PROVE  SessionInv'
<1> DEFINE o == [op[s] EXCEPT !.dispatches = op[s].dispatches - 1]
<1>0. /\ th \in [Threads -> ThreadType] /\ th[t] \in ThreadType /\ ThreadOK(th[t]) /\ BaseInv
      /\ op \in [Sessions -> OpType] /\ Counted /\ RefusalsOK
      /\ th[t].pc = "callback" /\ th[t].job = "refuse" /\ NoSession \notin Sessions
  BY Fields DEF RefusalReturns, Refusing, At, SessionInv
<1>1. Release(t, o, "return") /\ session' = session
  BY DEF RefusalReturns
<1>2. /\ op'[s].dispatches = op[s].dispatches - 1
      /\ op'[s].claimed = (op[s].claimed \/ Abandoned(o))
      /\ \A z \in Sessions :
           /\ z # s => op'[z] = op[z]
           /\ op'[z].feeds = op[z].feeds /\ op'[z].finished = op[z].finished
           /\ op'[z].term = op[z].term /\ op'[z].deferred = op[z].deferred
  BY <1>0, <1>1 DEF Release, OpType
<1>3. Calling(t, s) /\ ~op[s].claimed
  BY <1>0 DEF Calling, RefusalsOK
<1>4. Abandoned(o) => op[s].deferred /\ op'[s].feeds = 0 /\ op'[s].dispatches = 0
  BY <1>0, <1>2 DEF Abandoned, Quiescent, OpType
<1>5. /\ Abandoned(o) => th'[t].pc = "take" /\ th'[t].s = s
      /\ ~Abandoned(o) => th'[t].pc = "idle" /\ th'[t].s = NoSession
      /\ \A u \in Threads : u # t => th'[u] = th[u]
  BY <1>0, <1>1 DEF Release, Resting, ThreadType
<1>6. /\ \A z \in Sessions : ~Feeding(t, z)' /\ ~Feeding(t, z) /\ ~Calling(t, z)' /\ ~Cleaning(t, z)
      /\ \A z \in Sessions : z # s => ~Calling(t, z)
  BY <1>0, <1>5 DEF Feeding, Calling, Cleaning, FeedOnly, ProviderPoints, CleanPoints
<1>7. Counted'
  <2>1. op'[s].dispatches = Cardinality(CallsOf(s)')
    BY <1>0, <1>2, <1>3, <1>5, <1>6, Recount DEF Counted
  <2>2. \A z \in Sessions : z # s => op'[z].dispatches = Cardinality(CallsOf(z)')
    BY <1>0, <1>2, <1>5, <1>6, Recount DEF Counted
  <2>3. \A z \in Sessions : op'[z].feeds = Cardinality(FeedsOf(z)')
    BY <1>0, <1>2, <1>5, <1>6, Recount DEF Counted
  <2>4. QED
    BY <2>1, <2>2, <2>3 DEF Counted
<1>8. CASE ~Abandoned(o)
  <2>1. \A z \in Sessions : ~Cleaning(t, z)'
    BY <1>5, <1>8 DEF Cleaning, CleanPoints, ProviderPoints
  <2>2. op'[s].claimed = op[s].claimed
    BY <1>0, <1>2, <1>8 DEF OpType
  <2>3. \A z \in Sessions : op'[z].claimed = op[z].claimed
    BY <1>2, <2>2
  <2>4. QED
    BY <1>0, <1>1, <1>2, <1>5, <1>6, <1>7, <1>8, <2>1, <2>3, CountStep
<1>9. CASE Abandoned(o)
  BY <1>0, <1>1, <1>2, <1>3, <1>4, <1>5, <1>7, <1>9, AbandonedStep
<1>10. QED
  BY <1>8, <1>9

(* One thread finds the session quiescent and unclaimed.                   *)
LEMMA EndClaimStep ==
  ASSUME SessionInv, BaseInv', NEW t \in Threads, NEW s \in Sessions, s = th[t].s, EndClaim(t)
  PROVE  SessionInv'
<1>0. /\ th \in [Threads -> ThreadType] /\ th[t] \in ThreadType /\ ThreadOK(th[t]) /\ BaseInv
      /\ op \in [Sessions -> OpType] /\ Counted /\ ClaimsOK /\ CleansOK /\ IssuedOK /\ EndsOK
      /\ th[t].pc = "wait" /\ th[t].job \in {"stop", "cancel"}
  <2>1. th[t].pc = "wait"
    BY DEF EndClaim, At
  <2>2. QED
    BY <2>1, Fields DEF SessionInv, ThreadOK
<1>1. /\ th'[t].pc = "take" /\ th'[t].s = s /\ th'[t].job = th[t].job
      /\ \A u \in Threads : u # t => th'[u] = th[u]
  BY <1>0, GotoFields DEF EndClaim
<1>2. /\ op'[s].claimed /\ ~op[s].claimed /\ op[s].feeds = 0 /\ session' = session
      /\ \A z \in Sessions :
           /\ z # s => op'[z] = op[z]
           /\ op'[z].feeds = op[z].feeds
           /\ op'[z].dispatches = op[z].dispatches /\ op'[z].finished = op[z].finished
           /\ op'[z].term = op[z].term /\ op'[z].deferred = op[z].deferred
  BY <1>0 DEF EndClaim, Quiescent, OpType
<1>3. op[s].term # "active" /\ session[s] = "live"
  <2>1. session \in [Sessions -> {"unissued", "live", "erased"}]
    BY <1>0 DEF BaseInv, Types
  <2>2. QED
    BY <1>0, <1>2, <2>1 DEF ClaimsOK, IssuedOK, EndsOK
<1>4. \A z \in Sessions : ~Feeding(t, z)' /\ ~Feeding(t, z) /\ ~Calling(t, z)' /\ ~Calling(t, z)
  BY <1>0, <1>1 DEF Feeding, Calling, FeedOnly, ProviderPoints
<1>5. Counted'
  BY <1>0, <1>1, <1>2, <1>4, Recount DEF Counted
<1>6. \A u \in Threads : ~Cleaning(u, s)
  BY <1>0, <1>2 DEF CleansOK
<1>7. /\ \A u \in Threads, z \in Sessions : u # t => (Cleaning(u, z)' <=> Cleaning(u, z))
      /\ \A z \in Sessions : Cleaning(t, z)' => z = s
  BY <1>1 DEF Cleaning
<1>8. ClaimsOK'
  BY <1>0, <1>2, <1>3 DEF ClaimsOK
<1>9. CleansOK'
  <2>1. ASSUME NEW u \in Threads, NEW z \in Sessions, Cleaning(u, z)'
        PROVE  /\ op'[z].claimed /\ ~op'[z].finished
               /\ session'[z] = IF th'[u].pc \in {"destroy", "finish"} THEN "erased" ELSE "live"
    <3>1. CASE u = t
      <4>1. z = s /\ ~op[s].finished
        BY <1>0, <1>3, <1>7, <2>1, <3>1 DEF ClaimsOK
      <4>2. QED
        BY <1>1, <1>2, <1>3, <3>1, <4>1
    <3>2. CASE u # t
      <4>1. Cleaning(u, z) /\ z # s
        BY <1>6, <1>7, <2>1, <3>2
      <4>2. QED
        BY <1>0, <1>1, <1>2, <3>2, <4>1 DEF CleansOK
    <3>3. QED
      BY <3>1, <3>2
  <2>2. QED
    BY <2>1 DEF CleansOK
<1>10. OneCleaner'
  BY <1>6, <1>7 DEF SessionInv, OneCleaner
<1>11. EndsOK'
  <2>1. ASSUME NEW u \in Threads, u # t, th[u].pc = "wait"
        PROVE  op'[th[u].s].term # "active"
    BY <1>0, <1>2, <2>1 DEF EndsOK, BaseInv, ThreadsOK, ThreadOK, OutsidePoints
  <2>2. QED
    BY <1>1, <2>1 DEF EndsOK
<1>12. IssuedOK'
  BY <1>0, <1>1, <1>2, <1>3 DEF IssuedOK
<1>13. OneStarts'
  BY <1>1 DEF SessionInv, OneStarts
<1>14. RefusalsOK'
  <2>1. \A u \in Threads : ~Calling(u, s)
    <3>1. op[s].dispatches = 0
      BY DEF EndClaim, Quiescent
    <3>2. QED
      BY <1>0, <3>1, NobodyCounted
  <2>2. QED
    BY <1>1, <1>2, <1>4, <2>1 DEF SessionInv, RefusalsOK, Calling
<1>15. QED
  BY <1>5, <1>8, <1>9, <1>10, <1>11, <1>12, <1>13, <1>14 DEF SessionInv

(* The cleaner erases the session, and says so when it is done.            *)
LEMMA CleanUpStep ==
  ASSUME SessionInv, BaseInv', NEW t \in Threads, NEW s \in Sessions, s = th[t].s,
         EraseSession(t) \/ Finish(t)
  PROVE  SessionInv'
<1>0. /\ th \in [Threads -> ThreadType] /\ th[t] \in ThreadType /\ ThreadOK(th[t]) /\ BaseInv
      /\ op \in [Sessions -> OpType] /\ Counted /\ ClaimsOK /\ CleansOK /\ IssuedOK /\ OneCleaner
      /\ th[t].pc \in {"erase", "finish"} /\ NoSession \notin Sessions
      /\ session \in [Sessions -> {"unissued", "live", "erased"}]
  BY Fields DEF SessionInv, EraseSession, Finish, At, BaseInv, Types
<1>1. Cleaning(t, s) /\ \A u \in Threads : u # t => ~Cleaning(u, s)
  BY <1>0 DEF Cleaning, CleanPoints, OneCleaner
<1>2. /\ op[s].claimed /\ ~op[s].finished
      /\ th[t].pc = "finish" => session[s] = "erased"
  BY <1>0, <1>1 DEF CleansOK
<1>3. /\ th[t].pc = "erase" => th'[t].pc \in {"destroy", "finish"} /\ th'[t].s = s
      /\ th[t].pc = "finish" => th'[t].pc \in {"idle", "sweep"} /\ th'[t].s = NoSession
      /\ \A u \in Threads : u # t => th'[u] = th[u]
  <2>1. CASE EraseSession(t)
    BY <1>0, <2>1, GotoFields DEF EraseSession, At
  <2>2. CASE Finish(t)
    BY <1>0, <2>2, Returned DEF Finish, At
  <2>3. QED
    BY <2>1, <2>2
<1>4. /\ session'[s] = "erased"
      /\ th[t].pc = "erase" => op' = op
      /\ \A z \in Sessions :
           /\ z # s => op'[z] = op[z] /\ session'[z] = session[z]
           /\ op'[z].feeds = op[z].feeds /\ op'[z].dispatches = op[z].dispatches
           /\ op'[z].claimed = op[z].claimed
           /\ op'[z].term = op[z].term /\ op'[z].deferred = op[z].deferred
  BY <1>0, <1>2 DEF EraseSession, Finish, At, OpType
<1>5. \A z \in Sessions : ~Feeding(t, z)' /\ ~Feeding(t, z) /\ ~Calling(t, z)' /\ ~Calling(t, z)
  BY <1>0, <1>3 DEF Feeding, Calling, FeedOnly, ProviderPoints
<1>6. Counted'
  BY <1>0, <1>3, <1>4, <1>5, Recount DEF Counted
<1>7. /\ \A u \in Threads, z \in Sessions : u # t => (Cleaning(u, z)' <=> Cleaning(u, z))
      /\ \A z \in Sessions : Cleaning(t, z)' => z = s /\ th[t].pc = "erase"
  BY <1>0, <1>3 DEF Cleaning, CleanPoints, ProviderPoints
<1>8. ClaimsOK'
  BY <1>0, <1>2, <1>4 DEF ClaimsOK
<1>9. CleansOK'
  <2>1. ASSUME NEW u \in Threads, NEW z \in Sessions, Cleaning(u, z)'
        PROVE  /\ op'[z].claimed /\ ~op'[z].finished
               /\ session'[z] = IF th'[u].pc \in {"destroy", "finish"} THEN "erased" ELSE "live"
    <3>1. CASE u = t
      BY <1>2, <1>3, <1>4, <1>7, <2>1, <3>1
    <3>2. CASE u # t
      <4>1. Cleaning(u, z) /\ z # s
        BY <1>1, <1>7, <2>1, <3>2
      <4>2. QED
        BY <1>0, <1>3, <1>4, <3>2, <4>1 DEF CleansOK
    <3>3. QED
      BY <3>1, <3>2
  <2>2. QED
    BY <2>1 DEF CleansOK
<1>10. OneCleaner'
  BY <1>1, <1>7 DEF SessionInv, OneCleaner
<1>11. EndsOK'
  <2>1. ASSUME NEW u \in Threads, u # t, th[u].pc = "wait"
        PROVE  op'[th[u].s].term # "active"
    BY <1>0, <1>4, <2>1 DEF SessionInv, EndsOK, BaseInv, ThreadsOK, ThreadOK, OutsidePoints
  <2>2. QED
    BY <1>0, <1>3, <2>1 DEF EndsOK
<1>12. IssuedOK'
  <2>1. session[s] # "unissued"
    BY <1>0 DEF IssuedOK
  <2>2. QED
    BY <1>0, <1>3, <1>4, <2>1 DEF IssuedOK
<1>13. OneStarts'
  BY <1>0, <1>3 DEF SessionInv, OneStarts
<1>14. RefusalsOK'
  BY <1>3, <1>4, <1>5 DEF SessionInv, RefusalsOK, Calling
<1>15. QED
  BY <1>6, <1>8, <1>9, <1>10, <1>11, <1>12, <1>13, <1>14 DEF SessionInv

LEMMA SessionStep ==
  ASSUME SessionInv, [SttNext]_vars
  PROVE  SessionInv'
<1>1. BaseInv' /\ BaseInv
  BY BaseStep DEF SessionInv
<1>2. CASE UNCHANGED vars
  <2>1. op' = op /\ session' = session /\ th' = th
    BY <1>2 DEF vars
  <2>2. Counted'
    BY <2>1 DEF SessionInv, Counted, FeedsOf, CallsOf, Feeding, Calling
  <2>3. ClaimsOK' /\ CleansOK' /\ OneCleaner' /\ EndsOK' /\ IssuedOK' /\ OneStarts'
        /\ RefusalsOK'
    BY <2>1 DEF SessionInv, ClaimsOK, CleansOK, OneCleaner, EndsOK, IssuedOK, OneStarts, Cleaning,
       RefusalsOK, Calling
  <2>4. QED
    BY <1>1, <2>2, <2>3 DEF SessionInv
<1>3. ASSUME NEW t \in Threads, th[t].pc \notin OutsidePoints
      PROVE  \E s \in Sessions : s = th[t].s
  BY <1>1, <1>3, Fields
<1>4. CASE Call
  <2>1. ASSUME NEW t \in Threads, NEW s \in Sessions, StartCheck(t, s)
        PROVE  SessionInv'
    BY <1>1, <2>1, StartSteps
  <2>2. ASSUME NEW t \in Threads, NEW s \in Sessions, FeedLookup(t, s)
        PROVE  SessionInv'
    BY <1>1, <2>2, EndSteps, NeutralStep
  <2>3. ASSUME NEW t \in Threads, NEW s \in Sessions, NEW how \in {"stop", "cancel"}, EndCalled(t, s, how)
        PROVE  SessionInv'
    BY <1>1, <2>3, EndSteps, NeutralStep DEF EndCalled, At
  <2>4. ASSUME NEW t \in Threads, NEW how \in {"stop", "cancel"}, CallbackEnds(t, how)
        PROVE  SessionInv'
    BY <1>1, <2>4, EndSteps, NeutralStep
  <2>5. ASSUME NEW t \in Threads, BeginTeardown(t) \/ Unset(t)
        PROVE  SessionInv'
    BY <1>1, <2>5, OutsideSteps, NeutralStep
  <2>6. QED
    BY <1>4, <2>1, <2>2, <2>3, <2>4, <2>5, SttAssumption DEF Call
<1>5. ASSUME NEW t \in Threads, CallStep(t)
      PROVE  SessionInv'
  <2>1. CASE \/ CreateStream(t) \/ CreateUnsupported(t) \/ CreateFails(t)
             \/ InstallStream(t) \/ StreamRedundant(t) \/ DiscardStream(t) \/ Buffer(t)
    BY <1>1, <2>1, QuietSteps, NeutralStep
  <2>2. CASE EnterProvider(t) \/ ProviderEmits(t) \/ ProviderReturns(t) \/ DispatchDropped(t)
    BY <1>1, <2>2, ProviderSteps, NeutralStep
  <2>3. CASE TakeHandle(t) \/ AdmitFlush(t) \/ CloseGate(t) \/ DestroyStream(t)
    BY <1>1, <2>3, CleanSteps, NeutralStep
  <2>4. CASE EndShut(t) \/ FeedMalformed(t) \/ \E s \in Sessions : SweepCancels(t, s)
    BY <1>1, <2>4, EndSteps, NeutralStep DEF SweepCancels, At
  <2>5. CASE \/ (\E s \in Sessions : SweepSkips(t, s)) \/ SweepDone(t)
             \/ LockComponent(t) \/ Hush(t) \/ DrainModel(t) \/ EndTeardown(t)
             \/ Quiesce(t) \/ FeedTooLate(t) \/ EndJoin(t) \/ RefusalDropped(t)
    BY <1>1, <2>5, OutsideSteps, NeutralStep
  <2>6. CASE StartCommit(t)
    BY <1>1, <2>6, StartSteps
  <2>7. CASE FeedAdmit(t)
    BY <1>1, <1>3, <2>7, FeedAdmitStep DEF FeedAdmit, At, OutsidePoints
  <2>8. CASE Dispatch(t)
    BY <1>1, <1>3, <2>8, DispatchStep DEF Dispatch, At, OutsidePoints
  <2>9. CASE CallbackReturns(t)
    BY <1>1, <1>3, <2>9, CallbackStep DEF CallbackReturns, At, OutsidePoints
  <2>10. CASE FeedReturns(t)
    BY <1>1, <1>3, <2>10, FeedReturnsStep DEF FeedReturns, At, OutsidePoints
  <2>11. CASE EndClaim(t)
    BY <1>1, <1>3, <2>11, EndClaimStep DEF EndClaim, At, OutsidePoints
  <2>12. CASE EraseSession(t) \/ Finish(t)
    BY <1>1, <1>3, <2>12, CleanUpStep DEF EraseSession, Finish, At, OutsidePoints
  <2>13. CASE RefusalReturns(t)
    BY <1>1, <1>3, <2>13, RefusalReturnsStep DEF RefusalReturns, At, OutsidePoints
  <2>14. QED
    BY <1>5, <2>1, <2>2, <2>3, <2>4, <2>5, <2>6, <2>7, <2>8, <2>9, <2>10, <2>11, <2>12, <2>13
       DEF CallStep
<1>6. QED
  BY <1>2, <1>4, <1>5 DEF SttNext

LEMMA SessionInitially ==
  SttInit => SessionInv
<1> SUFFICES ASSUME SttInit PROVE SessionInv
  OBVIOUS
<1>1. /\ BaseInv
      /\ \A t \in Threads : th[t].pc = "idle" /\ th[t].s = NoSession
      /\ \A s \in Sessions :
           /\ ~op[s].claimed /\ ~op[s].deferred /\ ~op[s].finished
           /\ op[s].feeds = 0 /\ op[s].dispatches = 0 /\ session[s] = "unissued"
  BY BaseInitially DEF SttInit, Resting, FreshOps
<1>2. \A t \in Threads, s \in Sessions : ~Feeding(t, s) /\ ~Calling(t, s) /\ ~Cleaning(t, s)
  BY <1>1 DEF Feeding, Calling, Cleaning, FeedOnly, ProviderPoints, CleanPoints
<1>3. Counted
  <2>1. \A s \in Sessions : FeedsOf(s) = {} /\ CallsOf(s) = {}
    BY <1>2 DEF FeedsOf, CallsOf
  <2>2. QED
    BY <1>1, <2>1, FS_EmptySet DEF Counted
<1>4. ClaimsOK /\ CleansOK /\ OneCleaner /\ EndsOK /\ OneStarts /\ RefusalsOK
  BY <1>1, <1>2 DEF ClaimsOK, CleansOK, OneCleaner, EndsOK, OneStarts, RefusalsOK
<1>5. IssuedOK
  BY <1>1, SttAssumption DEF IssuedOK
<1>6. QED
  BY <1>1, <1>3, <1>4, <1>5 DEF SessionInv

-----------------------------------------------------------------------------
(* The component mutex.                                                    *)
MutexOK == \A t \in Threads : mtx = t <=> Holds(t)

LEMMA MutexStep ==
  ASSUME SessionInv, MutexOK, [SttNext]_vars
  PROVE  MutexOK'
<1>0. NoThread \notin Threads /\ BaseInv
      /\ Feeders \cup Enders \cup Loaders \cup Owners \subseteq Threads
  BY SttAssumption DEF SessionInv
<1>1. \A t \in Threads : th \in [Threads -> ThreadType] /\ th[t] \in ThreadType /\ ThreadOK(th[t])
  BY <1>0, Fields
<1>2. ASSUME NEW t \in Threads, \A u \in Threads : u # t => th'[u] = th[u],
             mtx' = mtx, Holds(t)' <=> Holds(t)
      PROVE  MutexOK'
  BY <1>2 DEF MutexOK, Holds
<1>3. CASE UNCHANGED vars
  BY <1>3 DEF vars, MutexOK, Holds
<1>4. ASSUME NEW t \in Threads, NEW p, NEW o, Goto(t, p), mtx' = mtx,
             th[t].pc = o, o \notin {"provider", "provided", "hush", "drain", "dispatch", "callback"},
             p \notin {"provider", "provided", "hush", "drain", "dispatch", "callback"}
      PROVE  MutexOK'
  BY <1>2, <1>4, GotoFields, <1>0 DEF Holds
<1>5. ASSUME NEW t \in Threads, Return(t), mtx' = mtx, ~Holds(t)
      PROVE  MutexOK'
  BY <1>2, <1>5, Returned, <1>0 DEF Holds
<1>6. CASE Call
  <2>1. ASSUME NEW t \in Threads, NEW s \in Sessions, StartCheck(t, s) \/ FeedLookup(t, s)
        PROVE  MutexOK'
    <3>1. CASE StartCheck(t, s)
      BY <1>1, <1>2, <3>1 DEF StartCheck, At, Holds, ThreadType
    <3>2. CASE FeedLookup(t, s)
      BY <1>1, <1>2, <3>2 DEF FeedLookup, At, Holds, ThreadType
    <3>3. QED
      BY <2>1, <3>1, <3>2
  <2>2. ASSUME NEW t \in Threads, NEW s \in Sessions, NEW how \in {"stop", "cancel"}, EndCalled(t, s, how)
        PROVE  MutexOK'
    BY <1>1, <1>2, <2>2 DEF EndCalled, EndLookup, At, Holds, ThreadType
  <2>3. ASSUME NEW t \in Threads, NEW how \in {"stop", "cancel"}, CallbackEnds(t, how)
        PROVE  MutexOK'
    BY <2>3 DEF CallbackEnds, MutexOK, Holds
  <2>4. ASSUME NEW t \in Threads, BeginTeardown(t)
        PROVE  MutexOK'
    BY <1>1, <1>2, <2>4 DEF BeginTeardown, At, Holds, ThreadType
  <2>5. ASSUME NEW t \in Threads, Unset(t)
        PROVE  MutexOK'
    BY <1>4, <2>5 DEF Unset, At
  <2>6. QED
    BY <1>0, <1>6, <2>1, <2>2, <2>3, <2>4, <2>5 DEF Call
<1>7. ASSUME NEW t \in Threads, CallStep(t)
      PROVE  MutexOK'
  <2>1. CASE StartCommit(t) \/ FeedTooLate(t) \/ EndJoin(t) \/ Finish(t)
    BY <1>5, <2>1 DEF StartCommit, FeedTooLate, EndJoin, Finish, At, Holds
  <2>2. CASE FeedAdmit(t)
    BY <1>1, <1>2, <2>2 DEF FeedAdmit, FeedRoute, At, Holds, ThreadType
  <2>3. CASE CreateStream(t) \/ CreateUnsupported(t) \/ Buffer(t)
    <3>1. PICK p \in {"install", "release", "buffer", "call"} : Goto(t, p)
      BY <2>3 DEF CreateStream, CreateUnsupported, Buffer
    <3>2. QED
      BY <1>4, <2>3, <3>1 DEF CreateStream, CreateUnsupported, Buffer, At
  <2>4. CASE CreateFails(t)
    BY <1>1, <1>2, <2>4 DEF CreateFails, At, Holds, ThreadType
  <2>5. CASE InstallStream(t)
    BY <1>1, <1>2, <2>5 DEF InstallStream, At, Holds, ThreadType
  <2>6. CASE StreamRedundant(t)
    BY <1>1, <1>2, <2>6 DEF StreamRedundant, At, Holds, ThreadType
  <2>7. CASE DiscardStream(t)
    <3>1. th[t].back \in {"release", "call"}
      BY <1>1, <2>7 DEF DiscardStream, At, ThreadOK
    <3>2. QED
      BY <1>4, <2>7, <3>1 DEF DiscardStream, At
  <2>8. CASE EnterProvider(t)
    <3>1. /\ th'[t].pc = "provider" /\ mtx' = t /\ mtx = NoThread
          /\ \A u \in Threads : u # t => th'[u] = th[u]
      BY <2>8, GotoFields, <1>0 DEF EnterProvider, Free
    <3>2. QED
      BY <1>0, <3>1 DEF MutexOK, Holds
  <2>9. CASE ProviderEmits(t)
    BY <1>1, <1>2, <2>9 DEF ProviderEmits, At, Holds, ThreadType
  <2>10. CASE ProviderReturns(t)
    <3>1. mtx = t /\ mtx' = NoThread /\ AfterCall(t) \in {"release", "close"}
      BY <2>10 DEF ProviderReturns, MutexOK, Holds, AfterCall
    <3>2. /\ \A u \in Threads : u # t => th'[u] = th[u]
          /\ ~Holds(t)'
      <4>1. CASE Goto(t, AfterCall(t))
        BY <3>1, <4>1, GotoFields, <1>0 DEF Holds
      <4>2. CASE th' = [th EXCEPT ![t] = [@ EXCEPT !.pc = "dispatch", !.back = AfterCall(t)]]
        BY <1>1, <3>1, <4>2 DEF Holds, ThreadType
      <4>3. QED
        BY <2>10, <4>1, <4>2 DEF ProviderReturns
    <3>3. QED
      BY <1>0, <3>1, <3>2 DEF MutexOK, Holds
  <2>11. CASE Dispatch(t)
    BY <1>2, <2>11, GotoFields, <1>0 DEF Dispatch, At, Holds
  <2>12. ASSUME th[t].pc \in {"dispatch", "callback"}, ~Refusing(t), th'[t].pc = th[t].back, mtx' = mtx,
                \A u \in Threads : u # t => th'[u] = th[u]
         PROVE  MutexOK'
    <3>1. th[t].back \in {"provided", "release", "close"}
      BY <1>1, <2>12 DEF ThreadOK, Refusing
    <3>2. Holds(t)' <=> Holds(t)
      BY <2>12, <3>1 DEF Holds
    <3>3. QED
      BY <1>2, <2>12, <3>2
  <2>13. CASE DispatchDropped(t)
    BY <2>12, <2>13, GotoFields, <1>0 DEF DispatchDropped, At
  <2>14. CASE EndShut(t) \/ EndClaim(t) \/ AdmitFlush(t) \/ CloseGate(t) \/ EraseSession(t) \/ DestroyStream(t)
    <3>1. PICK p \in {"wait", "take", "call", "close", "erase", "finish", "destroy"} : Goto(t, p)
      BY <2>14 DEF EndShut, EndClaim, AdmitFlush, CloseGate, EraseSession, DestroyStream
    <3>2. QED
      BY <1>4, <2>14, <3>1 DEF EndShut, EndClaim, AdmitFlush, CloseGate, EraseSession, DestroyStream, At
  <2>15. CASE TakeHandle(t)
    BY <1>1, <1>2, <2>15 DEF TakeHandle, At, Holds, ThreadType
  <2>16. CASE SweepDone(t) \/ Quiesce(t)
    BY <1>4, <2>16 DEF SweepDone, Quiesce, At
  <2>17. ASSUME NEW s \in Sessions, SweepCancels(t, s) \/ SweepSkips(t, s)
         PROVE  MutexOK'
    <3>1. CASE SweepCancels(t, s)
      BY <1>1, <1>2, <3>1 DEF SweepCancels, EndLookup, At, Holds, ThreadType
    <3>2. CASE SweepSkips(t, s)
      BY <1>1, <1>2, <3>2 DEF SweepSkips, At, Holds, ThreadType
    <3>3. QED
      BY <2>17, <3>1, <3>2
  <2>18. CASE LockComponent(t)
    <3>1. /\ th'[t].pc \in {"drain", "hush"} /\ mtx' = t /\ mtx = NoThread
          /\ \A u \in Threads : u # t => th'[u] = th[u]
      BY <2>18, GotoFields, <1>0 DEF LockComponent, Free
    <3>2. QED
      BY <1>0, <3>1 DEF MutexOK, Holds
  <2>19. CASE Hush(t)
    BY <1>2, <2>19, GotoFields, <1>0 DEF Hush, At, Holds
  <2>20. CASE DrainModel(t)
    <3>1. /\ th'[t].pc = "reopen" /\ mtx' = NoThread /\ mtx = t
          /\ \A u \in Threads : u # t => th'[u] = th[u]
      BY <2>20, GotoFields, <1>0 DEF DrainModel, At, MutexOK, Holds
    <3>2. QED
      BY <1>0, <3>1 DEF MutexOK, Holds
  <2>21. CASE EndTeardown(t)
    BY <1>1, <1>2, <2>21 DEF EndTeardown, At, Holds, Resting
  <2>22. CASE CallbackReturns(t)
    <3>1. th[t].s \in Sessions /\ th[t].pc = "callback" /\ mtx' = mtx /\ ~Refusing(t)
      BY <1>0, <2>22, Fields DEF CallbackReturns, At, OutsidePoints
    <3>2. PICK s \in Sessions : s = th[t].s
      BY <3>1
    <3>3. QED
      BY <2>12, <2>22, <3>1, <3>2, CallbackGoesOn
  <2>23. CASE FeedReturns(t)
    <3>1. /\ th[t].pc = "release" /\ mtx' = mtx
          /\ th'[t].pc \in {"idle", "take"} /\ \A u \in Threads : u # t => th'[u] = th[u]
      BY <1>1, <2>23 DEF FeedReturns, At, Release, Resting
    <3>2. QED
      BY <1>2, <3>1 DEF Holds
  <2>24. CASE FeedMalformed(t)
    BY <1>1, <1>2, <2>24 DEF FeedMalformed, At, Holds, ThreadType
  <2>25. CASE RefusalDropped(t)
    BY <1>1, <1>5, <2>25 DEF RefusalDropped, Refusing, At, Holds, ThreadOK, ProviderPoints
  <2>26. CASE RefusalReturns(t)
    <3>1. th[t].s \in Sessions /\ ThreadOK(th[t]) /\ th[t].pc = "callback" /\ th[t].job = "refuse"
      BY <1>0, <2>26, Fields DEF RefusalReturns, Refusing, At, OutsidePoints
    <3>2. ~Holds(t)
      BY <3>1 DEF Holds, ThreadOK, ProviderPoints
    <3>3. PICK s \in Sessions : s = th[t].s
      BY <3>1
    <3>4. ~Holds(t)' /\ mtx' = mtx /\ \A u \in Threads : u # t => th'[u] = th[u]
      BY <2>26, <3>3, RefusalGoesOn DEF Holds
    <3>5. QED
      BY <1>2, <3>2, <3>4
  <2>27. QED
    BY <1>7, <2>1, <2>2, <2>3, <2>4, <2>5, <2>6, <2>7, <2>8, <2>9, <2>10, <2>11, <2>13, <2>14, <2>15,
       <2>16, <2>17, <2>18, <2>19, <2>20, <2>21, <2>22, <2>23, <2>24, <2>25, <2>26 DEF CallStep
<1>8. QED
  BY <1>3, <1>6, <1>7 DEF SttNext

-----------------------------------------------------------------------------
(* Who unregistered the callback saw nobody in it, and nobody enters since. *)
FreedOK == slot = "freed" => \A t \in Threads : th[t].pc # "callback"

LEMMA FreedStep ==
  ASSUME SessionInv, FreedOK, [SttNext]_vars
  PROVE  FreedOK'
<1>0. BaseInv
  BY DEF SessionInv
<1>1. \A t \in Threads : th \in [Threads -> ThreadType] /\ th[t] \in ThreadType /\ ThreadOK(th[t])
  BY <1>0, Fields
<1>2. CASE UNCHANGED vars
  BY <1>2 DEF vars, FreedOK
<1>3. ASSUME NEW t \in Threads, Quiesce(t)
      PROVE  FreedOK'
  <2>1. th'[t].pc = "idle" /\ \A u \in Threads : u # t => th'[u] = th[u] /\ th[u].pc # "callback"
    BY <1>0, <1>3, GotoFields DEF Quiesce, InFlight
  <2>2. QED
    BY <2>1 DEF FreedOK
<1>4. ASSUME NEW t \in Threads, \A u \in Threads : u # t => th'[u] = th[u],
             slot' = "freed" => slot = "freed", th'[t].pc # "callback" \/ slot' # "freed"
      PROVE  FreedOK'
  BY <1>4 DEF FreedOK
<1>5. CASE Call
  <2>1. ASSUME NEW t \in Threads, NEW s \in Sessions, StartCheck(t, s)
        PROVE  FreedOK'
    BY <1>1, <1>4, <2>1 DEF StartCheck, ThreadType
  <2>2. ASSUME NEW t \in Threads, NEW s \in Sessions, FeedLookup(t, s)
        PROVE  FreedOK'
    BY <1>1, <1>4, <2>2 DEF FeedLookup, ThreadType
  <2>3. ASSUME NEW t \in Threads, NEW s \in Sessions, NEW how \in {"stop", "cancel"}, EndCalled(t, s, how)
        PROVE  FreedOK'
    BY <1>1, <1>4, <2>3 DEF EndCalled, EndLookup, ThreadType
  <2>4. ASSUME NEW t \in Threads, NEW how \in {"stop", "cancel"}, CallbackEnds(t, how)
        PROVE  FreedOK'
    BY <2>4 DEF CallbackEnds, FreedOK
  <2>5. ASSUME NEW t \in Threads, BeginTeardown(t)
        PROVE  FreedOK'
    BY <1>1, <1>4, <2>5 DEF BeginTeardown, ThreadType
  <2>6. ASSUME NEW t \in Threads, Unset(t)
        PROVE  FreedOK'
    BY <2>6 DEF Unset, FreedOK
  <2>7. QED
    BY <1>5, SttAssumption, <2>1, <2>2, <2>3, <2>4, <2>5, <2>6 DEF Call
<1>6. ASSUME NEW t \in Threads, CallStep(t)
      PROVE  FreedOK'
  <2>1. CASE StartCommit(t) \/ FeedTooLate(t) \/ EndJoin(t) \/ Finish(t) \/ RefusalDropped(t)
    BY <1>0, <1>4, <2>1, Returned DEF StartCommit, FeedTooLate, EndJoin, Finish, RefusalDropped
  <2>2. CASE FeedAdmit(t)
    BY <1>1, <1>4, <2>2 DEF FeedAdmit, FeedRoute, ThreadType
  <2>3. ASSUME NEW p, Goto(t, p), p # "callback", slot' = "freed" => slot = "freed"
        PROVE  FreedOK'
    BY <1>0, <1>4, <2>3, GotoFields
  <2>4. CASE CreateStream(t) \/ CreateUnsupported(t) \/ Buffer(t)
    <3>1. PICK p \in {"install", "release", "buffer", "call"} : Goto(t, p)
      BY <2>4 DEF CreateStream, CreateUnsupported, Buffer
    <3>2. QED
      BY <2>3, <2>4, <3>1 DEF CreateStream, CreateUnsupported, Buffer
  <2>5. CASE CreateFails(t)
    BY <1>1, <1>4, <2>5 DEF CreateFails, ThreadType
  <2>6. CASE InstallStream(t)
    BY <1>1, <1>4, <2>6 DEF InstallStream, ThreadType
  <2>7. CASE StreamRedundant(t)
    BY <1>1, <1>4, <2>7 DEF StreamRedundant, ThreadType
  <2>8. CASE DiscardStream(t) \/ DispatchDropped(t)
    <3>1. th[t].back # "callback"
      BY <1>1, <2>8 DEF DiscardStream, DispatchDropped, Refusing, At, ThreadOK
    <3>2. QED
      BY <2>3, <2>8, <3>1 DEF DiscardStream, DispatchDropped
  <2>9. CASE EnterProvider(t)
    BY <2>3, <2>9 DEF EnterProvider
  <2>10. CASE ProviderEmits(t)
    BY <1>1, <1>4, <2>10 DEF ProviderEmits, ThreadType
  <2>11. CASE ProviderReturns(t)
    <3>1. CASE Goto(t, AfterCall(t))
      BY <2>3, <2>11, <3>1 DEF ProviderReturns, AfterCall
    <3>2. CASE th' = [th EXCEPT ![t] = [@ EXCEPT !.pc = "dispatch", !.back = AfterCall(t)]]
      BY <1>1, <1>4, <2>11, <3>2 DEF ProviderReturns, ThreadType
    <3>3. QED
      BY <2>11, <3>1, <3>2 DEF ProviderReturns
  <2>12. CASE Dispatch(t)
    BY <2>12 DEF Dispatch, Deliverable, FreedOK
  <2>13. CASE CallbackReturns(t)
    <3>1. th[t].s \in Sessions /\ th[t].pc = "callback" /\ slot' = slot
      BY <1>0, <2>13, Fields DEF CallbackReturns, At, OutsidePoints
    <3>2. PICK s \in Sessions : s = th[t].s
      BY <3>1
    <3>3. QED
      BY <1>4, <2>13, <3>1, <3>2, CallbackGoesOn DEF FreedOK
  <2>14. CASE FeedReturns(t)
    <3>1. /\ slot' = slot /\ th'[t].pc \in {"idle", "take"}
          /\ \A u \in Threads : u # t => th'[u] = th[u]
      BY <1>1, <2>14 DEF FeedReturns, Release, Resting
    <3>2. QED
      BY <1>4, <3>1
  <2>15. CASE EndShut(t) \/ EndClaim(t) \/ AdmitFlush(t) \/ CloseGate(t) \/ EraseSession(t) \/ DestroyStream(t)
    <3>1. PICK p \in {"wait", "take", "call", "close", "erase", "finish", "destroy"} : Goto(t, p)
      BY <2>15 DEF EndShut, EndClaim, AdmitFlush, CloseGate, EraseSession, DestroyStream
    <3>2. QED
      BY <2>3, <2>15, <3>1 DEF EndShut, EndClaim, AdmitFlush, CloseGate, EraseSession, DestroyStream
  <2>16. CASE TakeHandle(t)
    BY <1>1, <1>4, <2>16 DEF TakeHandle, ThreadType
  <2>17. ASSUME NEW s \in Sessions, SweepCancels(t, s)
         PROVE  FreedOK'
    BY <1>1, <1>4, <2>17 DEF SweepCancels, EndLookup, ThreadType
  <2>18. ASSUME NEW s \in Sessions, SweepSkips(t, s)
         PROVE  FreedOK'
    BY <1>1, <1>4, <2>18 DEF SweepSkips, At, ThreadType
  <2>19. CASE SweepDone(t) \/ LockComponent(t) \/ Hush(t) \/ DrainModel(t)
    <3>1. PICK p \in {"lock", "hush", "drain", "reopen"} : Goto(t, p)
      BY <2>19 DEF SweepDone, LockComponent, Hush, DrainModel
    <3>2. QED
      BY <2>3, <2>19, <3>1 DEF SweepDone, LockComponent, Hush, DrainModel
  <2>20. CASE EndTeardown(t)
    BY <1>1, <1>4, <2>20 DEF EndTeardown, Resting
  <2>21. CASE FeedMalformed(t)
    BY <1>1, <1>4, <2>21 DEF FeedMalformed, ThreadType
  <2>22. CASE RefusalReturns(t)
    <3>1. th[t].s \in Sessions
      BY <1>0, <2>22, Fields DEF RefusalReturns, At, OutsidePoints
    <3>2. PICK s \in Sessions : s = th[t].s
      BY <3>1
    <3>3. QED
      BY <1>4, <2>22, <3>2, RefusalGoesOn
  <2>23. QED
    BY <1>3, <1>6, <2>1, <2>2, <2>4, <2>5, <2>6, <2>7, <2>8, <2>9, <2>10, <2>11, <2>12, <2>13, <2>14,
       <2>15, <2>16, <2>17, <2>18, <2>19, <2>20, <2>21, <2>22 DEF CallStep
<1>7. QED
  BY <1>2, <1>5, <1>6 DEF SttNext

-----------------------------------------------------------------------------
(* One teardown at a time, with the gate closed; what it has not swept yet *)
(* is on its list, or in its hands and not erased yet.                     *)
InHand(t, s) == th[t].s = s /\ th[t].pc \in {"end", "wait", "take", "close", "erase"}

TearOK ==
  /\ \A t \in Threads : th[t].tearing => ~accepting
  /\ \A t, u \in Threads : th[t].tearing /\ th[u].tearing => t = u
  /\ \A t \in Threads, s \in Sessions : th[t].tearing /\ session[s] = "live" =>
       s \in th[t].todo \/ InHand(t, s)

LEMMA TearStep ==
  ASSUME SessionInv, TearOK, [SttNext]_vars
  PROVE  TearOK'
<1>0. BaseInv /\ session \in [Sessions -> {"unissued", "live", "erased"}] /\ NoSession \notin Sessions
  BY SttAssumption DEF SessionInv, BaseInv, Types
<1>1. \A t \in Threads : /\ th \in [Threads -> ThreadType] /\ th[t] \in ThreadType /\ ThreadOK(th[t])
                         /\ th[t].tearing \in BOOLEAN
                         /\ th[t].pc \notin TearPoints => th[t].tearing = FALSE
  BY <1>0, Fields, ThreadTyped DEF ThreadOK
<1>2. CASE UNCHANGED vars
  BY <1>2 DEF vars, TearOK, InHand
<1>3. ASSUME NEW t \in Threads, \A u \in Threads : u # t => th'[u] = th[u], accepting' = accepting,
             th'[t].tearing = th[t].tearing,
             \A s \in Sessions : session'[s] = "live" => session[s] = "live",
             th[t].tearing => \A s \in Sessions :
               session'[s] = "live" /\ (s \in th[t].todo \/ InHand(t, s))
                 => s \in th'[t].todo \/ InHand(t, s)'
      PROVE  TearOK'
  BY <1>3 DEF TearOK, InHand
<1>4. ASSUME NEW t \in Threads, th[t].tearing = FALSE, th'[t].tearing = FALSE,
             \A u \in Threads : u # t => th'[u] = th[u],
             accepting' = accepting, session' = session
      PROVE  TearOK'
  BY <1>3, <1>4
<1>5. ASSUME NEW t \in Threads, NEW p, Goto(t, p), accepting' = accepting, session' = session,
             th[t].pc \notin {"end", "wait", "take", "close", "erase"}
               \/ p \in {"end", "wait", "take", "close", "erase"}
      PROVE  TearOK'
  BY <1>0, <1>3, <1>5, GotoFields DEF InHand
<1>6. CASE Call
  <2>1. ASSUME NEW t \in Threads, NEW s \in Sessions, StartCheck(t, s)
        PROVE  TearOK'
    BY <1>1, <1>4, <2>1 DEF StartCheck, At, ThreadType, TearPoints
  <2>2. ASSUME NEW t \in Threads, NEW s \in Sessions, FeedLookup(t, s)
        PROVE  TearOK'
    BY <1>1, <1>4, <2>2 DEF FeedLookup, At, ThreadType, TearPoints
  <2>3. ASSUME NEW t \in Threads, NEW s \in Sessions, NEW how \in {"stop", "cancel"}, EndCalled(t, s, how)
        PROVE  TearOK'
    BY <1>1, <1>4, <2>3 DEF EndCalled, EndLookup, At, ThreadType, TearPoints
  <2>4. ASSUME NEW t \in Threads, NEW how \in {"stop", "cancel"}, CallbackEnds(t, how)
        PROVE  TearOK'
    BY <2>4 DEF CallbackEnds, TearOK, InHand
  <2>5. ASSUME NEW t \in Threads, BeginTeardown(t)
        PROVE  TearOK'
    <3>1. /\ \A u \in Threads : u # t => th'[u] = th[u] /\ ~th[u].tearing
          /\ ~accepting' /\ session' = session /\ th'[t].todo = Live
      BY <1>1, <2>5 DEF BeginTeardown, ThreadType, TearOK
    <3>2. QED
      BY <3>1 DEF TearOK, Live
  <2>6. ASSUME NEW t \in Threads, Unset(t)
        PROVE  TearOK'
    BY <1>5, <2>6 DEF Unset, At
  <2>7. QED
    BY <1>6, SttAssumption, <2>1, <2>2, <2>3, <2>4, <2>5, <2>6 DEF Call
<1>7. ASSUME NEW t \in Threads, CallStep(t)
      PROVE  TearOK'
  <2>1. CASE StartCommit(t)
    <3>1. /\ th[t].tearing = FALSE /\ th'[t].tearing = FALSE /\ accepting' = accepting
          /\ \A u \in Threads : u # t => th'[u] = th[u]
      BY <1>0, <1>1, <2>1, Returned DEF StartCommit, At, TearPoints
    <3>2. CASE Unchanged(t)
      BY <3>1, <3>2 DEF Unchanged, TearOK
    <3>3. CASE ~Unchanged(t)
      BY <1>4, <2>1, <3>1, <3>3 DEF StartCommit
    <3>4. QED
      BY <3>2, <3>3
  <2>2. CASE FeedTooLate(t) \/ RefusalDropped(t)
    BY <1>0, <1>1, <1>4, <2>2, Returned DEF FeedTooLate, RefusalDropped, At, TearPoints
  <2>3. CASE EndJoin(t) \/ Finish(t)
    <3>1. session[th[t].s] = "erased" /\ session' = session /\ accepting' = accepting
      <4>1. th[t].s \in Sessions
        BY <1>0, <2>3, Fields DEF EndJoin, Finish, At, OutsidePoints
      <4>2. CASE EndJoin(t)
        BY <4>1, <4>2 DEF EndJoin, SessionInv, ClaimsOK
      <4>3. CASE Finish(t)
        BY <4>1, <4>3 DEF Finish, At, SessionInv, CleansOK, Cleaning, CleanPoints
      <4>4. QED
        BY <2>3, <4>2, <4>3 DEF EndJoin, Finish
    <3>2. /\ th'[t].tearing = th[t].tearing
          /\ th[t].tearing => th'[t].todo = th[t].todo
          /\ \A u \in Threads : u # t => th'[u] = th[u]
      BY <1>0, <2>3, Returned DEF EndJoin, Finish
    <3>3. QED
      BY <1>3, <3>1, <3>2 DEF InHand
  <2>4. CASE FeedAdmit(t)
    BY <1>1, <1>4, <2>4 DEF FeedAdmit, At, ThreadType, TearPoints
  <2>5. CASE CreateStream(t) \/ CreateUnsupported(t) \/ Buffer(t)
    <3>1. PICK p \in {"install", "release", "buffer", "call"} : Goto(t, p)
      BY <2>5 DEF CreateStream, CreateUnsupported, Buffer
    <3>2. QED
      BY <1>5, <2>5, <3>1 DEF CreateStream, CreateUnsupported, Buffer, At
  <2>6. CASE CreateFails(t)
    BY <1>1, <1>4, <2>6 DEF CreateFails, At, ThreadType, TearPoints
  <2>7. CASE InstallStream(t)
    BY <1>1, <1>4, <2>7 DEF InstallStream, At, ThreadType, TearPoints
  <2>8. CASE StreamRedundant(t)
    BY <1>1, <1>4, <2>8 DEF StreamRedundant, At, ThreadType, TearPoints
  <2>9. CASE DiscardStream(t) \/ DispatchDropped(t)
    BY <1>5, <2>9 DEF DiscardStream, DispatchDropped, At
  <2>10. CASE EnterProvider(t) \/ Dispatch(t)
    BY <1>5, <2>10 DEF EnterProvider, Dispatch, At
  <2>11. CASE ProviderEmits(t)
    BY <1>1, <1>4, <2>11 DEF ProviderEmits, At, ThreadType, TearPoints
  <2>12. CASE ProviderReturns(t)
    <3>1. CASE Goto(t, AfterCall(t))
      BY <1>5, <2>12, <3>1 DEF ProviderReturns
    <3>2. CASE th' = [th EXCEPT ![t] = [@ EXCEPT !.pc = "dispatch", !.back = AfterCall(t)]]
      BY <1>1, <1>4, <2>12, <3>2 DEF ProviderReturns, ThreadType, TearPoints
    <3>3. QED
      BY <2>12, <3>1, <3>2 DEF ProviderReturns
  <2>13. CASE CallbackReturns(t)
    <3>1. th[t].s \in Sessions /\ th[t].pc = "callback" /\ accepting' = accepting
      BY <1>0, <2>13, Fields DEF CallbackReturns, At, OutsidePoints
    <3>2. PICK s \in Sessions : s = th[t].s
      BY <3>1
    <3>3. th'[t].tearing = FALSE /\ th[t].tearing = FALSE
      <4>1. th[t].tearing = FALSE
        BY <1>1, <3>1 DEF TearPoints
      <4>2. th'[t].tearing = FALSE
        BY <1>1, <2>13, <4>1 DEF CallbackReturns, Release, Resting, ThreadType
      <4>3. QED
        BY <4>1, <4>2
    <3>4. QED
      BY <1>4, <2>13, <3>1, <3>2, <3>3, CallbackGoesOn
  <2>14. CASE FeedReturns(t)
    <3>1. /\ accepting' = accepting /\ session' = session
          /\ th[t].tearing = FALSE /\ th'[t].tearing = FALSE
          /\ \A u \in Threads : u # t => th'[u] = th[u]
      BY <1>1, <2>14 DEF FeedReturns, At, Release, Resting, TearPoints
    <3>2. QED
      BY <1>4, <3>1
  <2>15. CASE EndShut(t) \/ EndClaim(t) \/ CloseGate(t)
    BY <1>5, <2>15 DEF EndShut, EndClaim, CloseGate
  <2>16. CASE AdmitFlush(t) \/ DestroyStream(t)
    BY <1>5, <2>16 DEF AdmitFlush, DestroyStream, At
  <2>17. CASE EraseSession(t)
    <3>1. /\ accepting' = accepting
          /\ session' = [session EXCEPT ![th[t].s] = "erased"]
          /\ th'[t].tearing = th[t].tearing /\ th'[t].todo = th[t].todo
          /\ \A u \in Threads : u # t => th'[u] = th[u]
      BY <1>0, <2>17, GotoFields DEF EraseSession
    <3>2. QED
      BY <1>0, <1>3, <3>1 DEF InHand
  <2>18. CASE TakeHandle(t)
    <3>1. /\ accepting' = accepting /\ session' = session
          /\ th[t].pc = "take" /\ th'[t].s = th[t].s
          /\ th'[t].tearing = th[t].tearing /\ th'[t].todo = th[t].todo
          /\ \A u \in Threads : u # t => th'[u] = th[u]
      BY <1>1, <2>18 DEF TakeHandle, At, ThreadType
    <3>2. th[t].tearing => th'[t].pc = "close"
      <4>1. th[t].tearing => th[t].job = "cancel"
        BY <1>1, <3>1 DEF ThreadOK, CleanPoints
      <4>2. QED
        BY <1>1, <2>18, <4>1 DEF TakeHandle, WorthFlushing, ThreadType
    <3>3. QED
      BY <1>3, <3>1, <3>2 DEF InHand
  <2>19. ASSUME NEW s \in Sessions, SweepCancels(t, s)
         PROVE  TearOK'
    <3>1. /\ accepting' = accepting /\ session' = session /\ th[t].pc = "sweep"
          /\ th'[t].pc = "end" /\ th'[t].s = s
          /\ th'[t].tearing = th[t].tearing /\ th'[t].todo = th[t].todo \ {s}
          /\ \A u \in Threads : u # t => th'[u] = th[u]
      BY <1>1, <2>19 DEF SweepCancels, EndLookup, At, ThreadType
    <3>2. QED
      BY <1>3, <3>1 DEF InHand
  <2>20. ASSUME NEW s \in Sessions, SweepSkips(t, s)
         PROVE  TearOK'
    <3>1. /\ accepting' = accepting /\ session' = session /\ th'[t].pc = th[t].pc
          /\ session[s] # "live" /\ th'[t].s = th[t].s
          /\ th'[t].tearing = th[t].tearing /\ th'[t].todo = th[t].todo \ {s}
          /\ \A u \in Threads : u # t => th'[u] = th[u]
      BY <1>1, <2>20 DEF SweepSkips, ThreadType
    <3>2. QED
      BY <1>3, <3>1 DEF InHand
  <2>21. CASE SweepDone(t) \/ LockComponent(t) \/ Hush(t) \/ DrainModel(t) \/ Quiesce(t)
    <3>1. PICK p \in {"lock", "hush", "drain", "reopen", "idle"} : Goto(t, p)
      BY <2>21 DEF SweepDone, LockComponent, Hush, DrainModel, Quiesce
    <3>2. QED
      BY <1>5, <2>21, <3>1 DEF SweepDone, LockComponent, Hush, DrainModel, Quiesce, At
  <2>22. CASE EndTeardown(t)
    <3>1. th[t].tearing
      BY <1>1, <2>22 DEF EndTeardown, At, ThreadOK
    <3>2. /\ session' = session /\ th'[t].tearing = FALSE
          /\ \A u \in Threads : u # t => th'[u] = th[u] /\ ~th[u].tearing
      BY <1>1, <2>22, <3>1 DEF EndTeardown, Resting, TearOK
    <3>3. QED
      BY <3>2 DEF TearOK
  <2>23. CASE FeedMalformed(t)
    BY <1>1, <1>4, <2>23 DEF FeedMalformed, At, ThreadType, TearPoints
  <2>24. CASE RefusalReturns(t)
    <3>1. th[t].s \in Sessions /\ th[t].pc = "callback"
      BY <1>0, <2>24, Fields DEF RefusalReturns, At, OutsidePoints
    <3>2. PICK s \in Sessions : s = th[t].s
      BY <3>1
    <3>3. th[t].tearing = FALSE
      BY <1>1, <3>1 DEF TearPoints
    <3>4. QED
      BY <1>4, <2>24, <3>2, <3>3, RefusalGoesOn
  <2>25. QED
    BY <1>7, <2>1, <2>2, <2>3, <2>4, <2>5, <2>6, <2>7, <2>8, <2>9, <2>10, <2>11, <2>12, <2>13, <2>14,
       <2>15, <2>16, <2>17, <2>18, <2>19, <2>20, <2>21, <2>22, <2>23, <2>24 DEF CallStep
<1>8. QED
  BY <1>2, <1>6, <1>7 DEF SttNext

-----------------------------------------------------------------------------
(* Who owns a provider stream: the session whose handle it is, the feed    *)
(* that has just made it, or the thread that took it from its session to   *)
(* clean up.  A feed only ever uses the stream of its session, which       *)
(* nobody takes while a feed is counted.                                   *)
Making(t, s) == th[t].s = s /\ th[t].pc \in {"install", "discard"}

HandlesOpen ==
  \A s \in Sessions : op[s].handle # NoStream =>
    op[s].handle \in {s} \X Threads /\ stream[op[s].handle] = "open"

FeedsHandle ==
  \A t \in Threads, s \in Sessions :
    Feeding(t, s) /\ th[t].h # NoStream => th[t].h = op[s].handle

MakesOwn ==
  \A t \in Threads, s \in Sessions :
    /\ Making(t, s) => stream[<<s, t>>] = "open" /\ op[s].handle # <<s, t>>
    /\ th[t].s = s /\ th[t].pc = "create" =>
         stream[<<s, t>>] # "open" /\ op[s].handle # <<s, t>>

CleansTaken ==
  \A t \in Threads, s \in Sessions : Cleaning(t, s) /\ th[t].pc # "take" =>
    /\ op[s].handle = NoStream
    /\ th[t].h # NoStream =>
         th[t].h \in {s} \X Threads /\ (stream[th[t].h] = "open" <=> th[t].pc # "finish")

Kept ==
  \A s \in Sessions, t \in Threads : stream[<<s, t>>] = "open" =>
    \/ op[s].handle = <<s, t>>
    \/ Making(t, s)
    \/ \E u \in Threads : Cleaning(u, s) /\ th[u].h = <<s, t>>

KeepInv == HandlesOpen /\ FeedsHandle /\ MakesOwn /\ CleansTaken /\ Kept

(* While a session is being cleaned up, no feed of it is anywhere.         *)
LEMMA NoFeedWhileCleaning ==
  ASSUME SessionInv, NEW s \in Sessions, op[s].claimed
  PROVE  \A t \in Threads : ~Feeding(t, s)
BY NobodyCounted DEF SessionInv, ClaimsOK

(* A step that touches no handle and no stream, by a thread that takes no  *)
(* stream over and leaves none behind.                                     *)
LEMMA KeepSame ==
  ASSUME KeepInv, NEW t \in Threads, \A u \in Threads : u # t => th'[u] = th[u],
         stream' = stream, \A s \in Sessions : op'[s].handle = op[s].handle,
         \A s \in Sessions : Feeding(t, s)' /\ th'[t].h # NoStream => th'[t].h = op[s].handle,
         \A s \in Sessions : Making(t, s)' <=> Making(t, s),
         \A s \in Sessions : th'[t].s = s /\ th'[t].pc = "create" =>
           stream[<<s, t>>] # "open" /\ op[s].handle # <<s, t>>,
         \A s \in Sessions : Cleaning(t, s)' /\ th'[t].pc # "take" =>
           /\ Cleaning(t, s) /\ th[t].pc # "take" /\ th'[t].h = th[t].h
           /\ th[t].h # NoStream => (th'[t].pc = "finish" <=> th[t].pc = "finish"),
         \A s \in Sessions : Cleaning(t, s) /\ th[t].h # NoStream /\ th[t].pc \notin {"take", "finish"} =>
           Cleaning(t, s)' /\ th'[t].h = th[t].h,
         th[t].pc = "take" => th[t].h = NoStream, NoStream \notin Streams
  PROVE  KeepInv'
<1> USE DEF KeepInv
<1>1. HandlesOpen'
  BY DEF HandlesOpen
<1>2. FeedsHandle'
  BY DEF FeedsHandle, Feeding
<1>3. MakesOwn'
  <2>1. ASSUME NEW u \in Threads, NEW s \in Sessions
        PROVE  /\ Making(u, s)' => stream[<<s, u>>] = "open" /\ op[s].handle # <<s, u>>
               /\ th'[u].s = s /\ th'[u].pc = "create" =>
                    stream[<<s, u>>] # "open" /\ op[s].handle # <<s, u>>
    <3>1. CASE u = t
      BY <3>1 DEF MakesOwn
    <3>2. CASE u # t
      BY <3>2 DEF MakesOwn, Making
    <3>3. QED
      BY <3>1, <3>2
  <2>2. \A u \in Threads, s \in Sessions :
          /\ Making(u, s)' => stream'[<<s, u>>] = "open" /\ op'[s].handle # <<s, u>>
          /\ th'[u].s = s /\ th'[u].pc = "create" =>
               stream'[<<s, u>>] # "open" /\ op'[s].handle # <<s, u>>
    <3> TAKE u \in Threads, s \in Sessions
    <3>1. stream'[<<s, u>>] = stream[<<s, u>>] /\ op'[s].handle = op[s].handle
      OBVIOUS
    <3>2. QED
      BY <2>1, <3>1
  <2>3. QED
    BY <2>2 DEF MakesOwn
<1>4. CleansTaken'
  BY DEF CleansTaken, Cleaning
<1>5. Kept'
  <2> SUFFICES ASSUME NEW s \in Sessions, NEW u \in Threads, stream[<<s, u>>] = "open",
                      op[s].handle # <<s, u>>, ~Making(u, s)
               PROVE  \E v \in Threads : Cleaning(v, s)' /\ th'[v].h = <<s, u>>
    BY DEF Kept, Making
  <2>1. PICK v \in Threads : Cleaning(v, s) /\ th[v].h = <<s, u>>
    BY DEF Kept
  <2>2. <<s, u>> # NoStream
    BY DEF Streams
  <2>3. CASE v = t
    <3>1. th[t].pc # "finish"
      BY <2>1, <2>2, <2>3 DEF CleansTaken
    <3>2. QED
      BY <2>1, <2>2, <2>3, <3>1
  <2>4. CASE v # t
    BY <2>1, <2>4 DEF Cleaning
  <2>5. QED
    BY <2>3, <2>4
<1>6. QED
  BY <1>1, <1>2, <1>3, <1>4, <1>5

LEMMA KeepGoto ==
  ASSUME SessionInv, KeepInv, NEW t \in Threads, NEW p, Goto(t, p),
         stream' = stream, \A s \in Sessions : op'[s].handle = op[s].handle,
         p \notin {"create", "install", "discard", "take"},
         th[t].pc \notin {"install", "discard", "take", "finish"},
         p \in FeedOnly \cup ProviderPoints => th[t].pc \in FeedOnly \cup ProviderPoints \cup {"admit"},
         p \in CleanPoints => th[t].pc \in CleanPoints \/ (th[t].pc \in ProviderPoints /\ th[t].job = "stop"),
         th[t].pc \in CleanPoints \/ (th[t].pc \in ProviderPoints /\ th[t].job = "stop") =>
           p \in CleanPoints \cup ProviderPoints,
         p = "finish" => th[t].h = NoStream
  PROVE  KeepInv'
<1>1. /\ th'[t].pc = p /\ th'[t].s = th[t].s /\ th'[t].job = th[t].job /\ th'[t].h = th[t].h
      /\ \A u \in Threads : u # t => th'[u] = th[u]
  BY GotoFields DEF SessionInv
<1>2. ThreadOK(th[t]) /\ NoStream \notin Streams
  BY Fields, SttAssumption DEF SessionInv, Streams
<1>3. \A s \in Sessions : Feeding(t, s)' => Feeding(t, s)
  BY <1>1, <1>2 DEF Feeding, ThreadOK
<1>4. \A s \in Sessions : Cleaning(t, s)' <=> Cleaning(t, s)
  BY <1>1, <1>2 DEF Cleaning, ThreadOK, FeedOnly, ProviderPoints, CleanPoints
<1>5. \A s \in Sessions : Making(t, s)' <=> Making(t, s)
  BY <1>1 DEF Making
<1>6. \A s \in Sessions : Feeding(t, s)' /\ th'[t].h # NoStream => th'[t].h = op[s].handle
  BY <1>1, <1>3 DEF KeepInv, FeedsHandle
<1>7. \A s \in Sessions : Cleaning(t, s)' /\ th'[t].pc # "take" =>
           /\ Cleaning(t, s) /\ th[t].pc # "take" /\ th'[t].h = th[t].h
           /\ th[t].h # NoStream => (th'[t].pc = "finish" <=> th[t].pc = "finish")
  BY <1>1, <1>4
<1>8. \A s \in Sessions : Cleaning(t, s) /\ th[t].h # NoStream /\ th[t].pc \notin {"take", "finish"} =>
           Cleaning(t, s)' /\ th'[t].h = th[t].h
  BY <1>1, <1>4
<1>9. QED
  BY <1>1, <1>2, <1>5, <1>6, <1>7, <1>8, KeepSame

(* A thread that comes away with no stream, and did not own one.           *)
LEMMA KeepEmpty ==
  ASSUME SessionInv, KeepInv, NEW t \in Threads, \A u \in Threads : u # t => th'[u] = th[u],
         stream' = stream, \A s \in Sessions : op'[s].handle = op[s].handle,
         th'[t].h = NoStream, th'[t].pc \notin FeedOnly \cup ProviderPoints,
         th'[t].pc \in CleanPoints => th'[t].pc = "take",
         th[t].pc \notin {"install", "discard"},
         th[t].h = NoStream \/ th[t].pc = "finish" \/ th[t].job = "feed"
  PROVE  KeepInv'
<1>1. ThreadOK(th[t]) /\ NoStream \notin Streams
  BY Fields, SttAssumption DEF SessionInv, Streams
<1>2. \A s \in Sessions : Feeding(t, s)' /\ th'[t].h # NoStream => th'[t].h = op[s].handle
  OBVIOUS
<1>3. \A s \in Sessions : Making(t, s)' <=> Making(t, s)
  BY DEF Making, FeedOnly
<1>4. th'[t].pc # "create"
  BY DEF FeedOnly
<1>5. \A s \in Sessions : Cleaning(t, s)' => th'[t].pc = "take"
  BY DEF Cleaning
<1>6. \A s \in Sessions : Cleaning(t, s) => th[t].h = NoStream \/ th[t].pc \in {"take", "finish"}
  BY <1>1 DEF Cleaning, ThreadOK, CleanPoints, ProviderPoints
<1>7. th[t].pc = "take" => th[t].h = NoStream
  BY <1>1 DEF ThreadOK
<1>8. QED
  BY <1>1, <1>2, <1>3, <1>4, <1>5, <1>6, <1>7, KeepSame

(* What a feed, or the clean-up of a session, says of who else is there.   *)
LEMMA FeedKeepsCleanersOut ==
  ASSUME SessionInv, NEW t \in Threads, th[t].pc \in FeedOnly
  PROVE  /\ th[t].s \in Sessions /\ th[t].job = "feed" /\ Feeding(t, th[t].s)
         /\ \A u \in Threads : ~Cleaning(u, th[t].s)
<1>1. th[t].s \in Sessions /\ th[t].job = "feed"
  BY Fields DEF SessionInv, ThreadOK, FeedOnly, OutsidePoints
<1>2. Feeding(t, th[t].s)
  BY <1>1 DEF Feeding
<1>3. ~op[th[t].s].claimed
  BY <1>1, <1>2, NoFeedWhileCleaning
<1>4. QED
  BY <1>1, <1>2, <1>3 DEF SessionInv, CleansOK

LEMMA KeepCreate ==
  ASSUME SessionInv, KeepInv, NEW t \in Threads, NEW s \in Sessions, s = th[t].s, CreateStream(t)
  PROVE  KeepInv'
<1> USE DEF KeepInv
<1>1. /\ th[t].pc = "create" /\ th[t].job = "feed"
      /\ \A u \in Threads : ~Cleaning(u, s)
  BY FeedKeepsCleanersOut DEF CreateStream, At, FeedOnly
<1>2. /\ th'[t].pc = "install" /\ th'[t].s = s /\ th'[t].job = "feed" /\ th'[t].h = th[t].h
      /\ \A u \in Threads : u # t => th'[u] = th[u]
      /\ op' = op
  BY <1>1, GotoFields DEF SessionInv, CreateStream
<1>3. \A r \in Sessions, u \in Threads :
        stream'[<<r, u>>] = IF r = s /\ u = t THEN "open" ELSE stream[<<r, u>>]
  BY DEF SessionInv, BaseInv, Types, Streams, CreateStream, Mine
<1>4. HandlesOpen'
  <2> SUFFICES ASSUME NEW r \in Sessions, op[r].handle # NoStream
               PROVE  op[r].handle \in {r} \X Threads /\ stream'[op[r].handle] = "open"
    BY <1>2 DEF HandlesOpen
  <2>1. PICK u \in Threads : op[r].handle = <<r, u>> /\ stream[<<r, u>>] = "open"
    BY DEF HandlesOpen
  <2>2. QED
    BY <1>3, <2>1
<1>5. FeedsHandle'
  BY <1>1, <1>2 DEF FeedsHandle, Feeding, FeedOnly
<1>6. MakesOwn'
  <2>1. stream[<<s, t>>] # "open" /\ op[s].handle # <<s, t>>
    BY <1>1 DEF MakesOwn
  <2>2. ASSUME NEW u \in Threads, NEW r \in Sessions
        PROVE  /\ Making(u, r)' => stream'[<<r, u>>] = "open" /\ op[r].handle # <<r, u>>
               /\ th'[u].s = r /\ th'[u].pc = "create" =>
                    stream'[<<r, u>>] # "open" /\ op[r].handle # <<r, u>>
    <3>1. CASE u = t
      BY <1>2, <1>3, <2>1, <3>1 DEF Making
    <3>2. CASE u # t
      BY <1>2, <1>3, <3>2 DEF Making, MakesOwn
    <3>3. QED
      BY <3>1, <3>2
  <2>3. QED
    BY <1>2, <2>2 DEF MakesOwn
<1>7. CleansTaken'
  <2> SUFFICES ASSUME NEW u \in Threads, NEW r \in Sessions, Cleaning(u, r)', th'[u].pc # "take"
               PROVE  /\ op[r].handle = NoStream
                      /\ th'[u].h # NoStream =>
                           th'[u].h \in {r} \X Threads
                           /\ (stream'[th'[u].h] = "open" <=> th'[u].pc # "finish")
    BY <1>2 DEF CleansTaken
  <2>1. u # t
    BY <1>2 DEF Cleaning, CleanPoints, ProviderPoints
  <2>2. Cleaning(u, r) /\ th'[u] = th[u] /\ r # s
    BY <1>1, <1>2, <2>1 DEF Cleaning
  <2>3. op[r].handle = NoStream /\ (th[u].h # NoStream =>
           th[u].h \in {r} \X Threads /\ (stream[th[u].h] = "open" <=> th[u].pc # "finish"))
    BY <2>2 DEF CleansTaken
  <2>4. ASSUME th[u].h # NoStream PROVE stream'[th[u].h] = stream[th[u].h]
    <3>1. PICK v \in Threads : th[u].h = <<r, v>>
      BY <2>3, <2>4
    <3>2. QED
      BY <1>3, <2>2, <3>1
  <2>5. QED
    BY <2>2, <2>3, <2>4
<1>8. Kept'
  <2> SUFFICES ASSUME NEW r \in Sessions, NEW u \in Threads, stream'[<<r, u>>] = "open"
               PROVE  \/ op[r].handle = <<r, u>>
                      \/ Making(u, r)'
                      \/ \E v \in Threads : Cleaning(v, r)' /\ th'[v].h = <<r, u>>
    BY <1>2 DEF Kept
  <2>1. CASE r = s /\ u = t
    BY <1>2, <2>1 DEF Making
  <2>2. CASE ~(r = s /\ u = t)
    <3>1. stream[<<r, u>>] = "open"
      BY <1>3, <2>2
    <3>2. CASE op[r].handle = <<r, u>>
      BY <3>2
    <3>3. CASE Making(u, r)
      BY <1>1, <1>2, <3>3 DEF Making
    <3>4. ASSUME NEW v \in Threads, Cleaning(v, r), th[v].h = <<r, u>>
          PROVE  Cleaning(v, r)' /\ th'[v].h = <<r, u>>
      BY <1>1, <1>2, <3>4 DEF Cleaning, CleanPoints, ProviderPoints
    <3>5. QED
      BY <3>1, <3>2, <3>3, <3>4 DEF Kept
  <2>3. QED
    BY <2>1, <2>2
<1>9. QED
  BY <1>4, <1>5, <1>6, <1>7, <1>8

LEMMA KeepInstall ==
  ASSUME SessionInv, KeepInv, NEW t \in Threads, NEW s \in Sessions, s = th[t].s, InstallStream(t)
  PROVE  KeepInv'
<1> USE DEF KeepInv
<1>1. /\ th[t].pc = "install" /\ th[t].job = "feed" /\ op[s].handle = NoStream
      /\ \A u \in Threads : ~Cleaning(u, s)
  BY FeedKeepsCleanersOut DEF InstallStream, Installs, At, FeedOnly
<1>2. /\ th'[t].pc = "call" /\ th'[t].s = s /\ th'[t].job = "feed" /\ th'[t].h = <<s, t>>
      /\ \A u \in Threads : u # t => th'[u] = th[u]
      /\ stream' = stream /\ NoStream \notin Streams
      /\ \A r \in Sessions : op'[r].handle = IF r = s THEN <<s, t>> ELSE op[r].handle
  BY <1>1, Fields, SttAssumption DEF SessionInv, InstallStream, Mine, ThreadType, OpType, Streams
<1>3. HandlesOpen'
  <2>1. stream[<<s, t>>] = "open"
    BY <1>1 DEF MakesOwn, Making
  <2>2. QED
    BY <1>2, <2>1 DEF HandlesOpen
<1>4. FeedsHandle'
  BY <1>1, <1>2 DEF FeedsHandle, Feeding
<1>5. MakesOwn'
  <2> SUFFICES ASSUME NEW u \in Threads, NEW r \in Sessions
               PROVE  /\ Making(u, r)' => stream[<<r, u>>] = "open" /\ op'[r].handle # <<r, u>>
                      /\ th'[u].s = r /\ th'[u].pc = "create" =>
                           stream[<<r, u>>] # "open" /\ op'[r].handle # <<r, u>>
    BY <1>2 DEF MakesOwn
  <2>1. CASE u = t
    BY <1>2, <2>1 DEF Making
  <2>2. CASE u # t
    BY <1>2, <2>2 DEF Making, MakesOwn
  <2>3. QED
    BY <2>1, <2>2
<1>6. CleansTaken'
  <2> SUFFICES ASSUME NEW u \in Threads, NEW r \in Sessions, Cleaning(u, r)', th'[u].pc # "take"
               PROVE  /\ op'[r].handle = NoStream
                      /\ th'[u].h # NoStream =>
                           th'[u].h \in {r} \X Threads
                           /\ (stream[th'[u].h] = "open" <=> th'[u].pc # "finish")
    BY <1>2 DEF CleansTaken
  <2>1. u # t
    BY <1>2 DEF Cleaning, CleanPoints, ProviderPoints
  <2>2. Cleaning(u, r) /\ th'[u] = th[u] /\ r # s
    BY <1>1, <1>2, <2>1 DEF Cleaning
  <2>3. QED
    BY <1>2, <2>2 DEF CleansTaken
<1>7. Kept'
  <2> SUFFICES ASSUME NEW r \in Sessions, NEW u \in Threads, stream[<<r, u>>] = "open"
               PROVE  \/ op'[r].handle = <<r, u>>
                      \/ Making(u, r)'
                      \/ \E v \in Threads : Cleaning(v, r)' /\ th'[v].h = <<r, u>>
    BY <1>2 DEF Kept
  <2>1. CASE op[r].handle = <<r, u>>
    BY <1>1, <1>2, <2>1 DEF Streams
  <2>2. CASE Making(u, r)
    BY <1>2, <2>2 DEF Making
  <2>3. ASSUME NEW v \in Threads, Cleaning(v, r), th[v].h = <<r, u>>
        PROVE  Cleaning(v, r)' /\ th'[v].h = <<r, u>>
    BY <1>1, <1>2, <2>3 DEF Cleaning, CleanPoints, ProviderPoints
  <2>4. QED
    BY <2>1, <2>2, <2>3 DEF Kept
<1>8. QED
  BY <1>3, <1>4, <1>5, <1>6, <1>7

LEMMA KeepDiscard ==
  ASSUME SessionInv, KeepInv, NEW t \in Threads, NEW s \in Sessions, s = th[t].s, DiscardStream(t)
  PROVE  KeepInv'
<1> USE DEF KeepInv
<1>1. /\ th[t].pc = "discard" /\ th[t].job = "feed" /\ th[t].back \in {"release", "call"}
      /\ \A u \in Threads : ~Cleaning(u, s)
  BY FeedKeepsCleanersOut, Fields DEF SessionInv, DiscardStream, At, FeedOnly, ThreadOK
<1>2. /\ th'[t].pc \in {"release", "call"} /\ th'[t].s = s /\ th'[t].job = "feed"
      /\ th'[t].h = th[t].h
      /\ \A u \in Threads : u # t => th'[u] = th[u]
      /\ op' = op
  BY <1>1, GotoFields DEF SessionInv, DiscardStream
<1>3. \A r \in Sessions, u \in Threads :
        stream'[<<r, u>>] = IF r = s /\ u = t THEN "destroyed" ELSE stream[<<r, u>>]
  BY DEF SessionInv, BaseInv, Types, Streams, DiscardStream, Mine
<1>4. op[s].handle # <<s, t>>
  BY <1>1 DEF MakesOwn, Making
<1>5. HandlesOpen'
  <2> SUFFICES ASSUME NEW r \in Sessions, op[r].handle # NoStream
               PROVE  op[r].handle \in {r} \X Threads /\ stream'[op[r].handle] = "open"
    BY <1>2 DEF HandlesOpen
  <2>1. PICK u \in Threads : op[r].handle = <<r, u>> /\ stream[<<r, u>>] = "open"
    BY DEF HandlesOpen
  <2>2. QED
    BY <1>3, <1>4, <2>1
<1>6. FeedsHandle'
  BY <1>1, <1>2 DEF FeedsHandle, Feeding, FeedOnly
<1>7. MakesOwn'
  <2> SUFFICES ASSUME NEW u \in Threads, NEW r \in Sessions
               PROVE  /\ Making(u, r)' => stream'[<<r, u>>] = "open" /\ op[r].handle # <<r, u>>
                      /\ th'[u].s = r /\ th'[u].pc = "create" =>
                           stream'[<<r, u>>] # "open" /\ op[r].handle # <<r, u>>
    BY <1>2 DEF MakesOwn
  <2>1. CASE u = t
    BY <1>2, <2>1 DEF Making
  <2>2. CASE u # t
    BY <1>2, <1>3, <2>2 DEF Making, MakesOwn
  <2>3. QED
    BY <2>1, <2>2
<1>8. CleansTaken'
  <2> SUFFICES ASSUME NEW u \in Threads, NEW r \in Sessions, Cleaning(u, r)', th'[u].pc # "take"
               PROVE  /\ op[r].handle = NoStream
                      /\ th'[u].h # NoStream =>
                           th'[u].h \in {r} \X Threads
                           /\ (stream'[th'[u].h] = "open" <=> th'[u].pc # "finish")
    BY <1>2 DEF CleansTaken
  <2>1. u # t
    BY <1>2 DEF Cleaning, CleanPoints, ProviderPoints
  <2>2. Cleaning(u, r) /\ th'[u] = th[u] /\ r # s
    BY <1>1, <1>2, <2>1 DEF Cleaning
  <2>3. op[r].handle = NoStream /\ (th[u].h # NoStream =>
           th[u].h \in {r} \X Threads /\ (stream[th[u].h] = "open" <=> th[u].pc # "finish"))
    BY <2>2 DEF CleansTaken
  <2>4. ASSUME th[u].h # NoStream PROVE stream'[th[u].h] = stream[th[u].h]
    <3>1. PICK v \in Threads : th[u].h = <<r, v>>
      BY <2>3, <2>4
    <3>2. QED
      BY <1>3, <2>2, <3>1
  <2>5. QED
    BY <2>2, <2>3, <2>4
<1>9. Kept'
  <2> SUFFICES ASSUME NEW r \in Sessions, NEW u \in Threads, stream'[<<r, u>>] = "open"
               PROVE  \/ op[r].handle = <<r, u>>
                      \/ Making(u, r)'
                      \/ \E v \in Threads : Cleaning(v, r)' /\ th'[v].h = <<r, u>>
    BY <1>2 DEF Kept
  <2>1. ~(r = s /\ u = t) /\ stream[<<r, u>>] = "open"
    BY <1>3
  <2>2. CASE op[r].handle = <<r, u>>
    BY <2>2
  <2>3. CASE Making(u, r)
    BY <1>2, <2>1, <2>3 DEF Making
  <2>4. ASSUME NEW v \in Threads, Cleaning(v, r), th[v].h = <<r, u>>
        PROVE  Cleaning(v, r)' /\ th'[v].h = <<r, u>>
    BY <1>1, <1>2, <2>4 DEF Cleaning, CleanPoints, ProviderPoints
  <2>5. QED
    BY <2>1, <2>2, <2>3, <2>4 DEF Kept
<1>10. QED
  BY <1>5, <1>6, <1>7, <1>8, <1>9

(* The thread that cleans a session up is alone with it.                   *)
LEMMA CleanerAlone ==
  ASSUME SessionInv, NEW t \in Threads, NEW s \in Sessions, Cleaning(t, s)
  PROVE  \A u \in Threads : ~Feeding(u, s) /\ ~Making(u, s) /\ (Cleaning(u, s) => u = t)
<1>1. \A u \in Threads : ~Feeding(u, s)
  BY NoFeedWhileCleaning DEF SessionInv, CleansOK
<1>2. \A u \in Threads : Making(u, s) => Feeding(u, s)
  BY FeedKeepsCleanersOut DEF Making, FeedOnly
<1>3. QED
  BY <1>1, <1>2 DEF SessionInv, OneCleaner

LEMMA KeepTake ==
  ASSUME SessionInv, KeepInv, NEW t \in Threads, NEW s \in Sessions, s = th[t].s, TakeHandle(t)
  PROVE  KeepInv'
<1> USE DEF KeepInv
<1>1. /\ th[t].pc = "take" /\ th[t].h = NoStream /\ Cleaning(t, s)
      /\ th[t].job \in {"stop", "cancel", "deferred", "refuse"}
      /\ \A u \in Threads : ~Feeding(u, s) /\ ~Making(u, s) /\ (Cleaning(u, s) => u = t)
  <2>1. th[t].pc = "take" /\ Cleaning(t, s)
    BY DEF TakeHandle, At, Cleaning, CleanPoints
  <2>2. QED
    BY <2>1, Fields, CleanerAlone DEF SessionInv, ThreadOK, CleanPoints
<1>2. /\ th'[t].pc \in {"admit", "close"} /\ th'[t].s = s /\ th'[t].job = th[t].job
      /\ th'[t].h = op[s].handle
      /\ \A u \in Threads : u # t => th'[u] = th[u]
      /\ stream' = stream /\ NoStream \notin Streams
      /\ \A r \in Sessions : op'[r].handle = IF r = s THEN NoStream ELSE op[r].handle
  BY <1>1, Fields, SttAssumption DEF SessionInv, TakeHandle, ThreadType, OpType, Streams
<1>3. HandlesOpen'
  BY <1>2 DEF HandlesOpen
<1>4. FeedsHandle'
  <2> SUFFICES ASSUME NEW u \in Threads, NEW r \in Sessions, Feeding(u, r)', th'[u].h # NoStream
               PROVE  th'[u].h = op'[r].handle
    BY DEF FeedsHandle
  <2>1. u # t
    BY <1>1, <1>2 DEF Feeding
  <2>2. Feeding(u, r) /\ r # s
    BY <1>1, <1>2, <2>1 DEF Feeding
  <2>3. QED
    BY <1>2, <2>1, <2>2 DEF FeedsHandle
<1>5. MakesOwn'
  <2> SUFFICES ASSUME NEW u \in Threads, NEW r \in Sessions
               PROVE  /\ Making(u, r)' => stream[<<r, u>>] = "open" /\ op'[r].handle # <<r, u>>
                      /\ th'[u].s = r /\ th'[u].pc = "create" =>
                           stream[<<r, u>>] # "open" /\ op'[r].handle # <<r, u>>
    BY <1>2 DEF MakesOwn
  <2>1. CASE u = t
    BY <1>2, <2>1 DEF Making
  <2>2. CASE u # t
    BY <1>2, <2>2 DEF Making, MakesOwn, Streams
  <2>3. QED
    BY <2>1, <2>2
<1>6. CleansTaken'
  <2> SUFFICES ASSUME NEW u \in Threads, NEW r \in Sessions, Cleaning(u, r)', th'[u].pc # "take"
               PROVE  /\ op'[r].handle = NoStream
                      /\ th'[u].h # NoStream =>
                           th'[u].h \in {r} \X Threads
                           /\ (stream[th'[u].h] = "open" <=> th'[u].pc # "finish")
    BY <1>2 DEF CleansTaken
  <2>1. CASE u = t
    <3>1. r = s
      BY <1>2, <2>1 DEF Cleaning
    <3>2. QED
      BY <1>2, <2>1, <3>1 DEF HandlesOpen
  <2>2. CASE u # t
    BY <1>1, <1>2, <2>2 DEF CleansTaken, Cleaning
  <2>3. QED
    BY <2>1, <2>2
<1>7. Kept'
  <2> SUFFICES ASSUME NEW r \in Sessions, NEW u \in Threads, stream[<<r, u>>] = "open"
               PROVE  \/ op'[r].handle = <<r, u>>
                      \/ Making(u, r)'
                      \/ \E v \in Threads : Cleaning(v, r)' /\ th'[v].h = <<r, u>>
    BY <1>2 DEF Kept
  <2>0. Cleaning(t, s)'
    BY <1>2 DEF Cleaning, CleanPoints
  <2>1. CASE op[r].handle = <<r, u>>
    BY <1>2, <2>0, <2>1
  <2>2. CASE Making(u, r)
    BY <1>1, <1>2, <2>2 DEF Making
  <2>3. ASSUME NEW v \in Threads, Cleaning(v, r), th[v].h = <<r, u>>
        PROVE  Cleaning(v, r)' /\ th'[v].h = <<r, u>>
    <3>1. v # t
      BY <1>1, <1>2, <2>3 DEF Streams
    <3>2. QED
      BY <1>2, <2>3, <3>1 DEF Cleaning
  <2>4. QED
    BY <2>1, <2>2, <2>3 DEF Kept
<1>8. QED
  BY <1>3, <1>4, <1>5, <1>6, <1>7

LEMMA KeepDestroy ==
  ASSUME SessionInv, KeepInv, NEW t \in Threads, NEW s \in Sessions, s = th[t].s, DestroyStream(t)
  PROVE  KeepInv'
<1> USE DEF KeepInv
<1>1. /\ th[t].pc = "destroy" /\ Cleaning(t, s)
      /\ th[t].job \in {"stop", "cancel", "deferred", "refuse"}
      /\ \A u \in Threads : ~Feeding(u, s) /\ ~Making(u, s) /\ (Cleaning(u, s) => u = t)
  <2>1. th[t].pc = "destroy" /\ Cleaning(t, s)
    BY DEF DestroyStream, At, Cleaning, CleanPoints
  <2>2. QED
    BY <2>1, Fields, CleanerAlone DEF SessionInv, ThreadOK, CleanPoints
<1>2. /\ th'[t].pc = "finish" /\ th'[t].s = s /\ th'[t].job = th[t].job /\ th'[t].h = th[t].h
      /\ \A u \in Threads : u # t => th'[u] = th[u]
      /\ op' = op /\ NoStream \notin Streams
  BY <1>1, GotoFields, SttAssumption DEF SessionInv, DestroyStream, Streams
<1>3. op[s].handle = NoStream /\ (th[t].h # NoStream => th[t].h \in {s} \X Threads)
  BY <1>1 DEF CleansTaken
<1>4. \A x \in Streams : stream'[x] = IF x = th[t].h THEN "destroyed" ELSE stream[x]
  BY DEF SessionInv, BaseInv, Types, DestroyStream
<1>5. \A r \in Sessions, u \in Threads : r # s => stream'[<<r, u>>] = stream[<<r, u>>]
  BY <1>2, <1>3, <1>4 DEF Streams
<1>6. HandlesOpen'
  <2> SUFFICES ASSUME NEW r \in Sessions, op[r].handle # NoStream
               PROVE  op[r].handle \in {r} \X Threads /\ stream'[op[r].handle] = "open"
    BY <1>2 DEF HandlesOpen
  <2>1. PICK u \in Threads : op[r].handle = <<r, u>> /\ stream[<<r, u>>] = "open"
    BY DEF HandlesOpen
  <2>2. QED
    BY <1>3, <1>5, <2>1
<1>7. FeedsHandle'
  BY <1>1, <1>2 DEF FeedsHandle, Feeding
<1>8. MakesOwn'
  <2> SUFFICES ASSUME NEW u \in Threads, NEW r \in Sessions
               PROVE  /\ Making(u, r)' => stream'[<<r, u>>] = "open" /\ op[r].handle # <<r, u>>
                      /\ th'[u].s = r /\ th'[u].pc = "create" =>
                           stream'[<<r, u>>] # "open" /\ op[r].handle # <<r, u>>
    BY <1>2 DEF MakesOwn
  <2>1. CASE u = t
    BY <1>2, <2>1 DEF Making
  <2>2. CASE u # t /\ r # s
    BY <1>2, <1>5, <2>2 DEF Making, MakesOwn
  <2>3. CASE u # t /\ r = s
    <3>1. th[u].pc = "create" => th[u].s # s
      BY <1>1, FeedKeepsCleanersOut DEF FeedOnly
    <3>2. QED
      BY <1>1, <1>2, <2>3, <3>1 DEF Making
  <2>4. QED
    BY <2>1, <2>2, <2>3
<1>9. CleansTaken'
  <2> SUFFICES ASSUME NEW u \in Threads, NEW r \in Sessions, Cleaning(u, r)', th'[u].pc # "take"
               PROVE  /\ op[r].handle = NoStream
                      /\ th'[u].h # NoStream =>
                           th'[u].h \in {r} \X Threads
                           /\ (stream'[th'[u].h] = "open" <=> th'[u].pc # "finish")
    BY <1>2 DEF CleansTaken
  <2>1. CASE u = t
    <3>1. r = s
      BY <1>2, <2>1 DEF Cleaning
    <3>2. th[t].h # NoStream => stream'[th[t].h] = "destroyed"
      BY <1>3, <1>4 DEF Streams
    <3>3. QED
      BY <1>2, <1>3, <2>1, <3>1, <3>2
  <2>2. CASE u # t
    <3>1. Cleaning(u, r) /\ th'[u] = th[u] /\ r # s
      BY <1>1, <1>2, <2>2 DEF Cleaning
    <3>2. op[r].handle = NoStream /\ (th[u].h # NoStream =>
             th[u].h \in {r} \X Threads /\ (stream[th[u].h] = "open" <=> th[u].pc # "finish"))
      BY <2>2, <3>1 DEF CleansTaken
    <3>3. ASSUME th[u].h # NoStream PROVE stream'[th[u].h] = stream[th[u].h]
      <4>1. PICK v \in Threads : th[u].h = <<r, v>>
        BY <3>2, <3>3
      <4>2. QED
        BY <1>5, <3>1, <4>1
    <3>4. QED
      BY <3>1, <3>2, <3>3
  <2>3. QED
    BY <2>1, <2>2
<1>10. Kept'
  <2> SUFFICES ASSUME NEW r \in Sessions, NEW u \in Threads, stream'[<<r, u>>] = "open"
               PROVE  \/ op[r].handle = <<r, u>>
                      \/ Making(u, r)'
                      \/ \E v \in Threads : Cleaning(v, r)' /\ th'[v].h = <<r, u>>
    BY <1>2 DEF Kept
  <2>1. stream[<<r, u>>] = "open" /\ <<r, u>> # th[t].h
    BY <1>4 DEF Streams
  <2>2. CASE op[r].handle = <<r, u>>
    BY <2>2
  <2>3. CASE Making(u, r)
    BY <1>1, <1>2, <2>3 DEF Making
  <2>4. ASSUME NEW v \in Threads, Cleaning(v, r), th[v].h = <<r, u>>
        PROVE  Cleaning(v, r)' /\ th'[v].h = <<r, u>>
    BY <1>2, <2>1, <2>4 DEF Cleaning
  <2>5. QED
    BY <2>1, <2>2, <2>3, <2>4 DEF Kept
<1>11. QED
  BY <1>6, <1>7, <1>8, <1>9, <1>10

(* Returning from a callback only moves the thread on.                     *)
LEMMA CallbackGoto ==
  ASSUME SessionInv, NEW t \in Threads, th[t].s \in Sessions, CallbackReturns(t)
  PROVE  /\ Goto(t, th[t].back)
         /\ op' = [op EXCEPT ![th[t].s] = [op[th[t].s] EXCEPT !.dispatches = op[th[t].s].dispatches - 1]]
<1> DEFINE o == [op[th[t].s] EXCEPT !.dispatches = op[th[t].s].dispatches - 1]
<1>1. PICK s \in Sessions : s = th[t].s
  OBVIOUS
<1>2. /\ op' = [op EXCEPT ![s] = [op[s] EXCEPT !.dispatches = op[s].dispatches - 1]]
      /\ th'[t].pc = th[t].back /\ th[t].back \in {"provided", "release", "close"}
  BY <1>1, CallbackGoesOn, Fields DEF SessionInv, CallbackReturns, Refusing, At, ThreadOK
<1>3. CASE Abandoned(o)
  <2>1. th'[t].pc = "take"
    BY <1>3, Fields DEF SessionInv, CallbackReturns, Release, Resting
  <2>2. QED
    BY <1>2, <2>1
<1>4. CASE ~Abandoned(o)
  BY <1>1, <1>2, <1>4 DEF CallbackReturns, Release, Goto
<1>5. QED
  BY <1>3, <1>4

LEMMA KeepStill ==
  ASSUME KeepInv, th' = th, stream' = stream, \A s \in Sessions : op'[s].handle = op[s].handle
  PROVE  KeepInv'
<1>1. \A t \in Threads, s \in Sessions : /\ Feeding(t, s)' <=> Feeding(t, s)
                                         /\ Making(t, s)' <=> Making(t, s)
                                         /\ Cleaning(t, s)' <=> Cleaning(t, s)
  BY DEF Feeding, Making, Cleaning
<1>2. HandlesOpen'
  BY DEF KeepInv, HandlesOpen
<1>3. FeedsHandle'
  BY <1>1 DEF KeepInv, FeedsHandle
<1>4. MakesOwn'
  BY <1>1 DEF KeepInv, MakesOwn
<1>5. CleansTaken'
  BY <1>1 DEF KeepInv, CleansTaken
<1>6. Kept'
  BY <1>1 DEF KeepInv, Kept
<1>7. QED
  BY <1>2, <1>3, <1>4, <1>5, <1>6 DEF KeepInv

LEMMA KeepStep ==
  ASSUME SessionInv, KeepInv, [SttNext]_vars
  PROVE  KeepInv'
<1>0. /\ BaseInv /\ NoStream \notin Streams /\ NoSession \notin Sessions
      /\ op \in [Sessions -> OpType] /\ Feeders \cup Enders \cup Loaders \cup Owners \subseteq Threads
  BY SttAssumption DEF SessionInv, BaseInv, Types, Streams
<1>1. \A t \in Threads : th \in [Threads -> ThreadType] /\ th[t] \in ThreadType /\ ThreadOK(th[t])
  BY <1>0, Fields
<1>2. CASE UNCHANGED vars
  BY <1>2, KeepStill DEF vars
<1>3. ASSUME op' = op PROVE \A s \in Sessions : op'[s].handle = op[s].handle
  BY <1>3
<1>4. ASSUME NEW s, NEW o, op' = [op EXCEPT ![s] = o], s \in Sessions => o.handle = op[s].handle
      PROVE  \A r \in Sessions : op'[r].handle = op[r].handle
  BY <1>0, <1>4
<1>5. ASSUME NEW t \in Threads, th[t].pc \in OutsidePoints \cup {"start", "feed", "end", "wait"},
             stream' = stream, \A s \in Sessions : op'[s].handle = op[s].handle,
             th'[t].h = NoStream, th'[t].pc \in OutsidePoints \cup {"start", "feed", "end", "wait", "take"},
             \A u \in Threads : u # t => th'[u] = th[u]
      PROVE  KeepInv'
  <2>1. th[t].h = NoStream
    BY <1>1, <1>5 DEF ThreadOK
  <2>2. QED
    BY <1>5, <2>1, KeepEmpty DEF OutsidePoints, FeedOnly, ProviderPoints, CleanPoints
<1>6. ASSUME NEW t \in Threads, NEW s \in Sessions, NEW how, EndLookup(t, s, how), th[t].pc \in {"idle", "sweep"}
      PROVE  KeepInv'
  <2>1. /\ th'[t].pc = "end" /\ th'[t].h = th[t].h
        /\ \A u \in Threads : u # t => th'[u] = th[u]
    BY <1>1, <1>6 DEF EndLookup, ThreadType
  <2>2. th[t].h = NoStream
    BY <1>1, <1>6 DEF ThreadOK, OutsidePoints
  <2>3. \A r \in Sessions : op'[r].handle = op[r].handle
    BY <1>0, <1>6 DEF EndLookup, OpType
  <2>4. QED
    BY <1>5, <1>6, <2>1, <2>2, <2>3 DEF EndLookup, OutsidePoints
<1>7. CASE Call
  <2>1. ASSUME NEW t \in Threads, NEW s \in Sessions, StartCheck(t, s) \/ FeedLookup(t, s)
        PROVE  KeepInv'
    <3>1. /\ th[t].pc = "idle" /\ th'[t].pc \in {"start", "feed"} /\ th'[t].h = th[t].h
          /\ \A u \in Threads : u # t => th'[u] = th[u]
          /\ op' = op /\ stream' = stream
      <4>1. CASE StartCheck(t, s)
        BY <1>1, <4>1 DEF StartCheck, At, ThreadType
      <4>2. CASE FeedLookup(t, s)
        BY <1>1, <4>2 DEF FeedLookup, At, ThreadType
      <4>3. QED
        BY <2>1, <4>1, <4>2
    <3>2. th[t].h = NoStream
      BY <1>1, <3>1 DEF ThreadOK, OutsidePoints
    <3>3. QED
      BY <1>5, <3>1, <3>2 DEF OutsidePoints
  <2>2. ASSUME NEW t \in Threads, NEW s \in Sessions, NEW how \in {"stop", "cancel"}, EndCalled(t, s, how)
        PROVE  KeepInv'
    BY <1>6, <2>2 DEF EndCalled, At
  <2>3. ASSUME NEW t \in Threads, NEW how \in {"stop", "cancel"}, CallbackEnds(t, how)
        PROVE  KeepInv'
    <3>1. th' = th /\ stream' = stream
      BY <2>3 DEF CallbackEnds
    <3>2. \A s \in Sessions : op'[s].handle = op[s].handle
      BY <1>0, <2>3 DEF CallbackEnds, Ended, OpType
    <3>3. QED
      BY <3>1, <3>2, KeepStill
  <2>4. ASSUME NEW t \in Threads, BeginTeardown(t)
        PROVE  KeepInv'
    <3>1. /\ th[t].pc = "idle" /\ th'[t].pc = "sweep" /\ th'[t].h = th[t].h
          /\ \A u \in Threads : u # t => th'[u] = th[u]
          /\ op' = op /\ stream' = stream
      BY <1>1, <2>4 DEF BeginTeardown, At, ThreadType
    <3>2. th[t].h = NoStream
      BY <1>1, <3>1 DEF ThreadOK, OutsidePoints
    <3>3. QED
      BY <1>5, <3>1, <3>2 DEF OutsidePoints
  <2>5. ASSUME NEW t \in Threads, Unset(t)
        PROVE  KeepInv'
    <3>1. /\ th[t].pc = "idle" /\ Goto(t, "quiesce") /\ op' = op /\ stream' = stream
      BY <2>5 DEF Unset, At
    <3>2. QED
      BY <3>1, KeepGoto DEF FeedOnly, ProviderPoints, CleanPoints
  <2>6. QED
    BY <1>0, <1>7, <2>1, <2>2, <2>3, <2>4, <2>5 DEF Call
<1>8. ASSUME NEW t \in Threads, CallStep(t)
      PROVE  KeepInv'
  <2> DEFINE s == th[t].s
  <2>1. CASE StartCommit(t) \/ FeedTooLate(t) \/ EndJoin(t) \/ Finish(t) \/ RefusalDropped(t)
    <3>1. /\ th'[t].pc \in {"idle", "sweep"} /\ th'[t].h = NoStream
          /\ \A u \in Threads : u # t => th'[u] = th[u]
          /\ stream' = stream
          /\ \/ th[t].pc \in {"start", "feed", "wait", "finish"}
             \/ th[t].pc = "dispatch" /\ th[t].job = "refuse"
      BY <1>0, <2>1, Returned
         DEF StartCommit, FeedTooLate, EndJoin, Finish, RefusalDropped, Refusing, At
    <3>2. \A r \in Sessions : op'[r].handle = op[r].handle
      BY <1>0, <2>1 DEF StartCommit, FeedTooLate, EndJoin, Finish, RefusalDropped, OpType
    <3>3. th[t].pc # "finish" => th[t].h = NoStream
      BY <1>1, <3>1 DEF ThreadOK, ProviderPoints
    <3>4. QED
      BY <3>1, <3>2, <3>3, KeepEmpty DEF FeedOnly, ProviderPoints, CleanPoints
  <2>2. CASE FeedAdmit(t)
    <3>1. /\ th[t].pc = "feed" /\ s \in Sessions /\ th[t].job = "feed" /\ op[s].term = "active"
          /\ th[t].h = NoStream
      BY <1>1, <2>2 DEF FeedAdmit, At, ThreadOK, OutsidePoints
    <3>2. /\ th'[t].pc = FeedRoute(op[s]) /\ th'[t].h = op[s].handle /\ th'[t].s = s
          /\ th'[t].job = "feed"
          /\ \A u \in Threads : u # t => th'[u] = th[u]
          /\ stream' = stream
      BY <1>1, <2>2, <3>1 DEF FeedAdmit, ThreadType
    <3>3. \A r \in Sessions : op'[r].handle = op[r].handle
      BY <1>0, <2>2, <3>1 DEF FeedAdmit, OpType
    <3>4. FeedRoute(op[s]) \in {"buffer", "create", "call"}
          /\ (FeedRoute(op[s]) = "create" => op[s].handle = NoStream)
      BY DEF FeedRoute
    <3>5. ASSUME op[s].handle = NoStream PROVE stream[<<s, t>>] # "open"
      <4>1. ~Making(t, s) /\ op[s].handle # <<s, t>>
        BY <1>0, <3>1, <3>5 DEF Making, Streams
      <4>2. \A u \in Threads : ~Cleaning(u, s)
        BY <3>1 DEF SessionInv, ClaimsOK, CleansOK
      <4>3. QED
        BY <3>1, <4>1, <4>2 DEF KeepInv, Kept
    <3>6. \A r \in Sessions : Feeding(t, r)' /\ th'[t].h # NoStream => th'[t].h = op[r].handle
      BY <3>2 DEF Feeding
    <3>7. \A r \in Sessions : Making(t, r)' <=> Making(t, r)
      BY <3>1, <3>2, <3>4 DEF Making
    <3>8. \A r \in Sessions : th'[t].s = r /\ th'[t].pc = "create" =>
            stream[<<r, t>>] # "open" /\ op[r].handle # <<r, t>>
      BY <1>0, <3>1, <3>2, <3>4, <3>5 DEF Streams
    <3>9. \A r \in Sessions : ~Cleaning(t, r)' /\ ~Cleaning(t, r)
      BY <3>1, <3>2, <3>4 DEF Cleaning, CleanPoints, ProviderPoints
    <3>10. QED
      BY <1>0, <3>1, <3>2, <3>3, <3>6, <3>7, <3>8, <3>9, KeepSame
  <2>3. CASE CreateUnsupported(t) \/ Buffer(t)
    <3>1. /\ th[t].pc \in {"create", "buffer"} /\ th[t].job = "feed" /\ s \in Sessions
          /\ stream' = stream
      BY <1>1, <2>3 DEF CreateUnsupported, Buffer, At, ThreadOK, FeedOnly, OutsidePoints
    <3>2. \A r \in Sessions : op'[r].handle = op[r].handle
      BY <1>0, <2>3, <3>1 DEF CreateUnsupported, Buffer, OpType
    <3>3. PICK p \in {"release", "buffer", "call"} : Goto(t, p)
      BY <2>3 DEF CreateUnsupported, Buffer
    <3>4. QED
      BY <3>1, <3>2, <3>3, KeepGoto DEF FeedOnly, ProviderPoints, CleanPoints
  <2>4. ASSUME th[t].pc \in {"create", "provider", "provided"}, NEW b,
               th' = [th EXCEPT ![t] = [@ EXCEPT !.pc = "dispatch", !.back = b]],
               op' = op, stream' = stream
        PROVE  KeepInv'
    <3>1. /\ th'[t].pc = "dispatch" /\ th'[t].s = s /\ th'[t].job = th[t].job /\ th'[t].h = th[t].h
          /\ \A u \in Threads : u # t => th'[u] = th[u]
      BY <1>1, <2>4 DEF ThreadType
    <3>2. th[t].pc = "create" => th[t].job = "feed"
      BY <1>1 DEF ThreadOK, FeedOnly
    <3>3. \A r \in Sessions : Feeding(t, r)' => Feeding(t, r)
      BY <2>4, <3>1 DEF Feeding, FeedOnly, ProviderPoints
    <3>4. \A r \in Sessions : Making(t, r)' <=> Making(t, r)
      BY <2>4, <3>1 DEF Making
    <3>5. \A r \in Sessions : Cleaning(t, r)' <=> Cleaning(t, r)
      BY <2>4, <3>1, <3>2 DEF Cleaning, CleanPoints, ProviderPoints
    <3>6. \A r \in Sessions : Feeding(t, r)' /\ th'[t].h # NoStream => th'[t].h = op[r].handle
      BY <3>1, <3>3 DEF KeepInv, FeedsHandle
    <3>7. QED
      BY <1>0, <1>3, <2>4, <3>1, <3>4, <3>5, <3>6, KeepSame
  <2>5. CASE CreateFails(t) \/ ProviderEmits(t)
    BY <2>4, <2>5 DEF CreateFails, ProviderEmits, At
  <2>6. CASE ProviderReturns(t)
    <3>1. th[t].pc \in {"provider", "provided"} /\ op' = op /\ stream' = stream
      BY <2>6 DEF ProviderReturns
    <3>2. CASE Goto(t, AfterCall(t))
      <4>1. AfterCall(t) = IF th[t].job = "feed" THEN "release" ELSE "close"
        BY DEF AfterCall
      <4>2. th[t].job \in {"feed", "stop"}
        BY <1>1, <3>1 DEF ThreadOK, ProviderPoints
      <4>3. QED
        BY <3>1, <3>2, <4>1, <4>2, KeepGoto DEF FeedOnly, ProviderPoints, CleanPoints
    <3>3. CASE th' = [th EXCEPT ![t] = [@ EXCEPT !.pc = "dispatch", !.back = AfterCall(t)]]
      <4>1. th[t].pc \in {"create", "provider", "provided"}
        BY <3>1
      <4>2. QED
        BY <2>4, <3>1, <3>3, <4>1, Zenon
    <3>4. QED
      BY <2>6, <3>2, <3>3 DEF ProviderReturns
  <2>7. CASE CreateStream(t) \/ InstallStream(t) \/ DiscardStream(t)
    BY <2>7, FeedKeepsCleanersOut, KeepCreate, KeepInstall, KeepDiscard
       DEF CreateStream, InstallStream, DiscardStream, At, FeedOnly
  <2>8. CASE StreamRedundant(t)
    <3>1. /\ th[t].pc = "install" /\ s \in Sessions /\ th[t].job = "feed" /\ Feeding(t, s)
          /\ \A u \in Threads : ~Cleaning(u, s)
      BY <2>8, FeedKeepsCleanersOut DEF StreamRedundant, At, FeedOnly
    <3>2. /\ th'[t].pc = "discard" /\ th'[t].s = s /\ th'[t].job = "feed"
          /\ th'[t].h \in {th[t].h, op[s].handle}
          /\ \A u \in Threads : u # t => th'[u] = th[u]
          /\ op' = op /\ stream' = stream
      BY <1>1, <2>8, <3>1 DEF StreamRedundant, ThreadType
    <3>3. \A r \in Sessions : Feeding(t, r)' /\ th'[t].h # NoStream => th'[t].h = op[r].handle
      BY <3>1, <3>2 DEF KeepInv, FeedsHandle, Feeding
    <3>4. \A r \in Sessions : Making(t, r)' <=> Making(t, r)
      BY <3>1, <3>2 DEF Making
    <3>5. \A r \in Sessions : ~Cleaning(t, r)' /\ ~Cleaning(t, r)
      BY <3>1, <3>2 DEF Cleaning, CleanPoints, ProviderPoints
    <3>6. QED
      BY <1>0, <1>3, <3>1, <3>2, <3>3, <3>4, <3>5, KeepSame
  <2>9. CASE EnterProvider(t)
    <3>1. th[t].pc = "call" /\ Goto(t, "provider") /\ op' = op /\ stream' = stream
      BY <2>9 DEF EnterProvider, At
    <3>2. QED
      BY <1>3, <3>1, KeepGoto DEF FeedOnly, ProviderPoints, CleanPoints
  <2>10. CASE Dispatch(t)
    <3>1. th[t].pc = "dispatch" /\ Goto(t, "callback") /\ stream' = stream
      BY <2>10 DEF Dispatch, At
    <3>2. \A r \in Sessions : op'[r].handle = op[r].handle
      BY <1>0, <2>10 DEF Dispatch, OpType
    <3>3. QED
      BY <3>1, <3>2, KeepGoto DEF FeedOnly, ProviderPoints, CleanPoints
  <2>11. CASE DispatchDropped(t)
    <3>1. /\ th[t].pc = "dispatch" /\ Goto(t, th[t].back) /\ op' = op /\ stream' = stream
          /\ th[t].job \in {"feed", "stop"}
          /\ th[t].back \in {"provided", IF th[t].job = "feed" THEN "release" ELSE "close"}
      BY <1>1, <2>11 DEF DispatchDropped, Refusing, At, ThreadOK, ProviderPoints
    <3>2. QED
      BY <1>3, <3>1, KeepGoto DEF FeedOnly, ProviderPoints, CleanPoints
  <2>12. CASE CallbackReturns(t)
    <3>1. /\ th[t].pc = "callback" /\ s \in Sessions /\ th[t].job \in {"feed", "stop"}
          /\ th[t].back \in {"provided", IF th[t].job = "feed" THEN "release" ELSE "close"}
          /\ stream' = stream
      BY <1>1, <2>12 DEF CallbackReturns, Refusing, At, ThreadOK, OutsidePoints, ProviderPoints
    <3>2. /\ Goto(t, th[t].back)
          /\ op' = [op EXCEPT ![s] = [op[s] EXCEPT !.dispatches = op[s].dispatches - 1]]
      BY <2>12, <3>1, CallbackGoto
    <3>3. \A r \in Sessions : op'[r].handle = op[r].handle
      BY <1>0, <3>1, <3>2 DEF OpType
    <3>4. QED
      BY <3>1, <3>2, <3>3, KeepGoto DEF FeedOnly, ProviderPoints, CleanPoints
  <2>13. CASE FeedReturns(t)
    <3>1. /\ th[t].pc = "release" /\ th[t].job = "feed" /\ s \in Sessions /\ stream' = stream
      BY <1>1, <2>13 DEF FeedReturns, At, ThreadOK, OutsidePoints, FeedOnly
    <3>2. /\ th'[t].pc \in {"idle", "take"} /\ th'[t].h = NoStream
          /\ \A u \in Threads : u # t => th'[u] = th[u]
      BY <1>1, <2>13 DEF FeedReturns, Release, Resting
    <3>3. \A r \in Sessions : op'[r].handle = op[r].handle
      BY <1>0, <2>13, <3>1 DEF FeedReturns, Release, OpType
    <3>4. QED
      BY <3>1, <3>2, <3>3, KeepEmpty DEF FeedOnly, ProviderPoints, CleanPoints
  <2>14. CASE EndShut(t) \/ EndClaim(t)
    <3>1. /\ th[t].pc \in {"end", "wait"} /\ stream' = stream /\ s \in Sessions
      BY <1>1, <2>14 DEF EndShut, EndClaim, At, ThreadOK, OutsidePoints
    <3>2. /\ th'[t].pc \in {"wait", "take"} /\ th'[t].h = th[t].h
          /\ \A u \in Threads : u # t => th'[u] = th[u]
      BY <1>0, <2>14, GotoFields DEF EndShut, EndClaim
    <3>3. th[t].h = NoStream
      BY <1>1, <3>1 DEF ThreadOK
    <3>4. \A r \in Sessions : op'[r].handle = op[r].handle
      <4>1. CASE EndShut(t)
        BY <1>0, <3>1, <4>1 DEF EndShut, Ended, OpType
      <4>2. CASE EndClaim(t)
        BY <1>0, <3>1, <4>2 DEF EndClaim, OpType
      <4>3. QED
        BY <2>14, <4>1, <4>2
    <3>5. QED
      BY <1>5, <3>1, <3>2, <3>3, <3>4
  <2>15. CASE AdmitFlush(t) \/ CloseGate(t) \/ EraseSession(t)
    <3>1. /\ th[t].pc \in {"admit", "close", "erase"} /\ s \in Sessions /\ stream' = stream
          /\ th[t].pc = "admit" => th[t].job = "stop"
      BY <1>1, <2>15 DEF AdmitFlush, CloseGate, EraseSession, At, ThreadOK, OutsidePoints
    <3>2. \A r \in Sessions : op'[r].handle = op[r].handle
      BY <1>0, <2>15, <3>1 DEF AdmitFlush, CloseGate, EraseSession, OpType
    <3>3. PICK p \in {"call", "close", "erase", "finish", "destroy"} :
            Goto(t, p) /\ (p = "finish" => th[t].h = NoStream) /\ (p = "call" => th[t].pc = "admit")
      BY <2>15 DEF AdmitFlush, CloseGate, EraseSession, At
    <3>4. QED
      BY <3>1, <3>2, <3>3, KeepGoto DEF FeedOnly, ProviderPoints, CleanPoints
  <2>16. CASE TakeHandle(t) \/ DestroyStream(t)
    <3>1. s \in Sessions
      BY <1>1, <2>16 DEF TakeHandle, DestroyStream, At, ThreadOK, OutsidePoints
    <3>2. QED
      BY <2>16, <3>1, KeepTake, KeepDestroy
  <2>17. ASSUME NEW r \in Sessions, SweepCancels(t, r)
         PROVE  KeepInv'
    BY <1>6, <2>17 DEF SweepCancels, At
  <2>18. ASSUME NEW r \in Sessions, SweepSkips(t, r)
         PROVE  KeepInv'
    <3>1. /\ th[t].pc = "sweep" /\ th'[t].pc = "sweep" /\ th'[t].h = th[t].h
          /\ \A u \in Threads : u # t => th'[u] = th[u]
          /\ op' = op /\ stream' = stream
      BY <1>1, <2>18 DEF SweepSkips, At, ThreadType
    <3>2. th[t].h = NoStream
      BY <1>1, <3>1 DEF ThreadOK, OutsidePoints
    <3>3. QED
      BY <1>3, <1>5, <3>1, <3>2 DEF OutsidePoints
  <2>19. CASE SweepDone(t) \/ LockComponent(t) \/ Hush(t) \/ DrainModel(t) \/ Quiesce(t)
    <3>1. PICK p \in {"lock", "hush", "drain", "reopen", "idle"} : Goto(t, p)
      BY <2>19 DEF SweepDone, LockComponent, Hush, DrainModel, Quiesce
    <3>2. /\ th[t].pc \in {"sweep", "lock", "hush", "drain", "quiesce"} /\ op' = op /\ stream' = stream
      BY <2>19 DEF SweepDone, LockComponent, Hush, DrainModel, Quiesce, At
    <3>3. QED
      BY <1>3, <3>1, <3>2, KeepGoto DEF FeedOnly, ProviderPoints, CleanPoints
  <2>20. CASE EndTeardown(t)
    <3>1. /\ th[t].pc = "reopen" /\ th'[t].pc = "idle" /\ th'[t].h = NoStream
          /\ \A u \in Threads : u # t => th'[u] = th[u]
          /\ op' = op /\ stream' = stream
      BY <1>1, <2>20 DEF EndTeardown, At, Resting
    <3>2. QED
      BY <1>3, <1>5, <3>1 DEF OutsidePoints
  <2>21. CASE FeedMalformed(t)
    <3>1. th[t].pc = "feed" /\ th[t].job = "feed" /\ th[t].h = NoStream
      BY <1>1, <2>21 DEF FeedMalformed, At, ThreadOK
    <3>2. /\ th'[t].pc = "dispatch" /\ th'[t].job = "refuse" /\ th'[t].h = th[t].h
          /\ \A u \in Threads : u # t => th'[u] = th[u]
          /\ op' = op /\ stream' = stream
      BY <1>1, <2>21 DEF FeedMalformed, ThreadType
    <3>3. \A r \in Sessions : ~Feeding(t, r)' /\ ~Cleaning(t, r)' /\ ~Cleaning(t, r)
      BY <3>1, <3>2 DEF Feeding, Cleaning, CleanPoints, ProviderPoints
    <3>4. \A r \in Sessions : Making(t, r)' <=> Making(t, r)
      BY <3>1, <3>2 DEF Making
    <3>5. QED
      BY <1>0, <1>3, <3>1, <3>2, <3>3, <3>4, KeepSame
  <2>22. CASE RefusalReturns(t)
    <3>1. s \in Sessions
      BY <1>0, <2>22, Fields DEF RefusalReturns, At, OutsidePoints
    <3>2. PICK r \in Sessions : r = th[t].s
      BY <3>1
    <3>3. /\ th[t].pc = "callback" /\ th[t].h = NoStream
          /\ th'[t].pc \in {"take", "idle"} /\ th'[t].h = NoStream
          /\ \A u \in Threads : u # t => th'[u] = th[u]
          /\ \A z \in Sessions : op'[z].handle = op[z].handle
          /\ stream' = stream
      BY <2>22, <3>2, RefusalGoesOn
    <3>4. QED
      BY <3>3, KeepEmpty DEF FeedOnly, ProviderPoints, CleanPoints
  <2>23. QED
    BY <1>8, <2>1, <2>2, <2>3, <2>5, <2>6, <2>7, <2>8, <2>9, <2>10, <2>11, <2>12, <2>13, <2>14,
       <2>15, <2>16, <2>17, <2>18, <2>19, <2>20, <2>21, <2>22 DEF CallStep
<1>9. QED
  BY <1>2, <1>7, <1>8 DEF SttNext

LEMMA KeepInitially ==
  SttInit => KeepInv
<1> SUFFICES ASSUME SttInit PROVE KeepInv
  OBVIOUS
<1>1. /\ \A t \in Threads : th[t].pc = "idle" /\ th[t].s = NoSession
      /\ \A s \in Sessions : op[s].handle = NoStream
      /\ \A x \in Streams : stream[x] = "none"
  BY DEF SttInit, Resting, FreshOps
<1>2. \A t \in Threads, s \in Sessions : ~Feeding(t, s) /\ ~Making(t, s) /\ ~Cleaning(t, s)
  BY <1>1 DEF Feeding, Making, Cleaning, FeedOnly, ProviderPoints, CleanPoints
<1>3. HandlesOpen /\ FeedsHandle /\ MakesOwn /\ CleansTaken
  BY <1>1, <1>2 DEF HandlesOpen, FeedsHandle, MakesOwn, CleansTaken
<1>4. Kept
  BY <1>1 DEF Kept, Streams
<1>5. QED
  BY <1>3, <1>4 DEF KeepInv

-----------------------------------------------------------------------------
SttInv == SessionInv /\ MutexOK /\ FreedOK /\ TearOK /\ KeepInv

LEMMA SttInvInductive ==
  /\ SttInit => SttInv
  /\ SttInv /\ [SttNext]_vars => SttInv'
<1>1. ASSUME SttInit PROVE SttInv
  <2>1. /\ mtx = NoThread /\ slot = "set" /\ \A t \in Threads : th[t].pc = "idle" /\ th[t].tearing = FALSE
    BY <1>1 DEF SttInit, Resting
  <2>2. MutexOK /\ FreedOK /\ TearOK
    BY <2>1, SttAssumption DEF MutexOK, Holds, FreedOK, TearOK
  <2>3. QED
    BY <1>1, <2>2, SessionInitially, KeepInitially DEF SttInv
<1>2. ASSUME SttInv, [SttNext]_vars PROVE SttInv'
  BY <1>2, SessionStep, MutexStep, FreedStep, TearStep, KeepStep DEF SttInv
<1>3. QED
  BY <1>1, <1>2

THEOREM SttInvariance == SttSpec => []SttInv
BY SttInvInductive, PTL DEF SttSpec

(* The values of the variables are what the code's types say, no count     *)
(* drops below zero, and the component mutex is held exactly by the thread *)
(* that is inside the provider, its callback or a model load.              *)
THEOREM SttTypeCorrect == SttSpec => []SttTypeOK
<1>1. ASSUME SttInv PROVE SttTypeOK
  <2>1. BaseInv /\ Counted
    BY <1>1 DEF SttInv, SessionInv
  <2>2. \A s \in Sessions : op[s].feeds \in Nat /\ op[s].dispatches \in Nat
    BY <2>1, NobodyCounted
  <2>3. op \in [Sessions ->
                 [term : {"active", "stop", "cancel"}, shut : BOOLEAN,
                  drop : BOOLEAN, deferred : BOOLEAN, claimed : BOOLEAN,
                  finished : BOOLEAN, feeds : Nat, dispatches : Nat,
                  handle : Streams \cup {NoStream}, unsupported : BOOLEAN,
                  pending : BOOLEAN, fed : 0 .. MaxChunks]]
    BY <2>1, <2>2 DEF BaseInv, Types, OpType
  <2>4. QED
    BY <1>1, <2>1, <2>3 DEF BaseInv, Types, ThreadType, SttInv, MutexOK, SttTypeOK
<1>2. QED
  BY <1>1, SttInvariance, PTL

(* What stop and cancel promise when they return, and unregistering the    *)
(* callback when it has quiesced: no feed or callback of the session runs  *)
(* or will run, and no callback runs into data that is freed.              *)
THEOREM SilentOnceGone == SttSpec => []Silent
<1>1. ASSUME SttInv PROVE Silent
  <2>1. BaseInv /\ Counted /\ ClaimsOK /\ CleansOK /\ IssuedOK /\ FreedOK /\ RefusalsOK
    BY <1>1 DEF SttInv, SessionInv
  <2>2. ASSUME NEW s \in Sessions, session[s] # "live", NEW t \in Threads, th[t].s = s
        PROVE  /\ ~Feeding(t, s) /\ ~Calling(t, s)
               /\ th[t].pc \notin {"create", "install", "buffer", "call", "provider", "callback"}
    <3>1. ThreadOK(th[t]) /\ session \in [Sessions -> {"unissued", "live", "erased"}]
      BY <2>1, Fields DEF BaseInv, Types
    <3>2. CASE session[s] = "unissued"
      <4>1. th[t].pc = "start"
        BY <2>1, <2>2, <3>2 DEF IssuedOK
      <4>2. QED
        BY <4>1 DEF Feeding, Calling, FeedOnly, ProviderPoints
    <3>3. CASE session[s] = "erased"
      <4>1. ~Feeding(t, s)
        BY <2>1, <3>3, NobodyCounted DEF ClaimsOK
      <4>2. th[t].pc \notin ProviderPoints \/ th[t].job # "stop"
        BY <2>1, <2>2, <3>3 DEF CleansOK, Cleaning, ProviderPoints
      <4>3. op[s].claimed
        BY <2>1, <3>3 DEF ClaimsOK
      <4>4. th[t].pc \notin FeedOnly \cup (ProviderPoints \ {"dispatch"})
        BY <2>1, <2>2, <3>1, <4>1, <4>2, <4>3 DEF ThreadOK, Feeding, RefusalsOK, Calling, ProviderPoints
      <4>5. QED
        BY <4>1, <4>4 DEF Calling, FeedOnly, ProviderPoints
    <3>4. QED
      BY <2>2, <3>1, <3>2, <3>3
  <2>3. ASSUME NEW s \in Sessions, session[s] # "live"
        PROVE  Quiescent(op[s])
    <3>1. FeedsOf(s) = {} /\ CallsOf(s) = {}
      BY <2>2, <2>3 DEF FeedsOf, CallsOf, Feeding, Calling
    <3>2. QED
      BY <2>1, <3>1, FS_EmptySet DEF Counted, Quiescent
  <2>4. QED
    BY <2>1, <2>2, <2>3 DEF Silent, FreedOK, At
<1>2. QED
  BY <1>1, SttInvariance, PTL

(* From the return of begin_stream_component_teardown to its end the       *)
(* component has no session, whoever started or stopped one meanwhile.     *)
THEOREM NoneSurvivesTeardown == SttSpec => []NoSessionInTeardown
<1>1. ASSUME SttInv PROVE NoSessionInTeardown
  <2>1. ASSUME NEW t \in Threads, th[t].pc \in {"lock", "hush", "drain", "reopen"},
               NEW s \in Sessions, session[s] = "live"
        PROVE  FALSE
    <3>1. ThreadOK(th[t]) /\ TearOK
      BY <1>1, Fields DEF SttInv, SessionInv
    <3>2. th[t].tearing /\ th[t].todo = {}
      BY <2>1, <3>1 DEF ThreadOK
    <3>3. QED
      BY <2>1, <3>1, <3>2 DEF TearOK, InHand
  <2>2. QED
    BY <2>1 DEF NoSessionInTeardown, Live
<1>2. QED
  BY <1>1, SttInvariance, PTL

(* A provider stream that was made and not destroyed has exactly one party *)
(* that will destroy it, whatever feeds, stops, cancels and teardowns race *)
(* with each other, and nobody feeds or destroys one that is gone: none    *)
(* leaks and pins its model for ever, none is freed twice.                 *)
THEOREM StreamsHaveOneKeeper == SttSpec => []OneKeeper
<1>1. ASSUME SttInv PROVE OneKeeper
  <2>1. /\ SessionInv /\ HandlesOpen /\ FeedsHandle /\ MakesOwn /\ CleansTaken /\ Kept
        /\ NoStream \notin Streams /\ NoSession \notin Sessions
    BY <1>1, SttAssumption DEF SttInv, KeepInv, Streams
  <2>2. ASSUME NEW t \in Threads, th[t].h # NoStream
        PROVE  /\ th[t].s \in Sessions
               /\ Feeding(t, th[t].s) \/ (Cleaning(t, th[t].s) /\ th[t].pc # "take" /\ th[t].job # "feed")
    <3>1. ThreadOK(th[t]) /\ th[t].pc \in Points
      BY <2>1, Fields, ThreadTyped DEF SessionInv
    <3>2. th[t].pc \in FeedOnly \cup ProviderPoints \cup (CleanPoints \ {"take"})
      BY <2>2, <3>1 DEF ThreadOK, Points, OutsidePoints, FeedOnly, ProviderPoints, CleanPoints
    <3>3. th[t].s \in Sessions
      BY <3>1, <3>2 DEF ThreadOK, OutsidePoints, FeedOnly, ProviderPoints, CleanPoints
    <3>4. CASE th[t].pc \in FeedOnly \cup ProviderPoints
      BY <2>2, <3>1, <3>3, <3>4 DEF ThreadOK, Feeding, Cleaning, ProviderPoints
    <3>5. CASE th[t].pc \in CleanPoints \ {"take"}
      BY <3>1, <3>3, <3>5 DEF ThreadOK, Cleaning
    <3>6. QED
      BY <3>2, <3>3, <3>4, <3>5
  <2>3. ASSUME NEW t \in Threads, Cleaning(t, th[t].s), th[t].s \in Sessions, th[t].pc # "take",
               th[t].h # NoStream
        PROVE  /\ op[th[t].s].handle = NoStream /\ th[t].h \in {th[t].s} \X Threads
               /\ stream[th[t].h] = "open" <=> th[t].pc # "finish"
    BY <2>1, <2>3 DEF CleansTaken
  <2>4. ASSUME NEW s \in Sessions, NEW u \in Threads, stream[<<s, u>>] = "open"
        PROVE  \E k \in Sessions \cup Threads : Keepers(<<s, u>>) = {k}
    <3> DEFINE x == <<s, u>>
               A == {r \in Sessions : op[r].handle = x}
               B == {t \in Threads : Mine(t) = x /\ th[t].pc \in {"install", "discard"}}
               C == {t \in Threads : th[t].h = x /\ th[t].job # "feed"}
    <3>1. x \in Streams /\ x # NoStream
      BY <2>1 DEF Streams
    <3>2. A \subseteq {s} /\ (s \in A <=> op[s].handle = x)
      BY <2>1, <3>1 DEF HandlesOpen
    <3>3. B \subseteq {u} /\ (u \in B <=> Making(u, s))
      BY DEF Mine, Making
    <3>4. \A t \in C : Cleaning(t, s) /\ th[t].h = x
      <4> SUFFICES ASSUME NEW t \in C PROVE Cleaning(t, s) /\ th[t].h = x
        OBVIOUS
      <4>1. th[t].s \in Sessions /\ Cleaning(t, th[t].s) /\ th[t].pc # "take" /\ th[t].h = x
        BY <2>2, <3>1 DEF Feeding
      <4>2. x \in {th[t].s} \X Threads
        BY <2>3, <3>1, <4>1
      <4>3. QED
        BY <4>1, <4>2
    <3>5. \A t \in Threads : Cleaning(t, s) /\ th[t].h = x => t \in C
      <4> SUFFICES ASSUME NEW t \in Threads, Cleaning(t, s), th[t].h = x PROVE t \in C
        OBVIOUS
      <4>1. th[t].s = s
        BY DEF Cleaning
      <4>2. ~Feeding(t, s)
        BY <2>1, CleanerAlone
      <4>3. QED
        BY <2>2, <3>1, <4>1, <4>2
    <3>6. Keepers(x) = A \cup B \cup C
      BY DEF Keepers
    <3> HIDE DEF A, B, C
    <3>7. CASE op[s].handle = x
      <4>1. A = {s} /\ B = {}
        BY <2>1, <3>2, <3>3, <3>7 DEF MakesOwn
      <4>2. C = {}
        <5>1. ASSUME NEW t \in C PROVE FALSE
          <6>1. t \in Threads /\ Cleaning(t, s) /\ th[t].h = x
            BY <3>4 DEF C
          <6>2. th[t].s = s
            BY <6>1 DEF Cleaning
          <6>3. th[t].pc # "take"
            BY <2>2, <3>1, <6>1, <6>2, CleanerAlone, <2>1
          <6>4. QED
            BY <2>3, <3>1, <3>7, <6>1, <6>2, <6>3
        <5>2. QED
          BY <5>1
      <4>3. QED
        BY <3>6, <4>1, <4>2
    <3>8. CASE Making(u, s)
      <4>1. B = {u} /\ A = {}
        BY <2>1, <3>2, <3>3, <3>8 DEF MakesOwn
      <4>2. C = {}
        BY <2>1, <3>4, <3>8, CleanerAlone DEF C
      <4>3. QED
        BY <3>6, <4>1, <4>2
    <3>9. CASE op[s].handle # x /\ ~Making(u, s)
      <4>1. PICK v \in Threads : Cleaning(v, s) /\ th[v].h = x
        BY <2>1, <2>4, <3>9 DEF Kept
      <4>2. A = {} /\ B = {}
        BY <3>2, <3>3, <3>9
      <4>3. v \in C
        BY <3>5, <4>1
      <4>4. \A t \in C : t = v
        BY <2>1, <3>4, <4>1, CleanerAlone DEF C
      <4>5. C = {v}
        BY <4>3, <4>4
      <4>6. QED
        BY <3>6, <4>2, <4>5
    <3>10. QED
      BY <3>7, <3>8, <3>9
  <2>5. ASSUME NEW t \in Threads, th[t].pc \in {"call", "provider", "provided", "destroy"},
               th[t].h # NoStream
        PROVE  stream[th[t].h] = "open"
    <3>1. CASE Feeding(t, th[t].s)
      BY <2>1, <2>2, <2>5, <3>1 DEF FeedsHandle, HandlesOpen
    <3>2. CASE Cleaning(t, th[t].s) /\ th[t].pc # "take"
      BY <2>2, <2>3, <2>5, <3>2
    <3>3. QED
      BY <2>2, <2>5, <3>1, <3>2
  <2>6. ASSUME NEW t \in Threads, th[t].pc \in {"install", "discard"}
        PROVE  stream[Mine(t)] = "open"
    <3>1. th[t].s \in Sessions
      BY <2>1, <2>6, FeedKeepsCleanersOut DEF FeedOnly
    <3>2. QED
      BY <2>1, <2>6, <3>1 DEF MakesOwn, Making, Mine
  <2>7. QED
    BY <2>4, <2>5, <2>6 DEF OneKeeper, Streams
<1>2. QED
  BY <1>1, SttInvariance, PTL
=============================================================================
