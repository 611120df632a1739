------------------------------ MODULE SttStream ------------------------------
(***************************************************************************)
(* The streaming sessions of one speech-to-text component                  *)
(* (rac_stt_stream.cpp) and the provider streams behind them               *)
(* (stt_module.cpp).  Any thread feeds audio; feeding runs the provider     *)
(* under the component mutex, and the provider reports through the          *)
(* application's callback on that thread.  A session is ended by stop       *)
(* (flush what was accepted) or cancel (drop it), from another thread, from *)
(* its own callback, or by a model load or unload that tears the component's *)
(* streams down.                                                            *)
(*                                                                          *)
(* Two locks are modelled by the size of the actions, the registry mutex    *)
(* g_mu and each session's operation mutex: an action is what runs inside   *)
(* one of them.  The component mutex is held across provider calls and      *)
(* callbacks, so it is a variable.                                          *)
(***************************************************************************)
EXTENDS Integers, FiniteSets

CONSTANTS
    Threads, Sessions,
    Feeders,      \* the threads that start and feed sessions
    Enders,       \* the threads that stop and cancel sessions
    Loaders,      \* the threads that load or unload the component's model
    Owners,       \* the threads that unregister the callback to free its data
    NoThread, NoSession, NoStream,
    MaxChunks,    \* audio chunks accepted per session
    MaxTeardowns  \* loads and unloads of the component

ASSUME SttAssumption ==
    /\ Feeders \cup Enders \cup Loaders \cup Owners \subseteq Threads
    /\ IsFiniteSet(Threads) /\ NoThread \notin Threads
    /\ NoSession \notin Sessions
    /\ NoStream \notin Sessions \X Threads
    /\ MaxChunks \in Nat
    /\ MaxTeardowns \in Nat

VARIABLES
    accepting,  \* the component admits sessions (accepting_sessions)
    epoch,      \* teardowns begun so far (stream_epoch)
    session,    \* per session id: not issued, in g_sessions, or erased
    op,         \* per session: its StreamOperationState and chunks_fed
    stream,     \* the provider streams, named by the session and the creator
    mtx,        \* the thread holding the component mutex
    slot,       \* the registered callback: set, unset, or its data freed
    th          \* per thread: where it is in the call it makes

vars == <<accepting, epoch, session, op, stream, mtx, slot, th>>

Streams == Sessions \X Threads

\* A thread in no call.
Resting == [pc |-> "idle", s |-> NoSession, h |-> NoStream, job |-> "none",
            back |-> "idle", saw |-> 0, tearing |-> FALSE, todo |-> {}]

FreshOps == [term |-> "active", shut |-> FALSE, drop |-> FALSE,
             deferred |-> FALSE, claimed |-> FALSE, finished |-> FALSE,
             feeds |-> 0, dispatches |-> 0, handle |-> NoStream,
             unsupported |-> FALSE, pending |-> FALSE, fed |-> 0]

SttInit ==
    /\ accepting = TRUE
    /\ epoch = 0
    /\ session = [s \in Sessions |-> "unissued"]
    /\ op = [s \in Sessions |-> FreshOps]
    /\ stream = [x \in Streams |-> "none"]
    /\ mtx = NoThread
    /\ slot = "set"
    /\ th = [t \in Threads |-> Resting]

------------------------------------------------------------------------------
(* Shared steps.                                                           *)

At(t, point) == th[t].pc = point
Goto(t, point) == th' = [th EXCEPT ![t].pc = point]
(* Deviation: the component mutex is let go around the callback.          *)
FreeDuringCallback == \A u \in Threads : mtx = u => ~(th[u].pc \in {"provider", "provided"})
Free == mtx = NoThread
Mine(t) == <<th[t].s, t>>

\* A call that returns leaves its thread idle, or back in the sweep of the
\* teardown it belongs to.
Return(t) ==
    th' = [th EXCEPT ![t] =
             IF @.tearing
               THEN [Resting EXCEPT !.pc = "sweep", !.tearing = TRUE,
                                    !.todo = th[t].todo]
               ELSE Resting]

(* Deviation: cleanup waits for callbacks only.                           *)
QuiescentDispatches(o) == o.dispatches = 0
Quiescent(o) == o.feeds = 0 /\ o.dispatches = 0

\* The last operation of a session ended from its own callback cleans it up.
Abandoned(o) == Quiescent(o) /\ o.deferred /\ ~o.claimed

\* release_session_operation: the thread continues at next, or stays to
\* finalize the session without a flush.
Release(t, o, next) ==
    LET s == th[t].s IN
    /\ op' = [op EXCEPT ![s] = [o EXCEPT !.claimed = @ \/ Abandoned(o)]]
    /\ th' = [th EXCEPT ![t] =
                IF Abandoned(o)
                  THEN [Resting EXCEPT !.pc = "take", !.s = s,
                                       !.job = IF th[t].job = "refuse" THEN "refuse" ELSE "deferred"]
                  ELSE IF next = "return" THEN Resting ELSE [@ EXCEPT !.pc = next]]

\* The dispatch gate: a stopped session still emits for feeds it accepted, and
\* for the flush the stopping thread runs itself.
Admissible(o, flushing) ==
    /\ ~o.drop
    /\ ~o.finished
    /\ \/ o.term = "active"
       \/ o.term = "stop" /\ (o.feeds > 0 \/ flushing)

\* The dispatches rac_stt_proto_quiesce counts.  One that ends its operation and
\* then cleans the session up is counted until it has done so.
InFlight == {t \in Threads : th[t].pc \in {"dispatch", "callback"} \/ th[t].job = "refuse"}

------------------------------------------------------------------------------
(* Starting a session.                                                     *)

\* The gate is read, the request parsed, and the gate read again before the
\* session is entered: a teardown that began in between refuses it.
StartCheck(t, s) ==
    /\ At(t, "idle")
    /\ session[s] = "unissued"
    /\ \A u \in Threads : ~(At(u, "start") /\ th[u].s = s)
    /\ accepting
    /\ th' = [th EXCEPT ![t] = [@ EXCEPT !.pc = "start", !.s = s, !.saw = epoch]]
    /\ UNCHANGED <<accepting, epoch, session, op, stream, mtx, slot>>

(* Deviation: the gate is not read again.                                 *)
UnchangedUnchecked(t) == epoch \in th[t].saw .. MaxTeardowns
Unchanged(t) == accepting /\ epoch = th[t].saw

StartCommit(t) ==
    /\ At(t, "start")
    /\ session' = IF Unchanged(t) THEN [session EXCEPT ![th[t].s] = "live"] ELSE session
    /\ Return(t)
    /\ UNCHANGED <<accepting, epoch, op, stream, mtx, slot>>

------------------------------------------------------------------------------
(* Feeding.                                                                *)

FeedLookup(t, s) ==
    /\ At(t, "idle")
    /\ session[s] = "live"
    /\ ~op[s].shut
    /\ op[s].fed < MaxChunks
    /\ th' = [th EXCEPT ![t] = [@ EXCEPT !.pc = "feed", !.s = s, !.job = "feed"]]
    /\ UNCHANGED <<accepting, epoch, session, op, stream, mtx, slot>>

\* What a feed does next, from the provider state it read when admitted.
FeedRoute(o) ==
    IF o.unsupported THEN "buffer" ELSE IF o.handle = NoStream THEN "create" ELSE "call"

FeedAdmit(t) ==
    LET s == th[t].s
        o == op[s] IN
    /\ At(t, "feed")
    /\ o.term = "active"
    /\ o.fed < MaxChunks
    /\ op' = [op EXCEPT ![s].feeds = @ + 1, ![s].fed = @ + 1]
    /\ th' = [th EXCEPT ![t] = [@ EXCEPT !.pc = FeedRoute(o), !.h = o.handle]]
    /\ UNCHANGED <<accepting, epoch, session, stream, mtx, slot>>

FeedTooLate(t) ==
    /\ At(t, "feed")
    /\ op[th[t].s].term # "active" \/ op[th[t].s].fed = MaxChunks
    /\ Return(t)
    /\ UNCHANGED <<accepting, epoch, session, op, stream, mtx, slot>>

\* A chunk the session cannot take, of another format or with half a sample, is
\* refused by an error event before it is counted as a feed.
FeedMalformed(t) ==
    /\ At(t, "feed")
    /\ th' = [th EXCEPT ![t] = [@ EXCEPT !.pc = "dispatch", !.job = "refuse", !.back = "idle"]]
    /\ UNCHANGED <<accepting, epoch, session, op, stream, mtx, slot>>

\* The first chunk makes the provider stream, under the component mutex.  It
\* pins the loaded model.
CreateStream(t) ==
    /\ At(t, "create")
    /\ Free
    /\ stream' = [stream EXCEPT ![Mine(t)] = "open"]
    /\ Goto(t, "install")
    /\ UNCHANGED <<accepting, epoch, session, op, mtx, slot>>

\* The engine has no streams: the session falls back to buffered utterances,
\* unless it was cancelled meanwhile.
CreateUnsupported(t) ==
    LET s == th[t].s
        cancelled == op[s].term = "cancel" IN
    /\ At(t, "create")
    /\ Free
    /\ op' = [op EXCEPT ![s].unsupported = @ \/ ~cancelled]
    /\ Goto(t, IF cancelled THEN "release" ELSE "buffer")
    /\ UNCHANGED <<accepting, epoch, session, stream, mtx, slot>>

CreateFails(t) ==
    /\ At(t, "create")
    /\ Free
    /\ th' = [th EXCEPT ![t] = [@ EXCEPT !.pc = "dispatch", !.back = "release"]]
    /\ UNCHANGED <<accepting, epoch, session, op, stream, mtx, slot>>

(* Deviation: the last feed's stream wins.                                *)
InstallsOver(o) == o.term # "cancel"

\* The new stream becomes the session's, unless the session was cancelled or
\* another feed was first; then it is redundant.
Installs(o) == o.term # "cancel" /\ o.handle = NoStream

InstallStream(t) ==
    LET s == th[t].s IN
    /\ At(t, "install")
    /\ Installs(op[s])
    /\ op' = [op EXCEPT ![s].handle = Mine(t)]
    /\ th' = [th EXCEPT ![t] = [@ EXCEPT !.pc = "call", !.h = Mine(t)]]
    /\ UNCHANGED <<accepting, epoch, session, stream, mtx, slot>>

StreamRedundant(t) ==
    LET o == op[th[t].s] IN
    /\ At(t, "install")
    /\ ~Installs(o)
    /\ th' = [th EXCEPT ![t] =
                IF o.term = "cancel"
                  THEN [@ EXCEPT !.pc = "discard", !.back = "release"]
                  ELSE [@ EXCEPT !.pc = "discard", !.back = "call", !.h = o.handle]]
    /\ UNCHANGED <<accepting, epoch, session, op, stream, mtx, slot>>

DiscardStream(t) ==
    /\ At(t, "discard")
    /\ Free
    /\ stream' = [stream EXCEPT ![Mine(t)] = "destroyed"]
    /\ Goto(t, th[t].back)
    /\ UNCHANGED <<accepting, epoch, session, op, mtx, slot>>

\* Without provider streams the audio is kept until speech ends.
Buffer(t) ==
    LET s == th[t].s IN
    /\ At(t, "buffer")
    /\ \/ op' = [op EXCEPT ![s].pending = TRUE] /\ Goto(t, "release")
       \/ op' = [op EXCEPT ![s].pending = FALSE] /\ Goto(t, "call")
    /\ UNCHANGED <<accepting, epoch, session, stream, mtx, slot>>

------------------------------------------------------------------------------
(* The provider and the callback.                                          *)

EnterProvider(t) ==
    /\ At(t, "call")
    /\ Free
    /\ mtx' = t
    /\ Goto(t, "provider")
    /\ UNCHANGED <<accepting, epoch, session, op, stream, slot>>

ProviderEmits(t) ==
    /\ At(t, "provider")
    /\ th' = [th EXCEPT ![t] = [@ EXCEPT !.pc = "dispatch", !.back = "provided"]]
    /\ UNCHANGED <<accepting, epoch, session, op, stream, mtx, slot>>

\* A feed ends its operation; a flush goes on to close its session.
AfterCall(t) == IF th[t].job = "feed" THEN "release" ELSE "close"

\* An error, or the one final of a buffered utterance, is dispatched after the
\* component mutex is released.
ProviderReturns(t) ==
    /\ th[t].pc \in {"provider", "provided"}
    /\ mtx' = NoThread
    /\ \/ Goto(t, AfterCall(t))
       \/ th' = [th EXCEPT ![t] = [@ EXCEPT !.pc = "dispatch", !.back = AfterCall(t)]]
    /\ UNCHANGED <<accepting, epoch, session, op, stream, slot>>

Deliverable(t) ==
    LET s == th[t].s IN
    /\ slot = "set"
    /\ session[s] = "live"
    /\ Admissible(op[s], th[t].job = "stop")

Dispatch(t) ==
    /\ At(t, "dispatch")
    /\ Deliverable(t)
    /\ op' = [op EXCEPT ![th[t].s].dispatches = @ + 1]
    /\ Goto(t, "callback")
    /\ UNCHANGED <<accepting, epoch, session, stream, mtx, slot>>

Refusing(t) == th[t].job = "refuse"

DispatchDropped(t) ==
    /\ At(t, "dispatch")
    /\ ~Deliverable(t)
    /\ ~Refusing(t)
    /\ Goto(t, th[t].back)
    /\ UNCHANGED <<accepting, epoch, session, op, stream, mtx, slot>>

RefusalDropped(t) ==
    /\ At(t, "dispatch")
    /\ ~Deliverable(t)
    /\ Refusing(t)
    /\ Return(t)
    /\ UNCHANGED <<accepting, epoch, session, op, stream, mtx, slot>>

\* What terminate writes: cancel overrides stop, stop never overrides.
Ended(o, how) ==
    [o EXCEPT !.shut = TRUE,
              !.term = IF @ = "active" \/ how = "cancel" THEN how ELSE @,
              !.drop = @ \/ how = "cancel"]

\* The callback ends its own session: it cannot wait for itself, so everything
\* after it is dropped and its last operation cleans up.
CallbackEnds(t, how) ==
    LET s == th[t].s
        o == Ended(op[s], how) IN
    /\ At(t, "callback")
    /\ op' = [op EXCEPT ![s] = [o EXCEPT !.drop = TRUE,
                                         !.deferred = @ \/ ~o.claimed]]
    /\ UNCHANGED <<accepting, epoch, session, stream, mtx, slot, th>>

CallbackReturns(t) ==
    /\ At(t, "callback")
    /\ ~Refusing(t)
    /\ Release(t, [op[th[t].s] EXCEPT !.dispatches = @ - 1], th[t].back)
    /\ UNCHANGED <<accepting, epoch, session, stream, mtx, slot>>

RefusalReturns(t) ==
    /\ At(t, "callback")
    /\ Refusing(t)
    /\ Release(t, [op[th[t].s] EXCEPT !.dispatches = @ - 1], "return")
    /\ UNCHANGED <<accepting, epoch, session, stream, mtx, slot>>

FeedReturns(t) ==
    /\ At(t, "release")
    /\ Release(t, [op[th[t].s] EXCEPT !.feeds = @ - 1], "return")
    /\ UNCHANGED <<accepting, epoch, session, stream, mtx, slot>>

------------------------------------------------------------------------------
(* Ending a session from outside its callback.                             *)

EndLookup(t, s, how) ==
    /\ session[s] = "live"
    /\ op' = [op EXCEPT ![s].shut = TRUE]
    /\ th' = [th EXCEPT ![t] = [@ EXCEPT !.pc = "end", !.s = s, !.job = how,
                                         !.todo = th[t].todo \ {s}]]
    /\ UNCHANGED <<accepting, epoch, session, stream, mtx, slot>>

EndCalled(t, s, how) == At(t, "idle") /\ EndLookup(t, s, how)

EndShut(t) ==
    LET s == th[t].s IN
    /\ At(t, "end")
    /\ op' = [op EXCEPT ![s] = Ended(@, th[t].job)]
    /\ Goto(t, "wait")
    /\ UNCHANGED <<accepting, epoch, session, stream, mtx, slot>>

\* The first thread to see the session quiescent claims its cleanup.
EndClaim(t) ==
    LET s == th[t].s IN
    /\ At(t, "wait")
    /\ ~op[s].claimed
    /\ Quiescent(op[s])
    /\ op' = [op EXCEPT ![s].claimed = TRUE]
    /\ Goto(t, "take")
    /\ UNCHANGED <<accepting, epoch, session, stream, mtx, slot>>

\* The others return when it is finished.
EndJoin(t) ==
    /\ At(t, "wait")
    /\ op[th[t].s].claimed
    /\ op[th[t].s].finished
    /\ Return(t)
    /\ UNCHANGED <<accepting, epoch, session, op, stream, mtx, slot>>

------------------------------------------------------------------------------
(* finalize_terminated_session, by the thread that claimed the cleanup.    *)

\* Only the stop that claimed the cleanup flushes, and only what there is: the
\* provider stream, or the utterance still buffered.
WorthFlushing(o, job) ==
    /\ job = "stop"
    /\ o.term = "stop"
    /\ IF o.unsupported THEN o.pending ELSE o.handle # NoStream

TakeHandle(t) ==
    LET s == th[t].s
        o == op[s] IN
    /\ At(t, "take")
    /\ op' = [op EXCEPT ![s].handle = NoStream, ![s].pending = FALSE]
    /\ th' = [th EXCEPT ![t] =
                [@ EXCEPT !.h = o.handle,
                          !.pc = IF WorthFlushing(o, th[t].job) THEN "admit" ELSE "close"]]
    /\ UNCHANGED <<accepting, epoch, session, stream, mtx, slot>>

\* A cancel that arrived meanwhile drops the flush.
AdmitFlush(t) ==
    LET o == op[th[t].s] IN
    /\ At(t, "admit")
    /\ Goto(t, IF o.term = "stop" /\ ~o.drop THEN "call" ELSE "close")
    /\ UNCHANGED <<accepting, epoch, session, op, stream, mtx, slot>>

CloseGate(t) ==
    /\ At(t, "close")
    /\ op' = [op EXCEPT ![th[t].s].drop = TRUE]
    /\ Goto(t, "erase")
    /\ UNCHANGED <<accepting, epoch, session, stream, mtx, slot>>

EraseSession(t) ==
    /\ At(t, "erase")
    /\ session' = [session EXCEPT ![th[t].s] = "erased"]
    /\ Goto(t, IF th[t].h = NoStream THEN "finish" ELSE "destroy")
    /\ UNCHANGED <<accepting, epoch, op, stream, mtx, slot>>

\* Destroying the provider stream takes the component mutex and unpins the
\* model.
DestroyStream(t) ==
    /\ At(t, "destroy")
    /\ Free
    /\ stream' = [stream EXCEPT ![th[t].h] = "destroyed"]
    /\ Goto(t, "finish")
    /\ UNCHANGED <<accepting, epoch, session, op, mtx, slot>>

(* Deviation: the end of a cleanup is not recorded.                       *)
FinishUnannounced(t) ==
    /\ At(t, "finish")
    /\ Return(t)
    /\ UNCHANGED <<accepting, epoch, session, op, stream, mtx, slot>>

Finish(t) ==
    /\ At(t, "finish")
    /\ op' = [op EXCEPT ![th[t].s].finished = TRUE]
    /\ Return(t)
    /\ UNCHANGED <<accepting, epoch, session, stream, mtx, slot>>

------------------------------------------------------------------------------
(* Loading or unloading the component's model.                             *)

Live == {s \in Sessions : session[s] = "live"}

\* begin_stream_component_teardown: one teardown at a time closes the gate and
\* cancels the sessions registered at that moment.
BeginTeardown(t) ==
    /\ At(t, "idle")
    /\ accepting
    /\ epoch < MaxTeardowns
    /\ accepting' = FALSE
    /\ epoch' = epoch + 1
    /\ th' = [th EXCEPT ![t] = [@ EXCEPT !.pc = "sweep", !.tearing = TRUE,
                                         !.todo = Live]]
    /\ UNCHANGED <<session, op, stream, mtx, slot>>

SweepCancels(t, s) ==
    /\ At(t, "sweep")
    /\ s \in th[t].todo
    /\ EndLookup(t, s, "cancel")

\* A session that is no longer registered is skipped.
SweepSkips(t, s) ==
    /\ At(t, "sweep")
    /\ s \in th[t].todo
    /\ session[s] # "live"
    /\ th' = [th EXCEPT ![t].todo = @ \ {s}]
    /\ UNCHANGED <<accepting, epoch, session, op, stream, mtx, slot>>

SweepDone(t) ==
    /\ At(t, "sweep")
    /\ th[t].todo = {}
    /\ Goto(t, "lock")
    /\ UNCHANGED <<accepting, epoch, session, op, stream, mtx, slot>>

\* Unload drains the old model at once.  Load first clears the callback and
\* waits for the dispatches in flight.
LockComponent(t) ==
    /\ At(t, "lock")
    /\ Free
    /\ mtx' = t
    /\ \/ Goto(t, "drain") /\ UNCHANGED slot
       \/ Goto(t, "hush") /\ slot' = IF slot = "set" THEN "unset" ELSE slot
    /\ UNCHANGED <<accepting, epoch, session, op, stream>>

Hush(t) ==
    /\ At(t, "hush")
    /\ InFlight = {}
    /\ Goto(t, "drain")
    /\ UNCHANGED <<accepting, epoch, session, op, stream, mtx, slot>>

\* The lifecycle store waits for the pins of the old model, with the component
\* mutex held.
Pins == {x \in Streams : stream[x] = "open"}

DrainModel(t) ==
    /\ At(t, "drain")
    /\ Pins = {}
    /\ mtx' = NoThread
    /\ Goto(t, "reopen")
    /\ UNCHANGED <<accepting, epoch, session, op, stream, slot>>

EndTeardown(t) ==
    /\ At(t, "reopen")
    /\ accepting' = TRUE
    /\ th' = [th EXCEPT ![t] = Resting]
    /\ UNCHANGED <<epoch, session, op, stream, mtx, slot>>

------------------------------------------------------------------------------
(* Unregistering the callback to free what it points at.                   *)

Unset(t) ==
    /\ At(t, "idle")
    /\ slot # "freed"
    /\ slot' = "unset"
    /\ Goto(t, "quiesce")
    /\ UNCHANGED <<accepting, epoch, session, op, stream, mtx>>

Quiesce(t) ==
    /\ At(t, "quiesce")
    /\ InFlight = {}
    /\ slot' = "freed"
    /\ Goto(t, "idle")
    /\ UNCHANGED <<accepting, epoch, session, op, stream, mtx>>

------------------------------------------------------------------------------
\* What a call does once made; these steps are taken unless blocked.
CallStep(t) ==
    \/ StartCommit(t)
    \/ FeedAdmit(t) \/ FeedTooLate(t) \/ FeedMalformed(t)
    \/ CreateStream(t) \/ CreateUnsupported(t) \/ CreateFails(t)
    \/ InstallStream(t) \/ StreamRedundant(t) \/ DiscardStream(t)
    \/ Buffer(t)
    \/ EnterProvider(t) \/ ProviderEmits(t) \/ ProviderReturns(t)
    \/ Dispatch(t) \/ DispatchDropped(t) \/ RefusalDropped(t)
    \/ CallbackReturns(t) \/ RefusalReturns(t) \/ FeedReturns(t)
    \/ EndShut(t) \/ EndClaim(t) \/ EndJoin(t)
    \/ TakeHandle(t) \/ AdmitFlush(t) \/ CloseGate(t) \/ EraseSession(t)
    \/ DestroyStream(t) \/ Finish(t)
    \/ \E s \in Sessions : SweepCancels(t, s) \/ SweepSkips(t, s)
    \/ SweepDone(t) \/ LockComponent(t) \/ Hush(t) \/ DrainModel(t) \/ EndTeardown(t)
    \/ Quiesce(t)

\* The calls the application makes, and what its callback does.
Call ==
    \/ \E t \in Feeders, s \in Sessions : StartCheck(t, s) \/ FeedLookup(t, s)
    \/ \E t \in Enders, s \in Sessions, how \in {"stop", "cancel"} : EndCalled(t, s, how)
    \/ \E t \in Threads, how \in {"stop", "cancel"} : CallbackEnds(t, how)
    \/ \E t \in Loaders : BeginTeardown(t)
    \/ \E t \in Owners : Unset(t)

SttNext == Call \/ \E t \in Threads : CallStep(t)

SttSpec == SttInit /\ [][SttNext]_vars

\* A thread inside a call keeps running: the scheduler, providers and callbacks
\* that return.  No call is ever owed.
FairSttSpec == SttSpec /\ \A t \in Threads : WF_vars(CallStep(t))

------------------------------------------------------------------------------
(* Properties.                                                             *)

Points == {"idle", "start", "feed", "create", "install", "discard", "buffer",
           "call", "provider", "provided", "dispatch", "callback", "release",
           "end", "wait", "take", "admit", "close", "erase", "destroy",
           "finish", "sweep", "lock", "hush", "drain", "reopen", "quiesce"}

\* The component mutex belongs to the thread inside the provider or inside a
\* model load.
Holds(t) ==
    \/ th[t].pc \in {"provider", "provided", "hush", "drain"}
    \/ th[t].pc \in {"dispatch", "callback"} /\ th[t].back = "provided"

\* Type correctness, and the component mutex is held exactly by the thread that
\* runs the provider, its callback, or a model load (stt_module.cpp takes it
\* around each).
SttTypeOK ==
    /\ accepting \in BOOLEAN
    /\ epoch \in 0 .. MaxTeardowns
    /\ session \in [Sessions -> {"unissued", "live", "erased"}]
    /\ op \in [Sessions ->
                 [term : {"active", "stop", "cancel"}, shut : BOOLEAN,
                  drop : BOOLEAN, deferred : BOOLEAN, claimed : BOOLEAN,
                  finished : BOOLEAN, feeds : Nat, dispatches : Nat,
                  handle : Streams \cup {NoStream}, unsupported : BOOLEAN,
                  pending : BOOLEAN, fed : 0 .. MaxChunks]]
    /\ stream \in [Streams -> {"none", "open", "destroyed"}]
    /\ mtx \in Threads \cup {NoThread}
    /\ slot \in {"set", "unset", "freed"}
    /\ th \in [Threads ->
                 [pc : Points, s : Sessions \cup {NoSession},
                  h : Streams \cup {NoStream},
                  job : {"none", "feed", "refuse", "stop", "cancel", "deferred"},
                  back : Points, saw : 0 .. MaxTeardowns, tearing : BOOLEAN,
                  todo : SUBSET Sessions]]
    /\ \A t \in Threads : mtx = t <=> Holds(t)

\* A provider stream that was made and not destroyed has exactly one party that
\* will destroy it: its session, the feed that has just made it, or the thread
\* cleaning its session up.  What a thread feeds or is about to destroy is
\* open.  (A leaked stream pins its model for ever; a shared one is freed twice.)
Keepers(x) ==
    {s \in Sessions : op[s].handle = x}
    \cup {t \in Threads : Mine(t) = x /\ th[t].pc \in {"install", "discard"}}
    \cup {t \in Threads : th[t].h = x /\ th[t].job # "feed"}

OneKeeper ==
    /\ \A x \in Streams : stream[x] = "open" =>
          \E k \in Sessions \cup Threads : Keepers(x) = {k}
    /\ \A t \in Threads :
          /\ th[t].pc \in {"call", "provider", "provided", "destroy"} /\ th[t].h # NoStream
                => stream[th[t].h] = "open"
          /\ th[t].pc \in {"install", "discard"} => stream[Mine(t)] = "open"

\* A session that left the registry is silent: no feed or callback of it runs
\* or will run, which is what stop and cancel promise when they return.  Nor
\* does any callback run into data its owner has freed.
Silent ==
    /\ \A s \in Sessions : session[s] # "live" =>
          /\ Quiescent(op[s])
          /\ \A t \in Threads :
                th[t].s = s => th[t].pc \notin {"create", "install", "buffer", "call",
                                                "provider", "callback"}
    /\ slot = "freed" => \A t \in Threads : ~At(t, "callback")

\* Once begin_stream_component_teardown has returned and until it is reopened,
\* the component has no session: none survived the sweep and none slipped in
\* behind it.
NoSessionInTeardown ==
    \A t \in Threads : th[t].pc \in {"lock", "hush", "drain", "reopen"} => Live = {}

\* A model load holding the component mutex waits for the pin of a stream that
\* a thread is waiting for that mutex to destroy, or for the dispatch that thread
\* is still counted as.
Wedged ==
    \E t, u \in Threads :
        /\ At(u, "destroy")
        /\ At(t, "drain") \/ (At(t, "hush") /\ u \in InFlight)

\* Every stop, cancel, load and unload returns, unless it is part of the one
\* wait cycle the code allows.
EndsReturn ==
    \A t \in Threads :
        (th[t].pc \in {"end", "sweep"}) ~> (At(t, "idle") \/ Wedged)

\* rac_stt_stream_internal.h: beginning a teardown will "wait until its provider
\* calls and callbacks have drained", so that the load can drain the model.  A
\* session that erased itself is not waited for, and destroys its stream later.
TeardownDrains ==
    \A t \in Threads : At(t, "lock") => Pins = {}
=============================================================================
