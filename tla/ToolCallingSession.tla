-------------------------- MODULE ToolCallingSession --------------------------
(***************************************************************************)
(* One tool-calling session (tool_calling_session.cpp): the model generates,*)
(* asks the host for a tool, suspends, and generates again with the result. *)
(* Events are queued under the session mutex and delivered to the host's    *)
(* callback after it is released, by whichever thread drove the session; the *)
(* callback may call back into the session, and other threads may step,     *)
(* cancel or destroy it at any time.  A generation that ends well is        *)
(* announced to the subscribers of the SDK's events while the session mutex *)
(* is held; they may call in as well.                                       *)
(*                                                                          *)
(* A thread is a stack of frames, one per API call it is in.  The session   *)
(* mutex mu and the admission mutex side_effect_admission_mu are held over   *)
(* stretches of a call, so who holds them is read off the stacks.           *)
(***************************************************************************)
EXTENDS Integers, Sequences

CONSTANTS
    Threads,
    NoThread,
    MaxToolCalls,   \* max_tool_calls of the session
    MaxDepth        \* API calls a thread nests through callbacks

ASSUME ToolAssumption ==
    /\ NoThread \notin Threads
    /\ MaxToolCalls \in Nat \ {0}
    /\ MaxDepth \in Nat \ {0}

VARIABLES
    life,       \* the handle: not created, registered, or retired by destroy
    auto,       \* auto_execute: tool calls are published to be executed
    state,      \* SessionState, guarded by mu
    calls,      \* tool calls granted so far
    queue,      \* pending_dispatches, guarded by mu
    callback,   \* the host callback is still set
    cancel,     \* cancel_requested
    destroying, \* destroy_requested
    aborted,    \* the engine has been told to stop the running generation
    stack,      \* per thread: its API calls, innermost first
    acked,      \* history: a cancel of this session has returned
    gone        \* history: the thread whose destroy has returned

vars == <<life, auto, state, calls, queue, callback, cancel, destroying,
          aborted, stack, acked, gone>>

Frame(call, pc) == [call |-> call, pc |-> pc, batch |-> <<>>]

ToolInit ==
    /\ life = "unborn"
    /\ auto \in BOOLEAN
    /\ state = "idle"
    /\ calls = 0
    /\ queue = <<>>
    /\ callback = TRUE
    /\ cancel = FALSE
    /\ destroying = FALSE
    /\ aborted = FALSE
    /\ stack = [t \in Threads |-> <<>>]
    /\ acked = FALSE
    /\ gone = NoThread

------------------------------------------------------------------------------
(* Stacks and the two mutexes.                                             *)

Busy(t) == stack[t] # <<>>
Top(t) == stack[t][1]
At(t, pc) == Busy(t) /\ Top(t).pc = pc
Becomes(t, frame) == stack' = [stack EXCEPT ![t][1] = frame]
Goto(t, pc) == stack' = [stack EXCEPT ![t][1].pc = pc]
Pop(t) == stack' = [stack EXCEPT ![t] = Tail(@)]

\* A thread calls in from outside, or once from each callback and each
\* announcement it is in.
MayCall(t) ==
    Busy(t) => (At(t, "callback") \/ At(t, "notify")) /\ Len(stack[t]) < MaxDepth

Beneath(f) == [f EXCEPT !.pc = IF @ = "callback" THEN "called" ELSE "notifying"]

Push(t, frame) ==
    stack' = [stack EXCEPT ![t] =
                <<frame>> \o (IF @ = <<>> THEN <<>> ELSE <<Beneath(@[1])>> \o Tail(@))]

\* mu is held while the session generates, announces and decides, whatever a
\* subscriber calls meanwhile.  It is not recursive: its holder waits for itself.
MuFrame(f) == f.pc \in {"begin", "running", "notify", "notifying", "decide", "admit"}

HoldsMu(t) == \E i \in 1 .. Len(stack[t]) : MuFrame(stack[t][i])
MuFree == \A t \in Threads : ~HoldsMu(t)

\* The admission mutex is recursive.  It is held while a tool call is checked
\* and its callback runs, whatever that callback calls.
ToolFrame(f) == /\ f.pc \in {"publish", "callback", "called"}
                /\ f.batch[1] = "tool"

HoldsAdmission(t) == \E i \in 1 .. Len(stack[t]) : ToolFrame(stack[t][i])

(* Deviation: tool calls are published without the admission mutex.        *)
AdmissibleAlways(t) == Busy(t)
Admissible(t) == \A u \in Threads \ {t} : ~HoldsAdmission(u)

\* A call inside drain_and_dispatch is counted by callbacks_in_flight; destroy
\* waits for those of other threads (its own are the callbacks it is called
\* from).
Dispatching(f) ==
    f.pc \in {"snapshot", "deliver", "gate", "publish", "callback", "called"}

Quiet(t) == \A i \in 1 .. Len(stack[t]) : ~Dispatching(stack[t][i])

------------------------------------------------------------------------------
(* Driving the session: create, and a step with a tool's result.           *)

Create(t) ==
    /\ life = "unborn"
    /\ ~Busy(t)
    /\ life' = "registered"
    /\ Push(t, Frame("create", "enter"))
    /\ UNCHANGED <<auto, state, calls, queue, callback, cancel, destroying,
                   aborted, acked, gone>>

Step(t) ==
    /\ life = "registered"
    /\ MayCall(t)
    /\ Push(t, Frame("step", "enter"))
    /\ UNCHANGED <<life, auto, state, calls, queue, callback, cancel,
                   destroying, aborted, acked, gone>>

\* A step is refused on a cancelled session and unless a tool is awaited.
Accepts(f) == f.call = "step" => ~cancel /\ state = "waiting"

Enter(t) ==
    /\ At(t, "enter")
    /\ MuFree
    /\ Accepts(Top(t))
    /\ state' = "generating"
    /\ Goto(t, "begin")
    /\ UNCHANGED <<life, auto, calls, queue, callback, cancel, destroying,
                   aborted, acked, gone>>

Refuse(t) ==
    /\ At(t, "enter")
    /\ MuFree
    /\ ~Accepts(Top(t))
    /\ Pop(t)
    /\ UNCHANGED <<life, auto, state, calls, queue, callback, cancel,
                   destroying, aborted, acked, gone>>

(* Deviation: a cancel latched before the generation starts is not seen.   *)
StartsAnyway == state = "generating"

\* run_generate_once publishes the engine reference and starts the engine,
\* unless a cancel has been latched before.
Starts == ~cancel

BeginGeneration(t) ==
    /\ At(t, "begin")
    /\ Starts
    /\ aborted' = FALSE
    /\ Goto(t, "running")
    /\ UNCHANGED <<life, auto, state, calls, queue, callback, cancel,
                   destroying, acked, gone>>

\* The turn ends: its events are queued, the state moves on, mu is released.
Conclude(t, events, outcome) ==
    /\ queue' = queue \o events
    /\ state' = outcome
    /\ Goto(t, "drain")
    /\ UNCHANGED <<life, auto, callback, cancel, destroying, aborted, acked, gone>>

Cancelled(t) ==
    /\ \/ \E pc \in {"begin", "running", "notify", "notifying"} : At(t, pc)
       \/ At(t, "admit") /\ Admissible(t)
    /\ cancel
    /\ Conclude(t, <<"error">>, "cancelled")
    /\ UNCHANGED calls

\* The engine has answered: the SDK's event of it is published, and every
\* subscriber is called before the generation returns.
Announce(t) ==
    /\ At(t, "running")
    /\ ~cancel
    /\ Goto(t, "notify")
    /\ UNCHANGED <<life, auto, state, calls, queue, callback, cancel, destroying,
                   aborted, acked, gone>>

\* The last look at the cancel: one latched later leaves the turn as it is.
Decide(t) ==
    /\ At(t, "notify") \/ At(t, "notifying")
    /\ ~cancel
    /\ Goto(t, "decide")
    /\ UNCHANGED <<life, auto, state, calls, queue, callback, cancel, destroying,
                   aborted, acked, gone>>

\* No model, or an engine error; later a required call that was not made, a call
\* beyond the limit, or one made after the tools were removed.
Fails(t) ==
    /\ \/ /\ At(t, "begin") \/ At(t, "running")
          /\ ~cancel
          /\ Conclude(t, <<"error">>, "failed")
       \/ /\ At(t, "decide")
          /\ \/ Conclude(t, <<"error">>, "failed")
             \/ calls > 0 /\ Conclude(t, <<"text", "error">>, "failed")
    /\ UNCHANGED calls

\* The model answers without a tool.
Answers(t) ==
    /\ At(t, "decide")
    /\ Conclude(t, <<"text", "final">>, "completed")
    /\ UNCHANGED calls

\* The model asks for a tool the policy rejects, or, once the text beside it has
\* been emitted, its schema.
RejectCall(t) ==
    /\ At(t, "decide")
    /\ calls < MaxToolCalls
    /\ \E events \in {<<"error">>, <<"text", "error">>} : Conclude(t, events, "failed")
    /\ calls' = calls + 1

\* The model asks for a valid tool; granting it takes the admission mutex.
AskTool(t) ==
    /\ At(t, "decide")
    /\ calls < MaxToolCalls
    /\ queue' = Append(queue, "text")
    /\ Goto(t, "admit")
    /\ UNCHANGED <<life, auto, state, calls, callback, cancel, destroying,
                   aborted, acked, gone>>

GrantTool(t) ==
    /\ At(t, "admit")
    /\ Admissible(t)
    /\ ~cancel
    /\ IF auto THEN Conclude(t, <<"tool">>, "waiting")
               ELSE Conclude(t, <<"final">>, "completed")
    /\ calls' = calls + 1

------------------------------------------------------------------------------
(* Delivering the queued events.                                           *)

Drain(t) ==
    /\ At(t, "drain")
    /\ Goto(t, "snapshot")
    /\ UNCHANGED <<life, auto, state, calls, queue, callback, cancel,
                   destroying, aborted, acked, gone>>

\* The thread takes the whole queue and the callback as they are now.
Snapshot(t) ==
    /\ At(t, "snapshot")
    /\ MuFree
    /\ queue' = <<>>
    /\ IF callback /\ queue # <<>>
         THEN Becomes(t, [Top(t) EXCEPT !.pc = "deliver", !.batch = queue])
         ELSE Pop(t)
    /\ UNCHANGED <<life, auto, state, calls, callback, cancel, destroying,
                   aborted, acked, gone>>

(* Deviation: a batch once taken is delivered to its end.                  *)
NeverStops == FALSE

\* A destroyed session calls nobody: looked at before and after every event.
Stops == destroying

Deliver(t) ==
    /\ At(t, "deliver")
    /\ Top(t).batch # <<>>
    /\ ~Stops
    /\ Goto(t, IF Top(t).batch[1] = "tool" THEN "gate" ELSE "callback")
    /\ UNCHANGED <<life, auto, state, calls, queue, callback, cancel,
                   destroying, aborted, acked, gone>>

DeliveryDone(t) ==
    /\ At(t, "deliver")
    /\ Top(t).batch = <<>> \/ Stops
    /\ Pop(t)
    /\ UNCHANGED <<life, auto, state, calls, queue, callback, cancel,
                   destroying, aborted, acked, gone>>

\* A tool call is checked under the admission mutex, and skipped once the
\* session is cancelled.
CheckTool(t) ==
    /\ At(t, "gate")
    /\ Admissible(t)
    /\ IF cancel \/ destroying
         THEN Becomes(t, [Top(t) EXCEPT !.pc = "deliver", !.batch = Tail(@)])
         ELSE Goto(t, "publish")
    /\ UNCHANGED <<life, auto, state, calls, queue, callback, cancel,
                   destroying, aborted, acked, gone>>

PublishTool(t) ==
    /\ At(t, "publish")
    /\ Goto(t, "callback")
    /\ UNCHANGED <<life, auto, state, calls, queue, callback, cancel,
                   destroying, aborted, acked, gone>>

CallbackReturns(t) ==
    /\ At(t, "callback") \/ At(t, "called")
    /\ IF Stops
         THEN Pop(t)
         ELSE Becomes(t, [Top(t) EXCEPT !.pc = "deliver", !.batch = Tail(@)])
    /\ UNCHANGED <<life, auto, state, calls, queue, callback, cancel,
                   destroying, aborted, acked, gone>>

------------------------------------------------------------------------------
(* Cancel and destroy.                                                     *)

Cancel(t) ==
    /\ life = "registered"
    /\ MayCall(t)
    /\ Push(t, Frame("cancel", "latch"))
    /\ UNCHANGED <<life, auto, state, calls, queue, callback, cancel,
                   destroying, aborted, acked, gone>>

\* Only the first destroy finds the handle; a later one returns at once.
Destroy(t) ==
    /\ life = "registered"
    /\ MayCall(t)
    /\ life' = "retired"
    /\ Push(t, Frame("destroy", "latch"))
    /\ UNCHANGED <<auto, state, calls, queue, callback, cancel, destroying,
                   aborted, acked, gone>>

\* First the request is latched, under the admission mutex...
Latch(t) ==
    /\ At(t, "latch")
    /\ Admissible(t)
    /\ cancel' = TRUE
    /\ destroying' = (destroying \/ Top(t).call = "destroy")
    /\ Goto(t, "signal")
    /\ UNCHANGED <<life, auto, state, calls, queue, callback, aborted, acked, gone>>

\* ...then a generation that is running is told.
Signal(t) ==
    /\ At(t, "signal")
    /\ aborted' = (aborted \/ \E u \in Threads : At(u, "running"))
    /\ IF Top(t).call = "cancel"
         THEN Pop(t) /\ acked' = TRUE
         ELSE Goto(t, "clear") /\ UNCHANGED acked
    /\ UNCHANGED <<life, auto, state, calls, queue, callback, cancel, destroying, gone>>

ClearCallback(t) ==
    /\ At(t, "clear")
    /\ MuFree
    /\ callback' = FALSE
    /\ Goto(t, "quiesce")
    /\ UNCHANGED <<life, auto, state, calls, queue, cancel, destroying,
                   aborted, acked, gone>>

(* Deviation: destroy waits for its own callbacks as well.                 *)
DestroyReturnsAlone(t) ==
    /\ At(t, "quiesce")
    /\ \A u \in Threads : Quiet(u)
    /\ Pop(t)
    /\ gone' = t
    /\ UNCHANGED <<life, auto, state, calls, queue, callback, cancel,
                   destroying, aborted, acked>>

DestroyReturns(t) ==
    /\ At(t, "quiesce")
    /\ \A u \in Threads \ {t} : Quiet(u)
    /\ Pop(t)
    /\ gone' = t
    /\ UNCHANGED <<life, auto, state, calls, queue, callback, cancel,
                   destroying, aborted, acked>>

------------------------------------------------------------------------------
CallStep(t) ==
    \/ Enter(t) \/ Refuse(t)
    \/ BeginGeneration(t) \/ Announce(t) \/ Decide(t)
    \/ Cancelled(t) \/ Fails(t) \/ Answers(t) \/ RejectCall(t)
    \/ AskTool(t) \/ GrantTool(t)
    \/ Drain(t) \/ Snapshot(t) \/ Deliver(t) \/ DeliveryDone(t)
    \/ CheckTool(t) \/ PublishTool(t) \/ CallbackReturns(t)
    \/ Latch(t) \/ Signal(t) \/ ClearCallback(t) \/ DestroyReturns(t)

Call(t) == Create(t) \/ Step(t) \/ Cancel(t) \/ Destroy(t)

ToolNext == \E t \in Threads : CallStep(t) \/ Call(t)

ToolSpec == ToolInit /\ [][ToolNext]_vars

\* A thread inside a call runs on, engines, subscribers and callbacks return.  No call is
\* ever owed.
FairToolSpec == ToolSpec /\ \A t \in Threads : WF_vars(CallStep(t))

------------------------------------------------------------------------------
(* Properties.                                                             *)

Events == {"text", "tool", "error", "final"}

Points == {"enter", "begin", "running", "notify", "notifying", "decide", "admit", "drain", "snapshot", "deliver",
           "gate", "publish", "callback", "called", "latch", "signal", "clear",
           "quiesce"}

\* Type correctness; the session and the admission mutex have at most one
\* holder each, and the state says "generating" exactly while a thread drives
\* the session.
ToolTypeOK ==
    /\ life \in {"unborn", "registered", "retired"}
    /\ auto \in BOOLEAN
    /\ state \in {"idle", "generating", "waiting", "completed", "failed", "cancelled"}
    /\ calls \in 0 .. MaxToolCalls
    /\ queue \in Seq(Events)
    /\ callback \in BOOLEAN
    /\ cancel \in BOOLEAN
    /\ destroying \in BOOLEAN
    /\ aborted \in BOOLEAN
    /\ stack \in [Threads -> Seq([call : {"create", "step", "cancel", "destroy"},
                                  pc : Points, batch : Seq(Events)])]
    /\ acked \in BOOLEAN
    /\ gone \in Threads \cup {NoThread}
    /\ \A t, u \in Threads : HoldsMu(t) /\ HoldsMu(u) => t = u
    /\ \A t, u \in Threads : HoldsAdmission(t) /\ HoldsAdmission(u) => t = u
    /\ state = "generating" <=> \E t \in Threads : HoldsMu(t)

\* Once a cancel has returned the session is inert: a generation still running
\* has been told to stop, and no tool call is on its way to the host (one whose
\* callback had begun may finish).
CancelledIsInert ==
    acked =>
        /\ (\E t \in Threads : At(t, "running")) => aborted
        /\ \A t \in Threads : ~At(t, "publish")

\* Once destroy has returned no callback of the session begins or goes on, but
\* those of the destroying thread that destroy was called from, and these have
\* no successor: the host may free user_data.
QuietAfterDestroy ==
    gone # NoThread =>
        \A t \in Threads :
            /\ ~At(t, "callback")
            /\ t # gone => \A i \in 1 .. Len(stack[t]) : stack[t][i].pc # "called"

AsksMu(t) == \E pc \in {"enter", "snapshot", "clear"} : At(t, pc)
AsksAdmission(t) == \E pc \in {"admit", "gate", "latch"} : At(t, pc)

\* The three ways to wait in a circle.  A subscriber told of a generation steps
\* or destroys the session its own thread holds.  The mutexes are taken in both
\* orders: a tool callback that holds admission calls something that asks for
\* mu, and the holder of mu grants a tool, or its subscriber cancels or destroys.
\* A tool callback destroys the session and waits for a dispatch of another
\* thread, which waits for admission itself.
LockCycle ==
    \/ \E t \in Threads : HoldsMu(t) /\ AsksMu(t)
    \/ \E t, u \in Threads : /\ HoldsAdmission(t) /\ AsksMu(t)
                            /\ HoldsMu(u) /\ AsksAdmission(u)
    \/ \E t, u \in Threads : /\ HoldsAdmission(t) /\ At(t, "quiesce")
                            /\ ~Quiet(u) /\ AsksAdmission(u)

\* Every call returns, unless threads wait in such a circle.
CallsReturn ==
    \A t \in Threads : Busy(t) ~> (~Busy(t) \/ LockCycle)
=============================================================================
