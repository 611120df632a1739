--------------------------- MODULE ModelLifecycle ---------------------------
(***************************************************************************)
(* The registry API of the model lifecycle: load, unload and reset as      *)
(* rac_model_lifecycle_* run them, and the requests that pin a loaded      *)
(* model while they use it                                                 *)
(* (src/core/src/core/model_lifecycle.cpp, model_lifecycle_accessors.cpp). *)
(*                                                                         *)
(* A load holds g_load_admission_mutex from its slot check to its install, *)
(* and takes g_lifecycle_mutex only for the critical sections in between.  *)
(* Resolving the request (registry lookup, auto-download, artifact checks) *)
(* touches neither and leads to a refusal or to the gate.                  *)
(***************************************************************************)
EXTENDS LifecycleStore, Sequences

CONSTANTS
  Requests,               \* the load requests callers make
  Serves,                 \* <<engine, component>>: the plugin serves the primitive
  Priority,               \* plugin priority, for the fallback selection
  Npu,                    \* the engine that runs on the NPU (QHexRT)
  ReentrantSubscribers,   \* whether event subscribers call back into the API
  NoThread, NoRequest

(* A resolved request: the frameworks to try are the requested one, first, *)
(* then the caller's backend_preferences.                                  *)
Request == [model      : Models,
            component  : Components,
            candidates : Seq(Engines \cup {NoEngine}),
            force      : BOOLEAN,
            npuOnly    : BOOLEAN]

ASSUME LifecycleAssumptions ==
  /\ NoThread \notin Threads
  /\ Requests \subseteq Request
  /\ NoRequest \notin Requests
  /\ \A r \in Requests : r.candidates # <<>>
  /\ Serves \subseteq Engines \X Components
  /\ Priority \in [Engines -> Nat]
  /\ ReentrantSubscribers \in BOOLEAN

VARIABLES
  gate,   \* who holds g_load_admission_mutex
  pc,     \* where a thread is in the operation it runs
  req,    \* the load request it is serving
  swap    \* swap_previous: the occupant left installed while it creates

callVars == <<gate, pc, req, swap>>
vars == <<storeVars, callVars>>

PCs == {"idle", "admission", "evict", "select", "failed", "install", "release",
        "reject", "publish", "unloading", "resetting", "using"}

Goto(t, from, to) == pc[t] = from /\ pc' = [pc EXCEPT ![t] = to]

(* A new LoadedModel is not an object some load still remembers.           *)
MakeNew(t, e, d, st) == (\A u \in Threads : swap[u] # e) /\ Make(t, e, d, st)

-----------------------------------------------------------------------------
(* Engine selection: the first candidate framework with a plugin for the   *)
(* component, otherwise the plugin of highest priority that serves it.     *)
Serving(c) == {g \in Engines : <<g, c>> \in Serves}

Pinnable(r) == {i \in DOMAIN r.candidates : <<r.candidates[i], r.component>> \in Serves}

EngineFor(r) ==
  IF Pinnable(r) # {}
  THEN r.candidates[CHOOSE i \in Pinnable(r) : \A j \in Pinnable(r) : i <= j]
  ELSE IF Serving(r.component) = {} THEN NoEngine
  ELSE CHOOSE g \in Serving(r.component) :
         \A h \in Serving(r.component) : Priority[h] <= Priority[g]

Framework(r) == Head(r.candidates)

Description(r, framework, engine) ==
  [model |-> r.model, component |-> r.component,
   framework |-> framework, engine |-> engine, owner |-> NoHandle]

-----------------------------------------------------------------------------
(* A load arrives.  An unknown model, a missing artifact or an option the  *)
(* primitive cannot honour ends it before the gate, with an error event.   *)
BeginLoad(t) ==
  /\ \/ \E r \in Requests : Goto(t, "idle", "admission") /\ req' = [req EXCEPT ![t] = r]
     \/ Goto(t, "idle", "publish") /\ UNCHANGED req
  /\ UNCHANGED <<storeVars, gate, swap>>

(* Deviation: the slot is checked without the admission gate.              *)
AdmitUngated(t) ==
  LET r == req[t]
      e == slot[r.component]
  IN /\ Goto(t, "admission", "evict")
     /\ ~r.force /\ (e # NoEntry => state[e] # "READY" \/ desc[e].model # r.model)
     /\ swap' = [swap EXCEPT ![t] = e]
     /\ gate' = IF gate = NoThread THEN t ELSE gate
     /\ UNCHANGED <<storeVars, req>>

(* Admission and the slot check.  No other gate holder can move the slot   *)
(* between the two, so they are one step.                                  *)
Admit(t) ==
  LET r == req[t]
      e == slot[r.component]
      same == e # NoEntry /\ desc[e].model = r.model
  IN /\ pc[t] = "admission"
     /\ gate = NoThread
     /\ \/ /\ same /\ ~r.force /\ state[e] = "READY"      \* already loaded
           /\ Goto(t, "admission", "idle")
           /\ req' = [req EXCEPT ![t] = NoRequest]
           /\ UNCHANGED <<storeVars, gate, swap>>
        \/ /\ same /\ r.force                             \* tear down first
           /\ Goto(t, "admission", "evict")
           /\ gate' = t
           /\ Detach(t, {r.component}, FALSE)
           /\ UNCHANGED <<req, swap>>
        \/ /\ ~(same /\ (r.force \/ state[e] = "READY"))  \* create, then swap
           /\ Goto(t, "admission", "evict")
           /\ gate' = t
           /\ swap' = [swap EXCEPT ![t] = e]
           /\ UNCHANGED <<storeVars, req>>

(* Deviation: models in use are spared.                                    *)
NpuRivalsIdle(c) ==
  {d \in Components \ {c} :
     slot[d] # NoEntry /\ desc[slot[d]].framework = Npu /\ refs[slot[d]] = 0}

(* The other components' entries that would share the NPU.                 *)
NpuRivals(c) ==
  {d \in Components \ {c} : slot[d] # NoEntry /\ desc[slot[d]].framework = Npu}

(* evict_other_qhexrt_models(), when the requested framework is the NPU.   *)
EvictRivals(t) ==
  /\ Goto(t, "evict", "select")
  /\ Drained(t)
  /\ IF Framework(req[t]) = Npu
     THEN Detach(t, NpuRivals(req[t].component), TRUE)
     ELSE UNCHANGED storeVars
  /\ UNCHANGED <<gate, req, swap>>

(* accelerator_policy = NPU and the selected engine is another one.        *)
RejectPlacement(t) ==
  LET g == EngineFor(req[t])
  IN /\ Goto(t, "select", "reject")
     /\ Drained(t)
     /\ req[t].npuOnly /\ g \notin {NoEngine, Npu}
     /\ UNCHANGED <<storeVars, gate, req, swap>>

Placeable(t) ==
  /\ Drained(t)
  /\ ~(req[t].npuOnly /\ EngineFor(req[t]) \notin {NoEngine, Npu})

(* create_backend_impl() succeeds: the entry is built around the backend.  *)
CreateBackend(t) ==
  LET r == req[t]
      g == EngineFor(r)
  IN /\ Goto(t, "select", "install")
     /\ Placeable(t)
     /\ g \in Engines
     /\ \E e \in Entries : MakeNew(t, e, Description(r, g, g), "READY")
     /\ UNCHANGED <<gate, req, swap>>

(* No plugin serves the primitive, or its create() fails.                  *)
CreateFails(t) ==
  LET r == req[t]
  IN /\ Goto(t, "select", "failed")
     /\ Placeable(t)
     /\ \E e \in Entries : MakeNew(t, e, Description(r, Framework(r), NoEngine), "ERROR")
     /\ UNCHANGED <<gate, req, swap>>

(* Deviation: the displaced entry is overwritten, not drained.             *)
InstallWithoutDrain(t) ==
  /\ Goto(t, "install", "release")
  /\ slot' = [slot EXCEPT ![req[t].component] = made[t]]
  /\ made' = [made EXCEPT ![t] = NoEntry]
  /\ UNCHANGED <<state, refs, backend, desc, doomed, dying, pin, gate, req, swap>>

(* install_loaded_entry()                                                  *)
InstallLoaded(t) ==
  /\ Goto(t, "install", "release")
  /\ Install(t)
  /\ UNCHANGED <<gate, req, swap>>

(* Deviation: the sentinel always takes the slot.                          *)
NeverPreserved(t) == FALSE /\ swap[t] # NoEntry

(* install_failed_entry_preserving(): the resident model stays if it is    *)
(* still the READY occupant, otherwise the sentinel takes the slot.        *)
Preserved(t) ==
  swap[t] # NoEntry /\ slot[req[t].component] = swap[t] /\ state[swap[t]] = "READY"

InstallFailed(t) ==
  /\ Goto(t, "failed", "release")
  /\ IF Preserved(t) THEN Discard(t) ELSE Install(t)
  /\ UNCHANGED <<gate, req, swap>>

(* Deviation: the events are published with the gate still closed.         *)
PublishBeforeRelease(t) ==
  /\ Drained(t)
  /\ Goto(t, "release", "publish")
  /\ UNCHANGED <<storeVars, gate, req, swap>>

(* The displaced entry is drained under the gate; then the gate opens.     *)
ReleaseGate(t) ==
  /\ Drained(t)
  /\ Goto(t, "release", "publish")
  /\ gate' = NoThread
  /\ req'  = [req EXCEPT ![t] = NoRequest]
  /\ swap' = [swap EXCEPT ![t] = NoEntry]
  /\ UNCHANGED storeVars

(* Deviation: the early return of a rejected load keeps the gate closed.   *)
PublishedStillLocked(t) ==
  /\ Goto(t, "publish", "idle") \/ Goto(t, "reject", "idle")
  /\ req'  = [req EXCEPT ![t] = NoRequest]
  /\ swap' = [swap EXCEPT ![t] = NoEntry]
  /\ UNCHANGED <<storeVars, gate>>

(* The last event is out and the call returns; a rejected placement still  *)
(* holds the gate while it publishes.                                      *)
Published(t) ==
  /\ Goto(t, "publish", "idle") \/ Goto(t, "reject", "idle")
  /\ gate' = IF gate = t THEN NoThread ELSE gate
  /\ req'  = [req EXCEPT ![t] = NoRequest]
  /\ swap' = [swap EXCEPT ![t] = NoEntry]
  /\ UNCHANGED storeVars

(* A subscriber loads a model from inside the event callback.              *)
SubscriberLoads(t) ==
  /\ ReentrantSubscribers
  /\ Goto(t, "publish", "admission") \/ Goto(t, "reject", "admission")
  /\ \E r \in Requests : req' = [req EXCEPT ![t] = r]
  /\ swap' = [swap EXCEPT ![t] = NoEntry]
  /\ UNCHANGED <<storeVars, gate>>

-----------------------------------------------------------------------------
(* rac_model_lifecycle_unload_proto: by model id, by category (one per     *)
(* component here), or everything.  It does not pass the gate.             *)
Matching(C) == {c \in C : slot[c] # NoEntry}

UnloadTargets ==
  {{c} : c \in Components}
    \cup {{c \in Matching(Components) : desc[slot[c]].model = m} : m \in Models}
    \cup {Components}

BeginUnload(t) ==
  /\ \E C \in UnloadTargets :
       /\ Matching(C) # {}
       /\ Goto(t, "idle", "unloading")
       /\ Detach(t, Matching(C), TRUE)
  /\ UNCHANGED <<gate, req, swap>>

(* rac_model_lifecycle_reset: the map is cleared and nothing is announced. *)
BeginReset(t) ==
  /\ Goto(t, "idle", "resetting")
  /\ Detach(t, Components, FALSE)
  /\ UNCHANGED <<gate, req, swap>>

FinishTeardown(t) ==
  /\ Drained(t)
  /\ Goto(t, "unloading", "publish") \/ Goto(t, "resetting", "idle")
  /\ UNCHANGED <<storeVars, gate, req, swap>>

(* The destroy loop of whatever operation the thread is in.                *)
Drain(t) ==
  /\ DrainFence(t) \/ DestroyBackend(t)
  /\ UNCHANGED callVars

-----------------------------------------------------------------------------
(* A feature call pins the component's model for as long as it runs.       *)
BeginUse(t) ==
  /\ \E c \in Components : AcquireRef(t, c)
  /\ Goto(t, "idle", "using")
  /\ UNCHANGED <<gate, req, swap>>

EndUse(t) ==
  /\ Goto(t, "using", "idle")
  /\ ReleaseRef(t)
  /\ UNCHANGED <<gate, req, swap>>

-----------------------------------------------------------------------------
CallInit ==
  /\ gate = NoThread
  /\ pc   = [t \in Threads |-> "idle"]
  /\ req  = [t \in Threads |-> NoRequest]
  /\ swap = [t \in Threads |-> NoEntry]

Init == StoreInit /\ CallInit

LoadStep(t) ==
  \/ Admit(t) \/ EvictRivals(t) \/ RejectPlacement(t) \/ CreateBackend(t)
  \/ CreateFails(t) \/ InstallLoaded(t) \/ InstallFailed(t) \/ ReleaseGate(t)

(* What the threads do once a call has started, and what starts a call.    *)
Continue(t) == LoadStep(t) \/ Published(t) \/ FinishTeardown(t) \/ Drain(t) \/ EndUse(t)

Start(t) ==
  \/ BeginLoad(t) \/ SubscriberLoads(t) \/ BeginUnload(t) \/ BeginReset(t) \/ BeginUse(t)

Next == \E t \in Threads : Continue(t) \/ Start(t)

Spec == Init /\ [][Next]_vars

(* Threads are scheduled and a request eventually returns its pin.  The    *)
(* gate is a plain mutex: no thread is promised its turn at it.            *)
FairSpec == Spec /\ \A t \in Threads : WF_vars(Continue(t))

-----------------------------------------------------------------------------
(* The type invariant of the registry API and of the store under it.       *)
TypeOK ==
  /\ StoreTypeOK
  /\ gate \in Threads \cup {NoThread}
  /\ pc   \in [Threads -> PCs]
  /\ req  \in [Threads -> Requests \cup {NoRequest}]
  /\ swap \in [Threads -> Entries \cup {NoEntry}]

(* Concurrent cold loads of one model create one backend: what the gate is *)
(* for.  An entry counts from its creation until it leaves its slot.       *)
Current(e) ==
  \/ \E c \in Components : slot[c] = e
  \/ \E t \in Threads : made[t] = e

OneBackendPerModel ==
  \A e, f \in Entries :
    /\ Current(e) /\ backend[e] /\ Current(f) /\ backend[f]
    /\ desc[e].model = desc[f].model /\ desc[e].component = desc[f].component
    => e = f

(* Create-then-swap.  On the whole way of a load, from its admission to    *)
(* its last event, a READY model leaves its slot for three reasons only:   *)
(* its successor was created and is installed; its own reload was forced;  *)
(* or it sits on the NPU in another component and the load wants the NPU.  *)
(* The last two have happened by the time the load may fail; the failing   *)
(* step takes no READY model, whatever was torn down or installed since    *)
(* the load looked at the slot.                                            *)
LoadPCs == {"admission", "evict", "select", "failed", "install", "release", "reject"}

ReadyGivesWay ==
  [][\A t \in Threads, c \in Components :
       /\ pc[t] \in LoadPCs /\ pc'[t] # pc[t]
       /\ Ready(c) /\ slot'[c] # slot[c]
       => \/ pc[t] = "install" /\ c = req[t].component
          \/ /\ pc[t] = "admission" /\ c = req[t].component
             /\ req[t].force /\ desc[slot[c]].model = req[t].model
          \/ /\ pc[t] = "evict" /\ c # req[t].component
             /\ Framework(req[t]) = Npu /\ desc[slot[c]].framework = Npu]_vars

(* At most one component has a model of the NPU engine installed, whatever *)
(* unloads and resets do to the slots while a load runs.                   *)
OneNpuSlot ==
  \A c, d \in Components :
    /\ slot[c] # NoEntry /\ desc[slot[c]].engine = Npu
    /\ slot[d] # NoEntry /\ desc[slot[d]].engine = Npu
    => c = d

(* No thread waits for the admission gate it holds itself, not even one    *)
(* that re-enters the API from an event callback.                          *)
NoSelfDeadlock == \A t \in Threads : ~(pc[t] = "admission" /\ gate = t)

(* A load that passed the gate leaves it: once an entry is out of the map  *)
(* no new reference is taken, so the drain it waits for ends.              *)
GateReleased == \A t \in Threads : gate = t ~> gate # t

(* An unload or a reset ends, although it never takes the gate and others  *)
(* keep loading and pinning.                                               *)
TeardownFinishes ==
  \A t \in Threads : pc[t] \in {"unloading", "resetting"} ~> pc[t] \in {"publish", "idle"}
=============================================================================
