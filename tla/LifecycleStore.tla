--------------------------- MODULE LifecycleStore ---------------------------
(***************************************************************************)
(* The process-wide store of loaded models: g_loaded, guarded by           *)
(* g_lifecycle_mutex, and the drain fence every teardown passes through    *)
(* (src/core/src/core/model_lifecycle.cpp, model_lifecycle_accessors.cpp). *)
(*                                                                         *)
(* One step is one critical section of g_lifecycle_mutex, or one piece of  *)
(* work done outside it.  Two families of callers drive the store, the     *)
(* registry API (ModelLifecycle) and the per-handle facade                 *)
(* (LifecycleFacade); what both of them may do to it is StoreNext.         *)
(*                                                                         *)
(* An element of Entries stands for one LoadedModel object.  The objects   *)
(* are reference counted by shared_ptr, so an entry nobody can reach is    *)
(* free to stand for the next object.                                      *)
(***************************************************************************)
EXTENDS Naturals, FiniteSets

CONSTANTS
  Components,   \* SDKComponent: one slot each in g_loaded
  Threads,      \* callers of the C API
  Entries,      \* identities of LoadedModel objects
  Models,       \* model ids
  Engines,      \* registered engine plugins
  Handles,      \* LifecycleManager facade handles
  NoEntry, NoEngine, NoHandle, NoDesc

(* The sentinels are no members of the sets they complete, and the         *)
(* threads can be counted.                                                 *)
ASSUME StoreAssumptions ==
  /\ IsFiniteSet(Threads)
  /\ NoEntry \notin Entries
  /\ NoEngine \notin Engines
  /\ NoHandle \notin Handles

VARIABLES
  slot,      \* g_loaded: the entry each component's slot holds
  state,     \* LoadedModel::state
  refs,      \* LoadedModel::active_refs
  backend,   \* whether LoadedModel::destroy still owns a created backend
  desc,      \* what the entry was loaded from, and by whom
  made,      \* the entry a thread has built and not yet installed
  doomed,    \* entries a thread took out of the map and must still drain
  dying,     \* the entry whose destroy() a thread is running
  pin        \* the entry whose backend a thread is calling into

storeVars == <<slot, state, refs, backend, desc, made, doomed, dying, pin>>

(***************************************************************************)
(* A LoadedModel's description.  `framework` is the field the eviction     *)
(* loop reads; `engine` is the plugin whose backend the entry owns.        *)
(***************************************************************************)
Descriptor == [model     : Models,
               component : Components,
               framework : Engines \cup {NoEngine},
               engine    : Engines \cup {NoEngine},
               owner     : Handles \cup {NoHandle}]

States == {"NOT_LOADED", "READY", "ERROR"}

(* Entries some slot or some thread can still reach.                       *)
Reachable ==
  {slot[c] : c \in Components} \cup (UNION {doomed[t] : t \in Threads})
    \cup {made[t] : t \in Threads} \cup {dying[t] : t \in Threads}
    \cup {pin[t] : t \in Threads}

Fresh == Entries \ Reachable

Ready(c) == slot[c] # NoEntry /\ state[slot[c]] = "READY"

(* A thread has nothing left to drain: its destroy loop is over.           *)
Drained(t) == doomed[t] = {} /\ dying[t] = NoEntry

StoreInit ==
  /\ slot    = [c \in Components |-> NoEntry]
  /\ state   = [e \in Entries |-> "NOT_LOADED"]
  /\ refs    = [e \in Entries |-> 0]
  /\ backend = [e \in Entries |-> FALSE]
  /\ desc    = [e \in Entries |-> NoDesc]
  /\ made    = [t \in Threads |-> NoEntry]
  /\ doomed  = [t \in Threads |-> {}]
  /\ dying   = [t \in Threads |-> NoEntry]
  /\ pin     = [t \in Threads |-> NoEntry]

(***************************************************************************)
(* Building an entry, outside every lock: a READY one around the backend   *)
(* the engine has just created, or an ERROR sentinel that owns nothing.    *)
(***************************************************************************)
Make(t, e, d, st) ==
  /\ made[t] = NoEntry
  /\ made'    = [made EXCEPT ![t] = e]
  /\ e \in Fresh
  /\ desc'    = [desc EXCEPT ![e] = d]
  /\ state'   = [state EXCEPT ![e] = st]
  /\ backend' = [backend EXCEPT ![e] = st = "READY"]
  /\ UNCHANGED <<slot, refs, doomed, dying, pin>>

(* Deviation: the displaced entry is listed although there is none.        *)
InstallUnchecked(t) ==
  LET e == made[t]
      c == desc[e].component
  IN /\ e # NoEntry
     /\ slot'   = [slot EXCEPT ![c] = e]
     /\ doomed' = [doomed EXCEPT ![t] = @ \cup {slot[c]}]
     /\ made'   = [made EXCEPT ![t] = NoEntry]
     /\ UNCHANGED <<state, refs, backend, desc, dying, pin>>

(* Deviation: g_loaded[c] is assigned and the occupant is dropped.         *)
InstallOverwriting(t) ==
  LET e == made[t]
  IN /\ e # NoEntry
     /\ slot' = [slot EXCEPT ![desc[e].component] = e]
     /\ made' = [made EXCEPT ![t] = NoEntry]
     /\ UNCHANGED <<state, refs, backend, desc, doomed, dying, pin>>

(* The entry replaces the occupant of its component's slot; the displaced  *)
(* entry, if any, is handed to the caller to drain.                        *)
Install(t) ==
  LET e == made[t]
      c == desc[e].component
  IN /\ e # NoEntry
     /\ slot'   = [slot EXCEPT ![c] = e]
     /\ doomed' = [doomed EXCEPT ![t] = @ \cup ({slot[c]} \ {NoEntry})]
     /\ made'   = [made EXCEPT ![t] = NoEntry]
     /\ UNCHANGED <<state, refs, backend, desc, dying, pin>>

(* An error sentinel that was not needed goes out of scope.                *)
Discard(t) ==
  LET e == made[t]
  IN /\ e # NoEntry
     /\ state[e] = "ERROR"
     /\ made'  = [made EXCEPT ![t] = NoEntry]
     /\ state' = [state EXCEPT ![e] = "NOT_LOADED"]
     /\ desc'  = [desc EXCEPT ![e] = NoDesc]
     /\ UNCHANGED <<slot, refs, backend, doomed, dying, pin>>

(* Deviation: the entries are listed but not erased from the map.          *)
DetachInPlace(t, C, marked) ==
  LET gone == {slot[c] : c \in C} \ {NoEntry}
  IN /\ doomed' = [doomed EXCEPT ![t] = @ \cup gone]
     /\ UNCHANGED <<slot, state, refs, backend, desc, made, dying, pin>>

(***************************************************************************)
(* Detaching: under one critical section the occupants of the slots in C   *)
(* leave the map for the caller's list.  `marked` says whether the loop    *)
(* also stamps them NOT_LOADED, as the eviction and unload loops do.       *)
(***************************************************************************)
Detach(t, C, marked) ==
  LET gone == {slot[c] : c \in C} \ {NoEntry}
  IN /\ slot'   = [c \in Components |-> IF c \in C THEN NoEntry ELSE slot[c]]
     /\ doomed' = [doomed EXCEPT ![t] = @ \cup gone]
     /\ state'  = [e \in Entries |-> IF marked /\ e \in gone
                                     THEN "NOT_LOADED" ELSE state[e]]
     /\ UNCHANGED <<refs, backend, desc, made, dying, pin>>

(* Deviation: destroy() is run without waiting for the references.         *)
DrainUnfenced(t) ==
  \E e \in doomed[t] :
    /\ dying[t] = NoEntry
    /\ doomed' = [doomed EXCEPT ![t] = @ \ {e}]
    /\ dying'  = [dying EXCEPT ![t] = e]
    /\ UNCHANGED <<slot, state, refs, backend, desc, made, pin>>

(***************************************************************************)
(* destroy_loaded_model(): wait on g_lifecycle_cv until no reference is    *)
(* held, then, with the mutex released, run destroy().  The callers loop   *)
(* over a vector; any order of the loop is allowed here.                   *)
(***************************************************************************)
DrainFence(t) ==
  \E e \in doomed[t] :
    /\ dying[t] = NoEntry
    /\ refs[e] = 0
    /\ doomed' = [doomed EXCEPT ![t] = @ \ {e}]
    /\ dying'  = [dying EXCEPT ![t] = e]
    /\ UNCHANGED <<slot, state, refs, backend, desc, made, pin>>

(* Who else holds a shared_ptr to the entry thread t is destroying.        *)
HeldElsewhere(t) ==
  {slot[c] : c \in Components} \cup (UNION {doomed[u] : u \in Threads})
    \cup {made[u] : u \in Threads} \cup {pin[u] : u \in Threads}
    \cup {dying[u] : u \in Threads \ {t}}

(* destroy() runs the engine's destroy and nothing else: an entry a slot   *)
(* or another thread still holds goes on saying what it said, READY        *)
(* included.  Only an entry nobody else holds is freed, fields and all.    *)
DestroyBackend(t) ==
  LET e     == dying[t]
      freed == {e} \ HeldElsewhere(t)
  IN /\ e # NoEntry
     /\ backend' = [backend EXCEPT ![e] = FALSE]
     /\ dying'   = [dying EXCEPT ![t] = NoEntry]
     /\ state'   = [f \in Entries |-> IF f \in freed THEN "NOT_LOADED" ELSE state[f]]
     /\ desc'    = [f \in Entries |-> IF f \in freed THEN NoDesc ELSE desc[f]]
     /\ UNCHANGED <<slot, refs, made, doomed, pin>>

(***************************************************************************)
(* Pinning: acquire_component() and its release.  The token holds the      *)
(* entry itself, so a release never looks the slot up again.               *)
(***************************************************************************)
AcquireRef(t, c) ==
  /\ pin[t] = NoEntry
  /\ Ready(c)
  /\ backend[slot[c]]
  /\ refs' = [refs EXCEPT ![slot[c]] = @ + 1]
  /\ pin'  = [pin EXCEPT ![t] = slot[c]]
  /\ UNCHANGED <<slot, state, backend, desc, made, doomed, dying>>

(* Deviation: the release looks the slot up again.                         *)
ReleaseByLookup(t) ==
  /\ pin[t] # NoEntry
  /\ \E c \in Components :
       refs' = IF slot[c] = NoEntry THEN refs ELSE [refs EXCEPT ![slot[c]] = IF @ > 0 THEN @ - 1 ELSE @]
  /\ pin'  = [pin EXCEPT ![t] = NoEntry]
  /\ UNCHANGED <<slot, state, backend, desc, made, doomed, dying>>

(* Dropping the reference the token holds.                                 *)
ReleaseRef(t) ==
  /\ pin[t] # NoEntry
  /\ refs' = [refs EXCEPT ![pin[t]] = IF @ > 0 THEN @ - 1 ELSE @]
  /\ pin'  = [pin EXCEPT ![t] = NoEntry]
  /\ UNCHANGED <<slot, state, backend, desc, made, doomed, dying>>

(***************************************************************************)
(* What any caller may do to the store, in any order and on any thread.    *)
(* It is the contract both callers are checked against: StoreSpec.         *)
(***************************************************************************)
StoreStep(t) ==
  \/ \E e \in Entries, d \in Descriptor, st \in {"READY", "ERROR"} :
       Make(t, e, d, st)
  \/ Install(t)
  \/ Discard(t)
  \/ \E C \in SUBSET Components, marked \in BOOLEAN : Detach(t, C, marked)
  \/ DrainFence(t)
  \/ DestroyBackend(t)
  \/ \E c \in Components : AcquireRef(t, c)
  \/ ReleaseRef(t)

StoreNext == \E t \in Threads : StoreStep(t)

StoreSpec == StoreInit /\ [][StoreNext]_storeVars

-----------------------------------------------------------------------------
(* The type invariant: what the map, an entry's fields and a caller's      *)
(* lists may hold.                                                         *)
StoreTypeOK ==
  /\ slot    \in [Components -> Entries \cup {NoEntry}]
  /\ state   \in [Entries -> States]
  /\ refs    \in [Entries -> Nat]
  /\ backend \in [Entries -> BOOLEAN]
  /\ desc    \in [Entries -> Descriptor \cup {NoDesc}]
  /\ made    \in [Threads -> Entries \cup {NoEntry}]
  /\ doomed  \in [Threads -> SUBSET Entries]
  /\ dying   \in [Threads -> Entries \cup {NoEntry}]
  /\ pin     \in [Threads -> Entries \cup {NoEntry}]

(* Entries outside the map, in the hands of thread t.                      *)
HeldBy(t) == doomed[t] \cup ({made[t], dying[t]} \ {NoEntry})

(* An entry is in one place only: one slot, or one list of one thread.     *)
(* This is what keeps two teardowns (an eviction and an unload, say) from  *)
(* running destroy() of the same backend twice.                            *)
SingleHolder ==
  /\ \A t, u \in Threads : t # u => HeldBy(t) \cap HeldBy(u) = {}
  /\ \A t \in Threads : /\ made[t] \notin doomed[t] \cup {dying[t]} \/ made[t] = NoEntry
                        /\ dying[t] \notin doomed[t]
  /\ \A c \in Components, t \in Threads : slot[c] \notin HeldBy(t)
  /\ \A c, d \in Components : slot[c] = slot[d] => c = d \/ slot[c] = NoEntry

(* active_refs counts exactly the threads that are using the backend.      *)
RefsCountPins == \A e \in Entries : refs[e] = Cardinality({t \in Threads : pin[t] = e})

(* A backend in use is alive, and nobody is past the drain fence with it:  *)
(* destroy() never runs under an in-flight request.                        *)
NoUseAfterDestroy ==
  \A t \in Threads : pin[t] # NoEntry =>
    /\ backend[pin[t]]
    /\ \A u \in Threads : dying[u] # pin[t]

(* A live backend can still be reached by a slot or by the thread that     *)
(* will destroy it: no path drops the last owner without destroying.       *)
NoLeakedBackend ==
  \A e \in Entries : backend[e] =>
    \/ \E c \in Components : slot[c] = e
    \/ \E t \in Threads : e \in HeldBy(t)

(* What a slot advertises as READY owns a backend for that component.      *)
(* Destroying an entry does not change what it says, so this rests on      *)
(* every teardown erasing the entry in the critical section that lists it, *)
(* and on nothing putting a listed entry back.                             *)
ReadyIsUsable ==
  \A c \in Components : Ready(c) =>
    backend[slot[c]] /\ desc[slot[c]].component = c
=============================================================================
