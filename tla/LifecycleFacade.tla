--------------------------- MODULE LifecycleFacade ---------------------------
(***************************************************************************)
(* The per-handle facade over the same store: rac_lifecycle_load, unload,  *)
(* reset, acquire_service and release_service                              *)
(* (src/core/src/core/capabilities/lifecycle_manager.cpp).                 *)
(*                                                                         *)
(* A handle serializes its loads and unloads with its own mutex, and       *)
(* remembers in one field the entry its callers have pinned.  It knows     *)
(* nothing of the admission gate of the registry API.                      *)
(***************************************************************************)
EXTENDS LifecycleStore

CONSTANTS
  ComponentOf,   \* the component of each handle
  FacadeEngines, \* engines the feature modules' create callbacks may pick
  NoOwner        \* an unlocked handle mutex

ASSUME FacadeAssumptions ==
  /\ ComponentOf \in [Handles -> Components]
  /\ FacadeEngines \subseteq Engines
  /\ NoOwner \notin Threads

VARIABLES
  mutex,     \* LifecycleManager::mutex: the thread that holds it
  pinned,    \* LifecycleManager::pinned
  pinDepth,  \* LifecycleManager::pin_depth
  fpc,       \* where a thread is in the facade call it runs
  handle,    \* the handle the call is on
  path       \* the model path a load was asked for

facadeVars == <<mutex, pinned, pinDepth, fpc, handle, path>>

FacadePCs == {"idle", "evict", "create", "install", "done", "using"}

FacadeGoto(t, from, to) == fpc[t] = from /\ fpc' = [fpc EXCEPT ![t] = to]

Owned(h) == LET e == slot[ComponentOf[h]] IN e # NoEntry /\ desc[e].owner = h

-----------------------------------------------------------------------------
(* rac_lifecycle_load up to its duplicate check: the same handle already   *)
(* holds that path READY, or the load goes on with the handle locked.      *)
FacadeLoad(t, h, m) ==
  LET duplicate == Owned(h) /\ Ready(ComponentOf[h]) /\ desc[slot[ComponentOf[h]]].model = m
  IN /\ mutex[h] = NoOwner
     /\ ~duplicate
     /\ FacadeGoto(t, "idle", "evict")
     /\ mutex'  = [mutex EXCEPT ![h] = t]
     /\ handle' = [handle EXCEPT ![t] = h]
     /\ path'   = [path EXCEPT ![t] = m]
     /\ UNCHANGED <<storeVars, pinned, pinDepth>>

(* Whatever occupies the slot is evicted, and drained before the create.   *)
FacadeEvict(t) ==
  /\ FacadeGoto(t, "evict", "create")
  /\ Detach(t, {ComponentOf[handle[t]]}, FALSE)
  /\ UNCHANGED <<mutex, pinned, pinDepth, handle, path>>

(* Deviation: create-then-swap, the old backend is drained afterwards.     *)
FacadeCreateFirst(t) ==
  LET h == handle[t]
  IN /\ FacadeGoto(t, "create", "install")
     /\ \E e \in Entries, g \in FacadeEngines :
          Make(t, e, [model |-> path[t], component |-> ComponentOf[h], framework |-> NoEngine,
                      engine |-> g, owner |-> h], "READY")
     /\ UNCHANGED <<mutex, pinned, pinDepth, handle, path>>

(* The create callback runs without the store's mutex and may fail.        *)
FacadeCreate(t) ==
  LET h == handle[t]
      Entry(engine) == [model |-> path[t], component |-> ComponentOf[h],
                        framework |-> NoEngine, engine |-> engine, owner |-> h]
  IN /\ FacadeGoto(t, "create", "install")
     /\ Drained(t)
     /\ \E e \in Entries \ {pinned[k] : k \in Handles} :
          \/ \E g \in FacadeEngines : Make(t, e, Entry(g), "READY")
          \/ Make(t, e, Entry(NoEngine), "ERROR")
     /\ UNCHANGED <<mutex, pinned, pinDepth, handle, path>>

(* The service, or the owner-tagged error entry, takes the slot.           *)
FacadeInstall(t) ==
  /\ FacadeGoto(t, "install", "done")
  /\ Install(t)
  /\ UNCHANGED <<mutex, pinned, pinDepth, handle, path>>

(* rac_lifecycle_unload and rac_lifecycle_reset only touch an entry the    *)
(* handle owns; the owner's mutex stays locked while it drains.            *)
FacadeUnload(t, h) ==
  /\ mutex[h] = NoOwner
  /\ Owned(h)
  /\ FacadeGoto(t, "idle", "done")
  /\ mutex'  = [mutex EXCEPT ![h] = t]
  /\ handle' = [handle EXCEPT ![t] = h]
  /\ Detach(t, {ComponentOf[h]}, FALSE)
  /\ UNCHANGED <<pinned, pinDepth, path>>

(* Deviation: an early return leaves the handle locked.                    *)
FacadeReturnLocked(t) ==
  /\ Drained(t)
  /\ FacadeGoto(t, "done", "idle")
  /\ UNCHANGED <<storeVars, mutex, handle, path, pinned, pinDepth>>

(* The destroy loop is over: the call unlocks its handle and returns.      *)
FacadeReturn(t) ==
  /\ Drained(t)
  /\ FacadeGoto(t, "done", "idle")
  /\ mutex'  = [mutex EXCEPT ![handle[t]] = NoOwner]
  /\ handle' = [handle EXCEPT ![t] = NoHandle]
  /\ path'   = [path EXCEPT ![t] = NoDesc]
  /\ UNCHANGED <<storeVars, pinned, pinDepth>>

FacadeDrain(t) ==
  /\ DrainFence(t) \/ DestroyBackend(t)
  /\ UNCHANGED facadeVars

-----------------------------------------------------------------------------
(* acquire_service: the handle's own READY entry gains a reference, and    *)
(* the handle remembers that entry.                                        *)
AcquireService(t, h) ==
  /\ Owned(h)
  /\ AcquireRef(t, ComponentOf[h])
  /\ FacadeGoto(t, "idle", "using")
  /\ pinned'   = [pinned EXCEPT ![h] = slot[ComponentOf[h]]]
  /\ pinDepth' = [pinDepth EXCEPT ![h] = @ + 1]
  /\ handle'   = [handle EXCEPT ![t] = h]
  /\ UNCHANGED <<mutex, path>>

(* Deviation: the first release clears the handle's pinned entry.          *)
ReleaseForgetting(t) ==
  LET h == handle[t]
      e == pinned[h]
  IN /\ FacadeGoto(t, "using", "idle")
     /\ IF e # NoEntry
        THEN /\ refs'     = [refs EXCEPT ![e] = IF @ > 0 THEN @ - 1 ELSE @]
             /\ pinDepth' = [pinDepth EXCEPT ![h] = @ - 1]
             /\ pinned'   = [pinned EXCEPT ![h] = NoEntry]
        ELSE UNCHANGED <<refs, pinDepth, pinned>>
     /\ pin'    = [pin EXCEPT ![t] = NoEntry]
     /\ handle' = [handle EXCEPT ![t] = NoHandle]
     /\ UNCHANGED <<slot, state, backend, desc, made, doomed, dying, mutex, path>>

(* release_service: the reference dropped is one of the entry the handle   *)
(* remembers, whichever entry this caller was using.                       *)
ReleaseService(t) ==
  LET h == handle[t]
      e == pinned[h]
  IN /\ FacadeGoto(t, "using", "idle")
     /\ IF e # NoEntry /\ pinDepth[h] > 0
        THEN /\ refs'     = [refs EXCEPT ![e] = IF @ > 0 THEN @ - 1 ELSE @]
             /\ pinDepth' = [pinDepth EXCEPT ![h] = @ - 1]
             /\ pinned'   = [pinned EXCEPT ![h] = IF pinDepth[h] = 1 THEN NoEntry ELSE @]
        ELSE UNCHANGED <<refs, pinDepth, pinned>>
     /\ pin'    = [pin EXCEPT ![t] = NoEntry]
     /\ handle' = [handle EXCEPT ![t] = NoHandle]
     /\ UNCHANGED <<slot, state, backend, desc, made, doomed, dying, mutex, path>>

-----------------------------------------------------------------------------
FacadeInit ==
  /\ mutex    = [h \in Handles |-> NoOwner]
  /\ pinned   = [h \in Handles |-> NoEntry]
  /\ pinDepth = [h \in Handles |-> 0]
  /\ fpc      = [t \in Threads |-> "idle"]
  /\ handle   = [t \in Threads |-> NoHandle]
  /\ path     = [t \in Threads |-> NoDesc]

FacadeContinue(t) ==
  \/ FacadeEvict(t) \/ FacadeCreate(t) \/ FacadeInstall(t)
  \/ FacadeReturn(t) \/ FacadeDrain(t) \/ ReleaseService(t)

FacadeStart(t) ==
  \E h \in Handles :
    \/ \E m \in Models : FacadeLoad(t, h, m)
    \/ FacadeUnload(t, h)
    \/ AcquireService(t, h)

FacadeStep(t) == FacadeContinue(t) \/ FacadeStart(t)

facadeSpecVars == <<storeVars, facadeVars>>

FacadeSpecInit == StoreInit /\ FacadeInit

FacadeNext == \E t \in Threads : FacadeStep(t)

FacadeSpec == FacadeSpecInit /\ [][FacadeNext]_facadeSpecVars

FairFacadeSpec == FacadeSpec /\ \A t \in Threads : WF_facadeSpecVars(FacadeContinue(t))

-----------------------------------------------------------------------------
(* The type invariant of the facade and of the store under it.             *)
FacadeTypeOK ==
  /\ StoreTypeOK
  /\ mutex    \in [Handles -> Threads \cup {NoOwner}]
  /\ pinned   \in [Handles -> Entries \cup {NoEntry}]
  /\ pinDepth \in [Handles -> Nat]
  /\ fpc      \in [Threads -> FacadePCs]
  /\ handle   \in [Threads -> Handles \cup {NoHandle}]
  /\ path     \in [Threads -> Models \cup {NoDesc}]

(* pin_depth counts the callers between acquire_service and                *)
(* release_service, and all of them use the entry the handle remembers.    *)
PinBookkeeping ==
  \A h \in Handles :
    LET users == {t \in Threads : fpc[t] = "using" /\ handle[t] = h}
    IN /\ pinDepth[h] = Cardinality(users)
       /\ \A t \in users : pin[t] = pinned[h]

(* The facade destroys the old backend before it creates the new one, so   *)
(* one handle never keeps two models in memory.                            *)
OneBackendPerComponent ==
  \A e, f \in Entries :
    backend[e] /\ backend[f] /\ desc[e].component = desc[f].component => e = f

(* A load or an unload that locked its handle unlocks it again: the drain  *)
(* it waits for ends once the pins it found are released.                  *)
HandleUnlocked == \A h \in Handles : mutex[h] # NoOwner ~> mutex[h] = NoOwner
=============================================================================
