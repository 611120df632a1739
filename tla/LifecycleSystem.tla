--------------------------- MODULE LifecycleSystem ---------------------------
(***************************************************************************)
(* Both callers of the store at once: threads that go through the registry *)
(* API, with its admission gate, and threads that go through a facade      *)
(* handle, without it.  A thread is in one call at a time.                 *)
(***************************************************************************)
EXTENDS ModelLifecycle, LifecycleFacade

sysVars == <<storeVars, callVars, facadeVars>>

(* A new entry is not an object that swap_previous or a handle's pinned    *)
(* field still keeps alive.                                                *)
NoRecycling ==
  \A t, u \in Threads : made'[t] # made[t] /\ made'[t] # NoEntry =>
    made'[t] # swap[u] /\ \A h \in Handles : made'[t] # pinned[h]

RegistryStep(t) ==
  /\ fpc[t] = "idle"
  /\ Continue(t) \/ Start(t)
  /\ NoRecycling
  /\ UNCHANGED facadeVars

HandleStep(t) ==
  /\ pc[t] = "idle"
  /\ FacadeStep(t)
  /\ NoRecycling
  /\ UNCHANGED callVars

SystemInit == Init /\ FacadeInit

SystemNext == \E t \in Threads : RegistryStep(t) \/ HandleStep(t)

SystemSpec == SystemInit /\ [][SystemNext]_sysVars
=============================================================================
