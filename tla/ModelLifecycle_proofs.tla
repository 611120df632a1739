----------------------- MODULE ModelLifecycle_proofs -----------------------
(***************************************************************************)
(* The registry API keeps to the store's contract, so the store's safety   *)
(* holds of it; and its admission gate does what it is there for: one      *)
(* backend per model, and a failed load that strands nobody.               *)
(***************************************************************************)
EXTENDS ModelLifecycle, LifecycleStore_proofs

(* The program points between admission and the end of the load.           *)
Creating == {"evict", "select", "failed", "install"}
Gated == Creating \cup {"release", "reject"}

(* A thread past admission holds the gate, so there is only one.           *)
GateHeld == \A t \in Threads : pc[t] \in Gated => gate = t

RequestKnown ==
  \A t \in Threads : pc[t] \in Creating \cup {"admission"} => req[t] \in Requests

(* Only the load at its install has an entry in hand, and it is the one    *)
(* its request asked for.                                                  *)
MadeForRequest ==
  \A t \in Threads :
    /\ made[t] # NoEntry <=> pc[t] \in {"failed", "install"}
    /\ made[t] # NoEntry => /\ desc[made[t]].component = req[t].component
                            /\ desc[made[t]].model = req[t].model
    /\ pc[t] = "failed" => state[made[t]] = "ERROR"

(* While a load creates, its slot is READY only with the occupant the load *)
(* remembers, and never with the model it is loading.                      *)
SlotFrozen ==
  \A t \in Threads : pc[t] \in Creating =>
    LET c == req[t].component
    IN Ready(c) => slot[c] = swap[t] /\ desc[slot[c]].model # req[t].model

LifecycleInv ==
  /\ TypeOK
  /\ StoreInv
  /\ GateHeld
  /\ RequestKnown
  /\ MadeForRequest
  /\ SlotFrozen

-----------------------------------------------------------------------------
LEMMA RequestFields ==
  ASSUME NEW r \in Requests
  PROVE  /\ r.model \in Models /\ r.component \in Components
         /\ Framework(r) \in Engines \cup {NoEngine}
<1>1. r \in Request /\ r.candidates # <<>>
  BY LifecycleAssumptions
<1>2. QED
  BY <1>1 DEF Request, Framework

LEMMA DescriptionTyped ==
  ASSUME NEW r \in Requests, NEW f \in Engines \cup {NoEngine}, NEW g \in Engines \cup {NoEngine}
  PROVE  /\ Description(r, f, g) \in Descriptor
         /\ Description(r, f, g).model = r.model
         /\ Description(r, f, g).component = r.component
BY RequestFields DEF Description, Descriptor

(* Each step of the API is a step of the store, or leaves the store alone. *)
LEMMA CallStepsStore ==
  ASSUME RequestKnown, NEW t \in Threads, Continue(t) \/ Start(t)
  PROVE  StoreStep(t) \/ UNCHANGED storeVars
<1> USE DEF Goto
<1>1. CASE Admit(t)
  <2>1. req[t].component \in Components
    BY <1>1, RequestFields DEF Admit, RequestKnown
  <2>2. UNCHANGED storeVars \/ Detach(t, {req[t].component}, FALSE)
    BY <1>1 DEF Admit
  <2>3. QED
    BY <2>1, <2>2 DEF StoreStep
<1>2. CASE EvictRivals(t)
  <2>1. UNCHANGED storeVars \/ Detach(t, NpuRivals(req[t].component), TRUE)
    BY <1>2 DEF EvictRivals
  <2>2. NpuRivals(req[t].component) \in SUBSET Components
    BY DEF NpuRivals
  <2>3. QED
    BY <2>1, <2>2 DEF StoreStep
<1>3. CASE CreateBackend(t)
  <2>1. req[t] \in Requests /\ EngineFor(req[t]) \in Engines
    BY <1>3 DEF CreateBackend, RequestKnown, Creating
  <2>2. PICK e \in Entries :
          Make(t, e, Description(req[t], EngineFor(req[t]), EngineFor(req[t])), "READY")
    BY <1>3 DEF CreateBackend, MakeNew
  <2>3. Description(req[t], EngineFor(req[t]), EngineFor(req[t])) \in Descriptor
    BY <2>1, DescriptionTyped
  <2>4. QED
    BY <2>2, <2>3 DEF StoreStep
<1>4. CASE CreateFails(t)
  <2>1. req[t] \in Requests
    BY <1>4 DEF CreateFails, RequestKnown, Creating
  <2>2. PICK e \in Entries :
          Make(t, e, Description(req[t], Framework(req[t]), NoEngine), "ERROR")
    BY <1>4 DEF CreateFails, MakeNew
  <2>3. Description(req[t], Framework(req[t]), NoEngine) \in Descriptor
    BY <2>1, DescriptionTyped, RequestFields
  <2>4. QED
    BY <2>2, <2>3 DEF StoreStep
<1>5. CASE InstallLoaded(t) \/ InstallFailed(t)
  BY <1>5 DEF InstallLoaded, InstallFailed, StoreStep
<1>6. CASE BeginUnload(t) \/ BeginReset(t)
  <2>1. \E C \in SUBSET Components, marked \in BOOLEAN : Detach(t, C, marked)
    BY <1>6 DEF BeginUnload, BeginReset, UnloadTargets, Matching
  <2>2. QED
    BY <2>1 DEF StoreStep
<1>7. CASE Drain(t) \/ BeginUse(t) \/ EndUse(t)
  BY <1>7 DEF Drain, BeginUse, EndUse, StoreStep
<1>8. CASE \/ BeginLoad(t) \/ RejectPlacement(t) \/ ReleaseGate(t) \/ Published(t)
           \/ SubscriberLoads(t) \/ FinishTeardown(t)
  BY <1>8 DEF BeginLoad, RejectPlacement, ReleaseGate, Published, SubscriberLoads,
              FinishTeardown
<1>9. QED
  BY <1>1, <1>2, <1>3, <1>4, <1>5, <1>6, <1>7, <1>8
  DEF Continue, Start, LoadStep

LEMMA RefinesStore ==
  ASSUME LifecycleInv, [Next]_vars
  PROVE  [StoreNext]_storeVars
<1>1. CASE UNCHANGED vars
  BY <1>1 DEF vars
<1>2. CASE Next
  BY <1>2, CallStepsStore DEF Next, StoreNext, LifecycleInv
<1>3. QED
  BY <1>1, <1>2

-----------------------------------------------------------------------------
CallParts == GateHeld /\ RequestKnown /\ MadeForRequest /\ SlotFrozen

CallTypeOK ==
  /\ gate \in Threads \cup {NoThread}
  /\ pc   \in [Threads -> PCs]
  /\ req  \in [Threads -> Requests \cup {NoRequest}]
  /\ swap \in [Threads -> Entries \cup {NoEntry}]

(* Initially nobody is in a call.                                          *)
LEMMA InitLifecycleInv == Init => LifecycleInv
<1> SUFFICES ASSUME Init PROVE LifecycleInv
  OBVIOUS
<1> USE LifecycleAssumptions DEF Init, CallInit
<1>1. StoreInv
  BY InitStoreInv
<1>2. StoreTypeOK
  BY <1>1 DEF StoreInv
<1>3. TypeOK
  BY <1>2 DEF TypeOK, PCs
<1>4. GateHeld /\ RequestKnown /\ SlotFrozen
  BY DEF GateHeld, RequestKnown, SlotFrozen, Gated, Creating
<1>5. MadeForRequest
  BY DEF MadeForRequest, StoreInit
<1>6. QED
  BY <1>1, <1>3, <1>4, <1>5 DEF LifecycleInv

(* Steps that move only a thread's program point, outside a load, keep     *)
(* everything a load relies on.                                            *)
LEMMA IdleStep ==
  ASSUME LifecycleInv, NEW t \in Threads,
         BeginLoad(t) \/ FinishTeardown(t) \/ RejectPlacement(t)
  PROVE  CallTypeOK' /\ CallParts'
<1> USE LifecycleAssumptions, StoreAssumptions
    DEF LifecycleInv, TypeOK, CallTypeOK, CallParts, Goto
<1>1. UNCHANGED storeVars /\ UNCHANGED <<gate, swap>>
  BY DEF BeginLoad, FinishTeardown, RejectPlacement
<1>2. CallTypeOK'
  BY DEF BeginLoad, FinishTeardown, RejectPlacement, PCs
<1>3. GateHeld'
  BY <1>1 DEF GateHeld, Gated, Creating, BeginLoad, FinishTeardown, RejectPlacement
<1>4. RequestKnown'
  BY <1>1 DEF RequestKnown, Creating, BeginLoad, FinishTeardown, RejectPlacement
<1>5. MadeForRequest'
  BY <1>1 DEF MadeForRequest, storeVars, BeginLoad, FinishTeardown, RejectPlacement
<1>6. SlotFrozen'
  BY <1>1 DEF SlotFrozen, Ready, Creating, storeVars, BeginLoad, FinishTeardown, RejectPlacement
<1>7. QED
  BY <1>2, <1>3, <1>4, <1>5, <1>6

(* Only one thread is past admission.                                      *)
LEMMA OneGateHolder ==
  ASSUME LifecycleInv, NEW t \in Threads, NEW u \in Threads,
         pc[t] \in Gated, pc[u] \in Gated
  PROVE  t = u
BY DEF LifecycleInv, GateHeld

(* Admission: what the load finds in its slot is torn down or remembered.  *)
LEMMA AdmitPreserves ==
  ASSUME LifecycleInv, NEW t \in Threads, Admit(t)
  PROVE  CallTypeOK' /\ CallParts'
<1> USE LifecycleAssumptions, StoreAssumptions
    DEF LifecycleInv, TypeOK, CallTypeOK, CallParts, Goto
<1>1. pc[t] = "admission" /\ gate = NoThread /\ req[t] \in Requests
  BY DEF Admit, RequestKnown
<1>2. PICK r \in Requests, c \in Components : r = req[t] /\ c = r.component
  BY <1>1, RequestFields
<1>3. \A u \in Threads : pc[u] \notin Gated
  BY <1>1, <1>2 DEF GateHeld
<1> DEFINE Loaded == /\ pc' = [pc EXCEPT ![t] = "idle"]
                     /\ req' = [req EXCEPT ![t] = NoRequest]
                     /\ UNCHANGED <<storeVars, gate, swap>>
           Passes == /\ pc' = [pc EXCEPT ![t] = "evict"]
                     /\ gate' = t /\ req' = req
                     /\ \/ Detach(t, {c}, FALSE) /\ swap' = swap
                        \/ /\ Ready(c) => desc[slot[c]].model # r.model
                           /\ swap' = [swap EXCEPT ![t] = slot[c]]
                           /\ UNCHANGED storeVars
<1>4. Loaded \/ Passes
  BY <1>1, <1>2 DEF Admit, Ready
<1>5. UNCHANGED <<made, desc, state>>
  <2>1. CASE Detach(t, {c}, FALSE)
    BY <2>1 DEF Detach, StoreTypeOK
  <2>2. CASE UNCHANGED storeVars
    BY <2>2 DEF storeVars
  <2>3. QED
    BY <1>4, <2>1, <2>2
<1>6. CallTypeOK'
  <2>1. slot[c] \in Entries \cup {NoEntry}
    BY <1>1, <1>2 DEF StoreTypeOK
  <2>2. QED
    BY <1>1, <1>2, <1>4, <2>1 DEF PCs
<1>7. GateHeld'
  <2>1. \A u \in Threads : u # t => pc'[u] \notin Gated
    BY <1>3, <1>4
  <2>2. pc'[t] \in Gated => gate' = t
    BY <1>4 DEF Gated, Creating
  <2>3. QED
    BY <2>1, <2>2 DEF GateHeld
<1>8. RequestKnown'
  BY <1>1, <1>2, <1>4 DEF RequestKnown, Creating
<1>9. MadeForRequest'
  <2>1. \A u \in Threads : u # t => pc'[u] = pc[u] /\ req'[u] = req[u]
    BY <1>4
  <2>2. made[t] = NoEntry /\ pc'[t] \notin {"failed", "install"}
    BY <1>1, <1>2, <1>4 DEF MadeForRequest
  <2>3. QED
    BY <1>5, <2>1, <2>2 DEF MadeForRequest
<1>10. SlotFrozen'
  <2>1. \A u \in Threads : pc'[u] \in Creating => u = t /\ Passes
    BY <1>1, <1>2, <1>3, <1>4 DEF Gated, Creating
  <2>2. CASE Detach(t, {c}, FALSE) /\ req' = req
    <3>1. ~Ready(c)'
      BY <1>1, <1>2, <2>2 DEF Detach, Ready
    <3>2. QED
      BY <1>2, <2>1, <2>2, <3>1 DEF SlotFrozen
  <2>3. CASE /\ UNCHANGED storeVars /\ req' = req
             /\ swap' = [swap EXCEPT ![t] = slot[c]]
             /\ Ready(c) => desc[slot[c]].model # r.model
    <3>1. slot' = slot /\ desc' = desc /\ (Ready(c)' <=> Ready(c)) /\ swap'[t] = slot[c]
      BY <2>3 DEF Ready, storeVars
    <3>2. QED
      BY <1>2, <2>1, <2>3, <3>1 DEF SlotFrozen
  <2>4. CASE Loaded
    BY <1>1, <1>2, <1>3, <2>4 DEF SlotFrozen, Gated, Creating
  <2>5. QED
    BY <1>4, <2>2, <2>3, <2>4
<1>11. QED
  BY <1>6, <1>7, <1>8, <1>9, <1>10

(* Detaching slots, by an eviction or a teardown, makes no slot READY.     *)
LEMMA DetachFreezes ==
  ASSUME LifecycleInv, NEW t \in Threads, NEW C \in SUBSET Components, NEW marked \in BOOLEAN,
         Detach(t, C, marked)
  PROVE  /\ UNCHANGED <<made, desc>>
         /\ \A u \in Threads : made[u] # NoEntry => state'[made[u]] = state[made[u]]
         /\ \A c \in Components : Ready(c)' => Ready(c) /\ slot'[c] = slot[c]
<1> USE StoreAssumptions DEF LifecycleInv, StoreInv
<1>1. \A u \in Threads, c \in Components : made[u] # NoEntry => slot[c] # made[u]
  BY DEF SingleHolder, HeldBy
<1>2. \A u \in Threads : made[u] # NoEntry => state'[made[u]] = state[made[u]]
  BY <1>1 DEF Detach, StoreTypeOK
<1>3. \A c \in Components : Ready(c)' => Ready(c) /\ slot'[c] = slot[c]
  BY DEF Ready, Detach, StoreTypeOK
<1>4. QED
  BY <1>2, <1>3 DEF Detach

(* Eviction, unload and reset.                                             *)
LEMMA DetachPreserves ==
  ASSUME LifecycleInv, NEW t \in Threads, EvictRivals(t) \/ BeginUnload(t) \/ BeginReset(t)
  PROVE  CallTypeOK' /\ CallParts'
<1> USE LifecycleAssumptions, StoreAssumptions
    DEF LifecycleInv, TypeOK, CallTypeOK, CallParts, Goto
<1>1. \/ UNCHANGED storeVars
      \/ \E C \in SUBSET Components, marked \in BOOLEAN : Detach(t, C, marked)
  <2>1. NpuRivals(req[t].component) \in SUBSET Components
    BY DEF NpuRivals
  <2>2. CASE EvictRivals(t)
    BY <2>1, <2>2 DEF EvictRivals
  <2>3. CASE BeginUnload(t)
    <3>1. PICK C \in UnloadTargets : Detach(t, Matching(C), TRUE)
      BY <2>3 DEF BeginUnload
    <3>2. Matching(C) \in SUBSET Components
      BY DEF Matching, UnloadTargets
    <3>3. QED
      BY <3>1, <3>2
  <2>4. CASE BeginReset(t)
    BY <2>4 DEF BeginReset
  <2>5. QED
    BY <2>2, <2>3, <2>4
<1>2. /\ UNCHANGED <<made, desc>>
      /\ \A u \in Threads : made[u] # NoEntry => state'[made[u]] = state[made[u]]
      /\ \A c \in Components : Ready(c)' => Ready(c) /\ slot'[c] = slot[c]
  BY <1>1, DetachFreezes DEF storeVars, Ready
<1>3. UNCHANGED <<gate, req, swap>>
  BY DEF EvictRivals, BeginUnload, BeginReset
<1>4. \/ pc[t] = "evict" /\ pc' = [pc EXCEPT ![t] = "select"]
      \/ pc[t] = "idle" /\ pc' = [pc EXCEPT ![t] = "unloading"]
      \/ pc[t] = "idle" /\ pc' = [pc EXCEPT ![t] = "resetting"]
  BY DEF EvictRivals, BeginUnload, BeginReset
<1>5. CallTypeOK'
  BY <1>3, <1>4 DEF PCs
<1>6. GateHeld' /\ RequestKnown'
  BY <1>3, <1>4 DEF GateHeld, RequestKnown, Gated, Creating
<1>7. MadeForRequest'
  BY <1>2, <1>3, <1>4 DEF MadeForRequest
<1>8. SlotFrozen'
  <2>1. \A u \in Threads : pc[u] \in Creating => req[u].component \in Components
    BY RequestFields DEF RequestKnown
  <2>2. QED
    BY <1>2, <1>3, <1>4, <2>1 DEF SlotFrozen, Creating
<1>9. QED
  BY <1>5, <1>6, <1>7, <1>8

(* Creating a backend, or failing to: the entry is described by the        *)
(* request.                                                                *)
LEMMA CreatePreserves ==
  ASSUME LifecycleInv, NEW t \in Threads, CreateBackend(t) \/ CreateFails(t)
  PROVE  CallTypeOK' /\ CallParts'
<1> USE LifecycleAssumptions, StoreAssumptions
    DEF LifecycleInv, TypeOK, CallTypeOK, CallParts, Goto
<1>1. pc[t] = "select" /\ req[t] \in Requests /\ UNCHANGED <<gate, req, swap>>
  BY DEF CreateBackend, CreateFails, RequestKnown, Creating
<1>2. PICK e \in Entries, d \in Descriptor, st \in {"READY", "ERROR"} :
        /\ Make(t, e, d, st)
        /\ d.model = req[t].model /\ d.component = req[t].component
        /\ \/ st = "READY" /\ pc' = [pc EXCEPT ![t] = "install"]
           \/ st = "ERROR" /\ pc' = [pc EXCEPT ![t] = "failed"]
  <2>1. CASE CreateBackend(t)
    <3>1. EngineFor(req[t]) \in Engines
      BY <2>1 DEF CreateBackend
    <3>2. QED
      BY <2>1, <3>1, <1>1, DescriptionTyped DEF CreateBackend, MakeNew
  <2>2. CASE CreateFails(t)
    BY <2>2, <1>1, DescriptionTyped, RequestFields DEF CreateFails, MakeNew
  <2>3. QED
    BY <2>1, <2>2
<1>3. /\ \A c \in Components : slot[c] # e
      /\ \A u \in Threads : made[u] # e
      /\ made[t] = NoEntry
  BY <1>2 DEF Make, Fresh, Reachable
<1>4. CallTypeOK'
  BY <1>1, <1>2 DEF PCs
<1>5. GateHeld' /\ RequestKnown'
  BY <1>1, <1>2 DEF GateHeld, RequestKnown, Gated, Creating
<1>6. MadeForRequest'
  BY <1>1, <1>2, <1>3 DEF MadeForRequest, Make, StoreTypeOK
<1>7. SlotFrozen'
  <2>1. \A u \in Threads : pc[u] \in Creating => req[u].component \in Components
    BY RequestFields DEF RequestKnown
  <2>2. \A c \in Components : Ready(c)' <=> Ready(c)
    BY <1>2, <1>3 DEF Make, Ready, StoreTypeOK
  <2>3. \A c \in Components : Ready(c) => desc'[slot[c]] = desc[slot[c]]
    BY <1>2, <1>3 DEF Make, Ready, StoreTypeOK
  <2>4. slot' = slot
    BY <1>2 DEF Make
  <2>5. QED
    BY <1>1, <1>2, <2>1, <2>2, <2>3, <2>4 DEF SlotFrozen, Creating
<1>8. QED
  BY <1>4, <1>5, <1>6, <1>7

(* Installing, or keeping the resident: nobody else is creating.           *)
LEMMA InstallPreserves ==
  ASSUME LifecycleInv, NEW t \in Threads, InstallLoaded(t) \/ InstallFailed(t)
  PROVE  CallTypeOK' /\ CallParts'
<1> USE LifecycleAssumptions, StoreAssumptions
    DEF LifecycleInv, TypeOK, CallTypeOK, CallParts, Goto
<1>1. /\ pc[t] \in {"failed", "install"}
      /\ pc' = [pc EXCEPT ![t] = "release"]
      /\ UNCHANGED <<gate, req, swap>>
      /\ Install(t) \/ Discard(t)
  BY DEF InstallLoaded, InstallFailed
<1>2. /\ made' = [made EXCEPT ![t] = NoEntry]
      /\ \A u \in Threads : u # t /\ made[u] # NoEntry =>
           desc'[made[u]] = desc[made[u]] /\ state'[made[u]] = state[made[u]]
  <2>1. \A u \in Threads : u # t /\ made[u] # NoEntry => made[u] # made[t]
    BY DEF StoreInv, SingleHolder, HeldBy
  <2>2. QED
    BY <1>1, <2>1 DEF Install, Discard, StoreTypeOK
<1>3. \A u \in Threads : u # t => pc[u] \notin Creating
  BY <1>1, OneGateHolder DEF Gated, Creating
<1>4. CallTypeOK'
  BY <1>1 DEF PCs
<1>5. GateHeld' /\ RequestKnown'
  BY <1>1 DEF GateHeld, RequestKnown, Gated, Creating
<1>6. MadeForRequest'
  BY <1>1, <1>2 DEF MadeForRequest, StoreTypeOK
<1>7. SlotFrozen'
  BY <1>1, <1>3 DEF SlotFrozen, Creating
<1>8. QED
  BY <1>4, <1>5, <1>6, <1>7

(* The end of a load, and what a subscriber starts from its callback.      *)
LEMMA EndPreserves ==
  ASSUME LifecycleInv, NEW t \in Threads, ReleaseGate(t) \/ Published(t) \/ SubscriberLoads(t)
  PROVE  CallTypeOK' /\ CallParts'
<1> USE LifecycleAssumptions, StoreAssumptions
    DEF LifecycleInv, TypeOK, CallTypeOK, CallParts, Goto
<1>1. /\ pc[t] \in {"release", "publish", "reject"}
      /\ UNCHANGED storeVars
      /\ \E r \in Requests \cup {NoRequest} : req' = [req EXCEPT ![t] = r]
      /\ swap' = [swap EXCEPT ![t] = NoEntry]
      /\ gate' = gate \/ (gate = t /\ gate' = NoThread)
  BY DEF ReleaseGate, Published, SubscriberLoads, GateHeld, Gated
<1>2. \/ \E q \in {"publish", "idle"} : pc' = [pc EXCEPT ![t] = q]
      \/ pc' = [pc EXCEPT ![t] = "admission"] /\ req'[t] \in Requests
  BY DEF ReleaseGate, Published, SubscriberLoads
<1>3. CallTypeOK'
  BY <1>1, <1>2 DEF PCs
<1>4. GateHeld'
  BY <1>1, <1>2 DEF GateHeld, Gated, Creating
<1>5. RequestKnown'
  BY <1>1, <1>2 DEF RequestKnown, Creating
<1>6. MadeForRequest'
  BY <1>1, <1>2 DEF MadeForRequest, storeVars
<1>7. SlotFrozen'
  BY <1>1, <1>2 DEF SlotFrozen, Ready, Creating, storeVars
<1>8. QED
  BY <1>3, <1>4, <1>5, <1>6, <1>7

(* Draining, pinning and unpinning do not touch what is in the slots or in *)
(* a load's hands.                                                         *)
LEMMA UsePreserves ==
  ASSUME LifecycleInv, NEW t \in Threads, Drain(t) \/ BeginUse(t) \/ EndUse(t)
  PROVE  CallTypeOK' /\ CallParts'
<1> USE LifecycleAssumptions, StoreAssumptions
    DEF LifecycleInv, TypeOK, CallTypeOK, CallParts, Goto
<1>1. UNCHANGED <<gate, req, swap, slot, made>>
  BY DEF Drain, DrainFence, DestroyBackend, BeginUse, AcquireRef, EndUse, ReleaseRef, callVars
<1>2. \/ pc' = pc
      \/ pc[t] = "idle" /\ pc' = [pc EXCEPT ![t] = "using"]
      \/ pc[t] = "using" /\ pc' = [pc EXCEPT ![t] = "idle"]
  BY DEF Drain, BeginUse, EndUse, callVars
<1>3. \A e \in Entries : (\A u \in Threads : e # dying[u]) =>
        state'[e] = state[e] /\ desc'[e] = desc[e]
  BY DEF Drain, DrainFence, DestroyBackend, BeginUse, AcquireRef, EndUse, ReleaseRef, StoreTypeOK
<1>4. /\ \A c \in Components : slot[c] # NoEntry =>
           state'[slot[c]] = state[slot[c]] /\ desc'[slot[c]] = desc[slot[c]]
      /\ \A u \in Threads : made[u] # NoEntry =>
           state'[made[u]] = state[made[u]] /\ desc'[made[u]] = desc[made[u]]
  BY <1>3 DEF StoreInv, SingleHolder, HeldBy, StoreTypeOK
<1>5. CallTypeOK'
  BY <1>1, <1>2 DEF PCs
<1>6. GateHeld' /\ RequestKnown'
  BY <1>1, <1>2 DEF GateHeld, RequestKnown, Gated, Creating
<1>7. MadeForRequest'
  BY <1>1, <1>2, <1>4 DEF MadeForRequest
<1>8. SlotFrozen'
  <2>1. \A u \in Threads : pc[u] \in Creating => req[u].component \in Components
    BY RequestFields DEF RequestKnown
  <2>2. QED
    BY <1>1, <1>2, <1>4, <2>1 DEF SlotFrozen, Ready, Creating
<1>9. QED
  BY <1>5, <1>6, <1>7, <1>8

-----------------------------------------------------------------------------
(* LifecycleInv is inductive.                                              *)
LEMMA LifecycleInvStep == LifecycleInv /\ [Next]_vars => LifecycleInv'
<1> SUFFICES ASSUME LifecycleInv, [Next]_vars PROVE LifecycleInv'
  OBVIOUS
<1>1. StoreInv'
  BY RefinesStore, StoreInvStep DEF LifecycleInv
<1>2. CallTypeOK' /\ CallParts'
  <2>1. CASE UNCHANGED vars
    <3>1. CallTypeOK'
      BY <2>1 DEF vars, callVars, CallTypeOK, LifecycleInv, TypeOK
    <3>2. CallParts'
      BY <2>1 DEF vars, callVars, storeVars, CallParts, LifecycleInv, GateHeld, RequestKnown,
                  MadeForRequest, SlotFrozen, Ready
    <3>3. QED
      BY <3>1, <3>2
  <2>2. CASE Next
    <3>1. PICK t \in Threads : Continue(t) \/ Start(t)
      BY <2>2 DEF Next
    <3>2. QED
      BY <3>1, IdleStep, AdmitPreserves, DetachPreserves, CreatePreserves, InstallPreserves,
         EndPreserves, UsePreserves DEF Continue, Start, LoadStep
  <2>3. QED
    BY <2>1, <2>2
<1>3. TypeOK'
  BY <1>1, <1>2 DEF TypeOK, StoreInv, CallTypeOK
<1>4. QED
  BY <1>1, <1>2, <1>3 DEF LifecycleInv, CallParts

THEOREM LifecycleInvariance == Spec => []LifecycleInv
<1>1. QED
  BY InitLifecycleInv, LifecycleInvStep, PTL DEF Spec

(* Type correctness of the registry API.                                   *)
THEOREM TypeCorrect == Spec => []TypeOK
<1>1. LifecycleInv => TypeOK
  BY DEF LifecycleInv
<1>2. QED
  BY <1>1, LifecycleInvariance, PTL

(* The registry API implements the store's contract: each of its steps is  *)
(* one the contract allows, or leaves the store alone.                     *)
THEOREM ImplementsStore == Spec => StoreSpec
<1>1. Init => StoreInit
  BY DEF Init
<1>2. LifecycleInv /\ [Next]_vars => [StoreNext]_storeVars
  BY RefinesStore
<1>3. QED
  BY <1>1, <1>2, LifecycleInvariance, PTL DEF Spec, StoreSpec

(* No load, unload, reset or eviction destroys a backend twice, under a    *)
(* request, or never; and what a slot advertises can be used.              *)
THEOREM LifecycleSafety ==
  Spec => [](NoUseAfterDestroy /\ SingleHolder /\ RefsCountPins /\ NoLeakedBackend
               /\ ReadyIsUsable)
<1>1. LifecycleInv => /\ NoUseAfterDestroy /\ SingleHolder /\ RefsCountPins
                      /\ NoLeakedBackend /\ ReadyIsUsable
  BY StoreInvProperties DEF LifecycleInv
<1>2. QED
  BY <1>1, LifecycleInvariance, PTL

-----------------------------------------------------------------------------
(* The gate makes cold loads of one model share one backend.               *)
LEMMA InvOneBackend == LifecycleInv => OneBackendPerModel
<1> SUFFICES ASSUME LifecycleInv, NEW e \in Entries, NEW f \in Entries,
                    Current(e), backend[e], Current(f), backend[f],
                    desc[e].model = desc[f].model, desc[e].component = desc[f].component
             PROVE  e = f
  BY DEF OneBackendPerModel
<1> USE StoreAssumptions DEF LifecycleInv, StoreInv
<1>1. ASSUME NEW x \in Entries, backend[x], NEW c \in Components, slot[c] = x
      PROVE  Ready(c) /\ desc[x].component = c
  BY <1>1 DEF SlotsDescribed, Ready
<1>2. ASSUME NEW x \in Entries, backend[x], NEW t \in Threads, made[t] = x
      PROVE  /\ pc[t] = "install"
             /\ desc[x].component = req[t].component /\ desc[x].model = req[t].model
  BY <1>2 DEF MadeDescribed, MadeForRequest
<1>3. ASSUME NEW x \in Entries, NEW y \in Entries, backend[x], backend[y],
             desc[x].model = desc[y].model, desc[x].component = desc[y].component,
             NEW c \in Components, slot[c] = x, NEW t \in Threads, made[t] = y
      PROVE  FALSE
  <2>1. Ready(c) /\ desc[x].component = c
    BY <1>1, <1>3
  <2>2. pc[t] = "install" /\ desc[y].component = req[t].component /\ desc[y].model = req[t].model
    BY <1>2, <1>3
  <2>3. Ready(req[t].component) => desc[slot[req[t].component]].model # req[t].model
    BY <2>2 DEF SlotFrozen, Creating
  <2>4. req[t].component = c
    BY <1>3, <2>1, <2>2
  <2>5. QED
    BY <1>3, <2>1, <2>2, <2>3, <2>4 DEF Ready
<1>4. CASE \E c \in Components, d \in Components : slot[c] = e /\ slot[d] = f
  BY <1>1, <1>4
<1>5. CASE \E t \in Threads, u \in Threads : made[t] = e /\ made[u] = f
  <2>1. PICK t \in Threads, u \in Threads : made[t] = e /\ made[u] = f
    BY <1>5
  <2>2. pc[t] \in Gated /\ pc[u] \in Gated
    BY <1>2, <2>1 DEF Gated, Creating
  <2>3. QED
    BY <2>1, <2>2, OneGateHolder
<1>6. QED
  BY <1>3, <1>4, <1>5 DEF Current

THEOREM BackendPerModel == Spec => []OneBackendPerModel
<1>1. QED
  BY InvOneBackend, LifecycleInvariance, PTL

(* A load takes a READY model out of its slot to install its successor, to *)
(* honour a forced reload of it, or to clear the NPU for the load; never   *)
(* because the load failed.                                                *)
THEOREM LoadDisplacement == Spec => ReadyGivesWay
<1> DEFINE Excused(t, c) ==
      \/ pc[t] = "install" /\ c = req[t].component
      \/ /\ pc[t] = "admission" /\ c = req[t].component
         /\ req[t].force /\ desc[slot[c]].model = req[t].model
      \/ /\ pc[t] = "evict" /\ c # req[t].component
         /\ Framework(req[t]) = Npu /\ desc[slot[c]].framework = Npu
<1> DEFINE GivesWay ==
       \A t \in Threads, c \in Components :
         /\ pc[t] \in LoadPCs /\ pc'[t] # pc[t]
         /\ Ready(c) /\ slot'[c] # slot[c]
         => \/ pc[t] = "install" /\ c = req[t].component
            \/ /\ pc[t] = "admission" /\ c = req[t].component
               /\ req[t].force /\ desc[slot[c]].model = req[t].model
            \/ /\ pc[t] = "evict" /\ c # req[t].component
               /\ Framework(req[t]) = Npu /\ desc[slot[c]].framework = Npu
<1>1. LifecycleInv /\ [Next]_vars => [GivesWay]_vars
  <2> SUFFICES ASSUME LifecycleInv, Next, NEW t \in Threads, NEW c \in Components,
                      pc[t] \in LoadPCs, pc'[t] # pc[t], Ready(c), slot'[c] # slot[c]
               PROVE  Excused(t, c)
    OBVIOUS
  <2> USE DEF LifecycleInv, TypeOK, Goto, LoadPCs
  <2>1. PICK u \in Threads : Continue(u) \/ Start(u)
    BY DEF Next
  <2>2. \E p \in PCs : pc' = [pc EXCEPT ![u] = p] \/ pc' = pc
    BY <2>1 DEF Continue, Start, LoadStep, Admit, EvictRivals, RejectPlacement, CreateBackend,
       CreateFails, InstallLoaded, InstallFailed, ReleaseGate, Published, FinishTeardown,
       Drain, EndUse, BeginLoad, SubscriberLoads, BeginUnload, BeginReset, BeginUse,
       callVars, PCs
  <2>3. u = t
    BY <2>2
  <2>4. \/ Admit(t) \/ EvictRivals(t) \/ InstallLoaded(t) \/ InstallFailed(t)
    BY <2>1, <2>3 DEF Continue, Start, LoadStep, RejectPlacement, CreateBackend, MakeNew, Make,
       CreateFails, ReleaseGate, Published, FinishTeardown, Drain, EndUse, BeginLoad,
       SubscriberLoads, BeginUnload, BeginReset, BeginUse, callVars, storeVars
  <2>5. CASE Admit(t)
    BY <2>5 DEF Admit, Detach, storeVars, StoreInv, StoreTypeOK
  <2>6. CASE EvictRivals(t)
    BY <2>6 DEF EvictRivals, NpuRivals, Detach, storeVars, StoreInv, StoreTypeOK
  <2>7. CASE InstallLoaded(t)
    <3>1. desc[made[t]].component = req[t].component /\ Install(t) /\ pc[t] = "install"
      BY <2>7 DEF MadeForRequest, InstallLoaded, Install
    <3>2. QED
      BY <3>1 DEF Install, StoreInv, StoreTypeOK
  <2>8. CASE InstallFailed(t)
    <3>1. ~Preserved(t)
      BY <2>8 DEF InstallFailed, Discard
    <3>2. Install(t) /\ pc[t] = "failed"
      BY <2>8, <3>1 DEF InstallFailed
    <3>3. desc[made[t]].component = req[t].component
      BY <3>2 DEF MadeForRequest, Install
    <3>4. c # req[t].component
      BY <3>1, <3>2 DEF SlotFrozen, Preserved, Ready, Creating
    <3>5. QED
      BY <3>2, <3>3, <3>4 DEF Install, StoreInv, StoreTypeOK
  <2>9. QED
    BY <2>4, <2>5, <2>6, <2>7, <2>8
<1>2. QED
  BY <1>1, LifecycleInvariance, PTL DEF Spec, ReadyGivesWay

-----------------------------------------------------------------------------
(* The NPU.  When every request names an engine that serves its component, *)
(* the engine selected is the framework named, which is what the eviction  *)
(* of rivals goes by.                                                      *)
RequestsPinned ==
  /\ Npu \in Engines
  /\ \A r \in Requests : <<Framework(r), r.component>> \in Serves

LEMMA EngineNamed ==
  ASSUME RequestsPinned, NEW r \in Requests
  PROVE  EngineFor(r) = Framework(r)
<1>1. r.candidates \in Seq(Engines \cup {NoEngine}) /\ r.candidates # <<>>
  BY LifecycleAssumptions DEF Request
<1>2. 1 \in DOMAIN r.candidates /\ DOMAIN r.candidates \subseteq Nat
      /\ \A i \in DOMAIN r.candidates : 1 <= i
      /\ Framework(r) = r.candidates[1]
  BY <1>1 DEF Framework
<1>3. 1 \in Pinnable(r) /\ \A i \in Pinnable(r) : i \in Nat /\ 1 <= i
  BY <1>2 DEF Pinnable, RequestsPinned
<1>4. (CHOOSE i \in Pinnable(r) : \A j \in Pinnable(r) : i <= j) = 1
  BY <1>3
<1>5. QED
  BY <1>2, <1>3, <1>4 DEF EngineFor

(* An installed NPU model says so in the field the eviction reads, and so  *)
(* does the one in a load's hands.                                         *)
NpuDescribed ==
  /\ \A c \in Components : slot[c] # NoEntry /\ desc[slot[c]].engine = Npu =>
       desc[slot[c]].framework = Npu
  /\ \A t \in Threads : made[t] # NoEntry /\ desc[made[t]].engine = Npu =>
       desc[made[t]].framework = Npu /\ Framework(req[t]) = Npu

(* A load for the NPU that is past its eviction finds the NPU empty: only  *)
(* the gate's holder installs.                                             *)
NpuCleared ==
  \A t \in Threads :
    pc[t] \in {"select", "failed", "install"} /\ Framework(req[t]) = Npu =>
      \A d \in Components \ {req[t].component} :
        slot[d] # NoEntry => desc[slot[d]].engine # Npu

NpuInv == LifecycleInv /\ NpuDescribed /\ NpuCleared /\ OneNpuSlot

(* Steps that install nothing, build nothing and clear nothing for the NPU. *)
LEMMA NpuKept ==
  ASSUME NpuInv, LifecycleInv',
         \A c \in Components : slot'[c] # NoEntry =>
           slot'[c] = slot[c] /\ desc'[slot[c]] = desc[slot[c]],
         \A t \in Threads : made'[t] # NoEntry =>
           made'[t] = made[t] /\ desc'[made[t]] = desc[made[t]] /\ req'[t] = req[t],
         \A t \in Threads : pc'[t] \in {"select", "failed", "install"} =>
           pc[t] \in {"select", "failed", "install"} /\ req'[t] = req[t]
  PROVE  NpuInv'
<1>1. NpuDescribed'
  BY DEF NpuInv, NpuDescribed
<1>2. NpuCleared'
  BY DEF NpuInv, NpuCleared
<1>3. OneNpuSlot'
  BY DEF NpuInv, OneNpuSlot
<1>4. QED
  BY <1>1, <1>2, <1>3 DEF NpuInv

(* Initially nothing is installed and no load runs.                        *)
LEMMA NpuInit == Init => NpuInv
<1> SUFFICES ASSUME Init PROVE NpuInv
  OBVIOUS
<1>1. LifecycleInv
  BY InitLifecycleInv
<1>2. QED
  BY <1>1 DEF NpuInv, NpuDescribed, NpuCleared, OneNpuSlot, Init, StoreInit, CallInit

(* A step that changes no description.                                     *)
LEMMA NpuShrinks ==
  ASSUME NpuInv, LifecycleInv', NEW t \in Threads,
         \/ BeginLoad(t) \/ SubscriberLoads(t) \/ Admit(t) \/ RejectPlacement(t)
         \/ ReleaseGate(t) \/ Published(t) \/ FinishTeardown(t)
         \/ BeginUnload(t) \/ BeginReset(t) \/ BeginUse(t) \/ EndUse(t)
  PROVE  NpuInv'
<1> USE DEF NpuInv, LifecycleInv, TypeOK, StoreTypeOK, Goto
<1>1. /\ desc' = desc /\ made' = made
      /\ \A c \in Components : slot'[c] # NoEntry => slot'[c] = slot[c]
  BY DEF BeginLoad, SubscriberLoads, Admit, RejectPlacement, ReleaseGate, Published, FinishTeardown,
     BeginUnload, BeginReset, BeginUse, EndUse, Detach, AcquireRef, ReleaseRef, storeVars
<1>2. \E p \in PCs \ {"select", "failed", "install"} : pc' = [pc EXCEPT ![t] = p]
  BY DEF BeginLoad, SubscriberLoads, Admit, RejectPlacement, ReleaseGate, Published, FinishTeardown,
     BeginUnload, BeginReset, BeginUse, EndUse, PCs
<1>3. \A u \in Threads : u # t => req'[u] = req[u] /\ pc'[u] = pc[u]
  BY <1>2 DEF BeginLoad, SubscriberLoads, Admit, RejectPlacement, ReleaseGate, Published,
     FinishTeardown, BeginUnload, BeginReset, BeginUse, EndUse
<1>4. made[t] = NoEntry
  <2>1. pc[t] \notin {"failed", "install"}
    BY DEF BeginLoad, SubscriberLoads, Admit, RejectPlacement, ReleaseGate, Published,
       FinishTeardown, BeginUnload, BeginReset, BeginUse, EndUse
  <2>2. QED
    BY <2>1 DEF MadeForRequest
<1>5. QED
  BY <1>1, <1>2, <1>3, <1>4, NpuKept

(* The eviction leaves no NPU model in another component's slot.           *)
LEMMA NpuEvicts ==
  ASSUME NpuInv, LifecycleInv', NEW t \in Threads, EvictRivals(t)
  PROVE  NpuInv'
<1> USE DEF NpuInv, LifecycleInv, TypeOK, StoreTypeOK, Goto
<1>1. /\ desc' = desc /\ made' = made /\ req' = req
      /\ pc[t] = "evict" /\ pc' = [pc EXCEPT ![t] = "select"]
      /\ \A c \in Components : slot'[c] # NoEntry => slot'[c] = slot[c]
  BY DEF EvictRivals, Detach, storeVars
<1>2. NpuDescribed'
  BY <1>1 DEF NpuDescribed
<1>3. OneNpuSlot'
  BY <1>1 DEF OneNpuSlot
<1>4. ASSUME NEW u \in Threads, pc'[u] \in {"select", "failed", "install"},
             Framework(req[u]) = Npu,
             NEW d \in Components \ {req[u].component}, slot'[d] # NoEntry
      PROVE  desc[slot[d]].engine # Npu
  <2>1. CASE u # t
    BY <1>1, <1>4, <2>1 DEF NpuCleared
  <2>2. CASE u = t
    <3>1. Detach(t, NpuRivals(req[t].component), TRUE)
      BY <1>4, <2>2 DEF EvictRivals
    <3>2. d \notin NpuRivals(req[t].component)
      BY <1>4, <3>1 DEF Detach
    <3>3. QED
      BY <1>1, <1>4, <2>2, <3>2 DEF NpuRivals, NpuDescribed
  <2>3. QED
    BY <2>1, <2>2
<1>5. NpuCleared'
  BY <1>1, <1>4 DEF NpuCleared
<1>6. QED
  BY <1>2, <1>3, <1>5

(* A new entry is in nobody's way, and says which engine it runs on: a     *)
(* request is served by the framework it names.                            *)
LEMMA NpuCreates ==
  ASSUME RequestsPinned, NpuInv, LifecycleInv', NEW t \in Threads,
         CreateBackend(t) \/ CreateFails(t)
  PROVE  NpuInv'
<1> USE StoreAssumptions DEF NpuInv, LifecycleInv, TypeOK, StoreTypeOK, Goto
<1>1. pc[t] = "select" /\ req[t] \in Requests /\ req' = req
      /\ \E p \in {"failed", "install"} : pc' = [pc EXCEPT ![t] = p]
  BY DEF CreateBackend, CreateFails, RequestKnown, Creating
<1>2. PICK e \in Entries, f \in Engines \cup {NoEngine}, g \in Engines \cup {NoEngine},
           st \in {"READY", "ERROR"} :
        /\ Make(t, e, Description(req[t], f, g), st)
        /\ g = Npu => f = Npu /\ Framework(req[t]) = Npu
  <2>1. CASE CreateBackend(t)
    <3>1. EngineFor(req[t]) = Framework(req[t])
      BY <1>1, EngineNamed
    <3>2. EngineFor(req[t]) \in Engines
      BY <2>1 DEF CreateBackend
    <3>3. \E e \in Entries :
            Make(t, e, Description(req[t], EngineFor(req[t]), EngineFor(req[t])), "READY")
      BY <2>1 DEF CreateBackend, MakeNew
    <3>4. QED
      BY <3>1, <3>2, <3>3
  <2>2. CASE CreateFails(t)
    <3>1. Framework(req[t]) \in Engines \cup {NoEngine} /\ NoEngine # Npu
      BY <1>1, RequestFields DEF RequestsPinned
    <3>2. \E e \in Entries :
            Make(t, e, Description(req[t], Framework(req[t]), NoEngine), "ERROR")
      BY <2>2 DEF CreateFails, MakeNew
    <3>3. QED
      BY <3>1, <3>2
  <2>3. QED
    BY <2>1, <2>2
<1>3. /\ \A c \in Components : slot[c] # e
      /\ \A u \in Threads : made[u] # e
  BY <1>2 DEF Make, Fresh, Reachable
<1>4. /\ slot' = slot
      /\ made' = [made EXCEPT ![t] = e]
      /\ desc' = [desc EXCEPT ![e] = Description(req[t], f, g)]
  BY <1>2 DEF Make
<1>5. \A c \in Components : slot[c] # NoEntry =>
        slot[c] \in Entries /\ desc'[slot[c]] = desc[slot[c]]
  BY <1>3, <1>4
<1>6. NpuDescribed'
  <2>1. ASSUME NEW u \in Threads, made'[u] # NoEntry, desc'[made'[u]].engine = Npu
        PROVE  desc'[made'[u]].framework = Npu /\ Framework(req'[u]) = Npu
    <3>1. CASE u = t
      <4>1. made'[t] = e /\ desc'[e] = Description(req[t], f, g)
        BY <1>4
      <4>2. QED
        BY <1>1, <1>2, <2>1, <3>1, <4>1 DEF Description
    <3>2. CASE u # t
      <4>1. made'[u] = made[u] /\ made[u] \in Entries /\ desc'[made[u]] = desc[made[u]]
        BY <1>3, <1>4, <2>1, <3>2
      <4>2. QED
        BY <1>1, <2>1, <3>2, <4>1 DEF NpuDescribed
    <3>3. QED
      BY <3>1, <3>2
  <2>2. QED
    BY <1>4, <1>5, <2>1 DEF NpuDescribed
<1>7. NpuCleared'
  BY <1>1, <1>4, <1>5 DEF NpuCleared
<1>8. OneNpuSlot'
  BY <1>4, <1>5 DEF OneNpuSlot
<1>9. QED
  BY <1>6, <1>7, <1>8

(* Installing: a model of the NPU engine comes from a load that has found  *)
(* the NPU empty, and no other load is past its eviction.                  *)
LEMMA NpuInstalls ==
  ASSUME NpuInv, LifecycleInv', NEW t \in Threads, InstallLoaded(t) \/ InstallFailed(t)
  PROVE  NpuInv'
<1> USE StoreAssumptions DEF NpuInv, LifecycleInv, TypeOK, StoreTypeOK, Goto
<1>1. /\ pc[t] \in {"failed", "install"} /\ pc' = [pc EXCEPT ![t] = "release"]
      /\ req' = req /\ (Install(t) \/ Discard(t))
  BY DEF InstallLoaded, InstallFailed
<1>2. \A u \in Threads : pc'[u] \notin {"select", "failed", "install"}
  <2>1. \A u \in Threads : pc[u] \in Gated => u = t
    BY <1>1, OneGateHolder DEF Gated, Creating
  <2>2. QED
    BY <1>1, <2>1 DEF Gated, Creating
<1>3. NpuCleared'
  BY <1>2 DEF NpuCleared
<1>4. CASE Install(t)
  <2> DEFINE e == made[t]
             c == req[t].component
  <2>1. e # NoEntry /\ e \in Entries /\ desc[e].component = c
    BY <1>4 DEF Install, MadeForRequest
  <2>2. slot' = [slot EXCEPT ![c] = e] /\ made' = [made EXCEPT ![t] = NoEntry] /\ desc' = desc
    BY <1>4, <2>1 DEF Install
  <2>3. NpuDescribed'
    <3>1. \A d \in Components : slot'[d] = slot[d] \/ slot'[d] = e
      BY <2>2
    <3>2. \A u \in Threads : made'[u] # NoEntry => made'[u] = made[u]
      BY <2>2
    <3>3. desc[e].engine = Npu => desc[e].framework = Npu
      BY <2>1 DEF NpuDescribed
    <3>4. \A d \in Components :
            slot'[d] # NoEntry /\ desc[slot'[d]].engine = Npu => desc[slot'[d]].framework = Npu
      BY <3>1, <3>3 DEF NpuDescribed
    <3>5. QED
      BY <1>1, <2>2, <3>2, <3>4 DEF NpuDescribed
  <2>4. desc[e].engine = Npu => \A d \in Components \ {c} :
          slot[d] # NoEntry => desc[slot[d]].engine # Npu
    BY <1>1, <2>1 DEF NpuDescribed, NpuCleared
  <2>5. OneNpuSlot'
    BY <2>1, <2>2, <2>4 DEF OneNpuSlot
  <2>6. QED
    BY <1>3, <2>3, <2>5
<1>5. CASE Discard(t)
  <2> DEFINE e == made[t]
  <2>1. e \in Entries /\ desc' = [desc EXCEPT ![e] = NoDesc]
        /\ made' = [made EXCEPT ![t] = NoEntry] /\ slot' = slot
    BY <1>5 DEF Discard
  <2>2. /\ \A d \in Components : slot[d] # e
        /\ \A u \in Threads \ {t} : made[u] # NoEntry => made[u] # e
    BY <2>1 DEF StoreInv, SingleHolder, HeldBy
  <2>3. /\ \A d \in Components : slot[d] # NoEntry => desc'[slot[d]] = desc[slot[d]]
        /\ \A u \in Threads : made'[u] # NoEntry =>
             made'[u] = made[u] /\ desc'[made[u]] = desc[made[u]]
    BY <2>1, <2>2
  <2>4. \A d \in Components : slot'[d] # NoEntry =>
          slot'[d] = slot[d] /\ desc'[slot[d]] = desc[slot[d]]
    BY <2>1, <2>3
  <2>5. \A u \in Threads : made'[u] # NoEntry =>
          made'[u] = made[u] /\ desc'[made[u]] = desc[made[u]] /\ req'[u] = req[u]
    BY <1>1, <2>3
  <2>6. QED
    BY ONLY NpuInv, LifecycleInv', <1>2, <2>4, <2>5, NpuKept
<1>6. QED
  BY <1>1, <1>4, <1>5

(* Draining touches only what is in no slot and in no load's hands.        *)
LEMMA NpuDrains ==
  ASSUME NpuInv, LifecycleInv', NEW t \in Threads, Drain(t)
  PROVE  NpuInv'
<1> USE StoreAssumptions DEF NpuInv, LifecycleInv, TypeOK, StoreTypeOK
<1>1. slot' = slot /\ made' = made /\ pc' = pc /\ req' = req
  BY DEF Drain, DrainFence, DestroyBackend, callVars
<1>2. /\ \A d \in Components : slot[d] # NoEntry => desc'[slot[d]] = desc[slot[d]]
      /\ \A u \in Threads : made[u] # NoEntry => desc'[made[u]] = desc[made[u]]
  <2>1. CASE desc' = desc
    BY <2>1
  <2>2. CASE DestroyBackend(t)
    <3>1. dying[t] # NoEntry
      BY <2>2 DEF DestroyBackend
    <3>2. \A d \in Components : slot[d] # dying[t]
      BY <3>1 DEF StoreInv, SingleHolder, HeldBy
    <3>3. \A u \in Threads : made[u] # NoEntry => made[u] # dying[t]
      BY <3>1 DEF StoreInv, SingleHolder, HeldBy
    <3>4. \A e \in Entries : e # dying[t] => desc'[e] = desc[e]
      BY <2>2 DEF DestroyBackend
    <3>5. QED
      BY <3>2, <3>3, <3>4
  <2>3. QED
    BY <2>1, <2>2 DEF Drain, DrainFence
<1>3. QED
  BY <1>1, <1>2, NpuKept

LEMMA NpuInvStep ==
  ASSUME RequestsPinned, NpuInv, LifecycleInv', [Next]_vars
  PROVE  NpuInv'
<1>1. CASE UNCHANGED vars
  BY <1>1, NpuKept DEF vars, storeVars, callVars
<1>2. CASE Next
  <2>1. PICK t \in Threads : Continue(t) \/ Start(t)
    BY <1>2 DEF Next
  <2>2. CASE \/ BeginLoad(t) \/ SubscriberLoads(t) \/ Admit(t) \/ RejectPlacement(t)
             \/ ReleaseGate(t) \/ Published(t) \/ FinishTeardown(t)
             \/ BeginUnload(t) \/ BeginReset(t) \/ BeginUse(t) \/ EndUse(t)
    BY <2>2, NpuShrinks
  <2>3. CASE EvictRivals(t)
    BY <2>3, NpuEvicts
  <2>4. CASE CreateBackend(t) \/ CreateFails(t)
    BY <2>4, NpuCreates
  <2>5. CASE InstallLoaded(t) \/ InstallFailed(t)
    BY <2>5, NpuInstalls
  <2>6. CASE Drain(t)
    BY <2>6, NpuDrains
  <2>7. QED
    BY <2>1, <2>2, <2>3, <2>4, <2>5, <2>6 DEF Continue, Start, LoadStep
<1>3. QED
  BY <1>1, <1>2

(* When every request names an engine that serves its component, one       *)
(* component at a time has a model of the NPU engine installed: the        *)
(* eviction and the install are under one hold of the gate, and unloads    *)
(* and resets, which pass no gate, only take models out.                   *)
THEOREM OneNpuModel == RequestsPinned => (Spec => []OneNpuSlot)
<1> SUFFICES ASSUME RequestsPinned PROVE Spec => []OneNpuSlot
  OBVIOUS
<1>1. Init => NpuInv
  BY NpuInit
<1>2. LifecycleInv' /\ NpuInv /\ [Next]_vars => NpuInv'
  BY NpuInvStep
<1>3. NpuInv => OneNpuSlot
  BY DEF NpuInv
<1>4. Spec => []LifecycleInv
  BY LifecycleInvariance
<1>5. QED
  BY <1>1, <1>2, <1>3, <1>4, PTL DEF Spec

-----------------------------------------------------------------------------
(* Every request for the NPU alone gets the NPU or nothing.                *)
PlacementsHonoured ==
  \A r \in Requests : r.npuOnly => EngineFor(r) \in {NoEngine, Npu}

(* Nobody who holds the gate is where it would ask for it again.           *)
HolderInside == \A t \in Threads : gate = t => pc[t] \in Gated \ {"reject"}

LEMMA HolderInsideStep ==
  ASSUME PlacementsHonoured, LifecycleInv, HolderInside, [Next]_vars
  PROVE  HolderInside'
<1> USE LifecycleAssumptions DEF LifecycleInv, TypeOK, HolderInside, Gated, Creating, Goto
<1>1. CASE UNCHANGED vars
  BY <1>1 DEF vars, callVars
<1>2. CASE Next
  <2>1. PICK t \in Threads : Continue(t) \/ Start(t)
    BY <1>2 DEF Next
  <2>2. ~RejectPlacement(t)
    BY DEF RejectPlacement, RequestKnown, PlacementsHonoured
  <2>3. CASE \/ Admit(t) \/ EvictRivals(t) \/ CreateBackend(t) \/ CreateFails(t)
             \/ InstallLoaded(t) \/ InstallFailed(t)
    BY <2>3 DEF Admit, EvictRivals, CreateBackend, CreateFails, InstallLoaded, InstallFailed
  <2>4. CASE ReleaseGate(t) \/ Published(t)
    BY <2>4 DEF ReleaseGate, Published
  <2>5. CASE \/ BeginLoad(t) \/ SubscriberLoads(t) \/ FinishTeardown(t) \/ BeginUnload(t)
             \/ BeginReset(t) \/ BeginUse(t) \/ EndUse(t)
    BY <2>5 DEF BeginLoad, SubscriberLoads, FinishTeardown, BeginUnload, BeginReset, BeginUse,
       EndUse
  <2>6. CASE Drain(t)
    BY <2>6 DEF Drain, callVars
  <2>7. QED
    BY <2>1, <2>2, <2>3, <2>4, <2>5, <2>6 DEF Continue, Start, LoadStep
<1>3. QED
  BY <1>1, <1>2

(* Where no load is rejected for its placement, a subscriber that loads    *)
(* from inside an event never asks for the gate its own call still holds:  *)
(* every other event is published after the gate is open.                  *)
THEOREM NoSelfWait == PlacementsHonoured => (Spec => []NoSelfDeadlock)
<1> SUFFICES ASSUME PlacementsHonoured PROVE Spec => []NoSelfDeadlock
  OBVIOUS
<1>1. Init => HolderInside
  BY LifecycleAssumptions DEF Init, CallInit, HolderInside
<1>2. LifecycleInv /\ HolderInside /\ [Next]_vars => HolderInside'
  BY HolderInsideStep
<1>3. HolderInside => NoSelfDeadlock
  BY DEF HolderInside, NoSelfDeadlock, Gated, Creating
<1>4. Spec => []LifecycleInv
  BY LifecycleInvariance
<1>5. QED
  BY <1>1, <1>2, <1>3, <1>4, PTL DEF Spec
=============================================================================
