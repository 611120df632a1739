----------------------- MODULE LifecycleSystem_proofs -----------------------
(***************************************************************************)
(* The per-handle facade, alone and beside the registry API, for every     *)
(* number of threads, handles, entries, models and engines.                *)
(*                                                                         *)
(* Alone, and with one handle for each component, the facade keeps the     *)
(* store's contract and its own books.  Beside the registry it may drop a  *)
(* reference that is not its caller's, but no entry ever loses its owner.  *)
(***************************************************************************)
EXTENDS LifecycleSystem, ModelLifecycle_proofs

(* What the facade's theorems assume: no two handles drive one component.   *)
(* Without it a handle's single `pinned` field loses a pin (run            *)
(* system_lost_pin does so with the registry API beside the facade).       *)
OneHandleEach == \A h, k \in Handles : ComponentOf[h] = ComponentOf[k] => h = k

(* A thread in a load or an unload holds its handle's mutex.               *)
Locks ==
  \A t \in Threads :
    /\ fpc[t] \in {"evict", "create", "install", "done"} =>
         handle[t] \in Handles /\ mutex[handle[t]] = t
    /\ fpc[t] = "using" => handle[t] \in Handles
    /\ fpc[t] \in {"evict", "create"} => path[t] \in Models

(* What the call of a thread has in its hands, and the slot it has emptied. *)
Places ==
  \A t \in Threads :
    /\ fpc[t] \in {"idle", "using", "evict"} => Drained(t) /\ made[t] = NoEntry
    /\ fpc[t] = "create" => made[t] = NoEntry /\ slot[ComponentOf[handle[t]]] = NoEntry
    /\ fpc[t] = "install" =>
         Drained(t) /\ made[t] # NoEntry /\ slot[ComponentOf[handle[t]]] = NoEntry
    /\ fpc[t] = "done" =>
         made[t] = NoEntry /\ (Drained(t) \/ slot[ComponentOf[handle[t]]] = NoEntry)
    /\ pin[t] # NoEntry <=> fpc[t] = "using"

(* It is one entry at most, and one of its handle's component.             *)
HeldOne ==
  \A t \in Threads :
    /\ \A e, f \in HeldBy(t) : e = f
    /\ \A e \in HeldBy(t) : desc[e].component = ComponentOf[handle[t]]

(* A user's entry is one of its handle's component.                        *)
UsersOf ==
  \A t \in Threads : fpc[t] = "using" => desc[pin[t]].component = ComponentOf[handle[t]]

FacadeInv == StoreInv /\ FacadeTypeOK /\ Locks /\ Places /\ HeldOne /\ UsersOf /\ PinBookkeeping

Users(h) == {t \in Threads : fpc[t] = "using" /\ handle[t] = h}

-----------------------------------------------------------------------------
(* The users of a handle can be counted.                                   *)
LEMMA UsersFinite ==
  ASSUME NEW h
  PROVE  IsFiniteSet(Users(h)) /\ Cardinality(Users(h)) \in Nat
<1>1. Users(h) \in SUBSET Threads
  BY DEF Users
<1>2. IsFiniteSet(Users(h))
  BY <1>1, StoreAssumptions, FS_Subset
<1>3. QED
  BY <1>2, FS_CardinalityType

(* Two threads in a load or an unload are on two components.               *)
LEMMA Apart ==
  ASSUME OneHandleEach, FacadeInv, NEW t \in Threads, NEW u \in Threads, t # u,
         fpc[t] \in {"evict", "create", "install", "done"},
         fpc[u] \in {"evict", "create", "install", "done"}
  PROVE  ComponentOf[handle[t]] # ComponentOf[handle[u]]
  BY DEF OneHandleEach, FacadeInv, Locks

(* Who holds an entry is in a load or an unload that has locked its handle. *)
LEMMA Holder ==
  ASSUME FacadeInv, NEW t \in Threads, NEW e \in HeldBy(t)
  PROVE  /\ fpc[t] \in {"create", "install", "done"}
         /\ slot[ComponentOf[handle[t]]] = NoEntry
         /\ e \in Entries
<1>1. fpc[t] \in FacadePCs
  BY DEF FacadeInv, FacadeTypeOK
<1>2. ~(Drained(t) /\ made[t] = NoEntry)
  BY DEF HeldBy, Drained
<1>3. fpc[t] \in {"create", "install", "done"}
  BY <1>1, <1>2 DEF FacadeInv, Places, FacadePCs
<1>4. slot[ComponentOf[handle[t]]] = NoEntry
  BY <1>2, <1>3 DEF FacadeInv, Places
<1>5. e \in Entries
  BY DEF HeldBy, FacadeInv, StoreInv, StoreTypeOK
<1>6. QED
  BY <1>3, <1>4, <1>5

LEMMA OneBackend ==
  ASSUME OneHandleEach, FacadeInv
  PROVE  OneBackendPerComponent
<1> SUFFICES ASSUME NEW e \in Entries, NEW f \in Entries, backend[e], backend[f],
                    desc[e].component = desc[f].component
             PROVE  e = f
  BY DEF OneBackendPerComponent
<1>1. /\ (\E c \in Components : slot[c] = e) \/ (\E t \in Threads : e \in HeldBy(t))
      /\ (\E c \in Components : slot[c] = f) \/ (\E t \in Threads : f \in HeldBy(t))
  BY DEF FacadeInv, StoreInv, NoLeakedBackend
<1>2. \A c \in Components : \A x \in Entries : slot[c] = x => desc[x].component = c
  BY StoreAssumptions DEF FacadeInv, StoreInv, SlotsDescribed
<1>3. \A t \in Threads : \A x \in Entries : x \in HeldBy(t) =>
        /\ desc[x].component = ComponentOf[handle[t]]
        /\ slot[ComponentOf[handle[t]]] = NoEntry
        /\ fpc[t] \in {"create", "install", "done"}
  BY Holder DEF FacadeInv, HeldOne
<1>4. ASSUME NEW t \in Threads, NEW u \in Threads, e \in HeldBy(t), f \in HeldBy(u)
      PROVE  e = f
  <2>1. t = u
    BY <1>3, <1>4, Apart
  <2>2. QED
    BY <1>4, <2>1 DEF FacadeInv, HeldOne
<1>5. QED
  BY <1>1, <1>2, <1>3, <1>4, StoreAssumptions

-----------------------------------------------------------------------------
(* Every step of the facade is a step of the store, or leaves it alone; a  *)
(* release is one as long as the handle remembers its caller's entry.      *)
LEMMA UserPinned ==
  ASSUME FacadeInv, NEW t \in Threads, fpc[t] = "using"
  PROVE  /\ handle[t] \in Handles
         /\ pinned[handle[t]] = pin[t]
         /\ pin[t] \in Entries
         /\ pinDepth[handle[t]] = Cardinality(Users(handle[t]))
         /\ pinDepth[handle[t]] > 0
<1>1. handle[t] \in Handles
  BY DEF FacadeInv, Locks
<1>2. t \in Users(handle[t])
  BY DEF Users
<1>3. pinDepth[handle[t]] = Cardinality(Users(handle[t])) /\ pin[t] = pinned[handle[t]]
  BY <1>1, <1>2 DEF FacadeInv, PinBookkeeping, Users
<1>4. Cardinality(Users(handle[t])) # 0
  BY <1>2, UsersFinite, FS_EmptySet
<1>5. pin[t] \in Entries
  BY DEF FacadeInv, Places, StoreInv, StoreTypeOK
<1>6. QED
  BY <1>1, <1>3, <1>4, <1>5, UsersFinite

LEMMA ReleasesItsPin ==
  ASSUME FacadeInv, NEW t \in Threads, ReleaseService(t)
  PROVE  /\ ReleaseRef(t)
         /\ pinDepth' = [pinDepth EXCEPT ![handle[t]] = @ - 1]
         /\ pinned' = [pinned EXCEPT ![handle[t]] = IF pinDepth[handle[t]] = 1 THEN NoEntry ELSE @]
<1>1. fpc[t] = "using"
  BY DEF ReleaseService, FacadeGoto
<1>2. pinned[handle[t]] = pin[t] /\ pin[t] \in Entries /\ pinDepth[handle[t]] > 0
  BY <1>1, UserPinned
<1>3. pinned[handle[t]] # NoEntry
  BY <1>2, StoreAssumptions
<1>4. QED
  BY <1>2, <1>3 DEF ReleaseService, ReleaseRef

HandleKnown ==
  \A t \in Threads :
    /\ fpc[t] \in {"evict", "create", "install", "done", "using"} => handle[t] \in Handles
    /\ fpc[t] \in {"evict", "create"} => path[t] \in Models

LEMMA HandleStepsStore ==
  ASSUME HandleKnown, NEW t \in Threads, FacadeStep(t)
  PROVE  StoreStep(t) \/ UNCHANGED storeVars \/ ReleaseService(t)
<1>1. CASE FacadeEvict(t)
  <2>1. ComponentOf[handle[t]] \in Components
    BY <1>1, FacadeAssumptions DEF FacadeEvict, FacadeGoto, HandleKnown
  <2>2. {ComponentOf[handle[t]]} \in SUBSET Components /\ Detach(t, {ComponentOf[handle[t]]}, FALSE)
    BY <1>1, <2>1 DEF FacadeEvict
  <2>3. QED
    BY <2>2, Zenon DEF StoreStep
<1>2. CASE FacadeCreate(t)
  <2>1. /\ handle[t] \in Handles /\ path[t] \in Models /\ ComponentOf[handle[t]] \in Components
    BY <1>2, FacadeAssumptions DEF FacadeCreate, FacadeGoto, HandleKnown
  <2>2. PICK e \in Entries, g \in FacadeEngines \cup {NoEngine}, st \in {"READY", "ERROR"} :
          Make(t, e, [model |-> path[t], component |-> ComponentOf[handle[t]],
                      framework |-> NoEngine, engine |-> g, owner |-> handle[t]], st)
    BY <1>2 DEF FacadeCreate
  <2>3. [model |-> path[t], component |-> ComponentOf[handle[t]], framework |-> NoEngine,
         engine |-> g, owner |-> handle[t]] \in Descriptor
    BY <2>1, FacadeAssumptions DEF Descriptor
  <2>4. QED
    BY <2>2, <2>3 DEF StoreStep
<1>3. CASE FacadeInstall(t)
  BY <1>3 DEF FacadeInstall, StoreStep
<1>4. CASE FacadeReturn(t)
  BY <1>4 DEF FacadeReturn
<1>5. CASE FacadeDrain(t)
  BY <1>5 DEF FacadeDrain, StoreStep
<1>6. CASE ReleaseService(t)
  BY <1>6
<1>7. ASSUME NEW h \in Handles,
             (\E m \in Models : FacadeLoad(t, h, m)) \/ FacadeUnload(t, h) \/ AcquireService(t, h)
      PROVE  StoreStep(t) \/ UNCHANGED storeVars
  <2>1. ComponentOf[h] \in Components
    BY FacadeAssumptions
  <2>2. CASE \E m \in Models : FacadeLoad(t, h, m)
    BY <2>2 DEF FacadeLoad
  <2>3. CASE FacadeUnload(t, h)
    <3>1. {ComponentOf[h]} \in SUBSET Components /\ Detach(t, {ComponentOf[h]}, FALSE)
      BY <2>1, <2>3 DEF FacadeUnload
    <3>2. QED
      BY <3>1, Zenon DEF StoreStep
  <2>4. CASE AcquireService(t, h)
    BY <2>1, <2>4 DEF AcquireService, StoreStep
  <2>5. QED
    BY <1>7, <2>2, <2>3, <2>4
<1>8. QED
  BY <1>1, <1>2, <1>3, <1>4, <1>5, <1>6, <1>7 DEF FacadeStep, FacadeContinue, FacadeStart

LEMMA FacadeStepsStore ==
  ASSUME FacadeInv, NEW t \in Threads, FacadeStep(t)
  PROVE  StoreStep(t) \/ UNCHANGED storeVars
<1>1. HandleKnown
  BY DEF FacadeInv, Locks, HandleKnown
<1>2. CASE ReleaseService(t)
  BY <1>2, ReleasesItsPin DEF StoreStep
<1>3. QED
  BY <1>1, <1>2, HandleStepsStore

LEMMA StoreKept ==
  ASSUME FacadeInv, NEW t \in Threads, FacadeStep(t)
  PROVE  StoreInv'
<1>1. [StoreNext]_storeVars
  BY FacadeStepsStore DEF StoreNext
<1>2. QED
  BY <1>1, StoreInvStep DEF FacadeInv

(* The books are kept by a step that moves no user and no pin.             *)
LEMMA BooksKept ==
  ASSUME FacadeInv, NEW t \in Threads, fpc[t] # "using",
         fpc' = [fpc EXCEPT ![t] = fpc'[t]], fpc'[t] # "using",
         \A u \in Threads : u # t => handle'[u] = handle[u],
         UNCHANGED <<pin, pinned, pinDepth>>
  PROVE  PinBookkeeping'
<1>1. \A h \in Handles : {u \in Threads : fpc'[u] = "using" /\ handle'[u] = h} = Users(h)
  BY DEF Users, FacadeInv, FacadeTypeOK
<1>2. QED
  BY <1>1 DEF FacadeInv, PinBookkeeping, Users

-----------------------------------------------------------------------------
(* The steps, one lemma each; StoreInv' comes from StoreKept.              *)
LEMMA FacadeLoadStep ==
  ASSUME OneHandleEach, FacadeInv, StoreInv', NEW t \in Threads, NEW h \in Handles,
         NEW m \in Models, FacadeLoad(t, h, m)
  PROVE  FacadeInv'
<1> USE FacadeAssumptions DEF FacadeInv, FacadeLoad, FacadeGoto
<1>1. FacadeTypeOK'
  BY DEF FacadeTypeOK, FacadePCs, StoreInv
<1>2. Locks'
  BY DEF Locks, FacadeTypeOK
<1>3. Places' /\ UsersOf'
  BY DEF Places, Drained, UsersOf, FacadeTypeOK, storeVars
<1>4. HeldBy(t) = {}
  BY DEF Places, Drained, HeldBy
<1>5. HeldOne'
  <2>1. \A u \in Threads : HeldBy(u)' = HeldBy(u) /\ (u # t => handle'[u] = handle[u])
    BY DEF HeldBy, FacadeTypeOK, storeVars
  <2>2. desc' = desc
    BY DEF storeVars
  <2>3. QED
    BY <1>4, <2>1, <2>2 DEF HeldOne
<1>6. PinBookkeeping'
  BY BooksKept DEF FacadeTypeOK, storeVars
<1>7. QED
  BY <1>1, <1>2, <1>3, <1>5, <1>6

LEMMA EvictStep ==
  ASSUME OneHandleEach, FacadeInv, StoreInv', NEW t \in Threads, FacadeEvict(t)
  PROVE  FacadeInv'
<1> DEFINE c == ComponentOf[handle[t]]
<1> USE FacadeAssumptions, StoreAssumptions DEF FacadeInv, FacadeEvict, FacadeGoto, Detach
<1>0. /\ c \in Components /\ fpc[t] = "evict" /\ fpc' = [fpc EXCEPT ![t] = "create"]
      /\ HeldBy(t) = {} /\ HeldBy(t)' = {slot[c]} \ {NoEntry}
      /\ \A u \in Threads : u # t => HeldBy(u)' = HeldBy(u)
  BY DEF Locks, Places, Drained, HeldBy, StoreInv, StoreTypeOK
<1>1. FacadeTypeOK'
  BY DEF FacadeTypeOK, FacadePCs, StoreInv
<1>2. Locks'
  BY DEF Locks, FacadeTypeOK
<1>3. Places' /\ UsersOf'
  <2>1. slot'[c] = NoEntry /\ \A d \in Components : slot[d] = NoEntry => slot'[d] = NoEntry
    BY <1>0
  <2>2. \A u \in Threads : u # t =>
          doomed'[u] = doomed[u] /\ dying'[u] = dying[u] /\ made'[u] = made[u]
    BY DEF StoreInv, StoreTypeOK
  <2>3. made'[t] = NoEntry
    BY <1>0 DEF Places
  <2>4. ASSUME NEW u \in Threads
        PROVE  /\ fpc'[u] \in {"idle", "using", "evict"} => Drained(u)' /\ made'[u] = NoEntry
               /\ fpc'[u] = "create" => made'[u] = NoEntry /\ slot'[ComponentOf[handle[u]]] = NoEntry
               /\ fpc'[u] = "install" =>
                    Drained(u)' /\ made'[u] # NoEntry /\ slot'[ComponentOf[handle[u]]] = NoEntry
               /\ fpc'[u] = "done" =>
                    made'[u] = NoEntry /\ (Drained(u)' \/ slot'[ComponentOf[handle[u]]] = NoEntry)
               /\ pin'[u] # NoEntry <=> fpc'[u] = "using"
    <3>1. CASE u = t
      BY <1>0, <2>1, <2>3, <3>1 DEF Places, FacadeTypeOK
    <3>2. CASE u # t
      <4>1. fpc'[u] = fpc[u] /\ (Drained(u)' <=> Drained(u))
        BY <2>2, <3>2 DEF FacadeTypeOK, Drained
      <4>2. fpc[u] \in {"create", "install", "done"} => ComponentOf[handle[u]] \in Components
        BY DEF Locks
      <4>3. QED
        BY <2>1, <2>2, <3>2, <4>1, <4>2 DEF Places
    <3>3. QED
      BY <3>1, <3>2
  <2>5. Places'
    BY <2>4 DEF Places
  <2>6. UsersOf'
    BY DEF UsersOf, FacadeTypeOK
  <2>7. QED
    BY <2>5, <2>6
<1>4. HeldOne'
  <2>1. slot[c] # NoEntry => desc[slot[c]].component = c
    BY <1>0 DEF StoreInv, SlotsDescribed
  <2>2. QED
    BY <1>0, <2>1 DEF HeldOne
<1>5. PinBookkeeping'
  BY BooksKept DEF FacadeTypeOK
<1>6. QED
  BY <1>1, <1>2, <1>3, <1>4, <1>5

LEMMA UnloadStep ==
  ASSUME OneHandleEach, FacadeInv, StoreInv', NEW t \in Threads, NEW h \in Handles,
         FacadeUnload(t, h)
  PROVE  FacadeInv'
<1> DEFINE c == ComponentOf[h]
<1> USE FacadeAssumptions, StoreAssumptions DEF FacadeInv, FacadeUnload, FacadeGoto, Detach
<1>0. /\ c \in Components /\ fpc[t] = "idle" /\ fpc' = [fpc EXCEPT ![t] = "done"]
      /\ handle' = [handle EXCEPT ![t] = h]
      /\ HeldBy(t) = {} /\ HeldBy(t)' = {slot[c]} \ {NoEntry}
      /\ \A u \in Threads : u # t => HeldBy(u)' = HeldBy(u)
  BY DEF Places, Drained, HeldBy, StoreInv, StoreTypeOK
<1>1. FacadeTypeOK'
  BY DEF FacadeTypeOK, FacadePCs, StoreInv
<1>2. Locks'
  BY DEF Locks, FacadeTypeOK
<1>3. Places' /\ UsersOf'
  <2>1. slot'[c] = NoEntry /\ \A d \in Components : slot[d] = NoEntry => slot'[d] = NoEntry
    BY <1>0
  <2>2. \A u \in Threads : u # t =>
          /\ doomed'[u] = doomed[u] /\ dying'[u] = dying[u] /\ made'[u] = made[u]
          /\ fpc'[u] = fpc[u] /\ handle'[u] = handle[u]
    BY DEF StoreInv, StoreTypeOK, FacadeTypeOK
  <2>3. made'[t] = NoEntry /\ handle'[t] = h /\ fpc'[t] = "done" /\ pin'[t] = NoEntry
    BY <1>0 DEF Places, FacadeTypeOK
  <2>4. ASSUME NEW u \in Threads
        PROVE  /\ fpc'[u] \in {"idle", "using", "evict"} => Drained(u)' /\ made'[u] = NoEntry
               /\ fpc'[u] = "create" => made'[u] = NoEntry /\ slot'[ComponentOf[handle'[u]]] = NoEntry
               /\ fpc'[u] = "install" =>
                    Drained(u)' /\ made'[u] # NoEntry /\ slot'[ComponentOf[handle'[u]]] = NoEntry
               /\ fpc'[u] = "done" =>
                    made'[u] = NoEntry /\ (Drained(u)' \/ slot'[ComponentOf[handle'[u]]] = NoEntry)
               /\ pin'[u] # NoEntry <=> fpc'[u] = "using"
    <3>1. CASE u = t
      BY <1>0, <2>1, <2>3, <3>1
    <3>2. CASE u # t
      <4>1. Drained(u)' <=> Drained(u)
        BY <2>2, <3>2 DEF Drained
      <4>2. fpc[u] \in {"create", "install", "done"} => ComponentOf[handle[u]] \in Components
        BY DEF Locks
      <4>3. QED
        BY <2>1, <2>2, <3>2, <4>1, <4>2 DEF Places
    <3>3. QED
      BY <3>1, <3>2
  <2>5. Places'
    BY <2>4 DEF Places
  <2>6. UsersOf'
    BY <2>2, <2>3 DEF UsersOf
  <2>7. QED
    BY <2>5, <2>6
<1>4. HeldOne'
  <2>1. slot[c] # NoEntry => desc[slot[c]].component = c
    BY <1>0 DEF StoreInv, SlotsDescribed
  <2>2. handle'[t] = h /\ \A u \in Threads : u # t => handle'[u] = handle[u]
    BY <1>0 DEF FacadeTypeOK
  <2>3. QED
    BY <1>0, <2>1, <2>2 DEF HeldOne
<1>5. PinBookkeeping'
  BY BooksKept DEF FacadeTypeOK
<1>6. QED
  BY <1>1, <1>2, <1>3, <1>4, <1>5

LEMMA CreateStep ==
  ASSUME OneHandleEach, FacadeInv, StoreInv', NEW t \in Threads, FacadeCreate(t)
  PROVE  FacadeInv'
<1> USE StoreAssumptions DEF FacadeInv
<1> DEFINE c == ComponentOf[handle[t]]
<1>1. PICK e \in Entries, g \in FacadeEngines \cup {NoEngine}, st \in {"READY", "ERROR"} :
        Make(t, e, [model |-> path[t], component |-> c, framework |-> NoEngine,
                    engine |-> g, owner |-> handle[t]], st)
  BY DEF FacadeCreate
<1> DEFINE d == [model |-> path[t], component |-> c, framework |-> NoEngine,
                 engine |-> g, owner |-> handle[t]]
<1>2. /\ fpc[t] = "create" /\ fpc' = [fpc EXCEPT ![t] = "install"] /\ Drained(t)
      /\ UNCHANGED <<mutex, pinned, pinDepth, handle, path>>
  BY DEF FacadeCreate, FacadeGoto
<1>3. /\ made[t] = NoEntry /\ made' = [made EXCEPT ![t] = e]
      /\ desc' = [desc EXCEPT ![e] = d]
      /\ UNCHANGED <<slot, doomed, dying, pin>>
      /\ \A u \in Threads : e \notin doomed[u] /\ made[u] # e /\ dying[u] # e /\ pin[u] # e
  BY <1>1 DEF Make, Fresh, Reachable
<1>4. FacadeTypeOK'
  BY <1>2 DEF FacadeTypeOK, FacadePCs, StoreInv
<1>5. Locks'
  BY <1>2 DEF Locks, FacadeTypeOK
<1>6. Places'
  BY <1>2, <1>3 DEF Places, Drained, FacadeTypeOK, StoreInv, StoreTypeOK
<1>7. UsersOf'
  <2>1. \A u \in Threads : fpc'[u] = "using" => fpc[u] = "using"
    BY <1>2 DEF FacadeTypeOK
  <2>2. \A u \in Threads : pin[u] \in Entries /\ pin[u] # e => desc'[pin[u]] = desc[pin[u]]
    BY <1>3 DEF StoreInv, StoreTypeOK
  <2>3. \A u \in Threads : fpc[u] = "using" => pin[u] \in Entries
    BY UserPinned
  <2>4. QED
    BY <1>2, <1>3, <2>1, <2>2, <2>3 DEF UsersOf
<1>8. HeldOne'
  <2>1. HeldBy(t)' = {e}
    BY <1>2, <1>3 DEF HeldBy, Drained, StoreInv, StoreTypeOK
  <2>2. \A u \in Threads : u # t => HeldBy(u)' = HeldBy(u) /\ e \notin HeldBy(u)
    BY <1>3 DEF HeldBy, StoreInv, StoreTypeOK
  <2>3. desc'[e] = d /\ \A x \in Entries : x # e => desc'[x] = desc[x]
    BY <1>3 DEF StoreInv, StoreTypeOK
  <2>4. \A u \in Threads : HeldBy(u) \subseteq Entries
    BY Holder
  <2>5. QED
    BY <1>1, <1>2, <2>1, <2>2, <2>3, <2>4 DEF HeldOne
<1>9. PinBookkeeping'
  BY <1>2, <1>3, BooksKept DEF FacadeTypeOK
<1>10. QED
  BY <1>4, <1>5, <1>6, <1>7, <1>8, <1>9

LEMMA InstallsStep ==
  ASSUME OneHandleEach, FacadeInv, StoreInv', NEW t \in Threads, FacadeInstall(t)
  PROVE  FacadeInv'
<1> USE StoreAssumptions DEF FacadeInv
<1> DEFINE e == made[t]
           c == ComponentOf[handle[t]]
<1>1. /\ fpc[t] = "install" /\ fpc' = [fpc EXCEPT ![t] = "done"] /\ Install(t)
      /\ UNCHANGED <<mutex, pinned, pinDepth, handle, path>>
  BY DEF FacadeInstall, FacadeGoto
<1>2. e \in Entries /\ Drained(t) /\ slot[c] = NoEntry /\ c \in Components
  BY <1>1, FacadeAssumptions DEF Install, Places, Locks, StoreInv, StoreTypeOK
<1>3. desc[e].component = c
  BY <1>2 DEF HeldOne, HeldBy
<1>4. /\ slot' = [slot EXCEPT ![c] = e] /\ doomed'[t] = {} /\ made' = [made EXCEPT ![t] = NoEntry]
      /\ \A u \in Threads : u # t => doomed'[u] = doomed[u]
      /\ UNCHANGED <<desc, dying, pin>>
  BY <1>1, <1>2, <1>3 DEF Install, Drained, StoreInv, StoreTypeOK
<1>5. FacadeTypeOK'
  BY <1>1 DEF FacadeTypeOK, FacadePCs, StoreInv
<1>6. Locks'
  BY <1>1 DEF Locks, FacadeTypeOK
<1>7. Places'
  <2>1. /\ fpc'[t] = "done" /\ made'[t] = NoEntry /\ Drained(t)' /\ pin'[t] = NoEntry
    BY <1>1, <1>2, <1>4 DEF Drained, Places, FacadeTypeOK, StoreInv, StoreTypeOK
  <2>2. ASSUME NEW u \in Threads, u # t
        PROVE  /\ fpc'[u] = fpc[u] /\ made'[u] = made[u] /\ (Drained(u)' <=> Drained(u))
               /\ fpc[u] \in {"create", "install", "done"} =>
                    slot'[ComponentOf[handle[u]]] = slot[ComponentOf[handle[u]]]
    <3>1. fpc[u] \in {"create", "install", "done"} =>
            ComponentOf[handle[u]] \in Components /\ ComponentOf[handle[u]] # c
      BY <1>1, <2>2, Apart, FacadeAssumptions DEF Locks
    <3>2. QED
      BY <1>1, <1>4, <2>2, <3>1 DEF Drained, FacadeTypeOK, StoreInv, StoreTypeOK
  <2>3. QED
    BY <1>1, <1>4, <2>1, <2>2 DEF Places
<1>8. UsersOf'
  BY <1>1, <1>4 DEF UsersOf, FacadeTypeOK
<1>9. HeldOne'
  <2>1. HeldBy(t)' = {}
    BY <1>2, <1>4 DEF HeldBy, Drained, StoreInv, StoreTypeOK
  <2>2. \A u \in Threads : u # t => HeldBy(u)' = HeldBy(u)
    BY <1>4 DEF HeldBy, StoreInv, StoreTypeOK
  <2>3. QED
    BY <1>1, <1>4, <2>1, <2>2 DEF HeldOne
<1>10. PinBookkeeping'
  BY <1>1, <1>4, BooksKept DEF FacadeTypeOK
<1>11. QED
  BY <1>5, <1>6, <1>7, <1>8, <1>9, <1>10

LEMMA ReturnStep ==
  ASSUME OneHandleEach, FacadeInv, StoreInv', NEW t \in Threads, FacadeReturn(t)
  PROVE  FacadeInv'
<1> USE StoreAssumptions, FacadeAssumptions DEF FacadeInv
<1>1. /\ fpc[t] = "done" /\ fpc' = [fpc EXCEPT ![t] = "idle"] /\ Drained(t)
      /\ mutex' = [mutex EXCEPT ![handle[t]] = NoOwner]
      /\ handle' = [handle EXCEPT ![t] = NoHandle] /\ path' = [path EXCEPT ![t] = NoDesc]
      /\ UNCHANGED <<slot, desc, made, doomed, dying, pin, pinned, pinDepth>>
  BY DEF FacadeReturn, FacadeGoto, storeVars
<1>2. FacadeTypeOK'
  BY <1>1 DEF FacadeTypeOK, FacadePCs, StoreInv
<1>3. \A u \in Threads : u # t =>
        fpc'[u] = fpc[u] /\ handle'[u] = handle[u] /\ path'[u] = path[u]
  BY <1>1 DEF FacadeTypeOK
<1>4. fpc'[t] = "idle" /\ made[t] = NoEntry /\ pin[t] = NoEntry
  BY <1>1 DEF Places, FacadeTypeOK
<1>5. Locks'
  <2>1. \A u \in Threads : u # t /\ fpc[u] \in {"evict", "create", "install", "done"} =>
          mutex'[handle[u]] = u
    BY <1>1 DEF Locks, FacadeTypeOK
  <2>2. QED
    BY <1>3, <1>4, <2>1 DEF Locks
<1>6. Places' /\ UsersOf'
  BY <1>1, <1>3, <1>4 DEF Places, Drained, UsersOf
<1>7. HeldOne'
  <2>1. HeldBy(t)' = {} /\ \A u \in Threads : HeldBy(u)' = HeldBy(u)
    BY <1>1, <1>4 DEF HeldBy, Drained
  <2>2. QED
    BY <1>1, <1>3, <2>1 DEF HeldOne
<1>8. PinBookkeeping'
  BY <1>1, <1>3, BooksKept DEF FacadeTypeOK
<1>9. QED
  BY <1>2, <1>5, <1>6, <1>7, <1>8

(* Draining: the entry moves from the list to the thread that destroys it, *)
(* and then out of its hands; nobody uses it any more.                     *)
LEMMA DrainStep ==
  ASSUME OneHandleEach, FacadeInv, StoreInv', NEW t \in Threads, FacadeDrain(t)
  PROVE  FacadeInv'
<1> USE StoreAssumptions DEF FacadeInv
<1>1. UNCHANGED <<mutex, pinned, pinDepth, fpc, handle, path, slot, made, pin>>
  BY DEF FacadeDrain, facadeVars, DrainFence, DestroyBackend
<1>2. /\ \A u \in Threads : HeldBy(u)' \subseteq HeldBy(u)
      /\ \A u \in Threads : Drained(u) => Drained(u)'
      /\ \A u \in Threads : \A e \in HeldBy(u)' : desc'[e] = desc[e]
      /\ \A u \in Threads : pin[u] # NoEntry => desc'[pin[u]] = desc[pin[u]]
  <2>1. CASE DrainFence(t)
    <3>1. PICK e \in doomed[t] :
            /\ dying[t] = NoEntry
            /\ doomed' = [doomed EXCEPT ![t] = @ \ {e}]
            /\ dying' = [dying EXCEPT ![t] = e]
            /\ UNCHANGED <<desc, made>>
      BY <2>1 DEF DrainFence
    <3>2. QED
      BY <3>1 DEF HeldBy, Drained, StoreInv, StoreTypeOK
  <2>2. CASE DestroyBackend(t)
    <3> DEFINE e == dying[t]
    <3>1. /\ e # NoEntry /\ e \in Entries
          /\ \A x \in Entries : x # e => desc'[x] = desc[x]
          /\ dying' = [dying EXCEPT ![t] = NoEntry] /\ UNCHANGED <<doomed, made>>
      BY <2>2 DEF DestroyBackend, StoreInv, StoreTypeOK
    <3>2. HeldBy(t)' \subseteq HeldBy(t) \ {e} /\ e \in HeldBy(t)
      BY <3>1 DEF HeldBy, StoreInv, StoreTypeOK, SingleHolder
    <3>3. \A u \in Threads : u # t => HeldBy(u)' = HeldBy(u) /\ e \notin HeldBy(u)
      BY <3>1, <3>2 DEF HeldBy, StoreInv, StoreTypeOK, SingleHolder
    <3>4. \A u \in Threads : pin[u] # NoEntry => pin[u] # e
      BY StoreInvProperties DEF NoUseAfterDestroy
    <3>6. \A u \in Threads : HeldBy(u) \subseteq Entries /\ (pin[u] # NoEntry => pin[u] \in Entries)
      BY Holder DEF StoreInv, StoreTypeOK
    <3>7. \A u \in Threads : HeldBy(u)' \subseteq HeldBy(u) /\ e \notin HeldBy(u)'
      BY <3>2, <3>3
    <3>8. \A u \in Threads : Drained(u) => Drained(u)'
      BY <3>1 DEF Drained, StoreInv, StoreTypeOK
    <3> HIDE DEF e
    <3>9. \A u \in Threads : \A x \in HeldBy(u)' : desc'[x] = desc[x]
      BY <3>1, <3>6, <3>7
    <3>10. QED
      BY <3>1, <3>4, <3>6, <3>7, <3>8, <3>9
  <2>3. QED
    BY <2>1, <2>2 DEF FacadeDrain
<1>3. FacadeTypeOK'
  BY <1>1 DEF FacadeTypeOK, StoreInv
<1>4. Locks' /\ Places' /\ PinBookkeeping'
  BY <1>1, <1>2 DEF Locks, Places, PinBookkeeping
<1>5. UsersOf'
  BY <1>1, <1>2 DEF UsersOf, Places
<1>6. HeldOne'
  BY <1>1, <1>2 DEF HeldOne
<1>7. QED
  BY <1>3, <1>4, <1>5, <1>6

(* The users a handle has already hold the entry a new one finds: both are *)
(* live backends of one component.                                         *)
LEMMA AcquireStep ==
  ASSUME OneHandleEach, FacadeInv, StoreInv', NEW t \in Threads, NEW h \in Handles,
         AcquireService(t, h)
  PROVE  FacadeInv'
<1> USE StoreAssumptions, FacadeAssumptions DEF FacadeInv
<1> DEFINE c == ComponentOf[h]
           e == slot[c]
<1>1. /\ fpc[t] = "idle" /\ fpc' = [fpc EXCEPT ![t] = "using"]
      /\ handle' = [handle EXCEPT ![t] = h]
      /\ pinned' = [pinned EXCEPT ![h] = e] /\ pinDepth' = [pinDepth EXCEPT ![h] = @ + 1]
      /\ pin' = [pin EXCEPT ![t] = e]
      /\ e # NoEntry /\ backend[e]
      /\ UNCHANGED <<mutex, path, slot, desc, made, doomed, dying>>
  BY DEF AcquireService, AcquireRef, Ready, FacadeGoto
<1>2. c \in Components /\ e \in Entries /\ desc[e].component = c
  BY <1>1 DEF StoreInv, StoreTypeOK, SlotsDescribed
<1>3. /\ fpc'[t] = "using" /\ handle'[t] = h /\ pin'[t] = e
      /\ \A u \in Threads : u # t =>
           fpc'[u] = fpc[u] /\ handle'[u] = handle[u] /\ pin'[u] = pin[u]
  BY <1>1 DEF FacadeTypeOK, StoreInv, StoreTypeOK
<1>4. FacadeTypeOK'
  BY <1>1, <1>2 DEF FacadeTypeOK, FacadePCs, StoreInv
<1>5. Locks'
  BY <1>1, <1>3 DEF Locks
<1>6. Places' /\ UsersOf'
  BY <1>1, <1>2, <1>3 DEF Places, Drained, UsersOf
<1>7. HeldOne'
  <2>1. HeldBy(t) = {} /\ \A u \in Threads : HeldBy(u)' = HeldBy(u)
    BY <1>1 DEF HeldBy, Places, Drained
  <2>2. QED
    BY <1>1, <1>3, <2>1 DEF HeldOne
<1>8. PinBookkeeping'
  <2> SUFFICES ASSUME NEW k \in Handles
               PROVE  /\ pinDepth'[k] = Cardinality(Users(k)')
                      /\ \A u \in Users(k)' : pin'[u] = pinned'[k]
    BY DEF PinBookkeeping, Users
  <2>1. pinDepth[k] = Cardinality(Users(k)) /\ \A u \in Users(k) : pin[u] = pinned[k]
    BY DEF PinBookkeeping, Users
  <2>2. CASE k = h
    <3>1. Users(k)' = Users(k) \cup {t} /\ t \notin Users(k)
      BY <1>1, <1>3, <2>2 DEF Users
    <3>2. pinDepth'[k] = Cardinality(Users(k)')
      <4>1. pinDepth'[k] = pinDepth[k] + 1
        BY <1>1, <2>2 DEF FacadeTypeOK
      <4>2. Cardinality(Users(k)') = Cardinality(Users(k)) + 1
        BY <3>1, UsersFinite, FS_AddElement
      <4>3. QED
        BY <2>1, <4>1, <4>2
    <3>3. \A u \in Users(k) : pin[u] = e
      <4>1. ASSUME NEW u \in Users(k)
            PROVE  pin[u] = e
        <5>1. u \in Threads /\ fpc[u] = "using" /\ handle[u] = h
          BY <2>2, <4>1 DEF Users
        <5>2. pin[u] \in Entries /\ desc[pin[u]].component = c
          BY <5>1, UserPinned DEF UsersOf
        <5>3. backend[pin[u]]
          BY <5>1, <5>2 DEF StoreInv, PinnedBeforeFence
        <5>4. QED
          BY <1>1, <1>2, <5>2, <5>3, OneBackend DEF OneBackendPerComponent
      <4>2. QED
        BY <4>1
    <3>4. pinned'[k] = e
      BY <1>1, <2>2 DEF FacadeTypeOK
    <3>5. QED
      BY <1>3, <3>1, <3>2, <3>3, <3>4 DEF Users
  <2>3. CASE k # h
    <3>1. Users(k)' = Users(k) /\ t \notin Users(k)
      BY <1>1, <1>3, <2>3 DEF Users
    <3>2. pinDepth'[k] = pinDepth[k] /\ pinned'[k] = pinned[k]
      BY <1>1, <2>3 DEF FacadeTypeOK
    <3>3. QED
      BY <1>3, <2>1, <3>1, <3>2 DEF Users
  <2>4. QED
    BY <2>2, <2>3
<1>9. QED
  BY <1>4, <1>5, <1>6, <1>7, <1>8

LEMMA ReleaseStep ==
  ASSUME OneHandleEach, FacadeInv, StoreInv', NEW t \in Threads, ReleaseService(t)
  PROVE  FacadeInv'
<1> USE StoreAssumptions, FacadeAssumptions DEF FacadeInv
<1> DEFINE h == handle[t]
<1>1. /\ fpc[t] = "using" /\ fpc' = [fpc EXCEPT ![t] = "idle"]
      /\ handle' = [handle EXCEPT ![t] = NoHandle]
      /\ pinDepth' = [pinDepth EXCEPT ![h] = @ - 1]
      /\ pinned' = [pinned EXCEPT ![h] = IF pinDepth[h] = 1 THEN NoEntry ELSE @]
      /\ pin' = [pin EXCEPT ![t] = NoEntry]
      /\ UNCHANGED <<mutex, path, slot, desc, made, doomed, dying>>
  BY ReleasesItsPin DEF ReleaseService, FacadeGoto, ReleaseRef
<1>2. h \in Handles /\ pinDepth[h] > 0 /\ pinDepth[h] \in Nat
  BY <1>1, UserPinned DEF FacadeTypeOK
<1>3. /\ fpc'[t] = "idle" /\ pin'[t] = NoEntry
      /\ \A u \in Threads : u # t =>
           fpc'[u] = fpc[u] /\ handle'[u] = handle[u] /\ pin'[u] = pin[u]
  BY <1>1 DEF FacadeTypeOK, StoreInv, StoreTypeOK
<1>4. FacadeTypeOK'
  <2>1. pinDepth[h] - 1 \in Nat
    BY <1>2
  <2>2. pinDepth' \in [Handles -> Nat] /\ pinned' \in [Handles -> Entries \cup {NoEntry}]
    BY <1>1, <1>2, <2>1 DEF FacadeTypeOK
  <2>3. QED
    BY <1>1, <2>2 DEF FacadeTypeOK, FacadePCs, StoreInv
<1>5. Locks'
  BY <1>1, <1>3 DEF Locks
<1>6. Places' /\ UsersOf'
  BY <1>1, <1>3 DEF Places, Drained, UsersOf
<1>7. HeldOne'
  <2>1. HeldBy(t) = {} /\ \A u \in Threads : HeldBy(u)' = HeldBy(u)
    BY <1>1 DEF HeldBy, Places, Drained
  <2>2. QED
    BY <1>1, <1>3, <2>1 DEF HeldOne
<1>8. PinBookkeeping'
  <2> SUFFICES ASSUME NEW k \in Handles
               PROVE  /\ pinDepth'[k] = Cardinality(Users(k)')
                      /\ \A u \in Users(k)' : pin'[u] = pinned'[k]
    BY DEF PinBookkeeping, Users
  <2>1. /\ pinDepth[k] = Cardinality(Users(k)) /\ \A u \in Users(k) : pin[u] = pinned[k]
        /\ IsFiniteSet(Users(k)) /\ Cardinality(Users(k)) \in Nat
    BY UsersFinite DEF PinBookkeeping, Users
  <2>2. CASE k = h
    <3>1. Users(k)' = Users(k) \ {t} /\ t \in Users(k)
      BY <1>1, <1>3, <2>2 DEF Users
    <3>2. Cardinality(Users(k)') = Cardinality(Users(k)) - 1 /\ IsFiniteSet(Users(k)')
      BY <2>1, <3>1, FS_RemoveElement
    <3>3. pinDepth'[k] = pinDepth[k] - 1
      BY <1>1, <2>2 DEF FacadeTypeOK
    <3>4. CASE pinDepth[h] = 1
      <4>1. Cardinality(Users(k)') = 0
        BY <2>1, <2>2, <3>2, <3>4
      <4>2. Users(k)' = {}
        BY <3>2, <4>1, FS_EmptySet
      <4>3. QED
        BY <2>1, <3>2, <3>3, <4>2
    <3>5. CASE pinDepth[h] # 1
      <4>1. pinned'[k] = pinned[k]
        BY <1>1, <2>2, <3>5 DEF FacadeTypeOK
      <4>2. QED
        BY <1>3, <2>1, <3>1, <3>2, <3>3, <4>1 DEF Users
    <3>6. QED
      BY <3>4, <3>5
  <2>3. CASE k # h
    <3>1. Users(k)' = Users(k) /\ t \notin Users(k)
      BY <1>1, <1>3, <2>3 DEF Users
    <3>2. pinDepth'[k] = pinDepth[k] /\ pinned'[k] = pinned[k]
      BY <1>1, <2>3 DEF FacadeTypeOK
    <3>3. QED
      BY <1>3, <2>1, <3>1, <3>2 DEF Users
  <2>4. QED
    BY <2>2, <2>3
<1>9. QED
  BY <1>4, <1>5, <1>6, <1>7, <1>8

-----------------------------------------------------------------------------
LEMMA FacadeInitially == FacadeSpecInit => FacadeInv
<1> SUFFICES ASSUME FacadeSpecInit PROVE FacadeInv
  OBVIOUS
<1> USE StoreAssumptions, FacadeAssumptions DEF FacadeSpecInit, FacadeInit
<1>1. StoreInv
  BY InitStoreInv
<1>2. FacadeTypeOK
  BY <1>1 DEF FacadeTypeOK, FacadePCs, StoreInv
<1>3. Locks /\ Places /\ UsersOf /\ HeldOne
  BY DEF Locks, Places, UsersOf, HeldOne, HeldBy, Drained, StoreInit
<1>4. PinBookkeeping
  <2>1. \A h \in Handles : Users(h) = {}
    BY DEF Users
  <2>2. QED
    BY <2>1, FS_EmptySet DEF PinBookkeeping, Users
<1>5. QED
  BY <1>1, <1>2, <1>3, <1>4 DEF FacadeInv

LEMMA FacadeInvStep ==
  ASSUME OneHandleEach, FacadeInv, [FacadeNext]_facadeSpecVars
  PROVE  FacadeInv' /\ [StoreNext]_storeVars
<1>1. CASE UNCHANGED facadeSpecVars
  <2>1. UNCHANGED storeVars
    BY <1>1 DEF facadeSpecVars
  <2>2. StoreInv'
    BY <2>1, StoreInvStep DEF FacadeInv
  <2>3. UNCHANGED <<mutex, pinned, pinDepth, fpc, handle, path, slot, made, doomed, dying, pin, desc>>
    BY <1>1 DEF facadeSpecVars, storeVars, facadeVars
  <2>4. FacadeTypeOK' /\ Locks' /\ PinBookkeeping'
    BY <2>2, <2>3 DEF FacadeInv, FacadeTypeOK, StoreInv, Locks, PinBookkeeping
  <2>5. Places' /\ UsersOf'
    BY <2>3 DEF FacadeInv, Places, Drained, UsersOf
  <2>6. HeldOne'
    BY <2>3 DEF FacadeInv, HeldOne, HeldBy
  <2>7. QED
    BY <2>1, <2>2, <2>4, <2>5, <2>6 DEF FacadeInv
<1>2. ASSUME NEW t \in Threads, FacadeStep(t)
      PROVE  FacadeInv' /\ [StoreNext]_storeVars
  <2>1. StoreInv'
    BY <1>2, StoreKept
  <2>2. [StoreNext]_storeVars
    BY <1>2, FacadeStepsStore DEF StoreNext
  <2>3. CASE FacadeContinue(t)
    <3>1. CASE FacadeEvict(t)
      BY <2>1, <2>2, <3>1, EvictStep
    <3>2. CASE FacadeCreate(t)
      BY <2>1, <2>2, <3>2, CreateStep
    <3>3. CASE FacadeInstall(t)
      BY <2>1, <2>2, <3>3, InstallsStep
    <3>4. CASE FacadeReturn(t)
      BY <2>1, <2>2, <3>4, ReturnStep
    <3>5. CASE FacadeDrain(t)
      BY <2>1, <2>2, <3>5, DrainStep
    <3>6. CASE ReleaseService(t)
      BY <2>1, <2>2, <3>6, ReleaseStep
    <3>7. QED
      BY <2>3, <3>1, <3>2, <3>3, <3>4, <3>5, <3>6, Zenon DEF FacadeContinue
  <2>4. CASE FacadeStart(t)
    <3>1. PICK h \in Handles :
            \/ \E m \in Models : FacadeLoad(t, h, m)
            \/ FacadeUnload(t, h)
            \/ AcquireService(t, h)
      BY <2>4, Zenon DEF FacadeStart
    <3>2. ASSUME NEW m \in Models, FacadeLoad(t, h, m)
          PROVE  FacadeInv'
      BY <2>1, <3>2, FacadeLoadStep
    <3>3. CASE FacadeUnload(t, h)
      BY <2>1, <2>2, <3>3, UnloadStep
    <3>4. CASE AcquireService(t, h)
      BY <2>1, <2>2, <3>4, AcquireStep
    <3>5. QED
      BY <2>2, <3>1, <3>2, <3>3, <3>4, Zenon
  <2>5. QED
    BY <1>2, <2>2, <2>3, <2>4 DEF FacadeStep
<1>3. QED
  BY <1>1, <1>2 DEF FacadeNext

(* The invariant that carries the books of the facade and the store's.     *)
THEOREM FacadeInvariance == OneHandleEach => (FacadeSpec => []FacadeInv)
<1> SUFFICES ASSUME OneHandleEach PROVE FacadeSpec => []FacadeInv
  OBVIOUS
<1>1. FacadeSpecInit => FacadeInv
  BY FacadeInitially
<1>2. FacadeInv /\ [FacadeNext]_facadeSpecVars => FacadeInv'
  BY FacadeInvStep
<1>3. QED
  BY <1>1, <1>2, PTL DEF FacadeSpec

(* pin_depth counts the callers between acquire_service and                *)
(* release_service, and all of them use the entry the handle remembers, so *)
(* no release drops a reference another caller counts on.                  *)
THEOREM FacadeKeepsBooks == OneHandleEach => (FacadeSpec => [](FacadeTypeOK /\ PinBookkeeping))
<1> SUFFICES ASSUME OneHandleEach PROVE FacadeSpec => [](FacadeTypeOK /\ PinBookkeeping)
  OBVIOUS
<1>1. FacadeInv => FacadeTypeOK /\ PinBookkeeping
  BY DEF FacadeInv
<1>2. QED
  BY <1>1, FacadeInvariance, PTL

(* The facade destroys before it creates: a component never has two live   *)
(* backends.                                                               *)
THEOREM FacadeOneBackend == OneHandleEach => (FacadeSpec => []OneBackendPerComponent)
<1> SUFFICES ASSUME OneHandleEach PROVE FacadeSpec => []OneBackendPerComponent
  OBVIOUS
<1>1. FacadeInv => OneBackendPerComponent
  BY OneBackend
<1>2. QED
  BY <1>1, FacadeInvariance, PTL

(* The facade implements the store's contract: release_service, which      *)
(* drops a reference of the entry the handle remembers, is a ReleaseRef of *)
(* the caller's own pin.                                                   *)
THEOREM FacadeImplementsStore == OneHandleEach => (FacadeSpec => StoreSpec)
<1> SUFFICES ASSUME OneHandleEach PROVE FacadeSpec => StoreSpec
  OBVIOUS
<1>1. FacadeSpecInit => StoreInit
  BY DEF FacadeSpecInit
<1>2. FacadeInv /\ [FacadeNext]_facadeSpecVars => [StoreNext]_storeVars
  BY FacadeInvStep
<1>3. QED
  BY <1>1, <1>2, FacadeInvariance, PTL DEF FacadeSpec, StoreSpec
-----------------------------------------------------------------------------
(* Both callers at once.  The store's contract is not kept: a release on a *)
(* handle may drop the reference of an entry that replaced its caller's    *)
(* (NoUseAfterDestroy fails).  The ownership of the entries does not       *)
(* depend on the references, and is kept.                                  *)
SystemInv ==
  /\ OwnershipInv /\ RequestKnown /\ HandleKnown
  /\ TypeOK /\ FacadeTypeOK

LEMMA SystemInitially == SystemInit => SystemInv
<1> SUFFICES ASSUME SystemInit PROVE SystemInv
  OBVIOUS
<1>1. LifecycleInv
  BY InitLifecycleInv DEF SystemInit
<1>2. FacadeInv
  BY FacadeInitially DEF SystemInit, Init, FacadeSpecInit
<1>3. OwnershipInv
  BY <1>1 DEF LifecycleInv, StoreInv, OwnershipInv
<1>4. HandleKnown
  BY DEF SystemInit, FacadeInit, HandleKnown
<1> QED BY <1>1, <1>2, <1>3, <1>4 DEF SystemInv, LifecycleInv, FacadeInv

(* A registry call keeps to requests it was given.                         *)
LEMMA CallTyped ==
  ASSUME SystemInv, NEW t \in Threads, Continue(t) \/ Start(t)
  PROVE  CallTypeOK' /\ RequestKnown'
<1> USE LifecycleAssumptions
    DEF SystemInv, TypeOK, CallTypeOK, RequestKnown, Goto, PCs, Creating
<1>1. CASE Admit(t)
  <2>1. req[t].component \in Components
    BY <1>1, RequestFields DEF Admit
  <2>2. slot[req[t].component] \in Entries \cup {NoEntry}
    BY <2>1 DEF StoreTypeOK
  <2> QED BY <1>1, <2>2 DEF Admit
<1>2. CASE EvictRivals(t) \/ RejectPlacement(t) \/ CreateBackend(t) \/ CreateFails(t)
  BY <1>2 DEF EvictRivals, RejectPlacement, CreateBackend, CreateFails
<1>3. CASE InstallLoaded(t) \/ InstallFailed(t) \/ ReleaseGate(t)
  BY <1>3 DEF InstallLoaded, InstallFailed, ReleaseGate
<1>4. CASE Published(t) \/ SubscriberLoads(t) \/ BeginLoad(t)
  BY <1>4 DEF Published, SubscriberLoads, BeginLoad
<1>5. CASE FinishTeardown(t) \/ BeginUnload(t) \/ BeginReset(t)
  BY <1>5 DEF FinishTeardown, BeginUnload, BeginReset
<1>6. CASE Drain(t) \/ BeginUse(t) \/ EndUse(t)
  BY <1>6 DEF Drain, BeginUse, EndUse, callVars
<1> QED BY <1>1, <1>2, <1>3, <1>4, <1>5, <1>6 DEF Continue, Start, LoadStep

(* A release counts down what the handle remembers, and no further than 0. *)
LEMMA ReleaseTyped ==
  ASSUME SystemInv, NEW t \in Threads, ReleaseService(t)
  PROVE  /\ refs' \in [Entries -> Nat] /\ pin' \in [Threads -> Entries \cup {NoEntry}]
         /\ pinDepth' \in [Handles -> Nat] /\ pinned' \in [Handles -> Entries \cup {NoEntry}]
         /\ UNCHANGED <<slot, state, backend, desc, made, doomed, dying>>
<1>1. handle[t] \in Handles
  BY DEF SystemInv, HandleKnown, ReleaseService, FacadeGoto
<1>2. pinned[handle[t]] \in Entries \cup {NoEntry} /\ pinDepth[handle[t]] \in Nat
  BY <1>1 DEF SystemInv, FacadeTypeOK
<1>3. /\ refs \in [Entries -> Nat] /\ pin \in [Threads -> Entries \cup {NoEntry}]
      /\ pinDepth \in [Handles -> Nat] /\ pinned \in [Handles -> Entries \cup {NoEntry}]
  BY DEF SystemInv, FacadeTypeOK, StoreTypeOK
<1>4. /\ pin' = [pin EXCEPT ![t] = NoEntry]
      /\ UNCHANGED <<slot, state, backend, desc, made, doomed, dying>>
  BY DEF ReleaseService
<1>5. CASE pinned[handle[t]] # NoEntry /\ pinDepth[handle[t]] > 0
  <2>1. /\ refs' = [refs EXCEPT ![pinned[handle[t]]] = IF @ > 0 THEN @ - 1 ELSE @]
        /\ pinDepth' = [pinDepth EXCEPT ![handle[t]] = @ - 1]
        /\ pinned' = [pinned EXCEPT ![handle[t]] = IF pinDepth[handle[t]] = 1 THEN NoEntry ELSE @]
    BY <1>5 DEF ReleaseService
  <2>2. refs' \in [Entries -> Nat]
    <3>1. PICK e \in Entries : e = pinned[handle[t]]
      BY <1>2, <1>5
    <3>2. PICK k \in Nat : k = IF refs[e] > 0 THEN refs[e] - 1 ELSE refs[e]
      BY <1>3, <3>1
    <3>3. refs' = [refs EXCEPT ![e] = k]
      BY <2>1, <3>1, <3>2
    <3> QED BY <1>3, <3>1, <3>2, <3>3
  <2>3. pinDepth' \in [Handles -> Nat]
    BY <1>1, <1>2, <1>3, <1>5, <2>1
  <2>4. pinned' \in [Handles -> Entries \cup {NoEntry}]
    BY <1>1, <1>2, <1>3, <2>1
  <2> QED BY <1>3, <1>4, <2>2, <2>3, <2>4
<1>6. CASE ~(pinned[handle[t]] # NoEntry /\ pinDepth[handle[t]] > 0)
  <2>1. UNCHANGED <<refs, pinDepth, pinned>>
    BY <1>6 DEF ReleaseService
  <2> QED BY <1>3, <1>4, <2>1
<1> QED BY <1>5, <1>6

LEMMA HandleTyped ==
  ASSUME SystemInv, StoreTypeOK', NEW t \in Threads, FacadeStep(t)
  PROVE  FacadeTypeOK' /\ HandleKnown'
<1> USE FacadeAssumptions DEF SystemInv, FacadeTypeOK, HandleKnown, FacadeGoto, FacadePCs
<1>1. CASE FacadeEvict(t) \/ FacadeCreate(t) \/ FacadeInstall(t)
  BY <1>1 DEF FacadeEvict, FacadeCreate, FacadeInstall
<1>2. CASE FacadeReturn(t)
  BY <1>2 DEF FacadeReturn
<1>3. CASE FacadeDrain(t)
  BY <1>3 DEF FacadeDrain, facadeVars
<1>4. CASE ReleaseService(t)
  BY <1>4, ReleaseTyped DEF ReleaseService
<1>5. ASSUME NEW h \in Handles, NEW m \in Models, FacadeLoad(t, h, m)
      PROVE  FacadeTypeOK' /\ HandleKnown'
  BY <1>5 DEF FacadeLoad
<1>6. ASSUME NEW h \in Handles, FacadeUnload(t, h) PROVE FacadeTypeOK' /\ HandleKnown'
  BY <1>6 DEF FacadeUnload
<1>7. ASSUME NEW h \in Handles, AcquireService(t, h) PROVE FacadeTypeOK' /\ HandleKnown'
  <2>1. slot[ComponentOf[h]] \in Entries
    BY <1>7 DEF AcquireService, AcquireRef, Ready, StoreTypeOK
  <2> QED BY <1>7, <2>1 DEF AcquireService
<1> QED BY <1>1, <1>2, <1>3, <1>4, <1>5, <1>6, <1>7 DEF FacadeStep, FacadeContinue, FacadeStart

LEMMA SystemInvStep == SystemInv /\ [SystemNext]_sysVars => SystemInv'
<1> SUFFICES ASSUME SystemInv, [SystemNext]_sysVars PROVE SystemInv'
  OBVIOUS
<1>1. ASSUME NEW t \in Threads, StoreStep(t) \/ UNCHANGED storeVars
      PROVE  OwnershipInv'
  <2>1. CASE StoreStep(t)
    BY <2>1, OwnershipKept DEF SystemInv
  <2>2. CASE UNCHANGED storeVars
    <3>1. StoreTypeOK'
      BY <2>2 DEF SystemInv, OwnershipInv, StoreTypeOK, storeVars
    <3> QED BY <2>2, <3>1, PinsOwnNothing DEF SystemInv, storeVars
  <2> QED BY <1>1, <2>1, <2>2
<1>2. ASSUME NEW t \in Threads, RegistryStep(t)
      PROVE  SystemInv'
  <2>1. (Continue(t) \/ Start(t)) /\ UNCHANGED facadeVars
    BY <1>2 DEF RegistryStep
  <2>2. OwnershipInv'
    BY <1>1, <2>1, CallStepsStore DEF SystemInv
  <2>3. TypeOK' /\ RequestKnown'
    BY <2>1, <2>2, CallTyped DEF OwnershipInv, TypeOK, CallTypeOK
  <2>4. FacadeTypeOK' /\ HandleKnown'
    BY <2>1, <2>2 DEF SystemInv, OwnershipInv, FacadeTypeOK, HandleKnown, facadeVars
  <2> QED BY <2>2, <2>3, <2>4 DEF SystemInv
<1>3. ASSUME NEW t \in Threads, HandleStep(t)
      PROVE  SystemInv'
  <2>1. FacadeStep(t) /\ UNCHANGED callVars
    BY <1>3 DEF HandleStep
  <2>2. OwnershipInv'
    <3>1. CASE StoreStep(t) \/ UNCHANGED storeVars
      BY <1>1, <3>1
    <3>2. CASE ReleaseService(t)
      <4>1. StoreTypeOK'
        BY <3>2, ReleaseTyped DEF SystemInv, OwnershipInv, StoreTypeOK
      <4> QED BY <3>2, <4>1, ReleaseTyped, PinsOwnNothing DEF SystemInv
    <3> QED BY <2>1, <3>1, <3>2, HandleStepsStore DEF SystemInv
  <2>3. FacadeTypeOK' /\ HandleKnown'
    BY <2>1, <2>2, HandleTyped DEF OwnershipInv
  <2>4. TypeOK' /\ RequestKnown'
    BY <2>1, <2>2 DEF SystemInv, OwnershipInv, TypeOK, RequestKnown, callVars
  <2> QED BY <2>2, <2>3, <2>4 DEF SystemInv
<1>4. CASE UNCHANGED sysVars
  <2>1. UNCHANGED storeVars /\ UNCHANGED callVars /\ UNCHANGED facadeVars
    BY <1>4 DEF sysVars
  <2>2. StoreTypeOK' /\ OwnershipInv'
    <3>1. StoreTypeOK'
      BY <2>1 DEF SystemInv, OwnershipInv, StoreTypeOK, storeVars
    <3> QED BY <2>1, <3>1, PinsOwnNothing DEF SystemInv, storeVars
  <2> QED BY <2>1, <2>2 DEF SystemInv, TypeOK, FacadeTypeOK, RequestKnown, HandleKnown,
                            callVars, facadeVars
<1> QED BY <1>2, <1>3, <1>4 DEF SystemNext

(* Whichever API a thread goes through, and although a pin may be lost, no *)
(* backend is destroyed twice or leaked, and what a slot advertises as     *)
(* READY owns a backend for its component.                                 *)
THEOREM SystemOwnership == SystemSpec => [](SingleHolder /\ NoLeakedBackend /\ ReadyIsUsable)
<1>1. SystemInv => SingleHolder /\ NoLeakedBackend /\ ReadyIsUsable
  BY StoreAssumptions DEF SystemInv, OwnershipInv, ReadyIsUsable, Ready, SlotsDescribed
<1> QED BY SystemInitially, SystemInvStep, <1>1, PTL DEF SystemSpec
=============================================================================
