----------------------- MODULE LifecycleStore_proofs -----------------------
(***************************************************************************)
(* The store's contract holds for every number of threads, slots, entries  *)
(* and engines: whatever the callers do, as long as each of their steps is *)
(* a step of StoreNext, no backend is destroyed twice, leaked, or          *)
(* destroyed while a request is calling into it.                           *)
(***************************************************************************)
EXTENDS LifecycleStore, FiniteSetTheorems, TLAPS

(* An entry in a slot was described for that slot; it is READY and owns a  *)
(* backend, or is an error sentinel and owns none.                         *)
SlotsDescribed ==
  \A c \in Components : slot[c] # NoEntry =>
    /\ desc[slot[c]] \in Descriptor
    /\ desc[slot[c]].component = c
    /\ state[slot[c]] \in {"READY", "ERROR"}
    /\ state[slot[c]] = "READY" <=> backend[slot[c]]

(* So does an entry a thread has built and not yet installed.              *)
MadeDescribed ==
  \A t \in Threads : made[t] # NoEntry =>
    /\ desc[made[t]] \in Descriptor
    /\ state[made[t]] \in {"READY", "ERROR"}
    /\ state[made[t]] = "READY" <=> backend[made[t]]

(* A pinned entry is live, and still in its slot or in some drain list:    *)
(* it has not passed the fence.                                            *)
PinnedBeforeFence ==
  \A t \in Threads : pin[t] # NoEntry =>
    /\ backend[pin[t]]
    /\ \/ \E c \in Components : slot[c] = pin[t]
       \/ \E u \in Threads : pin[t] \in doomed[u]

StoreInv ==
  /\ StoreTypeOK
  /\ SingleHolder
  /\ RefsCountPins
  /\ SlotsDescribed
  /\ MadeDescribed
  /\ PinnedBeforeFence
  /\ NoLeakedBackend

Pinning(e) == {t \in Threads : pin[t] = e}

-----------------------------------------------------------------------------
(* The threads pinning an entry can be counted.                            *)
LEMMA PinningFinite ==
  ASSUME NEW e
  PROVE  IsFiniteSet(Pinning(e)) /\ Cardinality(Pinning(e)) \in Nat
<1>1. Pinning(e) \in SUBSET Threads
  BY DEF Pinning
<1>2. IsFiniteSet(Pinning(e))
  BY <1>1, StoreAssumptions, FS_Subset
<1>3. QED
  BY <1>2, FS_CardinalityType

(* A reference count of zero means that no thread uses the entry.          *)
LEMMA NoRefsNoPins ==
  ASSUME RefsCountPins, NEW e \in Entries, refs[e] = 0
  PROVE  \A t \in Threads : pin[t] # e
<1>1. Cardinality(Pinning(e)) = 0
  BY DEF RefsCountPins, Pinning
<1>2. Pinning(e) = {}
  BY <1>1, PinningFinite, FS_EmptySet
<1>3. QED
  BY <1>2 DEF Pinning

(* Initially nothing is loaded, held or pinned.                            *)
LEMMA InitStoreInv == StoreInit => StoreInv
<1> SUFFICES ASSUME StoreInit PROVE StoreInv
  OBVIOUS
<1> USE StoreAssumptions DEF StoreInit
<1>1. StoreTypeOK
  BY DEF StoreTypeOK, States
<1>2. SingleHolder
  BY DEF SingleHolder, HeldBy
<1>3. RefsCountPins
  <2> SUFFICES ASSUME NEW e \in Entries
               PROVE  refs[e] = Cardinality({t \in Threads : pin[t] = e})
    BY DEF RefsCountPins
  <2>1. {t \in Threads : pin[t] = e} = {}
    OBVIOUS
  <2>2. QED
    BY <2>1, FS_EmptySet
<1>4. SlotsDescribed /\ MadeDescribed /\ PinnedBeforeFence /\ NoLeakedBackend
  BY DEF SlotsDescribed, MadeDescribed, PinnedBeforeFence, NoLeakedBackend
<1>5. QED
  BY <1>1, <1>2, <1>3, <1>4 DEF StoreInv

-----------------------------------------------------------------------------
(* Who owns an entry.  None of this depends on the reference counts: it    *)
(* holds whatever the callers do to them.                                  *)
OwnershipInv ==
  StoreTypeOK /\ SingleHolder /\ SlotsDescribed /\ MadeDescribed /\ NoLeakedBackend

(* Building an entry touches an object nobody else can reach.              *)
LEMMA MakeOwns ==
  ASSUME OwnershipInv, NEW t \in Threads, NEW e \in Entries, NEW d \in Descriptor,
         NEW st \in {"READY", "ERROR"}, Make(t, e, d, st)
  PROVE  OwnershipInv'
<1> USE StoreAssumptions DEF OwnershipInv
<1>0. /\ \A c \in Components : slot[c] # e
      /\ \A u \in Threads : e \notin doomed[u] /\ made[u] # e /\ dying[u] # e
  BY DEF Make, Fresh, Reachable
<1>1. StoreTypeOK'
  BY DEF StoreTypeOK, Make, States
<1>2. SingleHolder'
  BY <1>0 DEF SingleHolder, HeldBy, Make, StoreTypeOK
<1>3. SlotsDescribed'
  BY <1>0 DEF SlotsDescribed, Make, StoreTypeOK
<1>4. MadeDescribed'
  BY <1>0 DEF MadeDescribed, Make, StoreTypeOK
<1>5. NoLeakedBackend'
  BY <1>0 DEF NoLeakedBackend, HeldBy, Make, StoreTypeOK
<1>6. QED
  BY <1>1, <1>2, <1>3, <1>4, <1>5

(* Installing moves the entry to its slot and the occupant to the list.    *)
LEMMA InstallOwns ==
  ASSUME OwnershipInv, NEW t \in Threads, Install(t)
  PROVE  OwnershipInv'
<1> USE StoreAssumptions DEF OwnershipInv
<1> DEFINE e == made[t]
           c == desc[e].component
<1>0. e \in Entries /\ c \in Components
  BY DEF Install, MadeDescribed, StoreTypeOK, Descriptor
<1>1. /\ slot'   = [slot EXCEPT ![c] = e]
      /\ doomed' = [doomed EXCEPT ![t] = @ \cup ({slot[c]} \ {NoEntry})]
      /\ made'   = [made EXCEPT ![t] = NoEntry]
      /\ UNCHANGED <<state, refs, backend, desc, dying, pin>>
  BY DEF Install
<1> HIDE DEF c
<1>2. StoreTypeOK'
  BY <1>0, <1>1 DEF StoreTypeOK
<1>3. SingleHolder'
  BY <1>0, <1>1 DEF SingleHolder, HeldBy, StoreTypeOK
<1>4. SlotsDescribed'
  BY <1>0, <1>1 DEF SlotsDescribed, MadeDescribed, StoreTypeOK, c
<1>5. MadeDescribed'
  BY <1>1 DEF MadeDescribed, StoreTypeOK
<1>6. NoLeakedBackend'
  BY <1>0, <1>1 DEF NoLeakedBackend, HeldBy, StoreTypeOK
<1>7. QED
  BY <1>2, <1>3, <1>4, <1>5, <1>6

(* A sentinel owns no backend, so dropping it leaks nothing.               *)
LEMMA DiscardOwns ==
  ASSUME OwnershipInv, NEW t \in Threads, Discard(t)
  PROVE  OwnershipInv'
<1> USE StoreAssumptions DEF OwnershipInv
<1> DEFINE e == made[t]
<1>0. e \in Entries /\ ~backend[e]
  BY DEF Discard, MadeDescribed, StoreTypeOK
<1>1. /\ \A c \in Components : slot[c] # e
      /\ \A u \in Threads : u # t => made[u] # e
  BY <1>0 DEF SingleHolder, HeldBy
<1>2. StoreTypeOK'
  BY DEF StoreTypeOK, Discard, States
<1>3. SingleHolder'
  BY DEF SingleHolder, HeldBy, Discard, StoreTypeOK
<1>4. SlotsDescribed'
  BY <1>0, <1>1 DEF SlotsDescribed, Discard, StoreTypeOK
<1>5. MadeDescribed'
  BY <1>0, <1>1 DEF MadeDescribed, Discard, StoreTypeOK
<1>6. NoLeakedBackend'
  BY <1>0 DEF NoLeakedBackend, HeldBy, Discard, StoreTypeOK
<1>7. QED
  BY <1>2, <1>3, <1>4, <1>5, <1>6

(* What leaves the map goes to one list.                                   *)
LEMMA DetachOwns ==
  ASSUME OwnershipInv, NEW t \in Threads, NEW C \in SUBSET Components, NEW marked \in BOOLEAN,
         Detach(t, C, marked)
  PROVE  OwnershipInv'
<1> USE StoreAssumptions DEF OwnershipInv
<1> DEFINE gone == {slot[c] : c \in C} \ {NoEntry}
<1>0. /\ slot'   = [c \in Components |-> IF c \in C THEN NoEntry ELSE slot[c]]
      /\ doomed' = [doomed EXCEPT ![t] = @ \cup gone]
      /\ state'  = [x \in Entries |-> IF marked /\ x \in gone THEN "NOT_LOADED" ELSE state[x]]
      /\ UNCHANGED <<refs, backend, desc, made, dying, pin>>
  BY DEF Detach
<1>1. gone \subseteq Entries
  BY DEF StoreTypeOK
<1>2. \A x \in gone : \A u \in Threads : x \notin HeldBy(u)
  BY DEF SingleHolder
<1>3. StoreTypeOK'
  BY <1>0, <1>1 DEF StoreTypeOK, States
<1>4. SingleHolder'
  BY <1>0, <1>1, <1>2 DEF SingleHolder, HeldBy, StoreTypeOK
<1>5. SlotsDescribed'
  BY <1>0, <1>1 DEF SlotsDescribed, StoreTypeOK
<1>6. MadeDescribed'
  BY <1>0, <1>1, <1>2 DEF MadeDescribed, HeldBy, StoreTypeOK
<1>7. NoLeakedBackend'
  BY <1>0 DEF NoLeakedBackend, HeldBy, StoreTypeOK
<1>8. QED
  BY <1>3, <1>4, <1>5, <1>6, <1>7

(* Past the fence an entry is still in the hands of its thread, and once   *)
(* destroyed it is in nobody's.                                            *)
LEMMA DrainOwns ==
  ASSUME OwnershipInv, NEW t \in Threads, DrainFence(t) \/ DestroyBackend(t)
  PROVE  OwnershipInv'
<1> USE StoreAssumptions DEF OwnershipInv
<1>1. CASE DrainFence(t)
  <2>1. PICK e \in doomed[t] :
          /\ dying[t] = NoEntry
          /\ doomed' = [doomed EXCEPT ![t] = @ \ {e}]
          /\ dying'  = [dying EXCEPT ![t] = e]
          /\ UNCHANGED <<slot, state, refs, backend, desc, made, pin>>
    BY <1>1 DEF DrainFence
  <2>2. e \in Entries
    BY <2>1 DEF StoreTypeOK
  <2>3. StoreTypeOK'
    BY <2>1, <2>2 DEF StoreTypeOK
  <2>4. SingleHolder'
    BY <2>1, <2>2 DEF SingleHolder, HeldBy, StoreTypeOK
  <2>5. SlotsDescribed' /\ MadeDescribed'
    BY <2>1 DEF SlotsDescribed, MadeDescribed
  <2>6. NoLeakedBackend'
    BY <2>1, <2>2 DEF NoLeakedBackend, HeldBy, StoreTypeOK
  <2>7. QED
    BY <2>3, <2>4, <2>5, <2>6
<1>2. CASE DestroyBackend(t)
  <2> DEFINE e == dying[t]
  <2> USE <1>2
  <2>0. e \in Entries
    BY DEF DestroyBackend, StoreTypeOK
  <2>1. /\ \A c \in Components : slot[c] # e
        /\ \A u \in Threads : made[u] # e /\ e \notin doomed[u]
    BY <2>0 DEF SingleHolder, HeldBy
  <2>2. StoreTypeOK'
    BY DEF StoreTypeOK, DestroyBackend, States
  <2>3. SingleHolder'
    BY DEF SingleHolder, HeldBy, DestroyBackend, StoreTypeOK
  <2>4. SlotsDescribed'
    BY <2>0, <2>1 DEF SlotsDescribed, DestroyBackend, StoreTypeOK
  <2>5. MadeDescribed'
    BY <2>0, <2>1 DEF MadeDescribed, DestroyBackend, StoreTypeOK
  <2>6. NoLeakedBackend'
    BY <2>0 DEF NoLeakedBackend, HeldBy, DestroyBackend, StoreTypeOK
  <2>7. QED
    BY <2>2, <2>3, <2>4, <2>5, <2>6
<1>3. QED
  BY <1>1, <1>2

(* References and pins own nothing.                                        *)
LEMMA PinsOwnNothing ==
  ASSUME OwnershipInv, StoreTypeOK',
         UNCHANGED <<slot, state, backend, desc, made, doomed, dying>>
  PROVE  OwnershipInv'
BY DEF OwnershipInv, SingleHolder, HeldBy, SlotsDescribed, MadeDescribed, NoLeakedBackend

LEMMA OwnershipKept ==
  ASSUME OwnershipInv, NEW t \in Threads, StoreStep(t)
  PROVE  OwnershipInv'
<1>1. ASSUME NEW c \in Components, AcquireRef(t, c)
      PROVE  OwnershipInv'
  <2>1. StoreTypeOK'
    BY <1>1, StoreAssumptions DEF OwnershipInv, StoreTypeOK, AcquireRef, Ready
  <2>2. QED
    BY <1>1, <2>1, PinsOwnNothing DEF AcquireRef
<1>2. CASE ReleaseRef(t)
  <2>1. StoreTypeOK'
    BY <1>2 DEF OwnershipInv, StoreTypeOK, ReleaseRef
  <2>2. QED
    BY <1>2, <2>1, PinsOwnNothing DEF ReleaseRef
<1>3. QED
  BY <1>1, <1>2, MakeOwns, InstallOwns, DiscardOwns, DetachOwns, DrainOwns DEF StoreStep

-----------------------------------------------------------------------------
(* What the reference counts add: a pin keeps its entry before the fence.  *)
PinsInv == RefsCountPins /\ PinnedBeforeFence

(* Nobody uses an entry that is being built.                               *)
LEMMA MakeStep ==
  ASSUME StoreInv, NEW t \in Threads, NEW e \in Entries, NEW d \in Descriptor,
         NEW st \in {"READY", "ERROR"}, Make(t, e, d, st)
  PROVE  PinsInv'
<1> USE StoreAssumptions DEF StoreInv
<1>0. \A u \in Threads : pin[u] # e
  BY DEF Make, Fresh, Reachable
<1>1. RefsCountPins'
  BY DEF RefsCountPins, Make
<1>2. PinnedBeforeFence'
  BY <1>0 DEF PinnedBeforeFence, Make, StoreTypeOK
<1>3. QED
  BY <1>1, <1>2 DEF PinsInv

(* A displaced entry stays pinned in the list.                             *)
LEMMA InstallStep ==
  ASSUME StoreInv, NEW t \in Threads, Install(t)
  PROVE  PinsInv'
<1> USE StoreAssumptions DEF StoreInv
<1> DEFINE e == made[t]
           c == desc[e].component
<1>0. e \in Entries /\ c \in Components
  BY DEF Install, MadeDescribed, StoreTypeOK, Descriptor
<1>1. /\ slot'   = [slot EXCEPT ![c] = e]
      /\ doomed' = [doomed EXCEPT ![t] = @ \cup ({slot[c]} \ {NoEntry})]
      /\ UNCHANGED <<refs, backend, pin>>
  BY DEF Install
<1> HIDE DEF c
<1>2. RefsCountPins'
  BY <1>1 DEF RefsCountPins
<1>3. PinnedBeforeFence'
  BY <1>0, <1>1 DEF PinnedBeforeFence, StoreTypeOK
<1>4. QED
  BY <1>2, <1>3 DEF PinsInv

(* So does one that leaves the map.                                        *)
LEMMA DetachStep ==
  ASSUME StoreInv, NEW t \in Threads, NEW C \in SUBSET Components, NEW marked \in BOOLEAN,
         Detach(t, C, marked)
  PROVE  PinsInv'
<1> USE StoreAssumptions DEF StoreInv
<1> DEFINE gone == {slot[c] : c \in C} \ {NoEntry}
<1>0. /\ slot'   = [c \in Components |-> IF c \in C THEN NoEntry ELSE slot[c]]
      /\ doomed' = [doomed EXCEPT ![t] = @ \cup gone]
      /\ UNCHANGED <<refs, backend, pin>>
  BY DEF Detach
<1>1. RefsCountPins'
  BY <1>0 DEF RefsCountPins
<1>2. PinnedBeforeFence'
  BY <1>0 DEF PinnedBeforeFence, StoreTypeOK
<1>3. QED
  BY <1>1, <1>2 DEF PinsInv

LEMMA DiscardStep ==
  ASSUME StoreInv, NEW t \in Threads, Discard(t)
  PROVE  PinsInv'
BY DEF StoreInv, PinsInv, RefsCountPins, PinnedBeforeFence, Discard

(* The fence: an entry without references has no user left, and, being out *)
(* of the map, cannot get one.                                             *)
LEMMA DrainFenceStep ==
  ASSUME StoreInv, NEW t \in Threads, DrainFence(t)
  PROVE  PinsInv'
<1> USE StoreAssumptions DEF StoreInv
<1>0. PICK e \in doomed[t] :
        /\ refs[e] = 0
        /\ doomed' = [doomed EXCEPT ![t] = @ \ {e}]
        /\ UNCHANGED <<slot, refs, backend, pin>>
  BY DEF DrainFence
<1>1. e \in Entries
  BY <1>0 DEF StoreTypeOK
<1>2. \A u \in Threads : pin[u] # e
  BY <1>0, <1>1, NoRefsNoPins
<1>3. RefsCountPins'
  BY <1>0 DEF RefsCountPins
<1>4. PinnedBeforeFence'
  BY <1>0, <1>2 DEF PinnedBeforeFence, StoreTypeOK
<1>5. QED
  BY <1>3, <1>4 DEF PinsInv

(* destroy() runs on an entry that is in no slot, no list and no use.      *)
LEMMA DestroyBackendStep ==
  ASSUME StoreInv, NEW t \in Threads, DestroyBackend(t)
  PROVE  PinsInv'
<1> USE StoreAssumptions DEF StoreInv
<1> DEFINE e == dying[t]
<1>0. e \in Entries
  BY DEF DestroyBackend, StoreTypeOK
<1>1. /\ \A c \in Components : slot[c] # e
      /\ \A u \in Threads : e \notin doomed[u]
  BY <1>0 DEF SingleHolder, HeldBy
<1>2. \A u \in Threads : pin[u] # e
  BY <1>0, <1>1 DEF PinnedBeforeFence
<1>3. RefsCountPins'
  BY DEF RefsCountPins, DestroyBackend
<1>4. PinnedBeforeFence'
  BY <1>0, <1>2 DEF PinnedBeforeFence, DestroyBackend, StoreTypeOK
<1>5. QED
  BY <1>3, <1>4 DEF PinsInv

(* A pin adds its thread to the users of the occupant of the slot.         *)
LEMMA AcquireRefStep ==
  ASSUME StoreInv, NEW t \in Threads, NEW c \in Components, AcquireRef(t, c)
  PROVE  PinsInv'
<1> USE StoreAssumptions DEF StoreInv
<1> DEFINE e == slot[c]
<1>0. e \in Entries /\ pin[t] = NoEntry /\ backend[e]
  BY DEF AcquireRef, Ready, StoreTypeOK
<1>1. RefsCountPins'
  <2> SUFFICES ASSUME NEW x \in Entries
               PROVE  refs'[x] = Cardinality(Pinning(x)')
    BY DEF RefsCountPins, Pinning
  <2>1. refs[x] = Cardinality(Pinning(x)) /\ IsFiniteSet(Pinning(x))
    BY PinningFinite DEF RefsCountPins, Pinning
  <2>2. CASE x = e
    <3>1. Pinning(x)' = Pinning(x) \cup {t} /\ t \notin Pinning(x)
      BY <2>2, <1>0 DEF Pinning, AcquireRef, StoreTypeOK
    <3>2. Cardinality(Pinning(x)') = Cardinality(Pinning(x)) + 1
      BY <3>1, <2>1, FS_AddElement
    <3>3. refs'[x] = refs[x] + 1
      BY <2>2, <1>0 DEF AcquireRef, StoreTypeOK
    <3>4. QED
      BY <3>2, <3>3, <2>1
  <2>3. CASE x # e
    <3>1. Pinning(x)' = Pinning(x)
      BY <2>3, <1>0 DEF Pinning, AcquireRef, StoreTypeOK
    <3>2. refs'[x] = refs[x]
      BY <2>3, <1>0 DEF AcquireRef, StoreTypeOK
    <3>3. QED
      BY <3>1, <3>2, <2>1
  <2>4. QED
    BY <2>2, <2>3
<1>2. PinnedBeforeFence'
  BY <1>0 DEF PinnedBeforeFence, AcquireRef, StoreTypeOK
<1>3. QED
  BY <1>1, <1>2 DEF PinsInv

(* A release takes its thread away from the users of what it pinned.       *)
LEMMA ReleaseRefStep ==
  ASSUME StoreInv, NEW t \in Threads, ReleaseRef(t)
  PROVE  PinsInv'
<1> USE StoreAssumptions DEF StoreInv
<1> DEFINE e == pin[t]
<1>0. e \in Entries
  BY DEF ReleaseRef, StoreTypeOK
<1>1. RefsCountPins'
  <2> SUFFICES ASSUME NEW x \in Entries
               PROVE  refs'[x] = Cardinality(Pinning(x)')
    BY DEF RefsCountPins, Pinning
  <2>1. /\ refs[x] = Cardinality(Pinning(x))
        /\ IsFiniteSet(Pinning(x))
        /\ Cardinality(Pinning(x)) \in Nat
    BY PinningFinite DEF RefsCountPins, Pinning
  <2>2. CASE x = e
    <3>1. Pinning(x)' = Pinning(x) \ {t} /\ t \in Pinning(x)
      BY <2>2, <1>0 DEF Pinning, ReleaseRef, StoreTypeOK
    <3>2. Cardinality(Pinning(x)') = Cardinality(Pinning(x)) - 1
      BY <3>1, <2>1, FS_RemoveElement
    <3>3. Cardinality(Pinning(x)) # 0
      BY <3>1, <2>1, FS_EmptySet
    <3>4. refs'[x] = refs[x] - 1
      BY <3>3, <2>1, <2>2, <1>0 DEF ReleaseRef, StoreTypeOK
    <3>5. QED
      BY <3>2, <3>4, <2>1
  <2>3. CASE x # e
    <3>1. Pinning(x)' = Pinning(x)
      BY <2>3, <1>0 DEF Pinning, ReleaseRef, StoreTypeOK
    <3>2. refs'[x] = refs[x]
      BY <2>3, <1>0 DEF ReleaseRef, StoreTypeOK
    <3>3. QED
      BY <3>1, <3>2, <2>1
  <2>4. QED
    BY <2>2, <2>3
<1>2. PinnedBeforeFence'
  BY <1>0 DEF PinnedBeforeFence, ReleaseRef, StoreTypeOK
<1>3. QED
  BY <1>1, <1>2 DEF PinsInv

-----------------------------------------------------------------------------
(* StoreInv is inductive.                                                  *)
LEMMA StoreInvStep == StoreInv /\ [StoreNext]_storeVars => StoreInv'
<1> SUFFICES ASSUME StoreInv, [StoreNext]_storeVars PROVE StoreInv'
  OBVIOUS
<1>1. CASE UNCHANGED storeVars
  BY <1>1 DEF StoreInv, storeVars, StoreTypeOK, SingleHolder, HeldBy, RefsCountPins,
              SlotsDescribed, MadeDescribed, PinnedBeforeFence, NoLeakedBackend
<1>2. CASE StoreNext
  <2>1. PICK t \in Threads : StoreStep(t)
    BY <1>2 DEF StoreNext
  <2>2. OwnershipInv'
    BY <2>1, OwnershipKept DEF StoreInv, OwnershipInv
  <2>3. PinsInv'
    BY <2>1, MakeStep, InstallStep, DiscardStep, DetachStep, DrainFenceStep,
       DestroyBackendStep, AcquireRefStep, ReleaseRefStep DEF StoreStep
  <2>4. QED
    BY <2>2, <2>3 DEF StoreInv, OwnershipInv, PinsInv
<1>3. QED
  BY <1>1, <1>2

(* Every caller that keeps to the store's contract keeps its invariant.    *)
THEOREM StoreInvariance == StoreSpec => []StoreInv
<1>1. StoreInit => StoreInv
  BY InitStoreInv
<1>2. StoreInv /\ [StoreNext]_storeVars => StoreInv'
  BY StoreInvStep
<1>3. QED
  BY <1>1, <1>2, PTL DEF StoreSpec

(* The named properties follow from the invariant.                         *)
LEMMA StoreInvProperties ==
  StoreInv => /\ StoreTypeOK /\ SingleHolder /\ RefsCountPins
              /\ NoLeakedBackend /\ NoUseAfterDestroy /\ ReadyIsUsable
<1> SUFFICES ASSUME StoreInv
             PROVE  NoUseAfterDestroy /\ ReadyIsUsable
  BY DEF StoreInv
<1> USE StoreAssumptions DEF StoreInv
<1>1. NoUseAfterDestroy
  BY DEF NoUseAfterDestroy, PinnedBeforeFence, SingleHolder, HeldBy, StoreTypeOK
<1>2. ReadyIsUsable
  BY DEF ReadyIsUsable, Ready, SlotsDescribed
<1>3. QED
  BY <1>1, <1>2

(* No request ever calls into a backend that was destroyed or that a       *)
(* thread is destroying (destroy_loaded_model's fence, for every caller    *)
(* that keeps to the contract).                                            *)
THEOREM StoreSafety == StoreSpec => [](NoUseAfterDestroy /\ SingleHolder /\ NoLeakedBackend)
<1>1. StoreInv => NoUseAfterDestroy /\ SingleHolder /\ NoLeakedBackend
  BY StoreInvProperties
<1>2. QED
  BY <1>1, StoreInvariance, PTL
=============================================================================
