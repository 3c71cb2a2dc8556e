------------------------ MODULE TopSQLController_proofs ------------------------
(***************************************************************************)
(* Proofs about TopSQLController, for every set of components and every     *)
(* number of proxies, changes and panics.                                   *)
(***************************************************************************)
EXTENDS TopSQLController, TLAPS

NothingLeft(slot) == ~slot.held /\ ~slot.source /\ slot.proxies = 0
Waiting(c, s) == waiting = [component |-> c, slot |-> s]

(* The controller holds the sender of exactly the slots it has in           *)
(* running_components or waits for; it has used that of the latter.  A slot *)
(* that is not held and has no task is free.                                *)
HeldSlots ==
  \A c \in Components, s \in Slots :
    /\ slots[c][s].held <=> running[c] = s \/ Waiting(c, s)
    /\ running[c] = s => ~slots[c][s].sent
    /\ Waiting(c, s) => slots[c][s].sent /\ running[c] = 0
    /\ NothingLeft(slots[c][s]) => slots[c][s] = Free

(* A component that is not in `components' has nothing left of any start,   *)
(* and one that is has at most one slot in use.                             *)
OneSlot ==
  \A c \in Components :
    /\ \A s \in Slots : slots[c][s] # Free => c \in components
    /\ \A s, t \in Slots : slots[c][s] # Free /\ slots[c][t] # Free => s = t

(* Outside a shutdown `components' and running_components agree, but for the*)
(* component that is being stopped; those that are not in `latest' are still*)
(* to be stopped.                                                           *)
Stopping == {c \in Components : \E s \in Slots : Waiting(c, s)}

Books ==
  /\ waiting # NoOne <=> pc \in {"await", "drain_await"}
  /\ pc \in {"new", "fetch", "stop", "await", "sleep"} =>
       /\ \A c \in Components : c \in components <=> running[c] # 0 \/ c \in Stopping
       /\ components \subseteq latest \cup leavers \cup Stopping
       /\ leavers \subseteq components \ (latest \cup Stopping)
  /\ pc = "await" => Stopping \cap latest = {}
  /\ pc \in {"new", "fetch", "sleep"} => leavers = {}
  /\ \A c \in Components : running[c] # 0 => c \in components
  /\ pc \in {"root", "exited"} => \A c \in Components : running[c] = 0

(* What belongs to a shutdown happens after the signal.                     *)
ShutdownOrder ==
  /\ pc \in {"drain", "drain_await", "root"} => shutdown
  /\ root.sent => shutdown /\ pc \in {"root", "exited"}
  /\ pc = "new" => components = {}
  /\ pc = "exited" => \A c \in Components, s \in Slots : ~Alive(c, s)

ControllerInv == TypeOK /\ HeldSlots /\ OneSlot /\ Books /\ ShutdownOrder

-----------------------------------------------------------------------------
(* What the steps do to slots.                                              *)
SlotMap == [Components -> [Slots -> Slot]]

LEMMA FreeType == Free \in Slot /\ NothingLeft(Free) /\ ~Free.sent
BY DEF Free, Slot, NothingLeft

(* A slot that is put back is freed if nothing is left of it.               *)
LEMMA ClearedSlot ==
  ASSUME NEW slot \in Slot
  PROVE  /\ Cleared(slot) \in Slot
         /\ NothingLeft(slot) => Cleared(slot) = Free
         /\ ~NothingLeft(slot) => Cleared(slot) = slot
BY FreeType DEF Cleared, NothingLeft

(* One slot of one component is set, the others stay as they are.           *)
LEMMA SlotSet ==
  ASSUME slots \in SlotMap,
         NEW c \in Components, NEW s \in Slots, NEW slot \in Slot,
         NEW new, new = [slots EXCEPT ![c][s] = slot]
  PROVE  /\ new \in SlotMap
         /\ \A d \in Components, t \in Slots :
              new[d][t] = IF d = c /\ t = s THEN slot ELSE slots[d][t]
BY DEF SlotMap

(* A task's step is a step of a slot with a task, and leaves the sender of  *)
(* its channel alone.                                                       *)
LEMMA TaskStepSlot ==
  ASSUME TypeOK, NEW c \in Components, NEW s \in Slots, TaskStep(c, s)
  PROVE  /\ UNCHANGED <<cluster, shutdown, controller>> /\ panics' \in Nat
         /\ Alive(c, s)
         /\ \E slot \in Slot :
              /\ slots' = [slots EXCEPT ![c][s] = slot]
              /\ \/ slot = Free /\ ~slots[c][s].held
                 \/ slot.held = slots[c][s].held /\ slot.sent = slots[c][s].sent
              /\ NothingLeft(slot) => slot = Free
<1> DEFINE old == slots[c][s]
<1>0. old \in Slot
  BY DEF TypeOK
<1>1. CASE SpawnProxy(c, s)
  <2> DEFINE new == [old EXCEPT !.proxies = @ + 1]
  <2>1. /\ new \in Slot /\ new.held = old.held /\ new.sent = old.sent
        /\ ~NothingLeft(new)
    BY <1>0, <1>1 DEF Slot, NothingLeft, SpawnProxy
  <2>2. slots' = [slots EXCEPT ![c][s] = new]
    BY <1>1 DEF SpawnProxy
  <2>3. Alive(c, s) /\ UNCHANGED <<environment, controller>>
    BY <1>1 DEF SpawnProxy, Alive
  <2> QED
    BY <2>1, <2>2, <2>3 DEF environment, TypeOK
<1>2. CASE SourceExits(c, s) \/ SourcePanics(c, s)
  <2> DEFINE new == [old EXCEPT !.source = FALSE]
  <2>1. new \in Slot /\ new.held = old.held /\ new.sent = old.sent
    BY <1>0 DEF Slot
  <2>2. slots' = [slots EXCEPT ![c][s] = Cleared(new)]
    BY <1>2 DEF SourceExits, SourcePanics
  <2>3. Alive(c, s) /\ UNCHANGED <<cluster, shutdown, controller>> /\ panics' \in Nat
    BY <1>2 DEF SourceExits, SourcePanics, Alive, environment, TypeOK
  <2> QED
    BY <2>1, <2>2, <2>3, ClearedSlot DEF NothingLeft
<1>3. CASE ProxyEnds(c, s)
  <2> DEFINE new == [old EXCEPT !.proxies = @ - 1]
  <2>0. old.proxies > 0
    BY <1>3 DEF ProxyEnds
  <2>1. new \in Slot /\ new.held = old.held /\ new.sent = old.sent
    BY <1>0, <2>0 DEF Slot
  <2>2. slots' = [slots EXCEPT ![c][s] = Cleared(new)]
    BY <1>3 DEF ProxyEnds
  <2>3. Alive(c, s) /\ UNCHANGED <<environment, controller>>
    BY <1>3, <2>0 DEF ProxyEnds, Alive
  <2> QED
    BY <2>1, <2>2, <2>3, ClearedSlot DEF NothingLeft, environment, TypeOK
<1> QED
  BY <1>1, <1>2, <1>3 DEF TaskStep

(* The sender of a running component is used and its exit awaited.          *)
LEMMA StopSlot ==
  ASSUME TypeOK, NEW c \in Components, running[c] # 0, StopLeaver(c) \/ DrainNext(c)
  PROVE  /\ running[c] \in Slots
         /\ waiting' = [component |-> c, slot |-> running[c]]
         /\ running' = [running EXCEPT ![c] = 0]
         /\ \E slot \in Slot :
              /\ slots' = [slots EXCEPT ![c][running[c]] = slot]
              /\ slot = [slots[c][running[c]] EXCEPT !.sent = TRUE]
<1>1. running[c] \in Slots
  BY DEF TypeOK
<1>2. slots[c][running[c]] \in Slot
  BY <1>1 DEF TypeOK
<1>3. [slots[c][running[c]] EXCEPT !.sent = TRUE] \in Slot
  BY <1>2 DEF Slot
<1> QED
  BY <1>1, <1>3 DEF StopLeaver, DrainNext

(* Dropping the notifier of the component that is awaited.                  *)
LEMMA DroppedSlot ==
  ASSUME TypeOK, waiting # NoOne
  PROVE  /\ waiting.component \in Components /\ waiting.slot \in Slots
         /\ waiting = [component |-> waiting.component, slot |-> waiting.slot]
         /\ \E slot \in Slot :
              /\ DropNotifier(waiting) = [slots EXCEPT ![waiting.component][waiting.slot] = slot]
              /\ NothingLeft(slot) => slot = Free
              /\ ~slot.held
              /\ ~Alive(waiting.component, waiting.slot) => slot = Free
<1>1. /\ waiting.component \in Components /\ waiting.slot \in Slots
      /\ waiting = [component |-> waiting.component, slot |-> waiting.slot]
  BY DEF TypeOK
<1> DEFINE old == slots[waiting.component][waiting.slot]
           new == [old EXCEPT !.held = FALSE]
<1>2. old \in Slot
  BY <1>1 DEF TypeOK
<1>3. /\ new \in Slot /\ ~new.held
      /\ ~Alive(waiting.component, waiting.slot) => NothingLeft(new)
  <2>1. new \in Slot /\ ~new.held /\ new.source = old.source /\ new.proxies = old.proxies
    BY <1>2 DEF Slot
  <2>2. ~Alive(waiting.component, waiting.slot) => ~old.source /\ ~(old.proxies > 0)
    BY DEF Alive
  <2>3. ~(old.proxies > 0) => old.proxies = 0
    BY <1>2 DEF Slot
  <2> QED
    BY <2>1, <2>2, <2>3 DEF NothingLeft
<1>4. DropNotifier(waiting) = [slots EXCEPT ![waiting.component][waiting.slot] = Cleared(new)]
  BY DEF DropNotifier
<1>5. Cleared(new) \in Slot /\ ~Cleared(new).held /\ (NothingLeft(Cleared(new)) => Cleared(new) = Free)
      /\ (~Alive(waiting.component, waiting.slot) => Cleared(new) = Free)
  BY <1>3, ClearedSlot, FreeType DEF NothingLeft
<1> QED
  BY <1>1, <1>4, <1>5

(* A fetch may return whatever UpComponents lets a call answer, and that    *)
(* alone (controller.rs:82-88).                                             *)
LEMMA AnswersAreFetched ==
  \A found : found \in Fetched <=> Truthful(found, up, unsteady)
BY DEF Fetched, Truthful

(* A newcomer gets a slot that was free.                                    *)
Newcomers == (latest' \ components) \cap Topsql
Started == [Free EXCEPT !.held = TRUE, !.source = TRUE]

LEMMA StartedSlot ==
  ASSUME TypeOK, FetchSucceeds
  PROVE  /\ latest' \subseteq Components
         /\ Started \in Slot /\ Started.held /\ Started.source /\ ~Started.sent
         /\ slots' \in SlotMap
         /\ \A c \in Newcomers :
              /\ FreeSlot(c) \in Slots /\ slots[c][FreeSlot(c)] = Free
              /\ running'[c] = FreeSlot(c)
              /\ \A t \in Slots : slots'[c][t] = IF t = FreeSlot(c) THEN Started ELSE slots[c][t]
         /\ \A c \in Components \ Newcomers : slots'[c] = slots[c] /\ running'[c] = running[c]
         /\ running' \in [Components -> Slots \cup {0}]
         /\ components' = components \cup Newcomers
<1>1. latest' \subseteq Components
  BY DEF FetchSucceeds, Fetched, TypeOK
<1>2. Started \in Slot /\ Started.held /\ Started.source /\ ~Started.sent
  BY DEF Free, Slot, Started
<1>3. \A c \in Newcomers : FreeSlot(c) \in Slots /\ slots[c][FreeSlot(c)] = Free
  BY DEF FetchSucceeds, StartNewcomers, FreeSlot, Newcomers
<1>4. /\ slots' = [c \in Components |-> IF c \in Newcomers
                     THEN [slots[c] EXCEPT ![FreeSlot(c)] = Started] ELSE slots[c]]
      /\ running' = [c \in Components |-> IF c \in Newcomers THEN FreeSlot(c) ELSE running[c]]
      /\ components' = components \cup Newcomers
  BY DEF FetchSucceeds, StartNewcomers, Newcomers, Started
<1>5. \A c \in Components : slots[c] \in [Slots -> Slot]
  BY DEF TypeOK
<1>6. Newcomers \subseteq Components
  BY DEF Newcomers, Topsql
<1>7. slots' \in SlotMap
  BY <1>2, <1>4, <1>5 DEF SlotMap
<1>8. running' \in [Components -> Slots \cup {0}]
  BY <1>3, <1>4 DEF TypeOK
<1>9. ASSUME NEW c \in Newcomers
      PROVE  running'[c] = FreeSlot(c) /\ slots'[c] = [slots[c] EXCEPT ![FreeSlot(c)] = Started]
  BY <1>4, <1>6
<1>10. ASSUME NEW c \in Newcomers, NEW t \in Slots
       PROVE  slots'[c][t] = IF t = FreeSlot(c) THEN Started ELSE slots[c][t]
  BY <1>5, <1>6, <1>9
<1>11. ASSUME NEW c \in Components \ Newcomers
       PROVE  slots'[c] = slots[c] /\ running'[c] = running[c]
  BY <1>4
<1> QED
  BY <1>1, <1>2, <1>3, <1>4, <1>7, <1>8, <1>9, <1>10, <1>11

(* Every variable keeps its type.                                           *)
THEOREM ControllerTypeCorrect == Spec => []TypeOK
<1>1. Init => TypeOK
  <2> SUFFICES ASSUME Init PROVE TypeOK
    OBVIOUS
  <2>1. slots \in SlotMap
    BY FreeType DEF Init, SlotMap
  <2> QED
    BY <2>1 DEF Init, TypeOK, SlotMap
<1>2. TypeOK /\ [Next]_vars => TypeOK'
  <2> SUFFICES ASSUME TypeOK, [Next]_vars PROVE TypeOK'
    OBVIOUS
  <2>0. slots \in SlotMap
    BY DEF TypeOK, SlotMap
  <2> USE DEF environment, cluster, controller
  <2>1. CASE ChangeTopology
    BY <2>1 DEF ChangeTopology, TypeOK
  <2>2. CASE RequestShutdown
    BY <2>2 DEF RequestShutdown, TypeOK
  <2>3. CASE Created \/ CreationFails \/ FetchFails \/ RoundDone \/ WakeUp
    BY <2>3 DEF Created, CreationFails, FetchFails, RoundDone, WakeUp, TypeOK
  <2>4. CASE FetchSucceeds
    BY <2>4, StartedSlot DEF FetchSucceeds, Newcomers, SlotMap, TypeOK
  <2>5. ASSUME NEW c \in Components, StopLeaver(c) \/ DrainNext(c)
        PROVE  TypeOK'
    <3>1. CASE running[c] = 0
      BY <2>5, <3>1 DEF StopLeaver, DrainNext, TypeOK
    <3>2. CASE running[c] # 0
      <4>1. PICK slot \in Slot : slots' = [slots EXCEPT ![c][running[c]] = slot]
        BY <2>5, <3>2, StopSlot
      <4>2. slots' \in SlotMap
        BY <2>0, <2>5, <3>2, <4>1, StopSlot, SlotSet
      <4> QED
        BY <2>5, <3>2, <4>2, StopSlot DEF StopLeaver, DrainNext, TypeOK, SlotMap
    <3> QED
      BY <3>1, <3>2
  <2>6. CASE LeaverStopped \/ Drained \/ CancelLoop
    <3>1. waiting # NoOne => DropNotifier(waiting) \in SlotMap
      BY <2>0, DroppedSlot, SlotSet
    <3>2. CASE LeaverStopped \/ Drained
      BY <3>1, <3>2 DEF LeaverStopped, Drained, Exited, TypeOK, SlotMap
    <3>3. CASE CancelLoop
      <4>1. CASE waiting = NoOne
        <5>1. waiting.slot \notin Slots
          BY <4>1 DEF NoOne, Slots
        <5>2. \A slot : [slots EXCEPT ![waiting.component][waiting.slot] = slot] \in SlotMap
          BY <2>0, <5>1 DEF SlotMap
        <5>3. slots' \in SlotMap
          BY <2>0, <3>3, <5>2 DEF CancelLoop, DropNotifier
        <5> QED
          BY <3>3, <5>3 DEF CancelLoop, TypeOK, SlotMap
      <4>2. CASE waiting # NoOne
        <5>1. slots' \in SlotMap
          BY <2>0, <3>1, <3>3, <4>2 DEF CancelLoop
        <5> QED
          BY <3>3, <5>1 DEF CancelLoop, TypeOK, SlotMap
      <4> QED
        BY <4>1, <4>2
    <3> QED
      BY <2>6, <3>2, <3>3
  <2>7. CASE ShutdownRoot
    BY <2>7 DEF ShutdownRoot, TypeOK
  <2>8. CASE Exit
    BY <2>8 DEF Exit, TypeOK
  <2>9. ASSUME NEW c \in Components, NEW s \in Slots, TaskStep(c, s)
        PROVE  TypeOK'
    <3>1. slots' \in SlotMap
      BY <2>0, <2>9, TaskStepSlot, SlotSet
    <3> QED
      BY <2>9, <3>1, TaskStepSlot DEF TypeOK, SlotMap
  <2>10. CASE UNCHANGED vars
    BY <2>10 DEF vars, TypeOK
  <2> QED
    BY <2>1, <2>2, <2>3, <2>4, <2>5, <2>6, <2>7, <2>8, <2>9, <2>10
       DEF Next, ControllerStep, Terminated
<1> QED
  BY <1>1, <1>2, PTL DEF Spec

-----------------------------------------------------------------------------
(* Who is being stopped, in terms of `waiting'.                             *)
LEMMA StoppingSet ==
  ASSUME TypeOK
  PROVE  /\ waiting = NoOne => Stopping = {} /\ \A c \in Components, s \in Slots : ~Waiting(c, s)
         /\ waiting # NoOne => Stopping = {waiting.component}
                               /\ \A c \in Components, s \in Slots :
                                    Waiting(c, s) <=> c = waiting.component /\ s = waiting.slot
<1>1. \A c \in Components, s \in Slots : [component |-> c, slot |-> s] # NoOne
  BY DEF NoOne, Slots
<1>2. waiting # NoOne =>
        /\ waiting.component \in Components /\ waiting.slot \in Slots
        /\ waiting = [component |-> waiting.component, slot |-> waiting.slot]
  BY DroppedSlot
<1> QED
  BY <1>1, <1>2 DEF Stopping, Waiting

(* The controller is never without the means to stop a source.              *)
LEMMA ControllerInvariant == Spec => []ControllerInv
<1>1. Init => ControllerInv
  <2> SUFFICES ASSUME Init PROVE ControllerInv
    OBVIOUS
  <2>1. TypeOK
    <3>1. slots \in SlotMap
      BY FreeType DEF Init, SlotMap
    <3> QED
      BY <3>1 DEF Init, TypeOK, SlotMap
  <2>2. \A c \in Components, s \in Slots : slots[c][s] = Free /\ ~Free.held /\ running[c] = 0
    BY FreeType DEF Init, NothingLeft
  <2>3. Stopping = {} /\ \A c \in Components, s \in Slots : ~Waiting(c, s)
    BY <2>1, StoppingSet DEF Init
  <2>4. HeldSlots /\ OneSlot
    BY <2>2, <2>3 DEF HeldSlots, OneSlot, Slots
  <2> QED
    BY <2>1, <2>2, <2>3, <2>4 DEF Init, ControllerInv, Books, ShutdownOrder
<1>2. ControllerInv /\ TypeOK' /\ [Next]_vars => ControllerInv'
  <2> SUFFICES ASSUME ControllerInv, TypeOK', [Next]_vars PROVE ControllerInv'
    OBVIOUS
  <2>0. /\ TypeOK /\ HeldSlots /\ OneSlot /\ Books /\ ShutdownOrder
        /\ slots \in SlotMap
    BY DEF ControllerInv, TypeOK, SlotMap
  <2> USE DEF environment, cluster, controller
  <2>1. ASSUME UNCHANGED <<slots, running, waiting, components>>
        PROVE  HeldSlots' /\ OneSlot' /\ Stopping' = Stopping
    BY <2>0, <2>1 DEF HeldSlots, OneSlot, Stopping, Waiting
  <2>2. CASE ChangeTopology \/ RequestShutdown \/ UNCHANGED vars
    <3>1. UNCHANGED <<controller, slots>> /\ (shutdown => shutdown')
      BY <2>2 DEF ChangeTopology, RequestShutdown, vars
    <3> QED
      BY <2>0, <2>1, <3>1 DEF ControllerInv, Books, ShutdownOrder, Alive
  <2>3. CASE Created \/ FetchFails \/ RoundDone \/ WakeUp
    <3>1. UNCHANGED <<shutdown, latest, leavers, components, running, waiting, slots, root>>
      BY <2>3 DEF Created, FetchFails, RoundDone, WakeUp
    <3> QED
      BY <2>0, <2>1, <2>3, <3>1
         DEF ControllerInv, Books, ShutdownOrder, Created, FetchFails, RoundDone, WakeUp
  <2>4. CASE CreationFails
    <3>1. UNCHANGED <<shutdown, latest, leavers, components, running, waiting, slots, root>>
          /\ pc = "new" /\ pc' = "exited"
      BY <2>4 DEF CreationFails
    <3>2. \A c \in Components, s \in Slots : ~Alive(c, s)'
      BY <2>0, <3>1, FreeType DEF OneSlot, ShutdownOrder, Alive, NothingLeft, Slot
    <3>3. \A c \in Components : running[c] = 0
      BY <2>0, <3>1 DEF Books, ShutdownOrder
    <3> QED
      BY <2>0, <2>1, <3>1, <3>2, <3>3 DEF ControllerInv, Books, ShutdownOrder
  <2>5. CASE FetchSucceeds
    <3>1. /\ pc = "fetch" /\ pc' = "stop" /\ leavers' = components \ latest'
          /\ UNCHANGED <<shutdown, root, waiting>>
      BY <2>5 DEF FetchSucceeds
    <3>2. /\ waiting = NoOne /\ Stopping = {} /\ Stopping' = {}
          /\ \A c \in Components, s \in Slots : ~Waiting(c, s) /\ ~Waiting(c, s)'
      BY <2>0, <3>1, StoppingSet DEF Books, Stopping, Waiting
    <3>3. /\ \A c \in Newcomers :
               /\ c \in Components /\ c \in latest' /\ c \notin components
               /\ running[c] = 0 /\ running'[c] = FreeSlot(c) /\ FreeSlot(c) \in Slots
               /\ \A t \in Slots : slots[c][t] = Free
               /\ \A t \in Slots : slots'[c][t] = IF t = FreeSlot(c) THEN Started ELSE Free
          /\ \A c \in Components \ Newcomers : slots'[c] = slots[c] /\ running'[c] = running[c]
          /\ components' = components \cup Newcomers
      BY <2>0, <2>5, StartedSlot DEF Newcomers, Topsql, OneSlot, Books
    <3>4. /\ Started.held /\ ~Started.sent /\ ~NothingLeft(Started)
          /\ ~Free.held /\ ~Free.sent
      BY <2>0, <2>5, StartedSlot, FreeType DEF NothingLeft
    <3>5. HeldSlots'
      <4> SUFFICES ASSUME NEW c \in Components, NEW s \in Slots
                   PROVE  /\ slots'[c][s].held <=> running'[c] = s
                          /\ running'[c] = s => ~slots'[c][s].sent
                          /\ NothingLeft(slots'[c][s]) => slots'[c][s] = Free
        BY <3>2 DEF HeldSlots, NothingLeft
      <4>1. CASE c \in Newcomers
        BY <3>3, <3>4, <4>1
      <4>2. CASE c \notin Newcomers
        BY <2>0, <3>2, <3>3, <4>2 DEF HeldSlots
      <4> QED
        BY <4>1, <4>2
    <3>6. OneSlot'
      <4> SUFFICES ASSUME NEW c \in Components
                   PROVE  /\ \A s \in Slots : slots'[c][s] # Free => c \in components'
                          /\ \A s, t \in Slots : slots'[c][s] # Free /\ slots'[c][t] # Free => s = t
        BY DEF OneSlot
      <4>1. CASE c \in Newcomers
        BY <3>3, <4>1
      <4>2. CASE c \notin Newcomers
        BY <2>0, <3>3, <4>2 DEF OneSlot
      <4> QED
        BY <4>1, <4>2
    <3>7. \A c \in Components : c \in components' <=> running'[c] # 0
      <4> SUFFICES ASSUME NEW c \in Components
                   PROVE  c \in components' <=> running'[c] # 0
        OBVIOUS
      <4>1. CASE c \in Newcomers
        BY <3>3, <4>1 DEF Slots
      <4>2. CASE c \notin Newcomers
        BY <2>0, <3>1, <3>2, <3>3, <4>2 DEF Books
      <4> QED
        BY <4>1, <4>2
    <3>8. Books'
      BY <2>0, <3>1, <3>2, <3>3, <3>7 DEF Books, TypeOK
    <3> QED
      BY <2>0, <3>1, <3>5, <3>6, <3>8 DEF ControllerInv, ShutdownOrder
  <2>6. ASSUME NEW c \in Components, StopLeaver(c) \/ DrainNext(c)
        PROVE  ControllerInv'
    <3>1. /\ pc \in {"stop", "drain"} /\ waiting = NoOne /\ Stopping = {}
          /\ \A d \in Components, t \in Slots : ~Waiting(d, t)
          /\ UNCHANGED <<shutdown, root, latest, components>>
      BY <2>0, <2>6, StoppingSet DEF StopLeaver, DrainNext, Books
    <3>2. running[c] # 0
      BY <2>0, <2>6, <3>1 DEF StopLeaver, DrainNext, Books
    <3> DEFINE s == running[c]
    <3>3. PICK slot \in Slot : /\ slots' = [slots EXCEPT ![c][s] = slot]
                               /\ slot = [slots[c][s] EXCEPT !.sent = TRUE]
      BY <2>0, <2>6, <3>2, StopSlot
    <3>4. /\ s \in Slots
          /\ waiting' = [component |-> c, slot |-> s]
          /\ running' = [running EXCEPT ![c] = 0]
      BY <2>0, <2>6, <3>2, StopSlot
    <3>5. slot.sent /\ slot.held /\ slot # Free /\ slots[c][s] # Free
      <4>1. slots[c][s].held /\ slots[c][s] \in Slot
        BY <2>0, <3>4 DEF HeldSlots, TypeOK
      <4>2. slot.sent /\ slot.held
        BY <3>3, <4>1 DEF Slot
      <4> QED
        BY <4>1, <4>2, FreeType DEF NothingLeft
    <3>6. \A d \in Components, t \in Slots :
            slots'[d][t] = IF d = c /\ t = s THEN slot ELSE slots[d][t]
      BY <2>0, <3>3, <3>4 DEF SlotMap
    <3>7. \A d \in Components : running'[d] = IF d = c THEN 0 ELSE running[d]
      BY <2>0, <3>4 DEF TypeOK
    <3>8. \A d \in Components, t \in Slots : Waiting(d, t)' <=> d = c /\ t = s
      BY <3>4 DEF Waiting
    <3>9. HeldSlots'
      <4> SUFFICES ASSUME NEW d \in Components, NEW t \in Slots
                   PROVE  /\ slots'[d][t].held <=> running'[d] = t \/ Waiting(d, t)'
                          /\ running'[d] = t => ~slots'[d][t].sent
                          /\ Waiting(d, t)' => slots'[d][t].sent /\ running'[d] = 0
                          /\ NothingLeft(slots'[d][t]) => slots'[d][t] = Free
        BY DEF HeldSlots, NothingLeft
      <4>0. 0 \notin Slots
        BY DEF Slots
      <4>1. CASE d = c /\ t = s
        BY <3>5, <3>6, <3>7, <3>8, <4>0, <4>1 DEF NothingLeft
      <4>2. CASE d = c /\ t # s
        BY <2>0, <3>1, <3>4, <3>6, <3>7, <3>8, <4>0, <4>2 DEF HeldSlots
      <4>3. CASE d # c
        BY <2>0, <3>1, <3>6, <3>7, <3>8, <4>3 DEF HeldSlots
      <4> QED
        BY <4>1, <4>2, <4>3
    <3>10. OneSlot'
      BY <2>0, <3>1, <3>4, <3>5, <3>6 DEF OneSlot
    <3>11. Stopping' = {c}
      BY <3>4, <3>8 DEF Stopping
    <3>12. waiting' # NoOne
      BY <3>4 DEF NoOne, Slots
    <3>13. Books' /\ ShutdownOrder'
      <4>1. CASE StopLeaver(c)
        <5>1. /\ pc = "stop" /\ c \in leavers /\ leavers' = leavers \ {c} /\ pc' = "await"
          BY <3>2, <4>1 DEF StopLeaver
        <5> QED
          BY <2>0, <3>1, <3>7, <3>11, <3>12, <5>1 DEF Books, ShutdownOrder
      <4>2. CASE DrainNext(c)
        <5>1. /\ pc = "drain" /\ leavers' = leavers /\ pc' = "drain_await"
          BY <4>2 DEF DrainNext
        <5> QED
          BY <2>0, <3>1, <3>7, <3>11, <3>12, <5>1 DEF Books, ShutdownOrder
      <4> QED
        BY <2>6, <4>1, <4>2
    <3> QED
      BY <3>9, <3>10, <3>13 DEF ControllerInv
  <2>7. CASE LeaverStopped \/ Drained \/ (CancelLoop /\ pc = "await")
    <3>1. /\ waiting # NoOne /\ pc \in {"await", "drain_await"}
          /\ slots' = DropNotifier(waiting) /\ waiting' = NoOne
          /\ UNCHANGED <<latest, running, root, shutdown>>
      BY <2>0, <2>7 DEF LeaverStopped, Drained, CancelLoop, Exited, Books
    <3> DEFINE c == waiting.component
               s == waiting.slot
    <3>2. PICK slot \in Slot : /\ slots' = [slots EXCEPT ![c][s] = slot]
                               /\ NothingLeft(slot) => slot = Free
                               /\ ~slot.held
                               /\ ~Alive(c, s) => slot = Free
      BY <2>0, <3>1, DroppedSlot
    <3>3. c \in Components /\ s \in Slots
      BY <2>0, <3>1, DroppedSlot
    <3>4. /\ \A d \in Components, t \in Slots : Waiting(d, t) <=> d = c /\ t = s
          /\ Stopping = {c}
      BY <2>0, <3>1, StoppingSet
    <3>5. \A d \in Components, t \in Slots :
            slots'[d][t] = IF d = c /\ t = s THEN slot ELSE slots[d][t]
      BY <2>0, <3>2, <3>3 DEF SlotMap
    <3>6. /\ \A d \in Components, t \in Slots : ~Waiting(d, t)'
          /\ Stopping' = {}
      BY <3>1 DEF Waiting, Stopping, NoOne, Slots
    <3>7. running[c] = 0 /\ slots[c][s] # Free
      BY <2>0, <3>3, <3>4, FreeType DEF HeldSlots, NothingLeft
    <3>8. HeldSlots'
      <4> SUFFICES ASSUME NEW d \in Components, NEW t \in Slots
                   PROVE  /\ slots'[d][t].held <=> running[d] = t
                          /\ running[d] = t => ~slots'[d][t].sent
                          /\ NothingLeft(slots'[d][t]) => slots'[d][t] = Free
        BY <3>1, <3>6 DEF HeldSlots, NothingLeft
      <4>1. CASE d = c /\ t = s
        BY <3>2, <3>5, <3>7, <4>1 DEF Slots
      <4>2. CASE ~(d = c /\ t = s)
        BY <2>0, <3>4, <3>5, <4>2 DEF HeldSlots
      <4> QED
        BY <4>1, <4>2
    <3>9. CASE LeaverStopped
      <4>1. slot = Free /\ components' = components \ {c} /\ pc = "await" /\ pc' = "stop"
            /\ UNCHANGED leavers
        BY <3>2, <3>9 DEF LeaverStopped, Exited
      <4>2. OneSlot'
        <5>1. \A t \in Slots : slots'[c][t] = Free
          BY <2>0, <3>3, <3>5, <3>7, <4>1 DEF OneSlot
        <5> QED
          BY <2>0, <3>5, <4>1, <5>1 DEF OneSlot
      <4>3. Books'
        BY <2>0, <3>1, <3>4, <3>6, <3>7, <4>1 DEF Books
      <4> QED
        BY <2>0, <3>1, <3>8, <4>1, <4>2, <4>3 DEF ControllerInv, ShutdownOrder
    <3>10. CASE Drained \/ (CancelLoop /\ pc = "await")
      <4>1. /\ pc' = "drain" /\ UNCHANGED components /\ shutdown
        BY <2>0, <3>10 DEF Drained, CancelLoop, ShutdownOrder
      <4>2. OneSlot'
        BY <2>0, <3>3, <3>5, <3>7, <4>1 DEF OneSlot
      <4>3. Books'
        BY <2>0, <3>1, <4>1 DEF Books
      <4> QED
        BY <2>0, <3>1, <3>8, <4>1, <4>2, <4>3 DEF ControllerInv, ShutdownOrder
    <3> QED
      BY <2>7, <3>9, <3>10
  <2>8. CASE CancelLoop /\ pc # "await"
    <3>1. /\ pc \in {"fetch", "sleep"} /\ pc' = "drain" /\ shutdown
          /\ waiting' = NoOne
          /\ UNCHANGED <<slots, shutdown, latest, components, running, root>>
      BY <2>8 DEF CancelLoop
    <3>2. UNCHANGED waiting
      BY <2>0, <3>1 DEF Books
    <3> QED
      BY <2>0, <2>1, <3>1, <3>2 DEF ControllerInv, Books, ShutdownOrder
  <2>9. CASE ShutdownRoot
    <3>1. /\ pc = "drain" /\ pc' = "root" /\ \A c \in Components : running[c] = 0
          /\ UNCHANGED <<slots, shutdown, latest, leavers, components, running, waiting>>
      BY <2>9 DEF ShutdownRoot
    <3> QED
      BY <2>0, <2>1, <3>1 DEF ControllerInv, Books, ShutdownOrder
  <2>10. CASE Exit
    <3>1. /\ pc = "root" /\ pc' = "exited" /\ \A c \in Components, s \in Slots : ~Alive(c, s)
          /\ UNCHANGED <<slots, shutdown, latest, leavers, components, running, waiting, root>>
      BY <2>10 DEF Exit, RootClosed
    <3> QED
      BY <2>0, <2>1, <3>1 DEF ControllerInv, Books, ShutdownOrder, Alive
  <2>11. ASSUME NEW c \in Components, NEW s \in Slots, TaskStep(c, s)
         PROVE  ControllerInv'
    <3>1. PICK slot \in Slot :
            /\ slots' = [slots EXCEPT ![c][s] = slot]
            /\ \/ slot = Free /\ ~slots[c][s].held
               \/ slot.held = slots[c][s].held /\ slot.sent = slots[c][s].sent
            /\ NothingLeft(slot) => slot = Free
      BY <2>0, <2>11, TaskStepSlot
    <3>2. UNCHANGED <<shutdown, controller>> /\ Alive(c, s)
      BY <2>0, <2>11, TaskStepSlot
    <3>3. \A d \in Components, t \in Slots :
            slots'[d][t] = IF d = c /\ t = s THEN slot ELSE slots[d][t]
      BY <2>0, <3>1 DEF SlotMap
    <3>4. slots[c][s] # Free
      BY <3>2, FreeType DEF Alive, NothingLeft
    <3>5. HeldSlots'
      <4> SUFFICES ASSUME NEW d \in Components, NEW t \in Slots
                   PROVE  /\ slots'[d][t].held <=> running[d] = t \/ Waiting(d, t)
                          /\ running[d] = t => ~slots'[d][t].sent
                          /\ Waiting(d, t) => slots'[d][t].sent /\ running[d] = 0
                          /\ NothingLeft(slots'[d][t]) => slots'[d][t] = Free
        BY <3>2 DEF HeldSlots, NothingLeft, Waiting
      <4>1. CASE d = c /\ t = s
        BY <2>0, <3>1, <3>3, <4>1, FreeType DEF HeldSlots, NothingLeft
      <4>2. CASE ~(d = c /\ t = s)
        BY <2>0, <3>3, <4>2 DEF HeldSlots
      <4> QED
        BY <4>1, <4>2
    <3>6. OneSlot'
      BY <2>0, <3>2, <3>3, <3>4 DEF OneSlot
    <3>7. Books'
      BY <2>0, <3>2 DEF Books, Stopping, Waiting
    <3>8. ShutdownOrder'
      BY <2>0, <3>2 DEF ShutdownOrder
    <3> QED
      BY <3>5, <3>6, <3>7, <3>8 DEF ControllerInv
  <2>12. CASE ControllerStep
    <3>1. CancelLoop => ControllerInv'
      BY <2>7, <2>8
    <3>2. LeaverStopped \/ Drained => ControllerInv'
      BY <2>7
    <3>3. (\E c \in Components : StopLeaver(c) \/ DrainNext(c)) => ControllerInv'
      BY <2>6
    <3> QED
      BY <2>3, <2>4, <2>5, <3>1, <3>2, <3>3, <2>9, <2>10, <2>12 DEF ControllerStep
  <2> QED
    BY <2>2, <2>11, <2>12 DEF Next, Terminated
<1> QED
  BY <1>1, <1>2, ControllerTypeCorrect, PTL DEF Spec

(* An instance is never subscribed to twice, not even by what is left of an *)
(* earlier start of it (controller.rs:93-104, 140-141).                     *)
THEOREM NeverSubscribedTwice == Spec => []OneSourcePerComponent
<1>1. ControllerInv => OneSourcePerComponent
  BY FreeType DEF ControllerInv, OneSlot, OneSourcePerComponent, Alive, NothingLeft, Slot
<1> QED
  BY <1>1, ControllerInvariant, PTL

(* The controller can reach every source it has not told to stop            *)
(* (controller.rs:55-63, 128, 135).                                         *)
THEOREM EverySourceIsReached == Spec => []NoOrphan
<1>1. ControllerInv => NoOrphan
  BY DEF ControllerInv, HeldSlots, Books, Slots, NoOrphan, Signalled
<1> QED
  BY <1>1, ControllerInvariant, PTL

(* Between two rounds every source that is left is one of the topology      *)
(* fetched last, so two of one address are both reported                    *)
(* (controller.rs:89-104, topology/mod.rs:34-41).                           *)
THEOREM OverlapEndsWithRound == Spec => []OneSourcePerAddress
<1>1. ControllerInv => OneSourcePerAddress
  <2> SUFFICES ASSUME ControllerInv, pc \in {"fetch", "sleep"},
                      NEW c \in Components, NEW s \in Slots, Alive(c, s)
               PROVE  c \in latest
    BY DEF OneSourcePerAddress, Topsql
  <2>1. c \in components
    BY FreeType DEF ControllerInv, OneSlot, Alive, NothingLeft
  <2>2. leavers = {} /\ Stopping = {}
    BY StoppingSet DEF ControllerInv, Books
  <2> QED
    BY <2>1, <2>2 DEF ControllerInv, Books
<1> QED
  BY <1>1, ControllerInvariant, PTL

(* When `run' returns no task it started is left (controller.rs:147-158).   *)
THEOREM ExitLeavesNothing == Spec => []ExitClean
<1>1. ControllerInv => ExitClean
  BY DEF ControllerInv, ShutdownOrder, ExitClean
<1> QED
  BY <1>1, ControllerInvariant, PTL

(* A refresh leaves the sources alone whose instances it has found          *)
(* (controller.rs:89-104).                                                  *)
THEOREM RefreshSparesTheRest == Spec => OnlyLeaversAreStopped
<1> DEFINE Spared == \A c \in Components, s \in Slots :
                       Alive(c, s) /\ ~Signalled(c, s) /\ Signalled(c, s)'
                         => shutdown \/ c \notin latest'
<1>1. ControllerInv /\ [Next]_vars => [Spared]_vars
  <2> SUFFICES ASSUME ControllerInv, Next,
                      NEW c \in Components, NEW s \in Slots,
                      Alive(c, s), ~Signalled(c, s), Signalled(c, s)'
               PROVE  shutdown \/ c \notin latest'
    OBVIOUS
  <2>0. TypeOK /\ HeldSlots /\ OneSlot /\ Books /\ ShutdownOrder
    BY DEF ControllerInv
  <2>1. /\ slots[c][s].held /\ ~slots[c][s].sent /\ ~root.sent
        /\ running[c] = s /\ ~Waiting(c, s) /\ c \in components
    BY <2>0 DEF Signalled, HeldSlots, Books, Slots
  <2>2. ASSUME root' = root, slots'[c][s].held = slots[c][s].held,
               slots'[c][s].sent = slots[c][s].sent
        PROVE  FALSE
    BY <2>1, <2>2 DEF Signalled
  <2> USE DEF environment, cluster, controller
  <2>3. CASE ChangeTopology \/ RequestShutdown \/ Terminated
    BY <2>2, <2>3 DEF ChangeTopology, RequestShutdown, Terminated, vars
  <2>4. CASE \/ Created \/ CreationFails \/ FetchFails \/ RoundDone \/ WakeUp \/ Exit
             \/ (CancelLoop /\ pc # "await")
    BY <2>2, <2>4 DEF Created, CreationFails, FetchFails, RoundDone, WakeUp, Exit, CancelLoop
  <2>5. CASE FetchSucceeds
    BY <2>0, <2>1, <2>2, <2>5, StartedSlot DEF FetchSucceeds, Newcomers
  <2>6. ASSUME NEW d \in Components, StopLeaver(d)
        PROVE  c \notin latest'
    <3>1. /\ pc = "stop" /\ d \in leavers /\ UNCHANGED <<root, latest>>
          /\ d \notin latest
      BY <2>0, <2>6 DEF StopLeaver, Books
    <3>2. CASE d # c
      <4>1. slots'[c] = slots[c]
        BY <2>6, <3>2, <2>0 DEF StopLeaver, TypeOK
      <4> QED
        BY <2>2, <3>1, <4>1
    <3> QED
      BY <3>1, <3>2
  <2>7. CASE (\E d \in Components : DrainNext(d)) \/ ShutdownRoot
    BY <2>0, <2>7 DEF DrainNext, ShutdownRoot, ShutdownOrder
  <2>8. CASE LeaverStopped \/ Drained \/ (CancelLoop /\ pc = "await")
    <3>1. waiting # NoOne /\ slots' = DropNotifier(waiting) /\ root' = root
      BY <2>0, <2>8 DEF LeaverStopped, Drained, CancelLoop, Exited, Books
    <3>2. PICK slot \in Slot :
            slots' = [slots EXCEPT ![waiting.component][waiting.slot] = slot]
      BY <2>0, <3>1, DroppedSlot
    <3>3. ~(c = waiting.component /\ s = waiting.slot)
      BY <2>0, <2>1, <3>1, StoppingSet
    <3>4. slots'[c][s] = slots[c][s]
      BY <2>0, <3>2, <3>3 DEF TypeOK
    <3> QED
      BY <2>2, <3>1, <3>4
  <2>9. ASSUME NEW d \in Components, NEW t \in Slots, TaskStep(d, t)
        PROVE  FALSE
    <3>1. PICK slot \in Slot :
            /\ slots' = [slots EXCEPT ![d][t] = slot]
            /\ \/ slot = Free /\ ~slots[d][t].held
               \/ slot.held = slots[d][t].held /\ slot.sent = slots[d][t].sent
      BY <2>0, <2>9, TaskStepSlot
    <3>2. slots'[c][s] = IF c = d /\ s = t THEN slot ELSE slots[c][s]
      BY <2>0, <3>1 DEF TypeOK
    <3>3. root' = root
      BY <2>0, <2>9, TaskStepSlot
    <3> QED
      BY <2>1, <2>2, <3>1, <3>2, <3>3
  <2>10. CASE ControllerStep
    <3>1. CancelLoop => shutdown \/ c \notin latest'
      BY <2>4, <2>8
    <3>2. LeaverStopped \/ Drained => shutdown \/ c \notin latest'
      BY <2>8
    <3> QED
      BY <2>4, <2>5, <2>6, <2>7, <2>10, <3>1, <3>2 DEF ControllerStep
  <2> QED
    BY <2>3, <2>9, <2>10 DEF Next
<1> QED
  BY <1>1, ControllerInvariant, PTL DEF Spec, OnlyLeaversAreStopped

-----------------------------------------------------------------------------
(* The life of a slot (SlotLives).                                          *)
SlotStep(c, s) ==
  IF Alive(c, s)
    THEN \/ Life(c, s)!Next
         \/ UNCHANGED <<Signalled(c, s), slots[c][s].source, slots[c][s].proxies>>
    ELSE Alive(c, s)' => Life(c, s)!Init'

(* A step that leaves the tasks of a slot alone, and does not take back that*)
(* they were told to end, tells them or changes nothing for them.           *)
LEMMA TasksKept ==
  ASSUME NEW c \in Components, NEW s \in Slots,
         slots'[c][s].source = slots[c][s].source,
         slots'[c][s].proxies = slots[c][s].proxies,
         Signalled(c, s) => Signalled(c, s)'
  PROVE  SlotStep(c, s)
<1>1. CASE ~Alive(c, s)
  BY <1>1 DEF SlotStep, Alive
<1>2. CASE Alive(c, s) /\ (Signalled(c, s) <=> Signalled(c, s)')
  <2>1. Signalled(c, s)' = Signalled(c, s)
    BY <1>2 DEF Signalled
  <2> QED
    BY <1>2, <2>1 DEF SlotStep
<1>3. CASE Alive(c, s) /\ ~Signalled(c, s) /\ Signalled(c, s)'
  <2>1. Life(c, s)!Tell
    BY <1>3 DEF Life!Tell
  <2> QED
    BY <1>3, <2>1 DEF SlotStep, Life!Next
<1> QED
  BY <1>1, <1>2, <1>3

(* Clearing a slot hides nothing that its life is told by.                  *)
LEMMA ClearedLife ==
  ASSUME NEW slot \in Slot
  PROVE  /\ Cleared(slot).source = slot.source
         /\ Cleared(slot).proxies = slot.proxies
         /\ (Cleared(slot).sent \/ ~Cleared(slot).held) <=> (slot.sent \/ ~slot.held)
<1>1. CASE NothingLeft(slot)
  BY <1>1, ClearedSlot, FreeType DEF NothingLeft, Slot
<1>2. CASE ~NothingLeft(slot)
  BY <1>2, ClearedSlot
<1> QED
  BY <1>1, <1>2

(* What a source task or a proxy does is what SourceLife lets it do.        *)
LEMMA TaskStepLife ==
  ASSUME TypeOK, NEW c \in Components, NEW s \in Slots, TaskStep(c, s)
  PROVE  SlotStep(c, s)
<1> DEFINE old == slots[c][s]
<1>0. old \in Slot /\ slots \in SlotMap
  BY DEF TypeOK, SlotMap
<1>1. Alive(c, s) /\ root' = root
  BY TaskStepSlot DEF controller
<1>2. SUFFICES Life(c, s)!Next
  BY <1>1 DEF SlotStep
<1>3. ASSUME NEW new \in Slot, new.held = old.held, new.sent = old.sent,
             slots' = [slots EXCEPT ![c][s] = Cleared(new)]
      PROVE  /\ slots'[c][s].source = new.source
             /\ slots'[c][s].proxies = new.proxies
             /\ Signalled(c, s)' = Signalled(c, s)
  <2>1. slots'[c][s] = Cleared(new)
    BY <1>0, <1>3, ClearedSlot, SlotSet
  <2> QED
    BY <1>1, <1>3, <2>1, ClearedLife DEF Signalled
<1>4. CASE SpawnProxy(c, s)
  <2> DEFINE new == [old EXCEPT !.proxies = @ + 1]
  <2>1. /\ new \in Slot /\ new.held = old.held /\ new.sent = old.sent
        /\ new.source = old.source /\ new.proxies = old.proxies + 1
    BY <1>0 DEF Slot
  <2>2. slots' = [slots EXCEPT ![c][s] = new]
    BY <1>4 DEF SpawnProxy
  <2>3. slots'[c][s] = new
    BY <1>0, <2>1, <2>2, SlotSet
  <2>4. Signalled(c, s)' = Signalled(c, s)
    BY <1>1, <2>1, <2>3 DEF Signalled
  <2>5. Life(c, s)!SpawnProxy
    BY <1>4, <2>1, <2>3, <2>4 DEF SpawnProxy, Life!SpawnProxy
  <2> QED
    BY <2>5 DEF Life!Next
<1>5. CASE SourceExits(c, s) \/ SourcePanics(c, s)
  <2> DEFINE new == [old EXCEPT !.source = FALSE]
  <2>1. /\ new \in Slot /\ new.held = old.held /\ new.sent = old.sent
        /\ ~new.source /\ new.source = FALSE /\ new.proxies = old.proxies
    BY <1>0 DEF Slot
  <2>2. slots' = [slots EXCEPT ![c][s] = Cleared(new)] /\ old.source
    BY <1>5 DEF SourceExits, SourcePanics
  <2>3. /\ slots'[c][s].source = FALSE /\ slots'[c][s].proxies = old.proxies
        /\ Signalled(c, s)' = Signalled(c, s)
    BY <1>3, <2>1, <2>2
  <2>4. Life(c, s)!SourcePanics
    BY <2>2, <2>3 DEF Life!SourcePanics
  <2> QED
    BY <2>4 DEF Life!Next
<1>6. CASE ProxyEnds(c, s)
  <2> DEFINE new == [old EXCEPT !.proxies = @ - 1]
  <2>0. old.proxies > 0
    BY <1>6 DEF ProxyEnds
  <2>1. /\ new \in Slot /\ new.held = old.held /\ new.sent = old.sent
        /\ new.source = old.source /\ new.proxies = old.proxies - 1
    BY <1>0, <2>0 DEF Slot
  <2>2. slots' = [slots EXCEPT ![c][s] = Cleared(new)]
    BY <1>6 DEF ProxyEnds
  <2>3. /\ slots'[c][s].source = old.source /\ slots'[c][s].proxies = old.proxies - 1
        /\ Signalled(c, s)' = Signalled(c, s)
    BY <1>3, <2>1, <2>2
  <2>4. Life(c, s)!ProxyEnds
    BY <2>0, <2>3 DEF Life!ProxyEnds
  <2> QED
    BY <2>4 DEF Life!Next
<1> QED
  BY <1>4, <1>5, <1>6 DEF TaskStep

(* Every use of a slot is a life that SourceLife allows: a source and its   *)
(* proxies are started once, on a slot of which nothing is left, and what   *)
(* told them to end stays (controller.rs:109-141, shutdown.rs).             *)
THEOREM SlotsAreSourceLives == Spec => SlotLives
<1>1. ControllerInv /\ [Next]_vars
        => [\A c \in Components, s \in Slots : SlotStep(c, s)]_vars
  <2> SUFFICES ASSUME ControllerInv, Next, NEW c \in Components, NEW s \in Slots
               PROVE  SlotStep(c, s)
    OBVIOUS
  <2>0. TypeOK /\ HeldSlots /\ OneSlot /\ Books /\ ShutdownOrder
    BY DEF ControllerInv
  <2>1. ASSUME root' = root, slots'[c][s] = slots[c][s]
        PROVE  SlotStep(c, s)
    <3>1. Signalled(c, s)' <=> Signalled(c, s)
      BY <2>1 DEF Signalled
    <3> QED
      BY <2>1, <3>1, TasksKept
  <2> USE DEF environment, cluster, controller
  <2>3. CASE ChangeTopology \/ RequestShutdown \/ Terminated
    BY <2>1, <2>3 DEF ChangeTopology, RequestShutdown, Terminated, vars
  <2>4. CASE \/ Created \/ CreationFails \/ FetchFails \/ RoundDone \/ WakeUp \/ Exit
             \/ (CancelLoop /\ pc # "await")
    BY <2>1, <2>4 DEF Created, CreationFails, FetchFails, RoundDone, WakeUp, Exit, CancelLoop
  <2>5. CASE FetchSucceeds
    <3>1. root' = root /\ ~root.sent
      BY <2>0, <2>5 DEF FetchSucceeds, ShutdownOrder
    <3>2. CASE c \in Newcomers /\ s = FreeSlot(c)
      <4>1. slots[c][s] = Free /\ slots'[c][s] = Started
        BY <2>0, <2>5, <3>2, StartedSlot
      <4>2. ~Alive(c, s)
        BY <4>1 DEF Alive, Free
      <4>3. Started.held /\ ~Started.sent /\ Started.source = TRUE /\ Started.proxies = 0
        BY DEF Started, Free
      <4>4. Signalled(c, s)' = FALSE
        BY <3>1, <4>1, <4>3 DEF Signalled
      <4>5. Life(c, s)!Init'
        BY <4>1, <4>3, <4>4 DEF Life!Init
      <4> QED
        BY <4>2, <4>5 DEF SlotStep
    <3>3. CASE ~(c \in Newcomers /\ s = FreeSlot(c))
      BY <2>0, <2>1, <2>5, <3>1, <3>3, StartedSlot
    <3> QED
      BY <3>2, <3>3
  <2>6. ASSUME NEW d \in Components, StopLeaver(d) \/ DrainNext(d)
        PROVE  SlotStep(c, s)
    <3>0. root' = root
      BY <2>6 DEF StopLeaver, DrainNext
    <3>1. CASE running[d] = 0
      BY <2>1, <2>6, <3>0, <3>1 DEF StopLeaver, DrainNext
    <3>2. CASE running[d] # 0
      <4>1. PICK slot \in Slot : /\ slots' = [slots EXCEPT ![d][running[d]] = slot]
                                 /\ slot = [slots[d][running[d]] EXCEPT !.sent = TRUE]
        BY <2>0, <2>6, <3>2, StopSlot
      <4>2. slots'[c][s] = IF c = d /\ s = running[d] THEN slot ELSE slots[c][s]
        BY <2>0, <2>6, <3>2, <4>1, StopSlot, SlotSet DEF TypeOK, SlotMap
      <4>3. CASE c = d /\ s = running[d]
        <5>1. slots[c][s] \in Slot
          BY <2>0 DEF TypeOK
        <5>2. slot.sent /\ slot.source = slots[c][s].source /\ slot.proxies = slots[c][s].proxies
          BY <4>1, <4>3, <5>1 DEF Slot
        <5>3. Signalled(c, s)'
          BY <4>2, <4>3, <5>2 DEF Signalled
        <5> QED
          BY <4>2, <4>3, <5>2, <5>3, TasksKept
      <4>4. CASE ~(c = d /\ s = running[d])
        BY <2>1, <3>0, <4>2, <4>4
      <4> QED
        BY <4>3, <4>4
    <3> QED
      BY <3>1, <3>2
  <2>7. CASE ShutdownRoot
    <3>1. slots' = slots /\ root'.sent
      BY <2>7 DEF ShutdownRoot
    <3>2. Signalled(c, s)'
      BY <3>1 DEF Signalled
    <3> QED
      BY <3>1, <3>2, TasksKept
  <2>8. CASE LeaverStopped \/ Drained \/ (CancelLoop /\ pc = "await")
    <3>1. waiting # NoOne /\ slots' = DropNotifier(waiting) /\ root' = root
      BY <2>0, <2>8 DEF LeaverStopped, Drained, CancelLoop, Exited, Books
    <3>2. CASE c = waiting.component /\ s = waiting.slot
      <4> DEFINE new == [slots[c][s] EXCEPT !.held = FALSE]
      <4>0. slots[c][s] \in Slot /\ slots \in SlotMap
        BY <2>0 DEF TypeOK, SlotMap
      <4>1. /\ new \in Slot /\ ~new.held
            /\ new.source = slots[c][s].source /\ new.proxies = slots[c][s].proxies
        BY <4>0 DEF Slot
      <4>2. slots' = [slots EXCEPT ![c][s] = Cleared(new)]
        BY <3>1, <3>2 DEF DropNotifier
      <4>3. Cleared(new) \in Slot
        BY <4>1, ClearedSlot
      <4> HIDE DEF new
      <4>4. slots'[c][s] = Cleared(new)
        BY <4>0, <4>2, <4>3, SlotSet
      <4>5. /\ slots'[c][s].source = slots[c][s].source
            /\ slots'[c][s].proxies = slots[c][s].proxies
            /\ slots'[c][s].sent \/ ~slots'[c][s].held
        BY <4>1, <4>4, ClearedLife
      <4>6. Signalled(c, s)'
        BY <4>5 DEF Signalled
      <4> QED
        BY <4>5, <4>6, TasksKept
    <3>3. CASE ~(c = waiting.component /\ s = waiting.slot)
      <4>1. PICK slot \in Slot :
              slots' = [slots EXCEPT ![waiting.component][waiting.slot] = slot]
        BY <2>0, <3>1, DroppedSlot
      <4>2. slots'[c][s] = slots[c][s]
        BY <2>0, <3>3, <4>1 DEF TypeOK
      <4> QED
        BY <2>1, <3>1, <4>2
    <3> QED
      BY <3>2, <3>3
  <2>9. ASSUME NEW d \in Components, NEW t \in Slots, TaskStep(d, t)
        PROVE  SlotStep(c, s)
    <3>1. CASE c = d /\ s = t
      BY <2>0, <2>9, <3>1, TaskStepLife
    <3>2. CASE ~(c = d /\ s = t)
      <4>1. PICK slot \in Slot : slots' = [slots EXCEPT ![d][t] = slot]
        BY <2>0, <2>9, TaskStepSlot
      <4>2. slots'[c][s] = slots[c][s]
        BY <2>0, <3>2, <4>1 DEF TypeOK
      <4>3. root' = root
        BY <2>0, <2>9, TaskStepSlot
      <4> QED
        BY <2>1, <4>2, <4>3
    <3> QED
      BY <3>1, <3>2
  <2>10. CASE ControllerStep
    <3>1. CancelLoop => SlotStep(c, s)
      BY <2>4, <2>8
    <3>2. LeaverStopped \/ Drained => SlotStep(c, s)
      BY <2>8
    <3> QED
      BY <2>4, <2>5, <2>6, <2>7, <2>10, <3>1, <3>2 DEF ControllerStep
  <2> QED
    BY <2>3, <2>9, <2>10 DEF Next
<1>2. Spec => [][\A c \in Components, s \in Slots : SlotStep(c, s)]_vars
  BY <1>1, ControllerInvariant, PTL DEF Spec
<1>3. (\A c \in Components, s \in Slots : SlotStep(c, s)) <=>
      (\A c \in Components, s \in Slots :
       IF Alive(c, s)
         THEN \/ Life(c, s)!Next
              \/ UNCHANGED <<Signalled(c, s), slots[c][s].source, slots[c][s].proxies>>
         ELSE Alive(c, s)' => Life(c, s)!Init')
  BY DEF SlotStep
<1> QED
  BY <1>2, <1>3, PTL DEF SlotLives

(* Conversely, whatever SourceLife lets a task or a proxy do, the controller*)
(* model lets it do to its slot, bar the number of panics.  TopSQLSource is *)
(* a SourceLife (SourceLivesOnce), so what is proved of the controller holds*)
(* with the sources of upstream/mod.rs in its slots (controller.rs:121-126).*)
THEOREM EverySourceLifeIsServed ==
  ASSUME TypeOK, NEW c \in Components, NEW s \in Slots,
         UNCHANGED <<cluster, shutdown, controller>>,
         NEW new \in Slot,
         new.held = slots[c][s].held, new.sent = slots[c][s].sent,
         slots' = [slots EXCEPT ![c][s] = Cleared(new)],
         \/ /\ panics' = panics
            /\ Life(c, s)!SpawnProxy \/ Life(c, s)!SourceExits \/ Life(c, s)!ProxyEnds
         \/ panics < MaxPanics /\ panics' = panics + 1 /\ Life(c, s)!SourcePanics
  PROVE  TaskStep(c, s)
<1> DEFINE old == slots[c][s]
<1>0. old \in Slot /\ slots \in SlotMap
  BY DEF TypeOK, SlotMap
<1>1. Cleared(new) \in Slot
  BY ClearedSlot
<1>2. slots'[c][s] = Cleared(new)
  BY <1>0, <1>1, SlotSet
<1>3. slots'[c][s].source = new.source /\ slots'[c][s].proxies = new.proxies
  BY <1>2, ClearedLife
<1>4. /\ Slot = [held : BOOLEAN, sent : BOOLEAN, source : BOOLEAN, proxies : Nat]
      /\ \A x, y \in Slot : /\ x.held = y.held /\ x.sent = y.sent
                            /\ x.source = y.source /\ x.proxies = y.proxies
                            => x = y
  BY DEF Slot
<1>5. CASE Life(c, s)!SpawnProxy /\ panics' = panics
  <2>1. /\ old.source /\ old.proxies < MaxProxies
        /\ new.source = old.source /\ new.proxies = old.proxies + 1
    BY <1>3, <1>5 DEF Life!SpawnProxy
  <2>2. [old EXCEPT !.proxies = @ + 1] \in Slot
    BY <1>0 DEF Slot
  <2>3. new = [old EXCEPT !.proxies = @ + 1]
    BY <1>0, <1>4, <2>1, <2>2
  <2>4. Cleared(new) = new
    BY <2>1, ClearedSlot DEF NothingLeft
  <2>5. slots' = [slots EXCEPT ![c][s].proxies = @ + 1]
    BY <2>3, <2>4
  <2>6. SpawnProxy(c, s)
    BY <1>5, <2>1, <2>5 DEF SpawnProxy, environment
  <2> QED
    BY <2>6 DEF TaskStep
<1>6. CASE (Life(c, s)!SourceExits /\ panics' = panics)
           \/ (Life(c, s)!SourcePanics /\ panics < MaxPanics /\ panics' = panics + 1)
  <2>1. old.source /\ new.source = FALSE /\ new.proxies = old.proxies
    BY <1>3, <1>6 DEF Life!SourceExits, Life!SourcePanics
  <2>2. [old EXCEPT !.source = FALSE] \in Slot
    BY <1>0 DEF Slot
  <2>3. new = [old EXCEPT !.source = FALSE]
    BY <1>0, <1>4, <2>1, <2>2
  <2>4. slots' = [slots EXCEPT ![c][s] = Cleared([@ EXCEPT !.source = FALSE])]
    BY <2>3
  <2>5. CASE Life(c, s)!SourceExits /\ panics' = panics
    BY <2>1, <2>4, <2>5 DEF SourceExits, TaskStep, environment, Life!SourceExits
  <2>6. CASE Life(c, s)!SourcePanics /\ panics < MaxPanics /\ panics' = panics + 1
    BY <2>1, <2>4, <2>6 DEF SourcePanics, TaskStep
  <2> QED
    BY <1>6, <2>5, <2>6
<1>7. CASE Life(c, s)!ProxyEnds /\ panics' = panics
  <2>1. /\ old.proxies > 0
        /\ new.source = old.source /\ new.proxies = old.proxies - 1
    BY <1>3, <1>7 DEF Life!ProxyEnds
  <2>2. [old EXCEPT !.proxies = @ - 1] \in Slot
    BY <1>0, <2>1 DEF Slot
  <2>3. new = [old EXCEPT !.proxies = @ - 1]
    BY <1>0, <1>4, <2>1, <2>2
  <2>4. ProxyEnds(c, s)
    BY <1>7, <2>1, <2>3 DEF ProxyEnds, environment
  <2> QED
    BY <2>4 DEF TaskStep
<1> QED
  BY <1>5, <1>6, <1>7
===============================================================================
