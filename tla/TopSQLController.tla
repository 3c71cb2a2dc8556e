--------------------------- MODULE TopSQLController ---------------------------
(***************************************************************************)
(* extensions/topsql/src/controller.rs: one task that follows the topology  *)
(* of the cluster and keeps one TopSQLSource task per instance, with the    *)
(* shutdown channels of shutdown.rs and the tasks that listen on them       *)
(* (upstream/mod.rs, upstream/tls_proxy.rs).                                *)
(*                                                                          *)
(* A start of a component is a slot: the channel made by `extend', whose    *)
(* sender the controller holds, and the source task with its TLS proxies,   *)
(* which hold receivers of that channel and of the root channel.  A slot is *)
(* used again when nothing of it is left; a component has two so that an    *)
(* overlap of two of its starts would show.                                 *)
(***************************************************************************)
EXTENDS Naturals, Topology

CONSTANTS
  Components,   \* instances the topology may report
  MaxProxies,   \* bound: live proxies of one source
  MaxChanges,   \* bound: changes of the topology
  MaxPanics     \* bound: source tasks that panic

ASSUME ControllerAssumption ==
  /\ \A c \in Components : c.instance_type \in InstanceType
  /\ {MaxProxies, MaxChanges, MaxPanics} \subseteq Nat

VARIABLES
  up,           \* what the cluster would answer now
  unsteady,     \* what has come or gone since the fetch under way began
  changes,
  panics,
  shutdown,     \* vector's ShutdownSignal
  pc,           \* where `run' is
  latest,       \* latest_components
  leavers,      \* components still to be stopped in this round
  components,   \* Controller.components
  running,      \* Controller.running_components: component -> slot, 0 when absent
  waiting,      \* the component and slot whose exit is awaited, if any
  slots,        \* component -> slot -> its channel and tasks
  root          \* the root channel: sent? does the controller still subscribe?

cluster == <<up, unsteady, changes>>
environment == <<cluster, panics, shutdown>>
controller == <<pc, latest, leavers, components, running, waiting, root>>
vars == <<environment, controller, slots>>

(* TopSQLSource::new makes a source only for them.                          *)
Topsql == {c \in Components : HasTopsqlAddress(c)}

Slots == {1, 2}
NoOne == [component |-> Missing, slot |-> 0]
Free == [held |-> FALSE, sent |-> FALSE, source |-> FALSE, proxies |-> 0]

(* Receivers of a slot's channel are alive; its tasks have been told to end:*)
(* by the channel, by the loss of its sender, or by the root channel.       *)
Alive(c, s) == slots[c][s].source \/ slots[c][s].proxies > 0
Signalled(c, s) == slots[c][s].sent \/ ~slots[c][s].held \/ root.sent

Init ==
  /\ up \in SUBSET Components /\ unsteady = {}
  /\ changes = 0 /\ panics = 0
  /\ shutdown = FALSE
  /\ pc = "new"
  /\ latest = {} /\ leavers = {}
  /\ components = {}
  /\ running = [c \in Components |-> 0]
  /\ waiting = NoOne
  /\ slots = [c \in Components |-> [s \in Slots |-> Free]]
  /\ root = [sent |-> FALSE, own |-> TRUE]

-----------------------------------------------------------------------------
(* The environment.                                                         *)
ChangeTopology ==
  /\ changes < MaxChanges
  /\ changes' = changes + 1
  /\ \E c \in Components :
       /\ up' = IF c \in up THEN up \ {c} ELSE up \cup {c}
       /\ unsteady' = IF pc = "fetch" THEN unsteady \cup {c} ELSE unsteady
  /\ UNCHANGED <<panics, shutdown, controller, slots>>

RequestShutdown ==
  /\ ~shutdown
  /\ shutdown' = TRUE
  /\ UNCHANGED <<cluster, panics, controller, slots>>

-----------------------------------------------------------------------------
(* The source makes its controller, and runs it if that succeeds; only then *)
(* is the shutdown signal looked at.                                        *)
Created ==
  /\ pc = "new"
  /\ pc' = "fetch"
  /\ UNCHANGED <<environment, latest, leavers, components, running, waiting, slots, root>>

CreationFails ==
  /\ pc = "new"
  /\ pc' = "exited"
  /\ UNCHANGED <<environment, latest, leavers, components, running, waiting, slots, root>>

(* run_loop: fetch_and_update, then sleep.                                  *)
FetchFails ==
  /\ pc = "fetch"
  /\ unsteady' = {}
  /\ pc' = "sleep"
  /\ UNCHANGED <<up, changes, panics, shutdown, latest, leavers, components, running, waiting,
                 slots, root>>

(* What get_up_components may return of a cluster that changes meanwhile:   *)
(* every answer UpComponents lets TopologyFetch give.                       *)
Fetched == {found \in SUBSET (up \cup unsteady) : Truthful(found, up, unsteady)}

FreeSlot(c) == CHOOSE s \in Slots : slots[c][s] = Free

(* start_component, for every newcomer with a Top SQL address, without an   *)
(* await in between.                                                        *)
StartNewcomers(new) ==
  /\ \A c \in new : \E s \in Slots : slots[c][s] = Free
  /\ slots' = [c \in Components |-> IF c \in new
                 THEN [slots[c] EXCEPT ![FreeSlot(c)] = [Free EXCEPT !.held = TRUE, !.source = TRUE]]
                 ELSE slots[c]]
  /\ running' = [c \in Components |-> IF c \in new THEN FreeSlot(c) ELSE running[c]]
  /\ components' = components \cup new

(* Mutant of FetchSucceeds: every refresh restarts every source.            *)
FetchRestartsAll ==
  /\ pc = "fetch"
  /\ latest' \in Fetched /\ unsteady' = {}
  /\ StartNewcomers((latest' \ components) \cap Topsql)
  /\ leavers' = components
  /\ pc' = "stop"
  /\ UNCHANGED <<up, changes, panics, shutdown, waiting, root>>

(* Mutant of FetchSucceeds: nobody leaves.                                  *)
FetchIgnoresLeavers ==
  /\ pc = "fetch"
  /\ latest' \in Fetched /\ unsteady' = {}
  /\ StartNewcomers((latest' \ components) \cap Topsql)
  /\ leavers' = {}
  /\ pc' = "stop"
  /\ UNCHANGED <<up, changes, panics, shutdown, waiting, root>>

FetchSucceeds ==
  /\ pc = "fetch"
  /\ latest' \in Fetched /\ unsteady' = {}
  /\ StartNewcomers((latest' \ components) \cap Topsql)
  /\ leavers' = components \ latest'
  /\ pc' = "stop"
  /\ UNCHANGED <<up, changes, panics, shutdown, waiting, root>>

(* Mutant of StopLeaver: the notifier is taken out and not used.            *)
StopLeaverSilently(c) ==
  /\ pc = "stop" /\ c \in leavers
  /\ leavers' = leavers \ {c}
  /\ running[c] # 0
  /\ running' = [running EXCEPT ![c] = 0]
  /\ waiting' = [component |-> c, slot |-> running[c]]
  /\ pc' = "await"
  /\ UNCHANGED <<environment, latest, components, slots, root>>

(* stop_component up to its await: take the notifier out and send.          *)
StopLeaver(c) ==
  /\ pc = "stop" /\ c \in leavers
  /\ leavers' = leavers \ {c}
  /\ IF running[c] = 0
       THEN UNCHANGED <<pc, running, waiting, slots>>
       ELSE /\ running' = [running EXCEPT ![c] = 0]
            /\ slots' = [slots EXCEPT ![c][running[c]].sent = TRUE]
            /\ waiting' = [component |-> c, slot |-> running[c]]
            /\ pc' = "await"
  /\ UNCHANGED <<environment, latest, components, root>>

(* wait_for_exit returns when no receiver is left.                          *)
Exited(w) == w # NoOne /\ ~Alive(w.component, w.slot)

(* A slot is free again when the sender and every receiver are gone.        *)
Cleared(slot) == IF ~slot.held /\ ~slot.source /\ slot.proxies = 0 THEN Free ELSE slot
DropNotifier(w) ==
  [slots EXCEPT ![w.component][w.slot] = Cleared([@ EXCEPT !.held = FALSE])]

(* Mutant of LeaverStopped: the exit is not awaited.                        *)
LeaverNotAwaited ==
  /\ pc = "await"
  /\ slots' = DropNotifier(waiting)
  /\ components' = components \ {waiting.component}
  /\ waiting' = NoOne
  /\ pc' = "stop"
  /\ UNCHANGED <<environment, latest, leavers, running, root>>

(* Mutant of LeaverStopped: the component stays in `components'.            *)
LeaverRemembered ==
  /\ pc = "await" /\ Exited(waiting)
  /\ slots' = DropNotifier(waiting)
  /\ waiting' = NoOne
  /\ pc' = "stop"
  /\ UNCHANGED <<environment, latest, leavers, components, running, root>>

LeaverStopped ==
  /\ pc = "await" /\ Exited(waiting)
  /\ slots' = DropNotifier(waiting)
  /\ components' = components \ {waiting.component}
  /\ waiting' = NoOne
  /\ pc' = "stop"
  /\ UNCHANGED <<environment, latest, leavers, running, root>>

RoundDone ==
  /\ pc = "stop" /\ leavers = {}
  /\ pc' = "sleep"
  /\ UNCHANGED <<environment, latest, leavers, components, running, waiting, slots, root>>

WakeUp ==
  /\ pc = "sleep"
  /\ pc' = "fetch"
  /\ UNCHANGED <<environment, latest, leavers, components, running, waiting, slots, root>>

-----------------------------------------------------------------------------
(* run: the shutdown signal drops run_loop at whichever await it is, and    *)
(* with it the notifier of a component that is being stopped.               *)
CancelLoop ==
  /\ shutdown
  /\ pc \in {"fetch", "await", "sleep"}
  /\ slots' = IF pc = "await" THEN DropNotifier(waiting) ELSE slots
  /\ waiting' = NoOne
  /\ leavers' = {} /\ unsteady' = {}
  /\ pc' = "drain"
  /\ UNCHANGED <<up, changes, panics, shutdown, latest, components, running, root>>

(* shutdown_all_components: one running component after the other ...       *)
DrainNext(c) ==
  /\ pc = "drain" /\ running[c] # 0
  /\ running' = [running EXCEPT ![c] = 0]
  /\ slots' = [slots EXCEPT ![c][running[c]].sent = TRUE]
  /\ waiting' = [component |-> c, slot |-> running[c]]
  /\ pc' = "drain_await"
  /\ UNCHANGED <<environment, latest, leavers, components, root>>

Drained ==
  /\ pc = "drain_await" /\ Exited(waiting)
  /\ slots' = DropNotifier(waiting)
  /\ waiting' = NoOne
  /\ pc' = "drain"
  /\ UNCHANGED <<environment, latest, leavers, components, running, root>>

(* Mutant of ShutdownRoot: the controller keeps its own receiver.           *)
ShutdownRootSubscribed ==
  /\ pc = "drain"
  /\ \A c \in Components : running[c] = 0
  /\ root' = [sent |-> TRUE, own |-> TRUE]
  /\ pc' = "root"
  /\ UNCHANGED <<environment, latest, leavers, components, running, waiting, slots>>

(* ... then the root channel, with the controller's own receiver gone.      *)
ShutdownRoot ==
  /\ pc = "drain"
  /\ \A c \in Components : running[c] = 0
  /\ root' = [sent |-> TRUE, own |-> FALSE]
  /\ pc' = "root"
  /\ UNCHANGED <<environment, latest, leavers, components, running, waiting, slots>>

(* Mutant of RootClosed: only the controller's own receiver counts.         *)
RootClosedByOwn == ~root.own

RootClosed == ~root.own /\ \A c \in Components, s \in Slots : ~Alive(c, s)

Exit ==
  /\ pc = "root" /\ RootClosed
  /\ pc' = "exited"
  /\ UNCHANGED <<environment, latest, leavers, components, running, waiting, slots, root>>

-----------------------------------------------------------------------------
(* A source task and its proxies.                                           *)

(* Every new connection over TLS has a proxy task of its own.               *)
SpawnProxy(c, s) ==
  /\ slots[c][s].source
  /\ slots[c][s].proxies < MaxProxies
  /\ slots' = [slots EXCEPT ![c][s].proxies = @ + 1]
  /\ UNCHANGED <<environment, controller>>

(* Mutant of SourceExits: a proxy is taken to end with its source.          *)
SourceExitsWithProxy(c, s) ==
  /\ slots[c][s].source /\ Signalled(c, s)
  /\ slots' = [slots EXCEPT ![c][s] = [@ EXCEPT !.source = FALSE, !.proxies = @ - 1]]
  /\ UNCHANGED <<environment, controller>>

SourceExits(c, s) ==
  /\ slots[c][s].source /\ Signalled(c, s)
  /\ slots' = [slots EXCEPT ![c][s] = Cleared([@ EXCEPT !.source = FALSE])]
  /\ UNCHANGED <<environment, controller>>

SourcePanics(c, s) ==
  /\ slots[c][s].source
  /\ panics < MaxPanics
  /\ panics' = panics + 1
  /\ slots' = [slots EXCEPT ![c][s] = Cleared([@ EXCEPT !.source = FALSE])]
  /\ UNCHANGED <<cluster, shutdown, controller>>

(* A proxy ends with its connection, or when it is told to.                 *)
ProxyEnds(c, s) ==
  /\ slots[c][s].proxies > 0
  /\ slots' = [slots EXCEPT ![c][s] = Cleared([slots[c][s] EXCEPT !.proxies = @ - 1])]
  /\ UNCHANGED <<environment, controller>>

ProxyExits(c, s) == Signalled(c, s) /\ ProxyEnds(c, s)

-----------------------------------------------------------------------------
ControllerStep ==
  \/ Created \/ CreationFails
  \/ FetchFails \/ FetchSucceeds
  \/ \E c \in Components : StopLeaver(c)
  \/ LeaverStopped \/ RoundDone \/ WakeUp
  \/ CancelLoop
  \/ \E c \in Components : DrainNext(c)
  \/ Drained \/ ShutdownRoot \/ Exit

TaskStep(c, s) ==
  SpawnProxy(c, s) \/ SourceExits(c, s) \/ SourcePanics(c, s) \/ ProxyEnds(c, s)

Terminated == pc = "exited" /\ UNCHANGED vars

Next ==
  \/ ChangeTopology \/ RequestShutdown
  \/ ControllerStep
  \/ \E c \in Components, s \in Slots : TaskStep(c, s)
  \/ Terminated

Spec == Init /\ [][Next]_vars

(* The runtime polls every task that has been woken, and every poll of the  *)
(* select! in `run' looks at the shutdown signal.  The controller's         *)
(* constructor returns, and a fetch that is tried for ever succeeds now and *)
(* then; nothing makes a connection end.                                    *)
FairSpec ==
  /\ Spec
  /\ WF_vars(ControllerStep)
  /\ SF_vars(CancelLoop)
  /\ SF_vars(FetchSucceeds)
  /\ \A c \in Components, s \in Slots :
       WF_vars(SourceExits(c, s)) /\ WF_vars(ProxyExits(c, s))

-----------------------------------------------------------------------------
Slot == [held : BOOLEAN, sent : BOOLEAN, source : BOOLEAN, proxies : Nat]

(* Type invariant.                                                          *)
TypeOK ==
  /\ up \subseteq Components /\ unsteady \subseteq Components /\ changes \in Nat /\ panics \in Nat
  /\ shutdown \in BOOLEAN
  /\ pc \in {"new", "fetch", "stop", "await", "sleep", "drain", "drain_await", "root", "exited"}
  /\ latest \subseteq Components
  /\ leavers \subseteq Components
  /\ components \subseteq Components
  /\ running \in [Components -> Slots \cup {0}]
  /\ waiting \in [component : Components, slot : Slots] \cup {NoOne}
  /\ slots \in [Components -> [Slots -> Slot]]
  /\ root \in [sent : BOOLEAN, own : BOOLEAN]

(* An instance is never subscribed to twice: when a component that left     *)
(* comes back, everything of its previous source is gone before it is       *)
(* started again, proxies included (controller.rs:93-104, 140-141).         *)
OneSourcePerComponent ==
  \A c \in Components, s, t \in Slots : Alive(c, s) /\ Alive(c, t) => s = t

(* The controller can still reach every source that has not been told to    *)
(* stop: its notifier is in running_components under its component, wherever*)
(* the loop was when it was cancelled (controller.rs:55-63, 128, 135).      *)
NoOrphan ==
  \A c \in Components, s \in Slots :
    Alive(c, s) /\ ~Signalled(c, s) => running[c] = s /\ c \in components

(* Two instances with one Top SQL address are subscribed to at the same time*)
(* only if the topology itself reports both.  An instance that changes its  *)
(* other port is another Component, whose source starts before the old one  *)
(* is stopped: the overlap ends with the round, and for good, whatever the  *)
(* fetches that fail, the proxies that linger and the sources that panic    *)
(* (controller.rs:89-104, topology/mod.rs:34-41).                           *)
OneSourcePerAddress ==
  pc \in {"fetch", "sleep"} =>
    \A c, d \in Topsql, s, t \in Slots :
      /\ Alive(c, s) /\ Alive(d, t)
      /\ topsql_address(c) = topsql_address(d)
      => c = d \/ {c, d} \subseteq latest

(* When `run' returns no task it started is left, not even one whose stop   *)
(* was under way when the shutdown signal came (controller.rs:147-158).     *)
ExitClean == pc = "exited" => \A c \in Components, s \in Slots : ~Alive(c, s)

(* A source is told to stop only when its instance is missing from the      *)
(* topology fetched last, or vector shuts down: a refresh leaves the other  *)
(* sources alone (controller.rs:89-104).                                    *)
OnlyLeaversAreStopped ==
  [][\A c \in Components, s \in Slots :
       Alive(c, s) /\ ~Signalled(c, s) /\ Signalled(c, s)' => shutdown \/ c \notin latest']_vars

(* Each use of a slot is one life of the machine that the task of a source  *)
(* implements (TopSQLSource): it starts untold, with a source and no proxy, *)
(* when nothing is left of the life before it, and once told to end it is   *)
(* never untold, whichever of channel, notifier and root told it            *)
(* (controller.rs:109-141, shutdown.rs).                                    *)
Life(c, s) == INSTANCE SourceLife WITH
  told <- Signalled(c, s), source <- slots[c][s].source, proxies <- slots[c][s].proxies

SlotLives ==
  [][\A c \in Components, s \in Slots :
       IF Alive(c, s)
         THEN \/ Life(c, s)!Next
              \/ UNCHANGED <<Signalled(c, s), slots[c][s].source, slots[c][s].proxies>>
         ELSE Alive(c, s)' => Life(c, s)!Init']_vars

(* The shutdown signal is always followed by the controller's exit: the     *)
(* wait for the root channel does not wait for the controller's own receiver*)
(* (controller.rs:154-156).                                                 *)
ShutdownCompletes == shutdown ~> pc = "exited"

(* With a stable topology the running sources are those of the cluster,     *)
(* unless a source has panicked, which is not started again, or there is no *)
(* controller (controller.rs:65-107).                                       *)
Subscribed(c) == \E s \in Slots : slots[c][s].source /\ ~Signalled(c, s)
FollowsTopology ==
  \A c \in Topsql : <>[](~shutdown /\ panics = 0 /\ pc # "exited" => (Subscribed(c) <=> c \in up))
===============================================================================
