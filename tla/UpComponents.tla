----------------------------- MODULE UpComponents -----------------------------
(***************************************************************************)
(* What get_up_components promises its caller of a cluster that changes     *)
(* while the call runs: the answer is right about every component that      *)
(* neither comes nor goes meanwhile, and says anything about the others; an *)
(* error says nothing (topology/fetch/mod.rs:67-84, controller.rs:82-88).   *)
(***************************************************************************)
EXTENDS Topology

VARIABLES
  up,         \* the components that are up now
  unsteady,   \* those that have come or gone since the call began
  calling,    \* is there a call?
  answer      \* what the last call returned

vars == <<up, unsteady, calling, answer>>

Init == unsteady = {} /\ calling = FALSE /\ answer = {}

(* A component may come and go between two looks at the cluster, so it may  *)
(* be unsteady without a trace in `up'.                                     *)
Change ==
  /\ IF calling THEN unsteady \cup (up \ up') \cup (up' \ up) \subseteq unsteady'
                ELSE unsteady' = unsteady
  /\ UNCHANGED <<calling, answer>>

Call ==
  /\ ~calling /\ calling' = TRUE
  /\ unsteady' = {} /\ answer' = {}
  /\ UNCHANGED up

Fail ==
  /\ calling /\ calling' = FALSE
  /\ unsteady' = {} /\ answer' = {}
  /\ UNCHANGED up

Answer ==
  /\ calling /\ calling' = FALSE
  /\ Truthful(answer', up, unsteady) /\ unsteady' = {}
  /\ UNCHANGED up

Next == Change \/ Call \/ Fail \/ Answer

Spec == Init /\ [][Next]_vars
===============================================================================
