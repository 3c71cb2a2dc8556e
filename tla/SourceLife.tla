------------------------------ MODULE SourceLife ------------------------------
(***************************************************************************)
(* What TopSQLController relies on of a source task it has started: the     *)
(* task may start proxy tasks, it ends when it is told to or when it        *)
(* panics, and once it is told to, it and every proxy it left behind end,   *)
(* whatever they are waiting for (controller.rs:121-158, shutdown.rs).      *)
(***************************************************************************)
EXTENDS Naturals

CONSTANT MaxProxies   \* bound: live proxies of one source

VARIABLES
  told,     \* its shutdown channel, or the root, has been used or dropped
  source,   \* is the source task there?
  proxies   \* how many proxy tasks are there?

vars == <<told, source, proxies>>

Init == told = FALSE /\ source = TRUE /\ proxies = 0

Tell == ~told /\ told' = TRUE /\ UNCHANGED <<source, proxies>>

SpawnProxy ==
  /\ source /\ proxies < MaxProxies
  /\ proxies' = proxies + 1
  /\ UNCHANGED <<told, source>>

SourceExits == source /\ told /\ source' = FALSE /\ UNCHANGED <<told, proxies>>
SourcePanics == source /\ source' = FALSE /\ UNCHANGED <<told, proxies>>
ProxyEnds == proxies > 0 /\ proxies' = proxies - 1 /\ UNCHANGED <<told, source>>

Next == Tell \/ SpawnProxy \/ SourceExits \/ SourcePanics \/ ProxyEnds

Spec == Init /\ [][Next]_vars

FairSpec ==
  Spec /\ WF_vars(SourceExits) /\ WF_vars(told /\ ProxyEnds)
===============================================================================
