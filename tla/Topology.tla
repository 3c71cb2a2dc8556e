------------------------------- MODULE Topology -------------------------------
(***************************************************************************)
(* extensions/topsql/src/topology/mod.rs and fetch/utils.rs: what a         *)
(* component of the cluster is, and its Top SQL address.                    *)
(*                                                                          *)
(* An address is a host and a port as they stand in a URL; either may be    *)
(* Missing.                                                                 *)
(***************************************************************************)
CONSTANT Missing

InstanceType == {"PD", "TiDB", "TiKV", "TiFlash"}

Component(type, host, primary, secondary) ==
  [instance_type |-> type, host |-> host, primary_port |-> primary, secondary_port |-> secondary]

(* parse_host_port returns the host and the port, or fails.                 *)
Parses(address) == address.host # Missing /\ address.port # Missing

HasTopsqlAddress(c) == c.instance_type \in {"TiDB", "TiKV"}

topsql_address(c) ==
  [host |-> c.host,
   port |-> IF c.instance_type = "TiDB" THEN c.secondary_port ELSE c.primary_port]

(* What is found of a cluster is right, but for the odd components that     *)
(* come and go while one looks.                                             *)
Truthful(found, up, odd) == found \ odd = up \ odd
===============================================================================
