--------------------------- MODULE MCTopSQLController --------------------------
(* A small instance of TopSQLController for TLC: a TiDB instance, the same   *)
(* instance after its SQL port has changed, and one without a Top SQL        *)
(* address.                                                                  *)
EXTENDS TopSQLController

MCComponents ==
  {Component("TiDB", "a", 4000, 10080), Component("TiDB", "a", 4001, 10080),
   Component("PD", "b", 2379, 2379)}
===============================================================================
