---------------------------- MODULE MCTopologyFetch ----------------------------
(***************************************************************************)
(* A small cluster: two members of PD, one with a URL without a port; two   *)
(* TiDB keys, one without a port; a TiKV store, and a TiFlash store whose   *)
(* status address is empty, as it is while the store starts.                *)
(***************************************************************************)
EXTENDS TopologyFetch, TLC

CONSTANTS m1, m2, a, b, s1, s2

Addr(host, port) == [host |-> host, port |-> port]
TiDBAddr == Addr(a, 4000)
MCTiDBs == {TiDBAddr, Addr(b, Missing)}
MCClientUrl == (m1 :> Addr(m1, 2379)) @@ (m2 :> Addr(m2, Missing))
MCStoreInfo ==
  (s1 :> [address |-> Addr(s1, 20160), status_address |-> Addr(s1, 20180), labels |-> {}]) @@
  (s2 :> [address |-> Addr(s2, 3930), status_address |-> Addr(Missing, Missing),
          labels |-> {[key |-> "engine", value |-> "tiflash"]}])
===============================================================================
