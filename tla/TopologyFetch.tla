----------------------------- MODULE TopologyFetch -----------------------------
(***************************************************************************)
(* extensions/topsql/src/topology/fetch: one call of get_up_components.     *)
(* Four responses, taken one after the other while the cluster goes on      *)
(* changing, are put together into the set of components that are up: the   *)
(* health and the members of PD, the entries of the TiDB servers in etcd    *)
(* and the stores.                                                          *)
(*                                                                          *)
(* A member of PD keeps its id and its URL, a store its id, addresses and   *)
(* labels; they come and go and change their state.  What a TiDB server has *)
(* in etcd is an `info' entry with its status port and a `ttl' entry with   *)
(* the time of its last heartbeat, and either may hold anything.            *)
(***************************************************************************)
EXTENDS Integers, Topology

CONSTANTS
  Pds,          \* member ids of PD
  ClientUrl,    \* ClientUrl[m]: the first client URL of m, or NoUrl
  TiDBs,        \* addresses that appear in the keys under /topology/tidb/
  StatusPorts,  \* status ports an info entry may carry
  Stores,       \* store ids
  StoreInfo,    \* StoreInfo[s]: its address, status_address and labels
  Fresh,        \* the 45 s for which a heartbeat counts
  MaxClock,     \* bound: the clock
  MaxChanges,   \* bound: changes of the cluster, heartbeats included
  NoUrl, Absent,
  Garbage       \* the value of an entry that cannot be read, see Unreadable

ASSUME FetchAssumption ==
  /\ DOMAIN ClientUrl = Pds /\ DOMAIN StoreInfo = Stores
  /\ StatusPorts \subseteq Nat
  /\ {Fresh, MaxClock, MaxChanges} \subseteq Nat
  /\ Absent \notin Nat /\ Garbage \notin Nat /\ Absent # "healthy"
  /\ \A x, y \in TiDBs : x.host = y.host /\ x.port = y.port => x = y

Kinds == {"info", "ttl", "other", "none"}    \* "none": a key without a kind, or that is no text
Text == 0                                     \* a value that no one looks at, but that is text

VARIABLES
  pd,           \* member id -> "healthy", "sick" or Absent
  etcd,         \* address -> kind of key -> value, Absent when there is none
  store,        \* store id -> state name, or Absent
  clock,
  changes,
  pc,           \* the request whose response is awaited, or the outcome
  healthy,      \* health_members
  kvs,          \* entries of the response still to be looked at
  up_tidbs,
  tidbs,        \* pairs of an address and its component
  components,   \* the set the caller handed over
  beats,        \* history: the heartbeats there were when the call began
  everUp,       \* history: what was up at some moment of the call
  alwaysUp,     \* history: what was up at every moment of the call
  everBroken,   \* history: what could not be read at some moment of the call
  alwaysBroken, \* history: what could not be read at every moment of the call
  refused       \* history: a request of the call failed

cluster == <<pd, etcd, store, clock, changes>>
fetcher == <<pc, healthy, kvs, up_tidbs, tidbs, components>>
history == <<beats, everUp, alwaysUp, everBroken, alwaysBroken, refused>>
vars == <<cluster, fetcher, history>>

-----------------------------------------------------------------------------
(* Components as the code builds them.                                      *)
PdComponent(m) ==
  Component("PD", ClientUrl[m].host, ClientUrl[m].port, ClientUrl[m].port)

(* Mutant of TiDBComponent: the two ports swapped.                          *)
TiDBComponentSwapped(address, port) == Component("TiDB", address.host, port, address.port)

TiDBComponent(address, port) == Component("TiDB", address.host, address.port, port)

IsTiFlash(s) == [key |-> "engine", value |-> "tiflash"] \in StoreInfo[s].labels

StoreComponent(s) ==
  Component(IF IsTiFlash(s) THEN "TiFlash" ELSE "TiKV",
            StoreInfo[s].address.host, StoreInfo[s].address.port, StoreInfo[s].status_address.port)

StoreParses(s) == Parses(StoreInfo[s].address) /\ Parses(StoreInfo[s].status_address)

(* state_name is compared in lower case.                                    *)
StoreIsUp(name) == name \in {"up", "Up"}

(* Mutant of IsUp: the last moment is lost.                                 *)
IsUpStrict(ttl, now) == ttl + Fresh > now

(* TiDBTopologyFetcher::is_up.                                              *)
IsUp(ttl, now) == ttl + Fresh >= now

(* An entry parse_kv fails on, or whose address get_up_tidbs cannot parse.  *)
(* extract_kv_str takes the value of every entry for UTF-8, before the kind *)
(* is looked at: a Garbage value is one that is not, or under info and ttl  *)
(* a text that cannot be parsed.                                            *)
Unreadable(kv) ==
  \/ kv.kind = "none"
  \/ kv.value = Garbage
  \/ kv.kind = "info" /\ ~Parses(kv.address)

Entries(e) ==
  {kv \in [address : TiDBs, kind : Kinds, value : StatusPorts \cup (0..MaxClock) \cup {Garbage}] :
     e[kv.address][kv.kind] = kv.value}

-----------------------------------------------------------------------------
(* The cluster itself: what is up in it, with `t' the time of the heartbeat *)
(* an address is judged by, and what get_up_components could not read.      *)
HeartbeatCounts(t, now) == t \in Nat /\ now - t <= Fresh

UpNow(p, e, s, t, now) ==
  {PdComponent(m) : m \in {n \in Pds : p[n] = "healthy" /\ ClientUrl[n] # NoUrl}}
  \cup {TiDBComponent(a, e[a].info) :
          a \in {b \in TiDBs : e[b].info \in StatusPorts /\ HeartbeatCounts(t[b], now)}}
  \cup {StoreComponent(x) : x \in {y \in Stores : StoreIsUp(s[y])}}

BrokenNow(p, e, s) ==
  {<<"pd", m>> : m \in {n \in Pds : /\ p[n] = "healthy" /\ ClientUrl[n] # NoUrl
                                     /\ ~Parses(ClientUrl[n])}}
  \cup {<<kv.kind, kv.address>> : kv \in {entry \in Entries(e) : Unreadable(entry)}}
  \cup {<<"store", x>> : x \in {y \in Stores : StoreIsUp(s[y]) /\ ~StoreParses(y)}}

Ttl(e) == [a \in TiDBs |-> e[a].ttl]
Calling == pc \in {"health", "members", "etcd", "entries", "stores"}

(* What a change of the cluster adds to the history of a call.              *)
Observe ==
  /\ everUp' = everUp \cup UpNow(pd', etcd', store', Ttl(etcd'), clock')
  /\ alwaysUp' = alwaysUp \cap UpNow(pd', etcd', store', Ttl(etcd'), clock')
                           \cap UpNow(pd', etcd', store', beats, clock')
  /\ everBroken' = everBroken \cup BrokenNow(pd', etcd', store')
  /\ alwaysBroken' = alwaysBroken \cap BrokenNow(pd', etcd', store')
  /\ UNCHANGED <<beats, refused>>

Observed == IF Calling THEN Observe ELSE UNCHANGED history

-----------------------------------------------------------------------------
NoEntries == [kind \in Kinds |-> Absent]

GoodPds == {m \in Pds : ClientUrl[m] # NoUrl /\ Parses(ClientUrl[m])}
GoodTiDBs == {a \in TiDBs : Parses(a)}
GoodStores == {s \in Stores : StoreParses(s)}

(* Any part of a sound cluster; unsound things turn up later.               *)
Init ==
  /\ \E present \in SUBSET (GoodPds \cup GoodTiDBs \cup GoodStores), port \in StatusPorts :
       /\ pd = [m \in Pds |-> IF m \in present THEN "healthy" ELSE Absent]
       /\ etcd = [a \in TiDBs |-> IF a \in present
                                 THEN [NoEntries EXCEPT !["info"] = port, !["ttl"] = 0]
                                 ELSE NoEntries]
       /\ store = [s \in Stores |-> IF s \in present THEN "Up" ELSE Absent]
  /\ clock = 0 /\ changes = 0
  /\ pc = "idle"
  /\ healthy = {} /\ kvs = {} /\ up_tidbs = {} /\ tidbs = {} /\ components = {}
  /\ beats = Ttl(etcd)
  /\ everUp = {} /\ alwaysUp = {} /\ everBroken = {} /\ alwaysBroken = {}
  /\ refused = FALSE

(* The cluster.                                                             *)
Changes == changes < MaxChanges /\ changes' = changes + 1

ChangePd(m) ==
  /\ Changes
  /\ \E state \in {"healthy", "sick", Absent} \ {pd[m]} : pd' = [pd EXCEPT ![m] = state]
  /\ UNCHANGED <<etcd, store, clock, fetcher>> /\ Observed

ChangeStore(s) ==
  /\ Changes
  /\ \E name \in {"Up", "Offline", Absent} \ {store[s]} : store' = [store EXCEPT ![s] = name]
  /\ UNCHANGED <<pd, etcd, clock, fetcher>> /\ Observed

(* A TiDB server registers itself with the port it has now, or its entry    *)
(* goes; it beats, or its lease ends; or something else writes in etcd.     *)
ChangeEtcd(a) ==
  /\ Changes
  /\ \/ \E port \in StatusPorts \cup {Absent} : etcd' = [etcd EXCEPT ![a]["info"] = port]
     \/ \E t \in {clock, Absent} : etcd' = [etcd EXCEPT ![a]["ttl"] = t]
     \/ etcd' = [etcd EXCEPT ![a]["other"] = Text]
     \/ \E kind \in Kinds : etcd' = [etcd EXCEPT ![a][kind] = Garbage]
  /\ UNCHANGED <<pd, store, clock, fetcher>> /\ Observed

Tick ==
  /\ clock < MaxClock
  /\ clock' = clock + 1
  /\ UNCHANGED <<pd, etcd, store, changes, fetcher>> /\ Observed

-----------------------------------------------------------------------------
(* get_up_components, in the order of its requests.                         *)
Begin ==
  /\ pc \in {"idle", "done", "failed"}
  /\ pc' = "health"
  /\ components' = {}
  /\ beats' = Ttl(etcd)
  /\ everUp' = UpNow(pd, etcd, store, beats', clock) /\ alwaysUp' = everUp'
  /\ everBroken' = BrokenNow(pd, etcd, store) /\ alwaysBroken' = everBroken'
  /\ refused' = FALSE
  /\ UNCHANGED <<cluster, healthy, kvs, up_tidbs, tidbs>>

(* Every `?': the call ends, and its caller drops the set with what the     *)
(* call has put in so far.                                                  *)
Fail ==
  /\ pc' = "failed"
  /\ healthy' = {} /\ kvs' = {} /\ up_tidbs' = {} /\ tidbs' = {} /\ components' = {}

(* Mutant of RequestFails: the call returns what it has so far.             *)
RequestFailsQuietly ==
  /\ pc \in {"health", "members", "etcd", "stores"}
  /\ pc' = "done"
  /\ refused' = TRUE
  /\ UNCHANGED <<cluster, healthy, kvs, up_tidbs, tidbs, components,
                 beats, everUp, alwaysUp, everBroken, alwaysBroken>>

(* fetch_pd_health, fetch_pd_members, fetch_topology_kvs or fetch_stores    *)
(* gets no answer, or one that is not JSON.                                 *)
RequestFails ==
  /\ pc \in {"health", "members", "etcd", "stores"}
  /\ Fail
  /\ refused' = TRUE
  /\ UNCHANGED <<cluster, beats, everUp, alwaysUp, everBroken, alwaysBroken>>

FetchHealth ==
  /\ pc = "health"
  /\ healthy' = {m \in Pds : pd[m] = "healthy"}
  /\ pc' = "members"
  /\ UNCHANGED <<cluster, history, kvs, up_tidbs, tidbs, components>>

FetchMembers ==
  /\ pc = "members"
  /\ LET found == {m \in healthy : pd[m] # Absent /\ ClientUrl[m] # NoUrl}
     IN  IF \A m \in found : Parses(ClientUrl[m])
           THEN /\ components' = components \cup {PdComponent(m) : m \in found}
                /\ healthy' = {}
                /\ pc' = "etcd"
                /\ UNCHANGED <<kvs, up_tidbs, tidbs>>
           ELSE Fail
  /\ UNCHANGED <<cluster, history>>

FetchTopologyKvs ==
  /\ pc = "etcd"
  /\ kvs' = Entries(etcd)
  /\ pc' = "entries"
  /\ UNCHANGED <<cluster, history, healthy, up_tidbs, tidbs, components>>

(* One turn of the loop over the entries, in whatever order they come; the  *)
(* clock is read for every heartbeat.                                       *)
TakeEntry(kv) ==
  /\ pc = "entries" /\ kv \in kvs
  /\ IF Unreadable(kv)
       THEN Fail
       ELSE /\ kvs' = kvs \ {kv}
            /\ up_tidbs' = up_tidbs \cup {a \in {kv.address} : kv.kind = "ttl" /\ IsUp(kv.value, clock)}
            /\ tidbs' = tidbs \cup {<<a, TiDBComponent(a, kv.value)>> : a \in {b \in {kv.address} : kv.kind = "info"}}
            /\ UNCHANGED <<pc, healthy, components>>
  /\ UNCHANGED <<cluster, history>>

(* Mutant of EntriesDone: the heartbeats are not looked at.                 *)
EntriesDoneAll ==
  /\ pc = "entries" /\ kvs = {}
  /\ components' = components \cup {t[2] : t \in tidbs}
  /\ up_tidbs' = {} /\ tidbs' = {}
  /\ pc' = "stores"
  /\ UNCHANGED <<cluster, history, healthy, kvs>>

EntriesDone ==
  /\ pc = "entries" /\ kvs = {}
  /\ components' = components \cup {t[2] : t \in {u \in tidbs : u[1] \in up_tidbs}}
  /\ up_tidbs' = {} /\ tidbs' = {}
  /\ pc' = "stores"
  /\ UNCHANGED <<cluster, history, healthy, kvs>>

(* Mutant of FetchStores: addresses are parsed before the state is looked at.*)
FetchStoresParseFirst ==
  /\ pc = "stores"
  /\ IF \A s \in Stores : store[s] # Absent => StoreParses(s)
       THEN /\ components' = components \cup {StoreComponent(s) : s \in {t \in Stores : StoreIsUp(store[t])}}
            /\ pc' = "done"
            /\ UNCHANGED <<healthy, kvs, up_tidbs, tidbs>>
       ELSE Fail
  /\ UNCHANGED <<cluster, history>>

FetchStores ==
  /\ pc = "stores"
  /\ LET found == {s \in Stores : StoreIsUp(store[s])}
     IN  IF \A s \in found : StoreParses(s)
           THEN /\ components' = components \cup {StoreComponent(s) : s \in found}
                /\ pc' = "done"
                /\ UNCHANGED <<healthy, kvs, up_tidbs, tidbs>>
           ELSE Fail
  /\ UNCHANGED <<cluster, history>>

-----------------------------------------------------------------------------
ClusterStep ==
  \/ \E m \in Pds : ChangePd(m)
  \/ \E s \in Stores : ChangeStore(s)
  \/ \E a \in TiDBs : ChangeEtcd(a)
  \/ Tick

FetchStep ==
  \/ Begin \/ RequestFails
  \/ FetchHealth \/ FetchMembers \/ FetchTopologyKvs
  \/ \E kv \in kvs : TakeEntry(kv)
  \/ EntriesDone \/ FetchStores

Next == ClusterStep \/ FetchStep

Spec == Init /\ [][Next]_vars

-----------------------------------------------------------------------------
(* Type invariant.                                                          *)
TypeOK ==
  /\ pd \in [Pds -> {"healthy", "sick", Absent}]
  /\ etcd \in [TiDBs -> [Kinds -> StatusPorts \cup (0..MaxClock) \cup {Absent, Garbage}]]
  /\ store \in [Stores -> {"Up", "Offline", Absent}]
  /\ clock \in 0..MaxClock /\ changes \in 0..MaxChanges
  /\ pc \in {"idle", "health", "members", "etcd", "entries", "stores", "done", "failed"}
  /\ healthy \subseteq Pds
  /\ kvs \subseteq [address : TiDBs, kind : Kinds,
                    value : StatusPorts \cup (0..MaxClock) \cup {Garbage}]
  /\ up_tidbs \subseteq TiDBs
  /\ \A t \in tidbs : t[1] \in TiDBs /\ t[2].instance_type = "TiDB" /\ t[2].secondary_port \in StatusPorts
  /\ \A c \in components \cup everUp : c.instance_type \in InstanceType
  /\ alwaysUp \subseteq everUp /\ alwaysBroken \subseteq everBroken
  /\ refused \in BOOLEAN

(* A component the call reports was up at some moment while the call ran:   *)
(* the halves it is put together from belong to one another, although they  *)
(* are taken at different moments (pd.rs:52-58, tidb.rs:60-92).             *)
FetchedWasUp == pc = "done" => components \subseteq everUp

(* A component that was up all the while is reported, in whatever order the *)
(* entries come and down to the last moment its heartbeat counts; the       *)
(* controller stops a source only for an absence (tidb.rs:64-92, 138).      *)
SteadyIsFetched == pc = "done" => alwaysUp \subseteq components

(* One thing that cannot be read and stays makes every call fail, even the  *)
(* entry of a server that is long dead, or a value no one looks at that is  *)
(* not UTF-8, but not a store that is down or a member that is sick; and    *)
(* without such a thing a call fails only when a request of it does         *)
(* (tidb.rs:65, 110-128, 158-163; store.rs:46-53; pd.rs:58-60).             *)
VerdictHasCause ==
  /\ pc = "done" => alwaysBroken = {}
  /\ pc = "failed" => refused \/ everBroken # {}

(* The call keeps the promise its caller works with: what comes and goes    *)
(* meanwhile is all it may be wrong about.  A heartbeat that is only        *)
(* renewed during the call makes its server unsteady, for the old one may   *)
(* be what the call has seen (fetch/mod.rs:67-84, tidb.rs:60-92).           *)
Promise == INSTANCE UpComponents WITH
  up <- UpNow(pd, etcd, store, Ttl(etcd), clock),
  unsteady <- IF Calling THEN everUp \ alwaysUp ELSE {},
  calling <- Calling,
  answer <- IF pc = "done" THEN components ELSE {}

KeepsPromise == Promise!Spec
===============================================================================
