-------------------------- MODULE TopologyFetch_proofs --------------------------
(***************************************************************************)
(* Proofs about TopologyFetch, for every cluster, every expiry of a         *)
(* heartbeat and every change of the cluster while a call runs.             *)
(***************************************************************************)
EXTENDS TopologyFetch, TLAPS

(* The values etcd may hold under each kind of key.                         *)
Held(kind, now) ==
  CASE kind = "info" -> StatusPorts \cup {Garbage}
    [] kind = "ttl" -> (0..now) \cup {Garbage}
    [] OTHER -> {Text, Garbage}

EtcdHolds == \A a \in TiDBs, kind \in Kinds : etcd[a][kind] \in Held(kind, clock) \cup {Absent}

(* The response in hand is one etcd may give.                               *)
Entry(a, kind, value) == [address |-> a, kind |-> kind, value |-> value]

KvsHeld ==
  /\ \A kv \in kvs : kv.value \in Held(kv.kind, clock)
  /\ pc # "entries" => kvs = {} /\ up_tidbs = {} /\ tidbs = {}

TidbPairs == \A t \in tidbs : \E a \in TiDBs, port \in StatusPorts : t = <<a, TiDBComponent(a, port)>>

(* The history of a call covers the present, and heartbeats get younger.    *)
UpByTtl == UpNow(pd, etcd, store, Ttl(etcd), clock)
UpByBeats == UpNow(pd, etcd, store, beats, clock)
Broken == BrokenNow(pd, etcd, store)

HistoryCovers ==
  Calling =>
    /\ \A a \in TiDBs : beats[a] \in Nat => beats[a] <= clock
    /\ UpByTtl \subseteq everUp /\ alwaysUp \subseteq UpByTtl \cap UpByBeats
    /\ Broken \subseteq everBroken /\ alwaysBroken \subseteq Broken
    /\ \A a \in TiDBs : beats[a] \in Nat /\ etcd[a].ttl \in Nat => beats[a] <= etcd[a].ttl

-----------------------------------------------------------------------------
(* FetchedWasUp: the halves in hand were up together.                       *)
MembersWereUp ==
  pc = "members" => \A m \in healthy : ClientUrl[m] # NoUrl => PdComponent(m) \in everUp

HasInfo(a, port) == <<a, TiDBComponent(a, port)>> \in tidbs \/ Entry(a, "info", port) \in kvs
HasBeat(a) == a \in up_tidbs \/ \E t \in Nat : Entry(a, "ttl", t) \in kvs /\ IsUp(t, clock)

EntriesWereUp ==
  pc = "entries" =>
    \A a \in TiDBs, port \in StatusPorts :
      HasInfo(a, port) /\ HasBeat(a) => TiDBComponent(a, port) \in everUp

FoundWasUp == Calling \/ pc = "done" => components \subseteq everUp

-----------------------------------------------------------------------------
(* SteadyIsFetched: what has been up all along is in hand.                  *)
SteadyMembers ==
  pc = "members" =>
    \A c \in alwaysUp : c.instance_type = "PD" =>
      \E m \in healthy : ClientUrl[m] # NoUrl /\ c = PdComponent(m)

SteadyEntries ==
  pc = "entries" =>
    \A a \in TiDBs, port \in StatusPorts : TiDBComponent(a, port) \in alwaysUp =>
      /\ HasInfo(a, port)
      /\ a \in up_tidbs \/ \E t \in Nat : Entry(a, "ttl", t) \in kvs /\ (beats[a] \in Nat => beats[a] <= t)

SteadyFound ==
  \A c \in alwaysUp :
    /\ pc \in {"etcd", "entries", "stores", "done"} /\ c.instance_type = "PD" => c \in components
    /\ pc \in {"stores", "done"} /\ c.instance_type = "TiDB" => c \in components
    /\ pc = "done" => c \in components

-----------------------------------------------------------------------------
(* VerdictHasCause: what cannot be read is in hand or was noticed.          *)
BrokenMembers ==
  pc = "members" =>
    /\ \A m \in healthy : ClientUrl[m] # NoUrl /\ ~Parses(ClientUrl[m]) => <<"pd", m>> \in everBroken
    /\ \A m \in Pds : <<"pd", m>> \in alwaysBroken => m \in healthy

BrokenEntries ==
  pc = "entries" =>
    /\ \A kv \in kvs : Unreadable(kv) => <<kv.kind, kv.address>> \in everBroken
    /\ \A kind \in Kinds, a \in TiDBs : <<kind, a>> \in alwaysBroken =>
         \E kv \in kvs : Unreadable(kv) /\ kv.kind = kind /\ kv.address = a

BrokenPast ==
  /\ pc \in {"etcd", "entries", "stores", "done"} => \A m \in Pds : <<"pd", m>> \notin alwaysBroken
  /\ pc \in {"stores", "done"} => \A kind \in Kinds, a \in TiDBs : <<kind, a>> \notin alwaysBroken

-----------------------------------------------------------------------------
(* What a component and an entry are.                                       *)

LEMMA Constants ==
  /\ \A port \in StatusPorts : port \in Nat
  /\ Fresh \in Nat /\ MaxClock \in Nat /\ MaxChanges \in Nat
  /\ Absent \notin Nat /\ Garbage \notin Nat /\ Absent # "healthy"
  /\ \A x, y \in TiDBs : x.host = y.host /\ x.port = y.port => x = y
BY FetchAssumption DEF FetchAssumption

LEMMA UpTyped ==
  ASSUME NEW p, NEW e, NEW s, NEW t, NEW now, NEW c \in UpNow(p, e, s, t, now)
  PROVE  c.instance_type \in InstanceType
BY DEF UpNow, PdComponent, TiDBComponent, StoreComponent, Component, InstanceType

LEMMA HeldGrows ==
  ASSUME NEW kind, NEW now \in Nat, NEW later \in Nat, now <= later
  PROVE  Held(kind, now) \subseteq Held(kind, later)
BY DEF Held

LEMMA HeldReadable ==
  ASSUME NEW kv, NEW now \in Nat, kv.value \in Held(kv.kind, now), ~Unreadable(kv)
  PROVE  /\ kv.kind = "info" => kv.value \in StatusPorts
         /\ kv.kind = "ttl" => kv.value \in 0..now
BY DEF Held, Unreadable

LEMMA EntriesTyped ==
  ASSUME NEW e, NEW kv \in Entries(e)
  PROVE  /\ kv \in [address : TiDBs, kind : Kinds, value : StatusPorts \cup (0..MaxClock) \cup {Garbage}]
         /\ e[kv.address][kv.kind] = kv.value
BY DEF Entries

-----------------------------------------------------------------------------
(* A step is one of the cluster, which the call only observes, or one of    *)
(* the call, which leaves the cluster alone.                                *)

LEMMA ClusterMoves ==
  ASSUME TypeOK, EtcdHolds, ClusterStep
  PROVE  /\ UNCHANGED fetcher /\ Observed
         /\ clock \in Nat /\ clock' \in Nat /\ clock <= clock' /\ EtcdHolds'
         /\ pd' \in [Pds -> {"healthy", "sick", Absent}]
         /\ etcd' \in [TiDBs -> [Kinds -> StatusPorts \cup (0..MaxClock) \cup {Absent, Garbage}]]
         /\ store' \in [Stores -> {"Up", "Offline", Absent}]
         /\ clock' \in 0..MaxClock /\ changes' \in 0..MaxChanges
<1> USE Constants
<1>t. /\ clock \in 0..MaxClock /\ changes \in 0..MaxChanges
      /\ pd \in [Pds -> {"healthy", "sick", Absent}]
      /\ etcd \in [TiDBs -> [Kinds -> StatusPorts \cup (0..MaxClock) \cup {Absent, Garbage}]]
      /\ store \in [Stores -> {"Up", "Offline", Absent}]
  BY DEF TypeOK
<1>1. CASE \E m \in Pds : ChangePd(m)
  <2> PICK m \in Pds : ChangePd(m)  BY <1>1
  <2> EtcdHolds'  BY DEF ChangePd, EtcdHolds
  <2> QED  BY <1>t DEF ChangePd, Changes
<1>2. CASE \E s \in Stores : ChangeStore(s)
  <2> PICK s \in Stores : ChangeStore(s)  BY <1>2
  <2> EtcdHolds'  BY DEF ChangeStore, EtcdHolds
  <2> QED  BY <1>t DEF ChangeStore, Changes
<1>3. CASE \E x \in TiDBs : ChangeEtcd(x)
  <2> PICK x \in TiDBs : ChangeEtcd(x)  BY <1>3
  <2>1. PICK kind \in Kinds :
          \E value \in Held(kind, clock) \cup {Absent} : etcd' = [etcd EXCEPT ![x][kind] = value]
    <3> \A value \in StatusPorts \cup {Absent} : value \in Held("info", clock) \cup {Absent}  BY DEF Held
    <3> \A value \in {clock, Absent} : value \in Held("ttl", clock) \cup {Absent}  BY <1>t DEF Held
    <3> \A kind \in Kinds : Garbage \in Held(kind, clock) \cup {Absent}  BY DEF Held, Kinds
    <3> Text \in Held("other", clock) \cup {Absent}  BY DEF Held
    <3> QED  BY DEF ChangeEtcd, Kinds
  <2>v. PICK value \in Held(kind, clock) \cup {Absent} : etcd' = [etcd EXCEPT ![x][kind] = value]
    BY <2>1
  <2>2. UNCHANGED <<pd, store, clock, fetcher>> /\ Observed /\ changes' \in 0..MaxChanges
    BY <1>t DEF ChangeEtcd, Changes
  <2>3. value \in StatusPorts \cup (0..MaxClock) \cup {Absent, Garbage}
    BY <2>v, <1>t, Constants DEF Held, Kinds, Text
  <2>4. etcd' \in [TiDBs -> [Kinds -> StatusPorts \cup (0..MaxClock) \cup {Absent, Garbage}]]
    BY <2>v, <2>3, <1>t
  <2>5. EtcdHolds'
    <3> SUFFICES ASSUME NEW y \in TiDBs, NEW k \in Kinds
                 PROVE  etcd'[y][k] \in Held(k, clock) \cup {Absent}
      BY <2>2 DEF EtcdHolds
    <3>1. etcd[y][k] \in Held(k, clock) \cup {Absent}  BY DEF EtcdHolds
    <3>2. etcd'[y][k] = IF y = x /\ k = kind THEN value ELSE etcd[y][k]
      BY <2>v, <1>t
    <3> QED  BY <2>v, <3>1, <3>2
  <2> QED  BY <2>2, <2>4, <2>5, <1>t
<1>4. CASE Tick
  <2>1. /\ clock' = clock + 1 /\ clock < MaxClock /\ UNCHANGED <<pd, etcd, store, changes, fetcher>>
        /\ Observed
    BY <1>4 DEF Tick
  <2>2. EtcdHolds'
    BY <2>1, <1>t, HeldGrows DEF EtcdHolds
  <2> QED  BY <2>1, <2>2, <1>t
<1> QED  BY <1>1, <1>2, <1>3, <1>4 DEF ClusterStep

LEMMA CallLeavesCluster ==
  ASSUME FetchStep
  PROVE  UNCHANGED cluster
BY DEF FetchStep, Begin, RequestFails, FetchHealth, FetchMembers, FetchTopologyKvs, TakeEntry,
       EntriesDone, FetchStores

-----------------------------------------------------------------------------
(* TypeOK needs to know what etcd holds under each kind of key, and that    *)
(* the entries in hand are taken from there.                                *)
Typed == TypeOK /\ EtcdHolds /\ KvsHeld /\ TidbPairs

LEMMA TypedInit == Init => Typed
<1> SUFFICES ASSUME Init PROVE Typed  OBVIOUS
<1> USE Constants
<1>1. PICK present \in SUBSET (GoodPds \cup GoodTiDBs \cup GoodStores), port \in StatusPorts :
       /\ pd = [m \in Pds |-> IF m \in present THEN "healthy" ELSE Absent]
       /\ etcd = [x \in TiDBs |-> IF x \in present
                                 THEN [NoEntries EXCEPT !["info"] = port, !["ttl"] = 0]
                                 ELSE NoEntries]
       /\ store = [s \in Stores |-> IF s \in present THEN "Up" ELSE Absent]
  BY DEF Init
<1>2. /\ clock = 0 /\ changes = 0 /\ pc = "idle" /\ healthy = {} /\ kvs = {} /\ up_tidbs = {}
      /\ tidbs = {} /\ components = {} /\ everUp = {} /\ alwaysUp = {} /\ everBroken = {}
      /\ alwaysBroken = {} /\ refused = FALSE
  BY DEF Init
<1>3. \A x \in TiDBs : etcd[x] \in [Kinds -> {port, 0, Absent}]
  BY <1>1 DEF NoEntries, Kinds
<1>4. \A x \in TiDBs, k \in Kinds :
        etcd[x][k] = IF x \notin present THEN Absent
                     ELSE IF k = "info" THEN port ELSE IF k = "ttl" THEN 0 ELSE Absent
  BY <1>1 DEF NoEntries, Kinds
<1>5. EtcdHolds  BY <1>4, <1>2 DEF EtcdHolds, Held
<1>6. etcd \in [TiDBs -> [Kinds -> StatusPorts \cup (0..MaxClock) \cup {Absent, Garbage}]]
  <2>1. 0 \in 0..MaxClock  OBVIOUS
  <2> QED  BY <1>1, <1>3, <2>1
<1>7. /\ pd \in [Pds -> {"healthy", "sick", Absent}]
      /\ store \in [Stores -> {"Up", "Offline", Absent}]
  BY <1>1
<1>n. clock \in 0..MaxClock /\ changes \in 0..MaxChanges  BY <1>2
<1>8. TypeOK  BY <1>2, <1>6, <1>7, <1>n, Zenon DEF TypeOK
<1> QED  BY <1>2, <1>5, <1>8 DEF Typed, KvsHeld, TidbPairs

LEMMA TypedByCluster ==
  ASSUME Typed, ClusterStep
  PROVE  Typed'
<1> USE Constants
<1>1. TypeOK /\ EtcdHolds /\ KvsHeld /\ TidbPairs  BY DEF Typed
<1>2. /\ UNCHANGED fetcher /\ Observed
      /\ clock \in Nat /\ clock' \in Nat /\ clock <= clock' /\ EtcdHolds'
      /\ pd' \in [Pds -> {"healthy", "sick", Absent}]
      /\ etcd' \in [TiDBs -> [Kinds -> StatusPorts \cup (0..MaxClock) \cup {Absent, Garbage}]]
      /\ store' \in [Stores -> {"Up", "Offline", Absent}]
      /\ clock' \in 0..MaxClock /\ changes' \in 0..MaxChanges
  BY <1>1, ClusterMoves
<1>3. KvsHeld'  BY <1>1, <1>2, HeldGrows DEF KvsHeld, fetcher
<1>4. TidbPairs'  BY <1>1, <1>2 DEF TidbPairs, fetcher
<1>5. /\ \A c \in everUp' : c.instance_type \in InstanceType
      /\ alwaysUp' \subseteq everUp' /\ alwaysBroken' \subseteq everBroken'
      /\ refused' \in BOOLEAN
  <2>1. CASE Calling
    <3>1. Observe  BY <1>2, <2>1 DEF Observed
    <3>2. \A c \in UpNow(pd', etcd', store', Ttl(etcd'), clock') : c.instance_type \in InstanceType
      BY UpTyped
    <3>3. refused' \in BOOLEAN  BY <1>1, <3>1 DEF Observe, TypeOK
    <3> QED  BY <1>1, <3>1, <3>2, <3>3 DEF Observe, TypeOK
  <2>2. CASE ~Calling
    <3> UNCHANGED history  BY <1>2, <2>2 DEF Observed
    <3> QED  BY <1>1 DEF history, TypeOK
  <2> QED  BY <2>1, <2>2
<1>6. TypeOK'  BY <1>1, <1>2, <1>5 DEF TypeOK, fetcher
<1> QED  BY <1>2, <1>3, <1>4, <1>6 DEF Typed

(* What the call holds itself, and what is remembered of it.                *)
CallTyped ==
  /\ pc \in {"idle", "health", "members", "etcd", "entries", "stores", "done", "failed"}
  /\ healthy \subseteq Pds
  /\ kvs \subseteq [address : TiDBs, kind : Kinds,
                    value : StatusPorts \cup (0..MaxClock) \cup {Garbage}]
  /\ up_tidbs \subseteq TiDBs
  /\ \A t \in tidbs : t[1] \in TiDBs /\ t[2].instance_type = "TiDB" /\ t[2].secondary_port \in StatusPorts
  /\ \A c \in components : c.instance_type \in InstanceType

HistoryTyped ==
  /\ \A c \in everUp : c.instance_type \in InstanceType
  /\ alwaysUp \subseteq everUp /\ alwaysBroken \subseteq everBroken
  /\ refused \in BOOLEAN

LEMMA CallTypedIsTypeOK ==
  ASSUME Typed, FetchStep, CallTyped', HistoryTyped', KvsHeld', TidbPairs'
  PROVE  Typed'
<1>1. UNCHANGED cluster  BY CallLeavesCluster
<1>2. EtcdHolds'  BY <1>1 DEF Typed, EtcdHolds, cluster
<1>3. /\ pd' \in [Pds -> {"healthy", "sick", Absent}]
      /\ etcd' \in [TiDBs -> [Kinds -> StatusPorts \cup (0..MaxClock) \cup {Absent, Garbage}]]
      /\ store' \in [Stores -> {"Up", "Offline", Absent}]
      /\ clock' \in 0..MaxClock /\ changes' \in 0..MaxChanges
  BY <1>1 DEF Typed, TypeOK, cluster
<1>4. TypeOK'  BY <1>3, Zenon DEF TypeOK, CallTyped, HistoryTyped
<1> QED  BY <1>2, <1>4 DEF Typed

LEMMA TypedByFailure ==
  ASSUME Fail
  PROVE  CallTyped' /\ KvsHeld' /\ TidbPairs'
BY DEF Fail, CallTyped, KvsHeld, TidbPairs

LEMMA TypedByCall ==
  ASSUME Typed, FetchStep
  PROVE  Typed'
<1> USE Constants
<1> SUFFICES CallTyped' /\ HistoryTyped' /\ KvsHeld' /\ TidbPairs'
  BY CallTypedIsTypeOK
<1>t. CallTyped /\ HistoryTyped /\ KvsHeld /\ TidbPairs /\ EtcdHolds /\ clock \in 0..MaxClock
  <2>1. TypeOK /\ EtcdHolds /\ KvsHeld /\ TidbPairs  BY DEF Typed
  <2> QED  BY <2>1, Zenon DEF TypeOK, CallTyped, HistoryTyped
<1>c. UNCHANGED cluster  BY CallLeavesCluster
<1>h. HistoryTyped'
  <2>1. CASE Begin
    <3>1. \A c \in UpNow(pd, etcd, store, beats', clock) : c.instance_type \in InstanceType
      BY UpTyped
    <3> QED  BY <2>1, <3>1 DEF Begin, HistoryTyped
  <2>2. CASE RequestFails  BY <1>t, <2>2, Zenon DEF RequestFails, HistoryTyped
  <2>3. CASE UNCHANGED history  BY <1>t, <2>3, Zenon DEF HistoryTyped, history
  <2> QED  BY <2>1, <2>2, <2>3 DEF FetchStep, FetchHealth, FetchMembers, FetchTopologyKvs, TakeEntry,
                                    EntriesDone, FetchStores
<1> SUFFICES CallTyped' /\ KvsHeld' /\ TidbPairs'  BY <1>h
<1>1. CASE Begin
  <2>1. /\ pc' = "health" /\ components' = {} /\ pc \in {"idle", "done", "failed"}
        /\ UNCHANGED <<clock, healthy, kvs, up_tidbs, tidbs>>
    BY <1>1 DEF Begin, cluster
  <2> QED  BY <1>t, <2>1 DEF CallTyped, KvsHeld, TidbPairs
<1>2. CASE Fail  BY <1>2, TypedByFailure
<1>3. CASE FetchHealth
  <2>1. /\ pc' = "members" /\ healthy' \subseteq Pds /\ pc = "health"
        /\ UNCHANGED <<clock, kvs, up_tidbs, tidbs, components>>
    BY <1>3 DEF FetchHealth, cluster
  <2> QED  BY <1>t, <2>1 DEF CallTyped, KvsHeld, TidbPairs
<1>4. CASE FetchMembers /\ ~Fail
  <2>1. PICK found :
          /\ components' = components \cup {PdComponent(m) : m \in found}
          /\ healthy' = {} /\ pc' = "etcd" /\ pc = "members" /\ UNCHANGED <<clock, kvs, up_tidbs, tidbs>>
    BY <1>4 DEF FetchMembers, cluster
  <2>2. \A m : PdComponent(m).instance_type \in InstanceType
    BY DEF PdComponent, Component, InstanceType
  <2> QED  BY <1>t, <2>1, <2>2 DEF CallTyped, KvsHeld, TidbPairs
<1>5. CASE FetchTopologyKvs
  <2>1. /\ pc' = "entries" /\ kvs' = Entries(etcd)
        /\ UNCHANGED <<clock, healthy, up_tidbs, tidbs, components>>
    BY <1>5 DEF FetchTopologyKvs, cluster
  <2>2. KvsHeld'
    <3>1. SUFFICES ASSUME NEW kv \in Entries(etcd) PROVE kv.value \in Held(kv.kind, clock)
      BY <2>1 DEF KvsHeld
    <3>2. /\ kv.address \in TiDBs /\ kv.kind \in Kinds /\ kv.value \in StatusPorts \cup (0..MaxClock) \cup {Garbage}
          /\ etcd[kv.address][kv.kind] = kv.value
      BY EntriesTyped
    <3>3. kv.value # Absent \/ kv.value = Garbage
      <4>1. Absent \notin StatusPorts /\ Absent \notin 0..MaxClock  BY Constants
      <4> QED  BY <3>2, <4>1, Zenon
    <3>4. kv.value \in Held(kv.kind, clock) \cup {Absent}  BY <1>t, <3>2 DEF EtcdHolds
    <3>5. Garbage \in Held(kv.kind, clock)  BY DEF Held
    <3> QED  BY <3>3, <3>4, <3>5
  <2>3. kvs' \subseteq [address : TiDBs, kind : Kinds, value : StatusPorts \cup (0..MaxClock) \cup {Garbage}]
    BY <2>1 DEF Entries
  <2> QED  BY <1>t, <2>1, <2>2, <2>3 DEF CallTyped, TidbPairs
<1>6. CASE (\E kv \in kvs : TakeEntry(kv)) /\ ~Fail
  <2>1. PICK kv \in kvs :
          /\ ~Unreadable(kv)
          /\ kvs' = kvs \ {kv}
          /\ up_tidbs' = up_tidbs \cup {x \in {kv.address} : kv.kind = "ttl" /\ IsUp(kv.value, clock)}
          /\ tidbs' = tidbs \cup {<<x, TiDBComponent(x, kv.value)>> : x \in {y \in {kv.address} : kv.kind = "info"}}
          /\ pc = "entries" /\ UNCHANGED <<clock, pc, healthy, components>>
    BY <1>6 DEF TakeEntry, cluster
  <2>2. kv.address \in TiDBs /\ kv.value \in Held(kv.kind, clock)
    BY <1>t DEF CallTyped, KvsHeld
  <2>3. kv.kind = "info" => kv.value \in StatusPorts
    BY <1>t, <2>1, <2>2, HeldReadable
  <2>4. KvsHeld'  BY <1>t, <2>1 DEF KvsHeld
  <2>5. \A t \in tidbs' : t \in tidbs \/ (kv.value \in StatusPorts /\ t = <<kv.address, TiDBComponent(kv.address, kv.value)>>)
    BY <2>1, <2>3
  <2>6. TidbPairs'
    BY <1>t, <2>2, <2>5 DEF TidbPairs
  <2>7. \A t \in tidbs' : t[1] \in TiDBs /\ t[2].instance_type = "TiDB" /\ t[2].secondary_port \in StatusPorts
    BY <1>t, <2>2, <2>5 DEF CallTyped, TiDBComponent, Component
  <2> QED  BY <1>t, <2>1, <2>2, <2>4, <2>6, <2>7 DEF CallTyped
<1>7. CASE EntriesDone
  <2>1. /\ components' = components \cup {t[2] : t \in {u \in tidbs : u[1] \in up_tidbs}}
        /\ up_tidbs' = {} /\ tidbs' = {} /\ pc' = "stores" /\ kvs = {} /\ UNCHANGED <<clock, healthy, kvs>>
    BY <1>7 DEF EntriesDone, cluster
  <2> QED  BY <1>t, <2>1 DEF CallTyped, KvsHeld, TidbPairs, InstanceType
<1>8. CASE FetchStores /\ ~Fail
  <2>1. PICK found :
          /\ components' = components \cup {StoreComponent(x) : x \in found}
          /\ pc' = "done" /\ pc = "stores" /\ UNCHANGED <<clock, healthy, kvs, up_tidbs, tidbs>>
    BY <1>8 DEF FetchStores, cluster
  <2>2. \A x : StoreComponent(x).instance_type \in InstanceType
    BY DEF StoreComponent, Component, InstanceType
  <2> QED  BY <1>t, <2>1, <2>2 DEF CallTyped, KvsHeld, TidbPairs
<1> QED  BY <1>1, <1>2, <1>3, <1>4, <1>5, <1>6, <1>7, <1>8 DEF FetchStep, RequestFails

(* No step of the cluster or of the call leaves the types.                  *)
THEOREM FetchTypeCorrect == Spec => []TypeOK
<1>1. Typed /\ [Next]_vars => Typed'
  <2> SUFFICES ASSUME Typed, [Next]_vars PROVE Typed'  OBVIOUS
  <2>1. CASE UNCHANGED vars
    BY <2>1, Zenon DEF Typed, TypeOK, EtcdHolds, KvsHeld, TidbPairs, vars, cluster, fetcher, history
  <2> QED  BY <2>1, TypedByCluster, TypedByCall DEF Next
<1> QED  BY TypedInit, <1>1, PTL DEF Spec, Typed

-----------------------------------------------------------------------------
(* While a call runs, what was up at some moment and what was up at every   *)
(* moment enclose what is up now, and likewise for what cannot be read.     *)

LEMMA Observing ==
  ASSUME Typed, ClusterStep
  PROVE  /\ UNCHANGED <<pc, healthy, kvs, up_tidbs, tidbs, components, beats, refused>>
         /\ everUp \subseteq everUp' /\ alwaysUp' \subseteq alwaysUp
         /\ everBroken \subseteq everBroken' /\ alwaysBroken' \subseteq alwaysBroken
         /\ clock \in Nat /\ clock' \in Nat /\ clock <= clock'
<1>1. UNCHANGED fetcher /\ Observed /\ clock \in Nat /\ clock' \in Nat /\ clock <= clock'
  BY ClusterMoves DEF Typed
<1>2. CASE Calling  BY <1>1, <1>2 DEF Observed, Observe, fetcher
<1>3. CASE ~Calling  BY <1>1, <1>3 DEF Observed, history, fetcher
<1> QED  BY <1>2, <1>3

(* Something written under `ttl' is the time, or no time at all.            *)
LEMMA HeartbeatIsNow ==
  ASSUME Typed, ClusterStep, NEW x \in TiDBs, etcd'[x].ttl \in Nat
  PROVE  etcd'[x].ttl = etcd[x].ttl \/ etcd'[x].ttl = clock
<1> USE Constants
<1>t. etcd \in [TiDBs -> [Kinds -> StatusPorts \cup (0..MaxClock) \cup {Absent, Garbage}]]
  BY DEF Typed, TypeOK
<1>1. CASE UNCHANGED etcd  BY <1>1
<1>2. CASE \E y \in TiDBs : ChangeEtcd(y)
  <2> PICK y \in TiDBs : ChangeEtcd(y)  BY <1>2
  <2>1. CASE \E port \in StatusPorts \cup {Absent} : etcd' = [etcd EXCEPT ![y]["info"] = port]
    BY <1>t, <2>1 DEF Kinds
  <2>2. CASE \E t \in {clock, Absent} : etcd' = [etcd EXCEPT ![y]["ttl"] = t]
    BY <1>t, <2>2 DEF Kinds
  <2>3. CASE \E kind \in Kinds : etcd' = [etcd EXCEPT ![y][kind] = Garbage]
    BY <1>t, <2>3 DEF Kinds
  <2>4. CASE etcd' = [etcd EXCEPT ![y]["other"] = Text]
    BY <1>t, <2>4 DEF Kinds
  <2> QED  BY <2>1, <2>2, <2>3, <2>4 DEF ChangeEtcd
<1> QED  BY <1>1, <1>2 DEF ClusterStep, ChangePd, ChangeStore, Tick

LEMMA CoversByCluster ==
  ASSUME Typed, HistoryCovers, ClusterStep
  PROVE  HistoryCovers'
<1> SUFFICES ASSUME Calling'
             PROVE  /\ \A x \in TiDBs : beats'[x] \in Nat => beats'[x] <= clock'
                    /\ UpByTtl' \subseteq everUp' /\ alwaysUp' \subseteq UpByTtl' \cap UpByBeats'
                    /\ Broken' \subseteq everBroken' /\ alwaysBroken' \subseteq Broken'
                    /\ \A x \in TiDBs : beats'[x] \in Nat /\ etcd'[x].ttl \in Nat => beats'[x] <= etcd'[x].ttl
  BY DEF HistoryCovers
<1>1. UNCHANGED fetcher /\ Observed /\ clock \in Nat /\ clock' \in Nat /\ clock <= clock'
  BY ClusterMoves DEF Typed
<1>2. Calling  BY <1>1 DEF Calling, fetcher
<1>3. Observe  BY <1>1, <1>2 DEF Observed
<1>4. beats' = beats  BY <1>3 DEF Observe
<1>5. \A x \in TiDBs : beats[x] \in Nat => beats[x] <= clock  BY <1>2 DEF HistoryCovers
<1>6. \A x \in TiDBs : beats'[x] \in Nat => beats'[x] <= clock'  BY <1>1, <1>4, <1>5
<1>7. \A x \in TiDBs : beats'[x] \in Nat /\ etcd'[x].ttl \in Nat => beats'[x] <= etcd'[x].ttl
  <2> SUFFICES ASSUME NEW x \in TiDBs, beats[x] \in Nat, etcd'[x].ttl \in Nat
               PROVE  beats[x] <= etcd'[x].ttl
    BY <1>4
  <2>1. etcd'[x].ttl = etcd[x].ttl \/ etcd'[x].ttl = clock  BY HeartbeatIsNow
  <2> QED  BY <1>2, <1>5, <2>1 DEF HistoryCovers
<1>8. /\ UpByTtl' \subseteq everUp' /\ alwaysUp' \subseteq UpByTtl' \cap UpByBeats'
      /\ Broken' \subseteq everBroken' /\ alwaysBroken' \subseteq Broken'
  BY <1>3, <1>4 DEF Observe, UpByTtl, UpByBeats, Broken, Ttl
<1> QED  BY <1>6, <1>7, <1>8

LEMMA CoversByCall ==
  ASSUME Typed, HistoryCovers, FetchStep
  PROVE  HistoryCovers'
<1>c. UNCHANGED cluster  BY CallLeavesCluster
<1>1. CASE Begin
  <2>1. /\ beats' = Ttl(etcd)
        /\ everUp' = UpNow(pd, etcd, store, beats', clock) /\ alwaysUp' = everUp'
        /\ everBroken' = BrokenNow(pd, etcd, store) /\ alwaysBroken' = everBroken'
    BY <1>1 DEF Begin
  <2>2. /\ UpByTtl' = everUp' /\ UpByBeats' = everUp' /\ Broken' = everBroken'
    BY <1>c, <2>1 DEF UpByTtl, UpByBeats, Broken, cluster, Ttl
  <2>3. \A x \in TiDBs : beats'[x] = etcd[x].ttl  BY <2>1 DEF Ttl
  <2>4. \A x \in TiDBs : etcd[x].ttl \in Nat => etcd[x].ttl <= clock
    <3> SUFFICES ASSUME NEW x \in TiDBs, etcd[x].ttl \in Nat  PROVE etcd[x].ttl <= clock
      OBVIOUS
    <3>1. clock \in Nat  BY Constants DEF Typed, TypeOK
    <3>2. etcd[x]["ttl"] \in (0..clock) \cup {Garbage} \cup {Absent}  BY DEF Typed, EtcdHolds, Held, Kinds
    <3> QED  BY <3>1, <3>2, Constants
  <2> QED  BY <1>c, <2>1, <2>2, <2>3, <2>4 DEF HistoryCovers, cluster
<1>2. CASE pc' \notin {"health", "members", "etcd", "entries", "stores"}
  BY <1>2 DEF HistoryCovers, Calling
<1>3. CASE Calling /\ UNCHANGED <<beats, everUp, alwaysUp, everBroken, alwaysBroken>>
  BY <1>c, <1>3 DEF HistoryCovers, UpByTtl, UpByBeats, Broken, cluster
<1> QED
  BY <1>1, <1>2, <1>3
  DEF FetchStep, RequestFails, FetchHealth, FetchMembers, FetchTopologyKvs, TakeEntry, EntriesDone,
      FetchStores, Fail, history, Calling

(* Spec keeps both, and the proofs below build on them.                     *)
LEMMA CoversInit == Init => Typed /\ HistoryCovers
BY TypedInit DEF Init, HistoryCovers, Calling

LEMMA CoversAlways == Spec => [](Typed /\ HistoryCovers)
<1>1. Typed /\ HistoryCovers /\ [Next]_vars => Typed' /\ HistoryCovers'
  <2> SUFFICES ASSUME Typed, HistoryCovers, [Next]_vars PROVE Typed' /\ HistoryCovers'  OBVIOUS
  <2>1. CASE UNCHANGED vars
    <3>1. Typed'
      BY <2>1, Zenon DEF Typed, TypeOK, EtcdHolds, KvsHeld, TidbPairs, vars, cluster, fetcher, history
    <3>2. HistoryCovers'
      BY <2>1 DEF HistoryCovers, Calling, UpByTtl, UpByBeats, Broken, vars, cluster, fetcher, history
    <3> QED  BY <3>1, <3>2
  <2> QED  BY <2>1, TypedByCluster, TypedByCall, CoversByCluster, CoversByCall DEF Next
<1> QED  BY CoversInit, <1>1, PTL DEF Spec

(* What one turn of the loop over the entries does when it goes well.       *)
EntryTaken(kv) ==
  /\ kv = Entry(kv.address, kv.kind, kv.value) /\ kv.address \in TiDBs /\ ~Unreadable(kv)
  /\ kvs' = kvs \ {kv}
  /\ up_tidbs' = up_tidbs \cup {x \in {kv.address} : kv.kind = "ttl" /\ IsUp(kv.value, clock)}
  /\ tidbs' = tidbs \cup {<<x, TiDBComponent(x, kv.value)>> : x \in {y \in {kv.address} : kv.kind = "info"}}
  /\ kv.kind = "info" => kv.value \in StatusPorts
  /\ kv.kind = "ttl" => kv.value \in Nat
  /\ pc = "entries" /\ pc' = "entries" /\ UNCHANGED <<clock, components, history>>

LEMMA EntryIsTaken ==
  ASSUME Typed, NEW kv \in kvs, TakeEntry(kv), ~Unreadable(kv)
  PROVE  EntryTaken(kv)
<1>1. /\ kv \in [address : TiDBs, kind : Kinds, value : StatusPorts \cup (0..MaxClock) \cup {Garbage}]
      /\ kv.value \in Held(kv.kind, clock) /\ clock \in Nat
  BY Constants DEF Typed, TypeOK, KvsHeld
<1>2. /\ kv.kind = "info" => kv.value \in StatusPorts
      /\ kv.kind = "ttl" => kv.value \in 0..clock
  BY <1>1, HeldReadable
<1>3. kv = Entry(kv.address, kv.kind, kv.value) /\ kv.address \in TiDBs  BY <1>1 DEF Entry
<1>4. kv.kind = "ttl" => kv.value \in Nat  BY <1>1, <1>2
<1> QED  BY <1>2, <1>3, <1>4 DEF TakeEntry, EntryTaken, cluster

(* The entries in hand say as much as before, wherever they are kept.       *)
LEMMA TakenIsKept ==
  ASSUME NEW kv \in kvs, EntryTaken(kv), NEW x \in TiDBs
  PROVE  /\ \A port \in StatusPorts : HasInfo(x, port)' <=> HasInfo(x, port)
         /\ HasBeat(x)' => HasBeat(x)
<1>1. ASSUME NEW port \in StatusPorts  PROVE HasInfo(x, port)' <=> HasInfo(x, port)
  <2>1. kv = Entry(x, "info", port) <=> kv.kind = "info" /\ kv.address = x /\ kv.value = port
    BY DEF EntryTaken, Entry
  <2>2. <<x, TiDBComponent(x, port)>> \in tidbs'
          <=> <<x, TiDBComponent(x, port)>> \in tidbs \/ (kv.kind = "info" /\ kv.address = x /\ kv.value = port)
    BY DEF EntryTaken, TiDBComponent, Component
  <2>3. Entry(x, "info", port) \in kvs' <=> Entry(x, "info", port) \in kvs /\ kv # Entry(x, "info", port)
    BY DEF EntryTaken
  <2> QED  BY <2>1, <2>2, <2>3 DEF HasInfo
<1>2. ASSUME HasBeat(x)'  PROVE HasBeat(x)
  <2>1. CASE x \in up_tidbs' /\ x \notin up_tidbs
    <3>1. kv.kind = "ttl" /\ kv.address = x /\ IsUp(kv.value, clock)  BY <2>1 DEF EntryTaken
    <3>2. Entry(x, "ttl", kv.value) \in kvs /\ kv.value \in Nat  BY <3>1 DEF EntryTaken
    <3> QED  BY <3>1, <3>2 DEF HasBeat
  <2>2. CASE x \in up_tidbs  BY <2>2 DEF HasBeat
  <2>3. CASE \E t \in Nat : Entry(x, "ttl", t) \in kvs' /\ IsUp(t, clock)'
    BY <2>3 DEF HasBeat, EntryTaken, IsUp
  <2> QED  BY <1>2, <2>1, <2>2, <2>3 DEF HasBeat
<1> QED  BY <1>1, <1>2

-----------------------------------------------------------------------------
(* FetchedWasUp.  The two entries of a server are taken from one response,  *)
(* so they were up together when it was given: a heartbeat that still       *)
(* counts when it is looked at counted then.                                *)
Found == MembersWereUp /\ EntriesWereUp /\ FoundWasUp

LEMMA FoundByCluster ==
  ASSUME Typed, Found, ClusterStep
  PROVE  Found'
<1>1. /\ UNCHANGED <<pc, healthy, kvs, up_tidbs, tidbs, components>>
      /\ everUp \subseteq everUp' /\ clock \in Nat /\ clock' \in Nat /\ clock <= clock'
  BY Observing
<1>2. MembersWereUp'  BY <1>1 DEF Found, MembersWereUp
<1>3. \A x \in TiDBs, port \in StatusPorts : HasInfo(x, port)' => HasInfo(x, port)
  BY <1>1 DEF HasInfo
<1>4. \A t \in Nat : IsUp(t, clock') => IsUp(t, clock)  BY <1>1, Constants DEF IsUp
<1>5. \A x \in TiDBs : HasBeat(x)' => HasBeat(x)  BY <1>1, <1>4 DEF HasBeat
<1>6. EntriesWereUp'  BY <1>1, <1>3, <1>5 DEF Found, EntriesWereUp
<1>7. FoundWasUp'  BY <1>1 DEF Found, FoundWasUp, Calling
<1> QED  BY <1>2, <1>6, <1>7 DEF Found

LEMMA FoundByCall ==
  ASSUME Typed, HistoryCovers, Found, FetchStep
  PROVE  Found'
<1>c. UNCHANGED cluster  BY CallLeavesCluster
<1>k. pc # "entries" => kvs = {} /\ up_tidbs = {} /\ tidbs = {}  BY DEF Typed, KvsHeld
<1>1. CASE Begin
  BY <1>1 DEF Begin, Found, MembersWereUp, EntriesWereUp, FoundWasUp
<1>2. CASE Fail
  BY <1>2 DEF Fail, Found, MembersWereUp, EntriesWereUp, FoundWasUp, Calling
<1>3. CASE FetchHealth
  <2>1. /\ pc = "health" /\ pc' = "members" /\ healthy' = {m \in Pds : pd[m] = "healthy"}
        /\ UNCHANGED <<components, everUp>>
    BY <1>3 DEF FetchHealth, history
  <2>2. UpByTtl \subseteq everUp  BY <2>1 DEF HistoryCovers, Calling
  <2>3. \A m \in healthy' : ClientUrl[m] # NoUrl => PdComponent(m) \in UpByTtl
    BY <2>1 DEF UpByTtl, UpNow
  <2> QED  BY <2>1, <2>2, <2>3 DEF Found, MembersWereUp, EntriesWereUp, FoundWasUp, Calling
<1>4. CASE FetchMembers /\ ~Fail
  <2>1. /\ pc = "members" /\ pc' = "etcd" /\ UNCHANGED everUp
        /\ components' = components \cup {PdComponent(m) : m \in {n \in healthy : pd[n] # Absent /\ ClientUrl[n] # NoUrl}}
    BY <1>4 DEF FetchMembers, history
  <2>2. components \subseteq everUp  BY <2>1 DEF Found, FoundWasUp, Calling
  <2>3. \A m \in healthy : ClientUrl[m] # NoUrl => PdComponent(m) \in everUp
    BY <2>1 DEF Found, MembersWereUp
  <2>4. components' \subseteq everUp'  BY <2>1, <2>2, <2>3
  <2> QED  BY <2>1, <2>4 DEF Found, MembersWereUp, EntriesWereUp, FoundWasUp
<1>5. CASE FetchTopologyKvs
  <2>1. /\ pc = "etcd" /\ pc' = "entries" /\ kvs' = Entries(etcd)
        /\ tidbs' = {} /\ up_tidbs' = {} /\ UNCHANGED <<clock, components, everUp>>
    BY <1>5, <1>c, <1>k DEF FetchTopologyKvs, history, cluster
  <2>2. UpByTtl \subseteq everUp  BY <2>1 DEF HistoryCovers, Calling
  <2>3. ASSUME NEW x \in TiDBs, NEW port \in StatusPorts, HasInfo(x, port)', HasBeat(x)'
        PROVE  TiDBComponent(x, port) \in everUp
    <3>1. Entry(x, "info", port) \in Entries(etcd)  BY <2>1, <2>3 DEF HasInfo
    <3>2. PICK t \in Nat : Entry(x, "ttl", t) \in Entries(etcd) /\ IsUp(t, clock)
      BY <2>1, <2>3 DEF HasBeat, IsUp
    <3>3. etcd[x].info = port /\ etcd[x].ttl = t  BY <3>1, <3>2, EntriesTyped DEF Entry
    <3>4. clock \in Nat  BY Constants DEF Typed, TypeOK
    <3>5. HeartbeatCounts(Ttl(etcd)[x], clock)
      BY <3>2, <3>3, <3>4, Constants DEF HeartbeatCounts, IsUp, Ttl
    <3> QED  BY <2>2, <3>3, <3>5 DEF UpByTtl, UpNow
  <2>4. EntriesWereUp'  BY <2>1, <2>3 DEF EntriesWereUp
  <2> QED  BY <2>1, <2>4 DEF Found, MembersWereUp, FoundWasUp, Calling
<1>6. CASE \E kv \in kvs : TakeEntry(kv) /\ ~Unreadable(kv)
  <2>1. PICK kv \in kvs : EntryTaken(kv)  BY <1>6, EntryIsTaken
  <2>2. pc = "entries" /\ pc' = "entries" /\ UNCHANGED <<everUp, components>>
    BY <2>1 DEF EntryTaken, history
  <2>3. EntriesWereUp'  BY <2>1, <2>2, TakenIsKept DEF Found, EntriesWereUp
  <2> QED  BY <2>2, <2>3 DEF Found, MembersWereUp, FoundWasUp, Calling
<1>7. CASE EntriesDone
  <2>1. /\ components' = components \cup {t[2] : t \in {u \in tidbs : u[1] \in up_tidbs}}
        /\ pc = "entries" /\ pc' = "stores" /\ UNCHANGED everUp
    BY <1>7 DEF EntriesDone, history
  <2>2. \A t \in tidbs : t[1] \in up_tidbs => t[2] \in everUp
    <3> SUFFICES ASSUME NEW t \in tidbs, t[1] \in up_tidbs PROVE t[2] \in everUp  OBVIOUS
    <3>1. PICK x \in TiDBs, port \in StatusPorts : t = <<x, TiDBComponent(x, port)>>
      BY DEF Typed, TidbPairs
    <3>2. HasInfo(x, port) /\ HasBeat(x)  BY <3>1 DEF HasInfo, HasBeat
    <3> QED  BY <2>1, <3>1, <3>2 DEF Found, EntriesWereUp
  <2>3. components' \subseteq everUp'  BY <2>1, <2>2 DEF Found, FoundWasUp, Calling
  <2> QED  BY <2>1, <2>3 DEF Found, MembersWereUp, EntriesWereUp, FoundWasUp
<1>8. CASE FetchStores /\ ~Fail
  <2>1. /\ components' = components \cup {StoreComponent(x) : x \in {y \in Stores : StoreIsUp(store[y])}}
        /\ pc = "stores" /\ pc' = "done" /\ UNCHANGED everUp
    BY <1>8 DEF FetchStores, history
  <2>2. UpByTtl \subseteq everUp  BY <2>1 DEF HistoryCovers, Calling
  <2>3. components' \subseteq everUp'  BY <2>1, <2>2 DEF Found, FoundWasUp, Calling, UpByTtl, UpNow
  <2> QED  BY <2>1, <2>3 DEF Found, MembersWereUp, EntriesWereUp, FoundWasUp
<1> QED
  BY <1>1, <1>2, <1>3, <1>4, <1>5, <1>6, <1>7, <1>8 DEF FetchStep, RequestFails, TakeEntry

(* A component a call reports was up at some moment while the call ran.     *)
THEOREM ReportedWasUp == Spec => []FetchedWasUp
<1>1. Init => Found
  BY DEF Init, Found, MembersWereUp, EntriesWereUp, FoundWasUp, Calling
<1>2. Typed /\ HistoryCovers /\ Found /\ [Next]_vars => Found'
  <2> SUFFICES ASSUME Typed, HistoryCovers, Found, [Next]_vars PROVE Found'  OBVIOUS
  <2>1. CASE UNCHANGED vars
    BY <2>1 DEF Found, MembersWereUp, EntriesWereUp, FoundWasUp, HasInfo, HasBeat, Calling, vars,
                cluster, fetcher, history
  <2> QED  BY <2>1, FoundByCluster, FoundByCall DEF Next
<1>3. Found => FetchedWasUp  BY DEF Found, FoundWasUp, FetchedWasUp
<1> QED  BY CoversAlways, <1>1, <1>2, <1>3, PTL DEF Spec

-----------------------------------------------------------------------------
(* VerdictHasCause.  Each response that is passed without an error shows    *)
(* that nothing of its kind has been unreadable all along.                  *)
Causes ==
  /\ BrokenMembers /\ BrokenEntries /\ BrokenPast
  /\ VerdictHasCause

LEMMA BrokenPd ==
  ASSUME NEW p, NEW e, NEW s, NEW m, <<"pd", m>> \in BrokenNow(p, e, s)
  PROVE  m \in Pds /\ p[m] = "healthy" /\ ClientUrl[m] # NoUrl /\ ~Parses(ClientUrl[m])
<1>1. \A kv \in Entries(e) : kv.kind # "pd"  BY EntriesTyped DEF Kinds
<1> QED  BY <1>1 DEF BrokenNow

LEMMA BrokenKv ==
  ASSUME NEW p, NEW e, NEW s, NEW kind \in Kinds, NEW x, <<kind, x>> \in BrokenNow(p, e, s)
  PROVE  \E kv \in Entries(e) : Unreadable(kv) /\ kv.kind = kind /\ kv.address = x
BY DEF BrokenNow, Kinds

LEMMA CausesByCluster ==
  ASSUME Typed, Causes, ClusterStep
  PROVE  Causes'
<1>1. /\ UNCHANGED <<pc, healthy, kvs, refused>>
      /\ everBroken \subseteq everBroken' /\ alwaysBroken' \subseteq alwaysBroken
  BY Observing
<1>2. BrokenMembers'  BY <1>1 DEF Causes, BrokenMembers
<1>3. BrokenEntries'  BY <1>1 DEF Causes, BrokenEntries
<1>4. BrokenPast'  BY <1>1 DEF Causes, BrokenPast
<1>5. VerdictHasCause'  BY <1>1 DEF Causes, VerdictHasCause
<1> QED  BY <1>2, <1>3, <1>4, <1>5 DEF Causes

LEMMA FailureHasCause ==
  ASSUME Fail, refused' \/ everBroken' # {}
  PROVE  Causes'
BY DEF Fail, Causes, BrokenMembers, BrokenEntries, BrokenPast, VerdictHasCause

LEMMA CausesByCall ==
  ASSUME Typed, HistoryCovers, Causes, FetchStep
  PROVE  Causes'
<1>1. CASE Begin
  BY <1>1 DEF Begin, Causes, BrokenMembers, BrokenEntries, BrokenPast, VerdictHasCause
<1>2. CASE RequestFails
  BY <1>2, FailureHasCause DEF RequestFails
<1>3. CASE FetchHealth
  <2>1. /\ pc = "health" /\ pc' = "members" /\ healthy' = {m \in Pds : pd[m] = "healthy"}
        /\ UNCHANGED <<everBroken, alwaysBroken>>
    BY <1>3 DEF FetchHealth, history
  <2>2. Broken \subseteq everBroken /\ alwaysBroken \subseteq Broken
    BY <2>1 DEF HistoryCovers, Calling
  <2>3. \A m \in healthy' : ClientUrl[m] # NoUrl /\ ~Parses(ClientUrl[m]) => <<"pd", m>> \in Broken
    BY <2>1 DEF Broken, BrokenNow
  <2>4. \A m \in Pds : <<"pd", m>> \in alwaysBroken => m \in healthy'
    BY <2>1, <2>2, BrokenPd DEF Broken
  <2> QED  BY <2>1, <2>2, <2>3, <2>4 DEF Causes, BrokenMembers, BrokenEntries, BrokenPast, VerdictHasCause
<1>4. CASE FetchMembers
  <2> DEFINE found == {m \in healthy : pd[m] # Absent /\ ClientUrl[m] # NoUrl}
  <2>1. pc = "members" /\ UNCHANGED <<everBroken, alwaysBroken>>
    BY <1>4 DEF FetchMembers, history
  <2>2. CASE \A m \in found : Parses(ClientUrl[m])
    <3>1. pc' = "etcd"  BY <1>4, <2>2 DEF FetchMembers
    <3>2. ASSUME NEW m \in Pds, <<"pd", m>> \in alwaysBroken  PROVE FALSE
      <4>1. m \in healthy  BY <2>1, <3>2 DEF Causes, BrokenMembers
      <4>2. <<"pd", m>> \in Broken  BY <2>1, <3>2 DEF HistoryCovers, Calling
      <4>3. pd[m] = "healthy" /\ ClientUrl[m] # NoUrl /\ ~Parses(ClientUrl[m])
        BY <4>2, BrokenPd DEF Broken
      <4> QED  BY <4>1, <4>3, <2>2, Constants
    <3> QED  BY <2>1, <3>1, <3>2 DEF Causes, BrokenMembers, BrokenEntries, BrokenPast, VerdictHasCause
  <2>3. CASE ~\A m \in found : Parses(ClientUrl[m])
    <3>1. Fail  BY <1>4, <2>3 DEF FetchMembers
    <3>2. PICK m \in found : ~Parses(ClientUrl[m])  BY <2>3
    <3>3. <<"pd", m>> \in everBroken  BY <2>1, <3>2 DEF Causes, BrokenMembers
    <3> QED  BY <2>1, <3>1, <3>3, FailureHasCause
  <2> QED  BY <2>2, <2>3
<1>5. CASE FetchTopologyKvs
  <2>1. /\ pc = "etcd" /\ pc' = "entries" /\ kvs' = Entries(etcd)
        /\ UNCHANGED <<everBroken, alwaysBroken>>
    BY <1>5 DEF FetchTopologyKvs, history
  <2>2. Broken \subseteq everBroken /\ alwaysBroken \subseteq Broken
    BY <2>1 DEF HistoryCovers, Calling
  <2>3. \A kv \in kvs' : Unreadable(kv) => <<kv.kind, kv.address>> \in Broken
    BY <2>1 DEF Broken, BrokenNow
  <2>4. \A kind \in Kinds, x \in TiDBs : <<kind, x>> \in alwaysBroken =>
          \E kv \in kvs' : Unreadable(kv) /\ kv.kind = kind /\ kv.address = x
    BY <2>1, <2>2, BrokenKv DEF Broken
  <2>5. BrokenEntries'  BY <2>1, <2>2, <2>3, <2>4 DEF BrokenEntries
  <2> QED  BY <2>1, <2>5 DEF Causes, BrokenMembers, BrokenPast, VerdictHasCause
<1>6. CASE \E kv \in kvs : TakeEntry(kv) /\ ~Unreadable(kv)
  <2>1. PICK kv \in kvs : EntryTaken(kv)  BY <1>6, EntryIsTaken
  <2>2. /\ pc = "entries" /\ pc' = "entries" /\ kvs' = kvs \ {kv} /\ ~Unreadable(kv)
        /\ UNCHANGED <<everBroken, alwaysBroken>>
    BY <2>1 DEF EntryTaken, history
  <2>3. BrokenEntries'  BY <2>2 DEF Causes, BrokenEntries
  <2> QED  BY <2>2, <2>3 DEF Causes, BrokenMembers, BrokenPast, VerdictHasCause
<1>7. CASE \E kv \in kvs : TakeEntry(kv) /\ Unreadable(kv)
  <2>1. PICK kv \in kvs : TakeEntry(kv) /\ Unreadable(kv)  BY <1>7
  <2>2. Fail /\ pc = "entries" /\ UNCHANGED <<everBroken, alwaysBroken>>
    BY <2>1 DEF TakeEntry, history
  <2>3. <<kv.kind, kv.address>> \in everBroken  BY <2>1, <2>2 DEF Causes, BrokenEntries
  <2> QED  BY <2>2, <2>3, FailureHasCause
<1>8. CASE EntriesDone
  <2>1. /\ pc = "entries" /\ pc' = "stores" /\ kvs = {} /\ UNCHANGED <<everBroken, alwaysBroken>>
    BY <1>8 DEF EntriesDone, history
  <2>2. \A kind \in Kinds, x \in TiDBs : <<kind, x>> \notin alwaysBroken
    BY <2>1 DEF Causes, BrokenEntries
  <2>3. BrokenPast'  BY <2>1, <2>2 DEF Causes, BrokenPast
  <2> QED  BY <2>1, <2>3 DEF Causes, BrokenMembers, BrokenEntries, VerdictHasCause
<1>9. CASE FetchStores
  <2> DEFINE found == {x \in Stores : StoreIsUp(store[x])}
  <2>1. pc = "stores" /\ UNCHANGED <<everBroken, alwaysBroken>>
    BY <1>9 DEF FetchStores, history
  <2>2. Broken \subseteq everBroken /\ alwaysBroken \subseteq Broken
    BY <2>1 DEF HistoryCovers, Calling
  <2>3. CASE \A x \in found : StoreParses(x)
    <3>1. pc' = "done"  BY <1>9, <2>3 DEF FetchStores
    <3>2. \A m \in Pds : <<"pd", m>> \notin alwaysBroken  BY <2>1 DEF Causes, BrokenPast
    <3>3. \A kv \in Entries(etcd) : <<kv.kind, kv.address>> \notin alwaysBroken
      <4>1. \A kv \in Entries(etcd) : kv.kind \in Kinds /\ kv.address \in TiDBs  BY EntriesTyped
      <4> QED  BY <2>1, <4>1 DEF Causes, BrokenPast
    <3>4. alwaysBroken = {}  BY <2>2, <2>3, <3>2, <3>3 DEF Broken, BrokenNow
    <3> QED  BY <2>1, <3>1, <3>2, <3>4 DEF Causes, BrokenMembers, BrokenEntries, BrokenPast, VerdictHasCause
  <2>4. CASE ~\A x \in found : StoreParses(x)
    <3>1. Fail  BY <1>9, <2>4 DEF FetchStores
    <3>2. PICK x \in found : ~StoreParses(x)  BY <2>4
    <3>3. <<"store", x>> \in Broken  BY <3>2 DEF Broken, BrokenNow
    <3> QED  BY <2>1, <2>2, <3>1, <3>3, FailureHasCause
  <2> QED  BY <2>3, <2>4
<1> QED
  BY <1>1, <1>2, <1>3, <1>4, <1>5, <1>6, <1>7, <1>8, <1>9 DEF FetchStep

(* A call that ends well had nothing unreadable all along, and one that     *)
(* fails had a request refused or something unreadable at some moment.      *)
THEOREM FailuresAreExplained == Spec => []VerdictHasCause
<1>1. Init => Causes
  BY DEF Init, Causes, BrokenMembers, BrokenEntries, BrokenPast, VerdictHasCause
<1>2. Typed /\ HistoryCovers /\ Causes /\ [Next]_vars => Causes'
  <2> SUFFICES ASSUME Typed, HistoryCovers, Causes, [Next]_vars PROVE Causes'  OBVIOUS
  <2>1. CASE UNCHANGED vars
    BY <2>1 DEF Causes, BrokenMembers, BrokenEntries, BrokenPast, VerdictHasCause, vars, fetcher, history
  <2> QED  BY <2>1, CausesByCluster, CausesByCall DEF Next
<1>3. Causes => VerdictHasCause  BY DEF Causes
<1> QED  BY CoversAlways, <1>1, <1>2, <1>3, PTL DEF Spec

-----------------------------------------------------------------------------
(* SteadyIsFetched.  No two members of PD share a URL: a member that takes  *)
(* over the URL of another between the two requests to PD is one component  *)
(* and yet missed by the call, which joins the responses by the id.         *)
DistinctMembers ==
  \A m, n \in Pds :
    ClientUrl[m] # NoUrl /\ ClientUrl[n] # NoUrl /\ PdComponent(m) = PdComponent(n) => m = n

Steady == SteadyMembers /\ SteadyEntries /\ SteadyFound

(* The components of each kind that are up, and where they come from.       *)
LEMMA UpMember ==
  ASSUME NEW p, NEW e, NEW s, NEW t, NEW now, NEW c \in UpNow(p, e, s, t, now),
         c.instance_type = "PD"
  PROVE  \E m \in Pds : p[m] = "healthy" /\ ClientUrl[m] # NoUrl /\ c = PdComponent(m)
BY DEF UpNow, TiDBComponent, StoreComponent, Component

LEMMA UpServer ==
  ASSUME NEW p, NEW e, NEW s, NEW t, NEW now, NEW c \in UpNow(p, e, s, t, now),
         c.instance_type = "TiDB"
  PROVE  \E x \in TiDBs : /\ e[x].info \in StatusPorts /\ HeartbeatCounts(t[x], now)
                          /\ c = TiDBComponent(x, e[x].info)
BY DEF UpNow, PdComponent, StoreComponent, Component

LEMMA UpStore ==
  ASSUME NEW p, NEW e, NEW s, NEW t, NEW now, NEW c \in UpNow(p, e, s, t, now),
         c.instance_type \notin {"PD", "TiDB"}
  PROVE  \E x \in Stores : StoreIsUp(s[x]) /\ c = StoreComponent(x)
BY DEF UpNow, PdComponent, TiDBComponent, Component

(* A server is known by its address, and a component of it by its ports.    *)
LEMMA SameServer ==
  ASSUME NEW x \in TiDBs, NEW y \in TiDBs, NEW port, NEW other,
         TiDBComponent(x, port) = TiDBComponent(y, other)
  PROVE  x = y /\ port = other
BY Constants DEF TiDBComponent, Component

LEMMA SteadyByCluster ==
  ASSUME Typed, Steady, ClusterStep
  PROVE  Steady'
<1>1. /\ UNCHANGED <<pc, healthy, kvs, up_tidbs, tidbs, components, beats>>
      /\ alwaysUp' \subseteq alwaysUp
  BY Observing
<1>2. SteadyMembers'  BY <1>1 DEF Steady, SteadyMembers
<1>3. SteadyEntries'  BY <1>1 DEF Steady, SteadyEntries, HasInfo
<1>4. SteadyFound'  BY <1>1 DEF Steady, SteadyFound
<1> QED  BY <1>2, <1>3, <1>4 DEF Steady

LEMMA SteadyByCall ==
  ASSUME DistinctMembers, Typed, HistoryCovers, Steady, FetchStep
  PROVE  Steady'
<1>c. UNCHANGED cluster  BY CallLeavesCluster
<1>u. /\ Calling => alwaysUp \subseteq UpByTtl /\ alwaysUp \subseteq UpByBeats
      /\ clock \in Nat
  BY Constants DEF HistoryCovers, Typed, TypeOK
<1>1. CASE pc' \in {"idle", "health", "failed"}
  BY <1>1 DEF Steady, SteadyMembers, SteadyEntries, SteadyFound
<1>3. CASE FetchHealth
  <2>1. /\ pc = "health" /\ pc' = "members" /\ healthy' = {m \in Pds : pd[m] = "healthy"}
        /\ UNCHANGED alwaysUp
    BY <1>3 DEF FetchHealth, history
  <2>2. SteadyMembers'
    BY <1>u, <2>1, UpMember DEF SteadyMembers, UpByTtl, Calling
  <2> QED  BY <2>1, <2>2 DEF Steady, SteadyEntries, SteadyFound
<1>4. CASE FetchMembers /\ pc' = "etcd"
  <2>1. /\ pc = "members" /\ UNCHANGED alwaysUp
        /\ components' = components \cup {PdComponent(m) : m \in {n \in healthy : pd[n] # Absent /\ ClientUrl[n] # NoUrl}}
    BY <1>4 DEF FetchMembers, Fail, history
  <2>2. ASSUME NEW c \in alwaysUp, c.instance_type = "PD"  PROVE c \in components'
    <3>1. PICK m \in healthy : ClientUrl[m] # NoUrl /\ c = PdComponent(m)
      BY <2>1, <2>2 DEF Steady, SteadyMembers
    <3>2. c \in UpByTtl  BY <1>u, <2>1 DEF Calling
    <3>3. PICK n \in Pds : pd[n] = "healthy" /\ ClientUrl[n] # NoUrl /\ c = PdComponent(n)
      BY <2>2, <3>2, UpMember DEF UpByTtl
    <3>4. m \in Pds  BY DEF Typed, TypeOK
    <3>5. m = n  BY <3>1, <3>3, <3>4 DEF DistinctMembers
    <3>6. pd[m] # Absent  BY <3>3, <3>5, Constants
    <3> QED  BY <2>1, <3>1, <3>6
  <2>3. SteadyFound'  BY <1>4, <2>1, <2>2 DEF SteadyFound
  <2> QED  BY <1>4, <2>3 DEF Steady, SteadyMembers, SteadyEntries
<1>5. CASE FetchTopologyKvs
  <2>1. /\ pc = "etcd" /\ pc' = "entries" /\ kvs' = Entries(etcd)
        /\ UNCHANGED <<beats, alwaysUp, components>>
    BY <1>5 DEF FetchTopologyKvs, history
  <2>2. ASSUME NEW x \in TiDBs, NEW port \in StatusPorts, TiDBComponent(x, port) \in alwaysUp
        PROVE  /\ Entry(x, "info", port) \in Entries(etcd)
               /\ \E t \in Nat : Entry(x, "ttl", t) \in Entries(etcd) /\ (beats[x] \in Nat => beats[x] <= t)
    <3>1. TiDBComponent(x, port) \in UpByTtl  BY <1>u, <2>1, <2>2 DEF Calling
    <3>2. TiDBComponent(x, port).instance_type = "TiDB"  BY DEF TiDBComponent, Component
    <3>3. PICK y \in TiDBs : /\ etcd[y].info \in StatusPorts /\ HeartbeatCounts(Ttl(etcd)[y], clock)
                             /\ TiDBComponent(x, port) = TiDBComponent(y, etcd[y].info)
      BY <3>1, <3>2, UpServer DEF UpByTtl
    <3>4. x = y /\ etcd[x].info = port  BY <3>3, SameServer
    <3>5. etcd[x].ttl \in Nat  BY <3>3, <3>4 DEF HeartbeatCounts, Ttl
    <3>6. etcd[x]["ttl"] \in 0..MaxClock
      <4>1. etcd[x]["ttl"] \in (0..clock) \cup {Garbage} \cup {Absent}
        BY DEF Typed, EtcdHolds, Held, Kinds
      <4>2. clock <= MaxClock  BY Constants DEF Typed, TypeOK
      <4> QED  BY <1>u, <3>5, <4>1, <4>2, Constants
    <3>7. Entry(x, "info", port) \in Entries(etcd)
      BY <3>4 DEF Entries, Entry, Kinds
    <3>8. Entry(x, "ttl", etcd[x].ttl) \in Entries(etcd)
      BY <3>6 DEF Entries, Entry, Kinds
    <3>9. beats[x] \in Nat => beats[x] <= etcd[x].ttl
      BY <2>1, <3>5 DEF HistoryCovers, Calling
    <3> QED  BY <3>5, <3>7, <3>8, <3>9
  <2>3. SteadyEntries'  BY <2>1, <2>2 DEF SteadyEntries, HasInfo
  <2> QED  BY <2>1, <2>3 DEF Steady, SteadyMembers, SteadyFound
<1>6. CASE \E kv \in kvs : TakeEntry(kv) /\ ~Unreadable(kv)
  <2>1. PICK kv \in kvs : EntryTaken(kv)  BY <1>6, EntryIsTaken
  <2>2. /\ pc = "entries" /\ pc' = "entries" /\ UNCHANGED <<beats, alwaysUp, components>>
    BY <2>1 DEF EntryTaken, history
  <2>3. ASSUME NEW x \in TiDBs, NEW port \in StatusPorts, TiDBComponent(x, port) \in alwaysUp
        PROVE  x \in up_tidbs' \/ \E t \in Nat : Entry(x, "ttl", t) \in kvs' /\ (beats[x] \in Nat => beats[x] <= t)
    <3>1. CASE x \in up_tidbs  BY <2>1, <3>1 DEF EntryTaken
    <3>2. CASE x \notin up_tidbs
      <4>1. PICK t \in Nat : Entry(x, "ttl", t) \in kvs /\ (beats[x] \in Nat => beats[x] <= t)
        BY <2>2, <2>3, <3>2 DEF Steady, SteadyEntries
      <4>2. CASE kv # Entry(x, "ttl", t)  BY <2>1, <4>1, <4>2 DEF EntryTaken
      <4>3. CASE kv = Entry(x, "ttl", t)
        <5>1. TiDBComponent(x, port) \in UpByBeats  BY <1>u, <2>2, <2>3 DEF Calling
        <5>2. TiDBComponent(x, port).instance_type = "TiDB"  BY DEF TiDBComponent, Component
        <5>3. PICK y \in TiDBs : /\ HeartbeatCounts(beats[y], clock)
                                 /\ TiDBComponent(x, port) = TiDBComponent(y, etcd[y].info)
          BY <5>1, <5>2, UpServer DEF UpByBeats
        <5>4. x = y  BY <5>3, SameServer
        <5>5. beats[x] \in Nat /\ clock - beats[x] <= Fresh  BY <5>3, <5>4 DEF HeartbeatCounts
        <5>6. IsUp(t, clock)  BY <1>u, <4>1, <5>5, Constants DEF IsUp
        <5>7. kv.kind = "ttl" /\ kv.address = x /\ kv.value = t  BY <4>3 DEF Entry
        <5> QED  BY <2>1, <5>6, <5>7 DEF EntryTaken
      <4> QED  BY <4>2, <4>3
    <3> QED  BY <3>1, <3>2
  <2>4. ASSUME NEW x \in TiDBs, NEW port \in StatusPorts, TiDBComponent(x, port) \in alwaysUp
        PROVE  HasInfo(x, port)'
    BY <2>1, <2>2, <2>4, TakenIsKept DEF Steady, SteadyEntries
  <2>5. SteadyEntries'  BY <2>2, <2>3, <2>4 DEF SteadyEntries
  <2> QED  BY <2>2, <2>5 DEF Steady, SteadyMembers, SteadyFound
<1>7. CASE EntriesDone
  <2>1. /\ components' = components \cup {t[2] : t \in {u \in tidbs : u[1] \in up_tidbs}}
        /\ pc = "entries" /\ pc' = "stores" /\ kvs = {} /\ UNCHANGED alwaysUp
    BY <1>7 DEF EntriesDone, history
  <2>2. ASSUME NEW c \in alwaysUp, c.instance_type = "TiDB"  PROVE c \in components'
    <3>1. c \in UpByTtl  BY <1>u, <2>1 DEF Calling
    <3>2. PICK x \in TiDBs : etcd[x].info \in StatusPorts /\ c = TiDBComponent(x, etcd[x].info)
      BY <2>2, <3>1, UpServer DEF UpByTtl
    <3>3. <<x, c>> \in tidbs /\ x \in up_tidbs
      BY <2>1, <3>2 DEF Steady, SteadyEntries, HasInfo
    <3> QED  BY <2>1, <3>3
  <2>3. SteadyFound'  BY <2>1, <2>2 DEF Steady, SteadyFound
  <2> QED  BY <2>1, <2>3 DEF Steady, SteadyMembers, SteadyEntries
<1>8. CASE FetchStores /\ pc' = "done"
  <2>1. /\ components' = components \cup {StoreComponent(x) : x \in {y \in Stores : StoreIsUp(store[y])}}
        /\ pc = "stores" /\ UNCHANGED alwaysUp
    BY <1>8 DEF FetchStores, Fail, history
  <2>2. ASSUME NEW c \in alwaysUp  PROVE c \in components'
    <3>1. CASE c.instance_type \in {"PD", "TiDB"}  BY <2>1, <3>1 DEF Steady, SteadyFound
    <3>2. CASE c.instance_type \notin {"PD", "TiDB"}
      <4>1. c \in UpByTtl  BY <1>u, <2>1 DEF Calling
      <4> QED  BY <2>1, <3>2, <4>1, UpStore DEF UpByTtl
    <3> QED  BY <3>1, <3>2
  <2>3. SteadyFound'  BY <2>1, <2>2 DEF SteadyFound
  <2> QED  BY <1>8, <2>3 DEF Steady, SteadyMembers, SteadyEntries
<1> QED
  BY <1>1, <1>3, <1>4, <1>5, <1>6, <1>7, <1>8
  DEF FetchStep, Begin, RequestFails, FetchMembers, FetchStores, TakeEntry, Fail

(* With no two members of PD behind one URL, a component that is up all     *)
(* through a call is in its result.                                         *)
THEOREM SteadyIsReported ==
  ASSUME DistinctMembers
  PROVE  Spec => []SteadyIsFetched
<1>1. Init => Steady
  BY DEF Init, Steady, SteadyMembers, SteadyEntries, SteadyFound
<1>2. Typed /\ HistoryCovers /\ Steady /\ [Next]_vars => Steady'
  <2> SUFFICES ASSUME Typed, HistoryCovers, Steady, [Next]_vars PROVE Steady'  OBVIOUS
  <2>1. CASE UNCHANGED vars
    BY <2>1 DEF Steady, SteadyMembers, SteadyEntries, SteadyFound, HasInfo, vars, fetcher, history
  <2> QED  BY <2>1, SteadyByCluster, SteadyByCall DEF Next
<1>3. Steady => SteadyIsFetched  BY DEF Steady, SteadyFound, SteadyIsFetched
<1> QED  BY CoversAlways, <1>1, <1>2, <1>3, PTL DEF Spec

-----------------------------------------------------------------------------
(* KeepsPromise: UpComponents at the level of a call.                       *)
Unsteady == IF Calling THEN everUp \ alwaysUp ELSE {}
Returned == IF pc = "done" THEN components ELSE {}

LEMMA PromiseInit == Init => Promise!Init
BY DEF Init, Promise!Init, Calling

(* The cluster changes under a call, which takes note of what comes or goes.*)
LEMMA PromiseByCluster ==
  ASSUME Typed, HistoryCovers, ClusterStep
  PROVE  Promise!Change
<1>1. UNCHANGED fetcher /\ Observed
  BY ClusterMoves DEF Typed
<1>2. Calling' <=> Calling
  BY <1>1 DEF Calling, fetcher
<1>3. Returned' = Returned
  BY <1>1 DEF Returned, fetcher
<1>4. ASSUME Calling
      PROVE  Unsteady \cup (UpByTtl \ UpByTtl') \cup (UpByTtl' \ UpByTtl) \subseteq Unsteady'
  <2>1. UpByTtl \subseteq everUp /\ alwaysUp \subseteq UpByTtl
    BY <1>4 DEF HistoryCovers
  <2>2. everUp' = everUp \cup UpByTtl' /\ alwaysUp' \subseteq alwaysUp \cap UpByTtl'
    BY <1>1, <1>4 DEF Observed, Observe, UpByTtl
  <2>3. Unsteady = everUp \ alwaysUp /\ Unsteady' = everUp' \ alwaysUp'
    BY <1>2, <1>4 DEF Unsteady
  <2> QED
    BY <2>1, <2>2, <2>3
<1>5. ~Calling => Unsteady' = Unsteady
  BY <1>2 DEF Unsteady
<1> QED
  BY <1>2, <1>3, <1>4, <1>5 DEF Promise!Change, Unsteady, Returned, UpByTtl

(* The call itself begins, fails, answers or goes on.                       *)
LEMMA PromiseByCall ==
  ASSUME HistoryCovers, FetchStep, FetchedWasUp', SteadyIsFetched'
  PROVE  Promise!Next \/ UNCHANGED Promise!vars
<1>1. UpByTtl' = UpByTtl
  BY CallLeavesCluster DEF UpByTtl, cluster
<1>2. CASE Begin
  <2>1. ~Calling /\ Calling' /\ everUp' = alwaysUp' /\ pc' = "health"
    BY <1>2 DEF Begin, Calling
  <2>2. Unsteady' = {} /\ Returned' = {}
    BY <2>1 DEF Unsteady, Returned
  <2>3. Promise!Call
    BY <1>1, <2>1, <2>2 DEF Promise!Call, Unsteady, Returned, UpByTtl
  <2> QED
    BY <2>3 DEF Promise!Next
<1>3. CASE Calling /\ pc' = "failed"
  <2>1. ~Calling'
    BY <1>3 DEF Calling
  <2>2. Unsteady' = {} /\ Returned' = {}
    BY <1>3, <2>1 DEF Unsteady, Returned
  <2>3. Promise!Fail
    BY <1>1, <1>3, <2>1, <2>2 DEF Promise!Fail, Unsteady, Returned, UpByTtl
  <2> QED
    BY <2>3 DEF Promise!Next
<1>4. CASE Calling /\ pc' = "done" /\ UNCHANGED history
  <2>1. ~Calling'
    BY <1>4 DEF Calling
  <2>2. Unsteady' = {} /\ Unsteady = everUp \ alwaysUp /\ Returned' = components'
    BY <1>4, <2>1 DEF Unsteady, Returned
  <2>3. alwaysUp \subseteq components' /\ components' \subseteq everUp
    BY <1>4 DEF FetchedWasUp, SteadyIsFetched, history
  <2>4. alwaysUp \subseteq UpByTtl /\ UpByTtl \subseteq everUp
    BY <1>4 DEF HistoryCovers
  <2>5. Truthful(Returned', UpByTtl, Unsteady)
    BY <2>2, <2>3, <2>4 DEF Truthful
  <2>6. Promise!Answer
    BY <1>1, <1>4, <2>1, <2>2, <2>5
       DEF Promise!Answer, Promise!Truthful, Truthful, Unsteady, Returned, UpByTtl
  <2> QED
    BY <2>6 DEF Promise!Next
<1>5. CASE Calling /\ Calling' /\ UNCHANGED history
  <2>1. Unsteady' = Unsteady /\ Returned = {} /\ Returned' = {}
    BY <1>5 DEF Unsteady, Returned, history, Calling
  <2> QED
    BY <1>1, <1>5, <2>1 DEF Promise!vars, Unsteady, Returned, UpByTtl
<1> QED
  BY <1>2, <1>3, <1>4, <1>5
     DEF FetchStep, RequestFails, FetchHealth, FetchMembers, FetchTopologyKvs, TakeEntry,
         EntriesDone, FetchStores, Fail, Calling

(* With no two members of PD behind one URL, a call keeps the promise the   *)
(* controller is built on (fetch/mod.rs:67-84, controller.rs:82-88).        *)
THEOREM CallKeepsPromise ==
  ASSUME DistinctMembers
  PROVE  Spec => KeepsPromise
<1>1. /\ Typed /\ HistoryCovers /\ [Next]_vars /\ FetchedWasUp' /\ SteadyIsFetched'
      => [Promise!Next]_(Promise!vars)
  <2> SUFFICES ASSUME Typed, HistoryCovers, [Next]_vars, FetchedWasUp', SteadyIsFetched'
               PROVE  Promise!Next \/ UNCHANGED Promise!vars
    OBVIOUS
  <2>1. CASE UNCHANGED vars
    BY <2>1 DEF Promise!vars, vars, cluster, fetcher, history, Calling, Ttl
  <2>2. CASE ClusterStep
    BY <2>2, PromiseByCluster DEF Promise!Next
  <2>3. CASE FetchStep
    BY <2>3, PromiseByCall
  <2> QED
    BY <2>1, <2>2, <2>3 DEF Next
<1> QED
  BY <1>1, PromiseInit, CoversAlways, ReportedWasUp, SteadyIsReported, PTL
     DEF Spec, KeepsPromise, Promise!Spec
===============================================================================
