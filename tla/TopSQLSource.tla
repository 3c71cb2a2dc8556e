----------------------------- MODULE TopSQLSource -----------------------------
(***************************************************************************)
(* extensions/topsql/src/upstream/mod.rs and tls_proxy.rs: one TopSQLSource *)
(* task, which connects to the Top SQL server of an instance, subscribes,   *)
(* sends on what it gets and starts again whenever that ends, and the proxy *)
(* tasks it leaves behind when it connects over TLS.                        *)
(*                                                                          *)
(* A value of pc is an await of `run_loop', at each of which `run' may drop *)
(* it.  A proxy listens for the one client it is for, then it copies in     *)
(* both directions until both have ended or one has failed.                 *)
(***************************************************************************)
EXTENDS VMImport, FiniteSets

CONSTANTS
  Instance,      \* the instance label: the Top SQL address of the component
  Responses,     \* InstanceType -> the responses its server may send
  InitDelays,    \* init_retry_delay, in units of time
  MaxDelay,      \* MAX_RETRY_DELAY
  MaxFailures,   \* bound: failures in a row that are told apart
  MaxProxies,    \* bound: live proxies of the source
  MaxLeaks,      \* bound: those whose client never came
  Templates      \* endpoints of the vm-import sink

InstanceTick == [kind |-> "instance"]   \* the response `handle_instance' makes up

ASSUME SourceAssumption ==
  /\ {MaxDelay, MaxProxies, MaxLeaks} \subseteq Nat /\ MaxFailures \in Nat \ {0}
  /\ \A d \in InitDelays : d \in Nat /\ (d = 0 \/ d * PowerOf2[MaxFailures] >= MaxDelay)
  /\ MaxProxies > MaxLeaks
  /\ \A r \in Responses["tidb"] \cup Responses["tikv"] : IsResponse(r) /\ r # None
  /\ InstanceTick # None

Proxies == 1..MaxProxies
NoProxy == 0

VARIABLES
  tls, instance_type, init_retry_delay,   \* TopSQLSource, as it was made
  retry_delay,
  failures,    \* history: failures since the last connection, up to MaxFailures
  pc,
  response,    \* the response being sent on or the one it panicked on, None when there is none
  batch,       \* its events
  mine,        \* the proxy of the current connection, if any
  proxies,     \* Proxies -> "none", "listening", "open", "client_done" or "server_done"
  reachable,   \* the server answers
  accepting,   \* there is room in the channel `out', or it is closed
  told         \* the source's shutdown channel, or the root, has been used or dropped

config == <<tls, instance_type, init_retry_delay>>
delay == <<retry_delay, failures>>
sending == <<response, batch>>
environment == <<reachable, accepting, told>>
vars == <<config, delay, pc, sending, mine, proxies, environment>>

Lesser(x, y) == IF x < y THEN x ELSE y
Alive == pc \notin {"ended", "panicked"}

(* TopSQLSource::new; the first turn of run_loop.                           *)
Init ==
  /\ tls \in BOOLEAN /\ instance_type \in {"tidb", "tikv"} /\ init_retry_delay \in InitDelays
  /\ retry_delay = init_retry_delay /\ failures = 0
  /\ pc = "endpoint"
  /\ response = None /\ batch = <<>>
  /\ mine = NoProxy /\ proxies = [p \in Proxies |-> "none"]
  /\ reachable \in BOOLEAN /\ accepting = TRUE /\ told = FALSE

-----------------------------------------------------------------------------
(* The environment: the network and the server, the rest of vector, and the *)
(* controller.                                                              *)
ChangeServer ==
  /\ reachable' = ~reachable
  /\ UNCHANGED <<config, delay, pc, sending, mine, proxies, accepting, told>>

ChangeRoom ==
  /\ accepting' = ~accepting
  /\ UNCHANGED <<config, delay, pc, sending, mine, proxies, reachable, told>>

Tell ==
  /\ ~told /\ told' = TRUE
  /\ UNCHANGED <<config, delay, pc, sending, mine, proxies, reachable, accepting>>

-----------------------------------------------------------------------------
(* build_stream: endpoint, channel, subscription.                           *)

(* build_endpoint of either upstream: over TLS, the connection to the server*)
(* is made first, and a proxy task gets it.                                 *)
BuildEndpoint ==
  /\ pc = "endpoint"
  /\ IF tls
       THEN /\ reachable
            /\ \E p \in Proxies :
                 /\ proxies[p] = "none" /\ \A q \in Proxies : q < p => proxies[q] # "none"
                 /\ proxies' = [proxies EXCEPT ![p] = "listening"]
                 /\ mine' = p
       ELSE UNCHANGED <<mine, proxies>>
  /\ pc' = "connect"
  /\ UNCHANGED <<config, delay, sending, environment>>

(* endpoint.connect, and the accept of the proxy it reaches.                *)
Connect ==
  /\ pc = "connect"
  /\ IF tls
       THEN proxies[mine] = "listening" /\ proxies' = [proxies EXCEPT ![mine] = "open"]
       ELSE reachable /\ UNCHANGED proxies
  /\ pc' = "subscribe"
  /\ UNCHANGED <<config, delay, sending, mine, environment>>

Linked == IF tls THEN proxies[mine] = "open" /\ reachable ELSE reachable

(* Mutant of Subscribe: on_connected leaves the delay as it is.             *)
SubscribeSlowly ==
  /\ pc = "subscribe" /\ Linked
  /\ pc' = "stream"
  /\ failures' = 0
  /\ UNCHANGED <<config, retry_delay, sending, mine, proxies, environment>>

Subscribe ==
  /\ pc = "subscribe" /\ Linked
  /\ pc' = "stream"
  /\ retry_delay' = init_retry_delay /\ failures' = 0
  /\ UNCHANGED <<config, sending, mine, proxies, environment>>

(* A local connection that fails before it reaches the listener.            *)
Leaked == {p \in Proxies : proxies[p] = "listening" /\ p # mine}
DialFails == pc = "connect" /\ Cardinality(Leaked) < MaxLeaks

(* State::RetryDelay, and what run_loop makes of it.                        *)
RetryDelay ==
  /\ \/ pc = "endpoint" /\ tls /\ ~reachable
     \/ pc = "connect" /\ IF tls THEN DialFails \/ proxies[mine] # "listening" ELSE ~reachable
     \/ pc \in {"subscribe", "stream"} /\ ~Linked
  /\ retry_delay' = Lesser(2 * retry_delay, MaxDelay)
  /\ failures' = Lesser(failures + 1, MaxFailures)
  /\ mine' = NoProxy
  /\ pc' = "sleep"
  /\ UNCHANGED <<config, sending, proxies, environment>>

(* Mutant of WakeUp: a source whose delay is at its limit gives up.         *)
WakeUpBelowLimit ==
  /\ pc = "sleep" /\ retry_delay < MaxDelay
  /\ pc' = "endpoint"
  /\ UNCHANGED <<config, delay, sending, mine, proxies, environment>>

WakeUp ==
  /\ pc = "sleep"
  /\ pc' = "endpoint"
  /\ UNCHANGED <<config, delay, sending, mine, proxies, environment>>

(* State::RetryNow: the server has ended the stream.                        *)
RetryNow ==
  /\ pc = "stream"
  /\ mine' = NoProxy
  /\ pc' = "endpoint"
  /\ UNCHANGED <<config, delay, sending, proxies, environment>>

-----------------------------------------------------------------------------
(* handle_response, handle_instance: parse, and wait until `out' has taken  *)
(* the events.  A closed `out' is an error that is only logged.             *)
Handle(r) ==
  /\ pc = "stream"
  /\ r = InstanceTick \/ Linked
  /\ IF parse_panics(r)
       THEN pc' = "panicked" /\ mine' = NoProxy /\ UNCHANGED batch
       ELSE pc' = "send" /\ UNCHANGED mine /\ batch' = parse(r, Instance, instance_type)
  /\ response' = r
  /\ UNCHANGED <<config, delay, proxies, environment>>

Sent ==
  /\ pc = "send" /\ (accepting \/ batch = <<>>)
  /\ response' = None /\ batch' = <<>>
  /\ pc' = "stream"
  /\ UNCHANGED <<config, delay, mine, proxies, environment>>

(* Mutant of SourceExits: the connection outlives the task.                 *)
SourceExitsConnected ==
  /\ Alive /\ told
  /\ pc' = "ended"
  /\ response' = None /\ batch' = <<>>
  /\ UNCHANGED <<config, delay, mine, proxies, environment>>

(* run: the shutdown signal drops run_loop at whichever await it is.        *)
SourceExits ==
  /\ Alive /\ told
  /\ pc' = "ended"
  /\ response' = None /\ batch' = <<>> /\ mine' = NoProxy
  /\ UNCHANGED <<config, delay, proxies, environment>>

-----------------------------------------------------------------------------
(* The proxies.  The client of a proxy is gone when the source has left the *)
(* connection; then the proxy closes its half to the server, and waits for  *)
(* the server to close the other.                                           *)
SetProxy(p, state) ==
  /\ proxies' = [proxies EXCEPT ![p] = state]
  /\ UNCHANGED <<config, delay, pc, sending, mine, environment>>

ClientCloses(p) ==
  /\ p # mine
  /\ \/ proxies[p] = "open" /\ SetProxy(p, "client_done")
     \/ proxies[p] = "server_done" /\ SetProxy(p, "none")

ServerCloses(p) ==
  \/ proxies[p] = "open" /\ SetProxy(p, "server_done")
  \/ proxies[p] = "client_done" /\ SetProxy(p, "none")

TransferFails(p) ==
  /\ ~reachable /\ proxies[p] \in {"open", "client_done", "server_done"}
  /\ SetProxy(p, "none")

(* Mutant of ProxyTold: a proxy that listens for its client hears nothing.  *)
ProxyToldInTransfer(p) == told /\ proxies[p] \notin {"none", "listening"} /\ SetProxy(p, "none")

ProxyTold(p) == told /\ proxies[p] # "none" /\ SetProxy(p, "none")

-----------------------------------------------------------------------------
SourceStep ==
  \/ BuildEndpoint \/ Connect \/ Subscribe \/ RetryDelay \/ WakeUp \/ RetryNow
  \/ \E r \in Responses[instance_type] \cup {InstanceTick} : Handle(r)
  \/ Sent \/ SourceExits

ProxyStep(p) == ClientCloses(p) \/ ServerCloses(p) \/ TransferFails(p) \/ ProxyTold(p)

Next ==
  \/ ChangeServer \/ ChangeRoom \/ Tell
  \/ SourceStep
  \/ \E p \in Proxies : ProxyStep(p)

Spec == Init /\ [][Next]_vars

(* The runtime polls every task that is woken, and the select! in `run' and *)
(* in the proxy look at the shutdown signal in every poll.  A server that   *)
(* is reachable does not drop every connection before the subscription, and *)
(* it closes a connection its client has closed.  Nothing is assumed of     *)
(* `out', nor of when the server answers or ends a stream.                  *)
FairSpec ==
  /\ Spec
  /\ WF_vars(BuildEndpoint) /\ WF_vars(Connect) /\ SF_vars(Subscribe)
  /\ WF_vars(RetryDelay) /\ WF_vars(WakeUp) /\ WF_vars(Sent)
  /\ WF_vars(SourceExits)
  /\ \A p \in Proxies :
       /\ WF_vars(ClientCloses(p)) /\ WF_vars(ProxyTold(p))
       /\ WF_vars(proxies[p] = "client_done" /\ ServerCloses(p))

-----------------------------------------------------------------------------
(* What should come out: the series of a response, by their labels.  A      *)
(* series is a metric of the record that is positive somewhere, with the    *)
(* times and the counts of those items.                                     *)
Positive(counts) == {i \in DOMAIN counts : counts[i] > 0}

Series(labels, items, counts) ==
  LET at(j) == CHOOSE i \in Positive(counts) : Cardinality({k \in Positive(counts) : k <= i}) = j
      places == 1..Cardinality(Positive(counts))
  IN  [metric |-> labels,
       times |-> [j \in places |-> items[at(j)].timestamp_sec],
       counts |-> [j \in places |-> counts[at(j)]]]

Counts(items, field) == [i \in DOMAIN items |-> items[i][field]]
KvCounts(items, k) == [i \in DOMAIN items |-> KvCount(items[i], k)]

Labels(name, instance, type, sql, plan, tag) ==
  [__name__ |-> name, instance |-> instance, instance_type |-> type,
   sql_digest |-> sql, plan_digest |-> plan, tag_label |-> tag]

RecordSeries(items, metrics, labels) ==
  {Series([labels EXCEPT !.__name__ = m.name], items, Counts(items, m.field)) :
     m \in {n \in Range(metrics) : Positive(Counts(items, n.field)) # {}}}

NamedInstances(items) == UNION {DOMAIN items[i].stmt_kv_exec_count : i \in DOMAIN items}

InstanceSeries(items, labels) ==
  {Series([labels EXCEPT !.instance = k], items, KvCounts(items, k)) :
     k \in {n \in NamedInstances(items) : Positive(KvCounts(items, n)) # {}}}

ExpectedSeries(r, instance, type) ==
  LET meta(labels) == {[metric |-> labels, times |-> <<Now>>, counts |-> <<1>>]}
  IN  CASE r.kind = "tidb_record" ->
             LET sql == encode_upper[r.sql_digest]
                 plan == encode_upper[r.plan_digest]
             IN  RecordSeries(r.items, TiDBMetrics, Labels("", instance, "tidb", sql, plan, ""))
                 \cup InstanceSeries(r.items, Labels("topsql_stmt_exec_count", "", "tikv", sql, plan, ""))
        [] r.kind = "tikv_record" ->
             LET tag == decode_tag(r.resource_group_tag)
             IN  IF tag = None
                   THEN {}
                   ELSE RecordSeries(r.items, TiKVMetrics,
                          Labels("", instance, "tikv", tag.sql_digest, tag.plan_digest, tag.tag_label))
        [] r.kind = "sql_meta" ->
             meta([__name__ |-> "topsql_sql_meta", sql_digest |-> encode_upper[r.sql_digest],
                   normalized_sql |-> r.normalized_sql, is_internal_sql |-> r.is_internal_sql])
        [] r.kind = "plan_meta" ->
             meta([__name__ |-> "topsql_plan_meta", plan_digest |-> encode_upper[r.plan_digest],
                   normalized_plan |-> r.normalized_plan,
                   encoded_normalized_plan |-> r.encoded_normalized_plan])
        [] r.kind = "empty" -> {}
        [] r.kind = "instance" ->
             meta([__name__ |-> "topsql_instance", instance |-> instance, instance_type |-> type])

(* The dates the bits of a time can stand for: there is one or none.        *)
Dates(t) == {d \in {t, t - PowerOf2[WordBits]} : -LastTime <= d /\ d <= LastTime}

(* A float of FloatBits bits is off by one part in 2^FloatBits at most, so  *)
(* by nothing below that.                                                   *)
Approximates(v, n) == (IF v < n THEN n - v ELSE v - n) * PowerOf2[FloatBits] <= n

(* The line of a series: its labels, and each of its points in milliseconds.*)
Shows(line, series) ==
  /\ line.metric = series.metric
  /\ DOMAIN line.timestamps = DOMAIN series.times /\ DOMAIN line.values = DOMAIN series.counts
  /\ \A j \in DOMAIN series.times : \E d \in Dates(series.times[j]) : line.timestamps[j] = 1000 * d
  /\ \A j \in DOMAIN series.counts : Approximates(line.values[j], series.counts[j])

(* One line for every series, and for nothing else.                         *)
OneLineEach(lines, series) ==
  /\ \A j \in DOMAIN lines : \E s \in series : Shows(lines[j], s)
  /\ \A s \in series : \E j \in DOMAIN lines : \A k \in DOMAIN lines : Shows(lines[k], s) <=> k = j

(* The series a template has an endpoint for, and the endpoint.             *)
Placed(template, series) ==
  {s \in series : template.label = None \/ template.label \in DOMAIN s.metric}
Endpoint(template, metric) ==
  <<template.text, IF template.label = None THEN "" ELSE metric[template.label]>>

-----------------------------------------------------------------------------
ProxyState == {"none", "listening", "open", "client_done", "server_done"}

(* Type invariant; the source has a proxy of its own exactly while it is    *)
(* connected over TLS.                                                      *)
TypeOK ==
  /\ tls \in BOOLEAN /\ instance_type \in {"tidb", "tikv"} /\ init_retry_delay \in InitDelays
  /\ retry_delay \in Nat /\ failures \in 0..MaxFailures
  /\ pc \in {"endpoint", "connect", "subscribe", "stream", "send", "sleep", "ended", "panicked"}
  /\ response \in Responses[instance_type] \cup {InstanceTick, None}
  /\ response # None <=> pc \in {"send", "panicked"}
  /\ proxies \in [Proxies -> ProxyState]
  /\ mine \in Proxies \cup {NoProxy}
  /\ mine # NoProxy <=> tls /\ pc \in {"connect", "subscribe", "stream", "send"}
  /\ reachable \in BOOLEAN /\ accepting \in BOOLEAN /\ told \in BOOLEAN

(* The events of a response reach VictoriaMetrics as one line per series of *)
(* the response, with its labels and its points, in order, whatever was in  *)
(* the buffer for the series before; each line goes to its own endpoint,    *)
(* once, if that is a URI.  A time comes out as the date its 64 bits stand  *)
(* for, and a count exact as far as a float is.  The source panics on       *)
(* nothing but a series with a time that is no date (parser.rs:40-95,       *)
(* tidb/parser.rs:33-129, tikv/parser.rs:27-70, utils.rs:12-36, vm-import   *)
(* encoder.rs:22-95, sink.rs:35-53).                                        *)
Delivers(series, template, events) ==
  LET requests == build_request(encode_event(template, events))
      placed == Placed(template, series)
  IN  /\ DOMAIN requests = {Endpoint(template, s.metric) : s \in placed} \ NotUris
      /\ \A e \in DOMAIN requests :
           OneLineEach(requests[e], {s \in placed : Endpoint(template, s.metric) = e})

LinesFaithful ==
  LET series == ExpectedSeries(response, Instance, instance_type)
  IN  /\ pc = "send" => \A template \in Templates : Delivers(series, template, batch)
      /\ pc = "panicked" => \E s \in series : \E j \in DOMAIN s.times : Dates(s.times[j]) = {}

(* While it sleeps before the n-th attempt in a row, the source sleeps the  *)
(* first delay doubled n times, up to the limit, and a connection starts    *)
(* the count anew (mod.rs:108-121, 212-215).                                *)
DelayFollowsFailures ==
  retry_delay = IF failures = 0
                  THEN init_retry_delay
                  ELSE Lesser(init_retry_delay * PowerOf2[failures], MaxDelay)

(* The source is what the controller takes it for: told to stop, it and all *)
(* its proxies end, while it connects, sleeps or waits for `out', and while *)
(* a proxy waits for a client that never comes (mod.rs:91-97,               *)
(* tls_proxy.rs:20-30).                                                     *)
Life == INSTANCE SourceLife WITH
  source <- Alive, proxies <- Cardinality({p \in Proxies : proxies[p] # "none"})
ImplementsSourceLife == Life!FairSpec

(* A source that is neither told to stop nor made to panic is subscribed    *)
(* again and again, if the server is there and `out' has room from some     *)
(* moment on, however many attempts have failed before (mod.rs:99-150).     *)
Resubscribes ==
  <>[](reachable /\ accepting /\ ~told /\ Alive) => []<>(pc = "stream")
===============================================================================
