----------------------------- MODULE TopSQLEvents -----------------------------
(***************************************************************************)
(* extensions/topsql/src/upstream: how a response of a Top SQL server       *)
(* becomes log events (parser.rs, tidb/parser.rs, tikv/parser.rs, utils.rs).*)
(*                                                                          *)
(* A response is a record with its kind; the items of a record carry a time *)
(* and one count per metric.  Both are unsigned integers of WordBits bits.  *)
(* Of the times, LastTime seconds on either side of 0 can be a date; of the *)
(* counts, a float keeps FloatBits bits.                                    *)
(***************************************************************************)
EXTENDS Integers, SequencesExt

CONSTANTS
  WordBits,       \* the bits of a u64
  FloatBits,      \* the bits of the significand of an f64
  LastTime,
  InstanceOrder,  \* the names of TiKV instances in their order, of a BTreeSet
  encode_upper,   \* hex::encode_upper, of the digests there are
  Now,            \* Utc::now()
  None

PowerOf2[n \in Nat] == IF n = 0 THEN 1 ELSE 2 * PowerOf2[n - 1]
Word == 0..(PowerOf2[WordBits] - 1)

ASSUME EventsAssumption ==
  /\ WordBits \in Nat \ {0} /\ FloatBits \in Nat
  /\ LastTime \in Nat /\ LastTime < PowerOf2[WordBits - 1]
  /\ Now \in 0..LastTime
  /\ \A d, e \in DOMAIN encode_upper : encode_upper[d] = encode_upper[e] => d = e
  /\ encode_upper[""] = ""
  /\ InstanceOrder \in Seq(Range(InstanceOrder)) /\ IsInjective(InstanceOrder)

Metric(name, field) == [name |-> name, field |-> field]
TiDBMetrics == <<Metric("topsql_cpu_time_ms", "cpu_time_ms"),
                 Metric("topsql_stmt_exec_count", "stmt_exec_count"),
                 Metric("topsql_stmt_duration_sum_ns", "stmt_duration_sum_ns"),
                 Metric("topsql_stmt_duration_count", "stmt_duration_count")>>
TiKVMetrics == <<Metric("topsql_cpu_time_ms", "cpu_time_ms"),
                 Metric("topsql_read_keys", "read_keys"),
                 Metric("topsql_write_keys", "write_keys")>>

(* What a server may send: a list of items where there is one, and the names*)
(* of TiKV instances in it have their place in the order.                   *)
AreItems(items, metrics) ==
  /\ items \in Seq(Range(items))
  /\ \A i \in DOMAIN items : items[i].timestamp_sec \in Word
                             /\ \A m \in Range(metrics) : items[i][m.field] \in Word

IsResponse(r) ==
  /\ r.kind \in {"tidb_record", "sql_meta", "plan_meta", "tikv_record", "empty"}
  /\ r.kind = "tikv_record" => AreItems(r.items, TiKVMetrics)
  /\ r.kind = "tidb_record" =>
       /\ AreItems(r.items, TiDBMetrics)
       /\ \A i \in DOMAIN r.items :
            /\ DOMAIN r.items[i].stmt_kv_exec_count \subseteq Range(InstanceOrder)
            /\ \A k \in DOMAIN r.items[i].stmt_kv_exec_count : r.items[i].stmt_kv_exec_count[k] \in Word

-----------------------------------------------------------------------------
(* Log events: vector's values carry their type.                            *)
Bytes(x) == [type |-> "bytes", value |-> x]
Timestamp(x) == [type |-> "timestamp", value |-> x]
Float(x) == [type |-> "float", value |-> x]
Array(x) == [type |-> "array", value |-> x]
Object(x) == [type |-> "object", value |-> x]

MapSeq(Op(_), s) == [i \in DOMAIN s |-> Op(s[i])]
MapRange(Op(_), f) == [x \in DOMAIN f |-> Op(f[x])]

(* What is at some places of a sequence, in their order; and the same of    *)
(* every prefix.                                                            *)
Keeping(s, places) ==
  LET kept[i \in Nat] ==
        IF i = 0 THEN <<>> ELSE IF i \in places THEN Append(kept[i - 1], s[i]) ELSE kept[i - 1]
  IN  kept
Kept(s, places) == Keeping(s, places)[Len(s)]

make_metric_like_log_event(labels, timestamps, values) ==
  [labels |-> Object(MapRange(Bytes, labels)),
   timestamps |-> Array(MapSeq(Timestamp, timestamps)),
   values |-> Array(MapSeq(Float, values))]

instance_event(instance, type) ==
  make_metric_like_log_event(
    [__name__ |-> "topsql_instance", instance |-> instance, instance_type |-> type], <<Now>>, <<1>>)

-----------------------------------------------------------------------------
(* A second as the code keeps it: cast from u64 to i64, which is a date or  *)
(* makes NaiveDateTime::from_timestamp panic.                               *)
AsI64(t) == IF t < PowerOf2[WordBits - 1] THEN t ELSE t - PowerOf2[WordBits]
IsDate(t) == -LastTime <= AsI64(t) /\ AsI64(t) <= LastTime

(* A count as the code keeps it: cast from u64 to f64, which rounds it to   *)
(* the nearest multiple of the last place a float of its size has, and to   *)
(* an even one of two.  The counts that are u32 are too small to be rounded.*)
LastPlace(n) ==
  CHOOSE u \in {PowerOf2[e] : e \in 0..WordBits} :
    n < u * PowerOf2[FloatBits] /\ (u = 1 \/ u * PowerOf2[FloatBits] <= 2 * n)
AsF64(n) ==
  LET u == LastPlace(n)
      rest == n % u
  IN  IF 2 * rest < u \/ (2 * rest = u /\ (n \div u) % 2 = 0) THEN n - rest ELSE n - rest + u

DefaultBuf ==
  [labels |-> [__name__ |-> "", instance |-> "", instance_type |-> "",
               sql_digest |-> "", plan_digest |-> "", tag_label |-> ""],
   timestamps |-> <<>>, values |-> <<>>]

WithLabels(buf, new) == [buf EXCEPT !.labels = [l \in DOMAIN @ |-> IF l \in DOMAIN new THEN new[l] ELSE @[l]]]

(* Buf::points: a point is a time and a value.                              *)
WithPoints(buf, points) ==
  [labels |-> buf.labels,
   timestamps |-> buf.timestamps \o MapSeq(LAMBDA p : AsI64(p.timestamp_sec), points),
   values |-> buf.values \o MapSeq(LAMBDA p : p.value, points)]

(* Mutant of build_event: an event empties the buffer, no event does not.   *)
build_event_lazily(buf) ==
  IF buf.timestamps = <<>> \/ buf.values = <<>>
    THEN [event |-> <<>>, buf |-> buf]
    ELSE [event |-> <<make_metric_like_log_event(buf.labels, buf.timestamps, buf.values)>>, buf |-> buf]

(* Buf::build_event: at most one event, and an empty buffer with its labels.*)
build_event(buf) ==
  [event |-> IF buf.timestamps = <<>> \/ buf.values = <<>>
               THEN <<>>
               ELSE <<make_metric_like_log_event(buf.labels, buf.timestamps, buf.values)>>,
   buf |-> [labels |-> buf.labels, timestamps |-> <<>>, values |-> <<>>]]

(* One series: set its labels, add its points, and log the event if any.    *)
Append1(acc, labels, points) ==
  LET built == build_event(WithPoints(WithLabels(acc.buf, labels), points))
  IN  [buf |-> built.buf, logs |-> acc.logs \o built.event]

(* What filter_map leaves of the items: those with a positive count, in     *)
(* their order.                                                             *)
Point(time, value) == [timestamp_sec |-> time, value |-> value]
PositivePoints(items, counts) ==
  Kept([i \in DOMAIN items |-> Point(items[i].timestamp_sec, AsF64(counts[i]))],
       {i \in DOMAIN items : counts[i] > 0})

MetricPoints(items, field) == PositivePoints(items, [i \in DOMAIN items |-> items[i][field]])

(* One series after the other, with one buffer.                             *)
AppendAll(acc, series) ==
  LET after[i \in 0..Len(series)] ==
        IF i = 0 THEN acc ELSE Append1(after[i - 1], series[i].labels, series[i].points)
  IN  after[Len(series)]

(* The macro `append!', once for every metric.                              *)
MetricSeries(items, metrics) ==
  [i \in DOMAIN metrics |-> [labels |-> [__name__ |-> metrics[i].name],
                             points |-> MetricPoints(items, metrics[i].field)]]

KvCount(item, k) ==
  IF k \in DOMAIN item.stmt_kv_exec_count THEN item.stmt_kv_exec_count[k] ELSE 0

KvPoints(items, k) ==
  PositivePoints(items, [i \in DOMAIN items |-> KvCount(items[i], k)])

KvInstances(items) ==
  Kept(InstanceOrder, {n \in DOMAIN InstanceOrder : \E i \in DOMAIN items :
                         InstanceOrder[n] \in DOMAIN items[i].stmt_kv_exec_count})

KvSeries(items) ==
  [n \in DOMAIN KvInstances(items) |-> [labels |-> [instance |-> KvInstances(items)[n]],
                                        points |-> KvPoints(items, KvInstances(items)[n])]]

Logging(buf) == [buf |-> buf, logs |-> <<>>]

parse_tidb_record(r, instance) ==
  LET buf == WithLabels(DefaultBuf, [instance |-> instance, instance_type |-> "tidb",
                                     sql_digest |-> encode_upper[r.sql_digest],
                                     plan_digest |-> encode_upper[r.plan_digest]])
      own == AppendAll(Logging(buf), MetricSeries(r.items, TiDBMetrics))
      kv == [own EXCEPT !.buf = WithLabels(@, [__name__ |-> "topsql_stmt_exec_count", instance_type |-> "tikv"])]
  IN  AppendAll(kv, KvSeries(r.items)).logs

parse_tidb_sql_meta(r) ==
  <<make_metric_like_log_event(
      [__name__ |-> "topsql_sql_meta", sql_digest |-> encode_upper[r.sql_digest],
       normalized_sql |-> r.normalized_sql, is_internal_sql |-> r.is_internal_sql], <<Now>>, <<1>>)>>

parse_tidb_plan_meta(r) ==
  <<make_metric_like_log_event(
      [__name__ |-> "topsql_plan_meta", plan_digest |-> encode_upper[r.plan_digest],
       normalized_plan |-> r.normalized_plan, encoded_normalized_plan |-> r.encoded_normalized_plan],
      <<Now>>, <<1>>)>>

(* decode_tag: None for a tag that cannot be decoded or has no SQL digest.  *)
decode_tag(tag) ==
  IF tag = None \/ tag.sql_digest = None
    THEN None
    ELSE [sql_digest |-> encode_upper[tag.sql_digest],
          plan_digest |-> encode_upper[IF tag.plan_digest = None THEN "" ELSE tag.plan_digest],
          tag_label |-> CASE tag.label = 1 -> "row" [] tag.label = 2 -> "index" [] OTHER -> "unknown"]

parse_tikv_record(r, instance) ==
  IF decode_tag(r.resource_group_tag) = None
    THEN <<>>
    ELSE LET buf == WithLabels(WithLabels(DefaultBuf, [instance |-> instance, instance_type |-> "tikv"]),
                               decode_tag(r.resource_group_tag))
         IN  AppendAll(Logging(buf), MetricSeries(r.items, TiKVMetrics)).logs

(* The two implementations of UpstreamEventParser::parse, and the instance  *)
(* event a source sends in between.                                         *)
parse(r, instance, type) ==
  CASE r.kind = "tidb_record" -> parse_tidb_record(r, instance)
    [] r.kind = "sql_meta" -> parse_tidb_sql_meta(r)
    [] r.kind = "plan_meta" -> parse_tidb_plan_meta(r)
    [] r.kind = "tikv_record" -> parse_tikv_record(r, instance)
    [] r.kind = "empty" -> <<>>
    [] r.kind = "instance" -> <<instance_event(instance, type)>>

(* An item whose time is no date makes parse panic, if a point is made of it.*)
parse_panics(r) ==
  /\ \/ r.kind = "tidb_record"
     \/ r.kind = "tikv_record" /\ decode_tag(r.resource_group_tag) # None
  /\ \E i \in DOMAIN r.items :
       /\ ~IsDate(r.items[i].timestamp_sec)
       /\ IF r.kind = "tikv_record"
            THEN \E m \in Range(TiKVMetrics) : r.items[i][m.field] > 0
            ELSE \/ \E m \in Range(TiDBMetrics) : r.items[i][m.field] > 0
                 \/ \E k \in DOMAIN r.items[i].stmt_kv_exec_count : KvCount(r.items[i], k) > 0

===============================================================================
