---------------------------- MODULE MCTopSQLSource ----------------------------
(***************************************************************************)
(* Words have four bits, and a date lies within three seconds of 0: 3 is a  *)
(* date, 5 is none, 10 is none before and 14 is one that wraps to -2.  A    *)
(* float keeps three bits: 9 is a tie and becomes 8, 11 is one and becomes  *)
(* 12, and 15 becomes 16.  The second TiKV instance has a name that is no   *)
(* part of a URI.                                                           *)
(***************************************************************************)
EXTENDS TopSQLSource

MCInstanceOrder == <<"k1", "k2">>
MCEncodeUpper == ("" :> "") @@ ("q" :> "51") @@ ("p" :> "50")

TiDBItem(t, cpu, execs, kv) ==
  [timestamp_sec |-> t, cpu_time_ms |-> cpu, stmt_exec_count |-> execs,
   stmt_duration_sum_ns |-> 11 * execs, stmt_duration_count |-> execs, stmt_kv_exec_count |-> kv]
TiDBRecord(items) ==
  [kind |-> "tidb_record", sql_digest |-> "q", plan_digest |-> "p", items |-> items]

TiKVItem(t, cpu, writes) ==
  [timestamp_sec |-> t, cpu_time_ms |-> cpu, read_keys |-> 0, write_keys |-> writes]
TiKVRecord(tag, items) == [kind |-> "tikv_record", resource_group_tag |-> tag, items |-> items]
Tag(sql, plan, label) == [sql_digest |-> sql, plan_digest |-> plan, label |-> label]

MCResponses ==
  [tidb |->
     {TiDBRecord(<<TiDBItem(1, 5, 0, ("k1" :> 9) @@ ("k2" :> 0)), TiDBItem(14, 0, 1, "k2" :> 4),
                   TiDBItem(3, 6, 1, "k1" :> 15)>>),
      TiDBRecord(<<TiDBItem(2, 0, 0, "k2" :> 0)>>),
      TiDBRecord(<<TiDBItem(5, 0, 0, "k1" :> 1)>>),
      [kind |-> "sql_meta", sql_digest |-> "q", normalized_sql |-> "select ?", is_internal_sql |-> "false"],
      [kind |-> "plan_meta", plan_digest |-> "p", normalized_plan |-> "plan", encoded_normalized_plan |-> ""],
      [kind |-> "empty"]},
   tikv |->
     {TiKVRecord(Tag("q", None, 1), <<TiKVItem(1, 5, 0), TiKVItem(3, 6, 2), TiKVItem(10, 0, 0)>>),
      TiKVRecord(Tag("q", "p", None), <<TiKVItem(2, 0, 1)>>),
      TiKVRecord(Tag("q", "p", 2), <<TiKVItem(10, 1, 1)>>),
      TiKVRecord(Tag(None, "p", 2), <<TiKVItem(10, 1, 1)>>),
      TiKVRecord(None, <<TiKVItem(1, 1, 1)>>),
      [kind |-> "empty"]}]

MCNotUris == {<<"vm/", "k2">>}
MCTemplates ==
  {[text |-> "vm", label |-> None], [text |-> "vm/", label |-> "instance"]}
===============================================================================
