------------------------------- MODULE VMImport -------------------------------
(***************************************************************************)
(* extensions/vm-import/src: how the sink at the other end of a pipeline    *)
(* turns the events of a TopSQL source into lines for VictoriaMetrics.  The *)
(* two agree on a form of event that no type enforces.                      *)
(***************************************************************************)
EXTENDS TopSQLEvents

CONSTANT NotUris    \* endpoints that do not parse as a URI

(* VMImportSinkEventEncoder: the endpoint of an event, and its line.  Either*)
(* may fail, and then the event is dropped.                                 *)
AllOf(v, type) == \A x \in DOMAIN v.value : v.value[x].type = type

Encodable(event) ==
  /\ {"labels", "timestamps", "values"} \subseteq DOMAIN event
  /\ event.labels.type = "object" /\ AllOf(event.labels, "bytes")
  /\ event.timestamps.type = "array" /\ AllOf(event.timestamps, "timestamp")
  /\ event.values.type = "array" /\ AllOf(event.values, "float")

encode_log(event) ==
  [metric |-> MapRange(LAMBDA v : v.value, event.labels.value),
   timestamps |-> MapSeq(LAMBDA v : 1000 * v.value, event.timestamps.value),
   values |-> MapSeq(LAMBDA v : v.value, event.values.value)]

(* vector's template: a text, with one label of the event or none in it.    *)
Renders(template, event) == template.label = None \/ template.label \in DOMAIN event.labels.value
Render(template, event) ==
  <<template.text, IF template.label = None THEN "" ELSE event.labels.value[template.label].value>>

encode_event(template, events) ==
  MapSeq(LAMBDA e : [endpoint |-> Render(template, e), line |-> encode_log(e)],
         Kept(events, {i \in DOMAIN events : Renders(template, events[i]) /\ Encodable(events[i])}))

(* vector batches the encoded events by endpoint; build_request makes one   *)
(* POST of each batch, a line per event in their order.  It fails if the    *)
(* endpoint is no URI, and the batch is lost.                               *)
build_request(encoded) ==
  [endpoint \in {encoded[i].endpoint : i \in DOMAIN encoded} \ NotUris |->
     MapSeq(LAMBDA x : x.line, Kept(encoded, {i \in DOMAIN encoded : encoded[i].endpoint = endpoint}))]
===============================================================================
