---------------------------- MODULE UploadPipeline ----------------------------
(***************************************************************************)
(* extensions/filename/src/lib.rs in front of an upload sink: the source    *)
(* lists the files, names each in an event and sleeps; a bounded channel    *)
(* takes the events to the sink's loop, which does not look at it while an  *)
(* upload runs.  The source and the sink live and die together.             *)
(*                                                                          *)
(* Only here the input of the sink is what the source sends: UploadSink     *)
(* lets any event come at any time.                                         *)
(***************************************************************************)
EXTENDS UploadSink

CONSTANTS
  Capacity,      \* of the channel between the source and the sink
  MaxShutdowns   \* bound: shutdowns requested

ASSUME PipelineAssumption == Capacity \in Nat \ {0} /\ MaxShutdowns \in Nat

VARIABLES
  source,     \* where the source is: "list", "send", "sleep" or "done"
  batch,      \* the files it has listed and not sent
  channel,
  shutdown,   \* vector's shutdown signal
  shutdowns   \* how often it was given so far

sourceVars == <<source, batch, channel, shutdown, shutdowns>>
pipeline == <<vars, sourceVars>>

Fresh ==
  source = "list" /\ batch = {} /\ channel = <<>> /\ shutdown = FALSE /\ shutdowns = 0

PipelineInit == Init /\ Fresh

-----------------------------------------------------------------------------
RequestShutdown ==
  /\ pc # "down" /\ ~shutdown
  /\ shutdown' = TRUE
  /\ shutdowns < MaxShutdowns
  /\ shutdowns' = shutdowns + 1
  /\ UNCHANGED <<vars, source, batch, channel>>

(* paths_provider, without what is not a file by now: at once in a new      *)
(* source, and whenever the cooldown is over.                               *)
List ==
  /\ pc # "down" /\ source \in {"list", "sleep"}
  /\ batch' = {k \in Keys : file[k] # 0}
  /\ source' = IF batch' = {} THEN "sleep" ELSE "send"
  /\ UNCHANGED <<vars, channel, shutdown, shutdowns>>

(* send_batch: one event after the other, as there is room.                 *)
SendNext(k) ==
  /\ source = "send" /\ k \in batch
  /\ Len(channel) < Capacity
  /\ batch' = batch \ {k}
  /\ channel' = Append(channel, k)
  /\ source' = IF batch' = {} THEN "sleep" ELSE "send"
  /\ UNCHANGED <<vars, shutdown, shutdowns>>

(* The shutdown signal is looked at only while the source sleeps.           *)
SourceStops ==
  /\ source = "sleep" /\ shutdown
  /\ source' = "done"
  /\ UNCHANGED <<vars, batch, channel, shutdown, shutdowns>>

-----------------------------------------------------------------------------
(* The sink, fed by the channel.                                            *)
TakeEvent(k) ==
  /\ channel # <<>> /\ Head(channel) = k
  /\ HandleEvent(k)
  /\ channel' = Tail(channel)
  /\ UNCHANGED <<source, batch, shutdown, shutdowns>>

(* The channel is drained and its sender gone: the end of the sink's input. *)
InputEnds ==
  /\ source = "done" /\ channel = <<>>
  /\ EndOfInput
  /\ source' = "list" /\ batch' = {} /\ shutdown' = FALSE
  /\ UNCHANGED <<channel, shutdowns>>

Dies ==
  /\ Crash
  /\ source' = "list" /\ batch' = {} /\ channel' = <<>> /\ shutdown' = FALSE
  /\ UNCHANGED shutdowns

SinkStep ==
  \/ Tick
  \/ \E k \in Keys : WriteFile(k) \/ DeleteFile(k)
  \/ \E e \in queue : StartUpload(e)
  \/ UploadStep
  \/ Restart

SourceStep ==
  List \/ (\E k \in Keys : SendNext(k)) \/ SourceStops

PipelineNext ==
  \/ RequestShutdown
  \/ SourceStep
  \/ \E k \in Keys : TakeEvent(k)
  \/ SinkStep /\ UNCHANGED sourceVars
  \/ InputEnds \/ Dies

(* One entry of the delay queue is due.                                     *)
StartUploadOf(key) == \E e \in queue : e.key = key /\ StartUpload(e)

(* The upload in progress runs on and a dead process is started again;      *)
(* select! picks its ready branch at random, in the source and in the sink. *)
PipelineSpec ==
  /\ PipelineInit /\ [][PipelineNext]_pipeline
  /\ WF_pipeline(SourceStep) /\ SF_pipeline(SourceStops)
  /\ WF_pipeline((UploadStep \/ Restart) /\ UNCHANGED sourceVars)
  /\ SF_pipeline(\E k \in Keys : TakeEvent(k)) /\ SF_pipeline(InputEnds)
  /\ \A k \in Keys : SF_pipeline(StartUploadOf(k) /\ UNCHANGED sourceVars)

-----------------------------------------------------------------------------
(* The pipeline catches up and never hangs: once the files stop changing    *)
(* and no more faults or shutdowns come, every file that is there is stored *)
(* as it is, because the source goes on naming it, and no shutdown is still *)
(* waiting, although the source does not look at the signal while the       *)
(* channel is full and the sink not at the channel while it uploads         *)
(* (filename/src/lib.rs:70-87, processor.rs:69-75).                         *)
PipelineConverges == \A k \in Keys : <>[](~shutdown /\ (file[k] # 0 => Stored(k)))
===============================================================================
