----------------------------- MODULE AtomicUpload -----------------------------
(***************************************************************************)
(* What both uploaders promise the event loop of UploadSink: one call of    *)
(* `upload' replaces the object by the file or leaves it alone, whatever    *)
(* requests it takes, and Ok means the object has the file as it was when   *)
(* the call began, or grown since.                                          *)
(*                                                                          *)
(* A body is a version and how much of it there is: a file that grows is    *)
(* the same version with more of it, a file that is replaced another.       *)
(***************************************************************************)
EXTENDS Naturals

CONSTANTS MaxVersion, MaxSize  \* bounds

VARIABLES
  file,    \* the local file: [version, size]
  object,  \* the stored object, version 0 when there is none
  busy,    \* is an upload in progress?
  begun,   \* size of the file when it began
  ok       \* did the last upload return Ok?

vars == <<file, object, busy, begun, ok>>

Body == [version : 0..MaxVersion, size : 0..MaxSize]
NoObject == [version |-> 0, size |-> 0]

Init ==
  /\ file \in {b \in Body : b.version = 1}
  /\ object = NoObject
  /\ busy = FALSE
  /\ begun = 0
  /\ ok = FALSE

Replace ==
  /\ ~busy
  /\ file' \in {b \in Body : b.version = file.version + 1}
  /\ UNCHANGED <<object, busy, begun, ok>>

Grow ==
  /\ file.size < MaxSize
  /\ file' = [file EXCEPT !.size = @ + 1]
  /\ UNCHANGED <<object, busy, begun, ok>>

Begin ==
  /\ ~busy
  /\ busy' = TRUE
  /\ begun' = file.size
  /\ ok' = FALSE
  /\ UNCHANGED <<file, object>>

(* Of no bytes every version has the same.                                  *)
UpToDate(o) ==
  /\ o.version = file.version \/ (o.version # 0 /\ o.size = 0)
  /\ o.size \in begun..file.size

(* All of the object at once.  A store may come and the answer not.         *)
Store ==
  /\ busy
  /\ object' \in {b \in Body : b.version = file.version /\ UpToDate(b)}
  /\ UNCHANGED <<file, busy, begun, ok>>

ReturnOk ==
  /\ busy
  /\ UpToDate(object)
  /\ busy' = FALSE
  /\ ok' = TRUE
  /\ UNCHANGED <<file, object, begun>>

ReturnErr ==
  /\ busy
  /\ busy' = FALSE
  /\ UNCHANGED <<file, object, begun, ok>>

(* The last request and the return may be one step of an uploader.          *)
StoreAndReturnOk ==
  /\ busy
  /\ object' \in {b \in Body : b.version = file.version /\ UpToDate(b)}
  /\ busy' = FALSE
  /\ ok' = TRUE
  /\ UNCHANGED <<file, begun>>

StoreAndReturnErr ==
  /\ busy
  /\ object' \in {b \in Body : b.version = file.version /\ UpToDate(b)}
  /\ busy' = FALSE
  /\ UNCHANGED <<file, begun, ok>>

Next ==
  \/ Replace \/ Grow \/ Begin
  \/ Store \/ ReturnOk \/ ReturnErr \/ StoreAndReturnOk \/ StoreAndReturnErr

Spec == Init /\ [][Next]_vars
===============================================================================
