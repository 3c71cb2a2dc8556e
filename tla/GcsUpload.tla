------------------------------- MODULE GcsUpload -------------------------------
(***************************************************************************)
(* extensions/gcp-cloud-storage-upload-file/src/uploader.rs: the calls of   *)
(* one GCSUploader, one after the other, request by request.  Files and     *)
(* sizes are those of S3Upload; a resumable upload is a session of the      *)
(* store that has persisted some of the bytes.                              *)
(***************************************************************************)
EXTENDS Naturals

CONSTANTS
  ChunkSize,   \* GCS_UPLOAD_CHUNK_SIZE
  MaxVersion,  \* bound: replacements of the file
  MaxSize,     \* bound: size of the file
  MaxFaults    \* bound: failed reads and requests, short writes, lost answers

ASSUME GcsAssumption ==
  /\ {ChunkSize, MaxVersion} \subseteq Nat \ {0}
  /\ {MaxSize, MaxFaults} \subseteq Nat

VARIABLES
  file,       \* [version, size]
  object,     \* [version, size], version 0 when there is none
  pc,         \* where `upload' is
  begun,      \* history: size of the file when the call began
  ok,         \* did the last call return Ok?
  remote,     \* the body whose md5 HEAD returned
  uploaded,   \* uploaded_bytes
  chunk,      \* length of the chunk that was read
  session,    \* the store's session: open?, bytes persisted
  excused,    \* history: why the session may be left open
  faults

vars == <<file, object, pc, begun, ok, remote, uploaded, chunk, session, excused, faults>>

NoObject == [version |-> 0, size |-> 0]
NoSession == [open |-> FALSE, persisted |-> 0]

(* The md5 of a whole body; of no bytes every version has the same.         *)
Md5Of(body) == IF body.size = 0 THEN [version |-> 1, size |-> 0] ELSE body

Readable(position) ==
  IF file.size - position < ChunkSize THEN file.size - position ELSE ChunkSize

Fault == faults < MaxFaults /\ faults' = faults + 1

Init ==
  /\ file \in [version : {1}, size : 0..MaxSize]
  /\ object = NoObject
  /\ pc = "idle"
  /\ begun = 0
  /\ ok = FALSE
  /\ remote = NoObject
  /\ uploaded = 0 /\ chunk = 0
  /\ session = NoSession
  /\ excused = FALSE
  /\ faults = 0

-----------------------------------------------------------------------------
Grow ==
  /\ file.size < MaxSize
  /\ file' = [file EXCEPT !.size = @ + 1]
  /\ UNCHANGED <<object, pc, begun, ok, remote, uploaded, chunk, session, excused, faults>>

Replace ==
  /\ pc = "idle"
  /\ file.version < MaxVersion
  /\ file' \in [version : {file.version + 1}, size : 0..MaxSize]
  /\ UNCHANGED <<object, pc, begun, ok, remote, uploaded, chunk, session, excused, faults>>

-----------------------------------------------------------------------------
Upload ==
  /\ pc = "idle"
  /\ pc' = "head"
  /\ begun' = file.size
  /\ ok' = FALSE
  /\ session' = NoSession /\ excused' = FALSE
  /\ UNCHANGED <<file, object, remote, uploaded, chunk, faults>>

Return(result) ==
  /\ pc' = "idle"
  /\ ok' = result
  /\ remote' = NoObject
  /\ uploaded' = 0 /\ chunk' = 0

(* need_upload.  A response without the hash header, whatever its status,   *)
(* is as good as no object.                                                 *)
FetchHash ==
  /\ pc = "head"
  /\ \/ /\ object.version # 0
        /\ remote' = Md5Of(object)
        /\ pc' = "hash"
        /\ UNCHANGED faults
     \/ /\ (object.version = 0 /\ faults' = faults) \/ Fault
        /\ pc' = "create"
        /\ UNCHANGED remote
  /\ UNCHANGED <<file, object, begun, ok, uploaded, chunk, session, excused>>

(* Mutant of CompareHash: only the sizes are compared.                      *)
CompareSize ==
  /\ pc = "hash"
  /\ IF file.size = remote.size
       THEN Return(TRUE)
       ELSE pc' = "create" /\ remote' = NoObject /\ UNCHANGED <<ok, uploaded, chunk>>
  /\ UNCHANGED <<file, object, begun, session, excused, faults>>

(* The file is read until a read returns nothing.                           *)
CompareHash ==
  /\ pc = "hash"
  /\ IF Md5Of(file) = remote
       THEN Return(TRUE)
       ELSE pc' = "create" /\ remote' = NoObject /\ UNCHANGED <<ok, uploaded, chunk>>
  /\ UNCHANGED <<file, object, begun, session, excused, faults>>

HashFails ==
  /\ pc = "hash"
  /\ Fault
  /\ Return(FALSE)
  /\ UNCHANGED <<file, object, begun, session, excused>>

-----------------------------------------------------------------------------
CreateUpload ==
  /\ pc = "create"
  /\ session' = [open |-> TRUE, persisted |-> 0]
  /\ pc' = "read"
  /\ UNCHANGED <<file, object, begun, ok, remote, uploaded, chunk, excused, faults>>

(* Without a usable answer the session, if there is one, has no URI.        *)
CreateUploadFails ==
  /\ pc = "create"
  /\ Fault
  /\ \E opened \in BOOLEAN :
       session' = [open |-> opened, persisted |-> 0] /\ excused' = opened
  /\ Return(FALSE)
  /\ UNCHANGED <<file, object, begun>>

(* Mutant of ReadChunk: the end of the file is waited out.                  *)
ReadChunkFollows ==
  /\ pc = "read"
  /\ Readable(uploaded) # 0
  /\ chunk' = Readable(uploaded)
  /\ pc' = "chunk"
  /\ UNCHANGED <<file, object, begun, ok, remote, uploaded, session, excused, faults>>

(* resumable_upload: the next chunk, the last of them when it is short.     *)
ReadChunk ==
  /\ pc = "read"
  /\ chunk' = Readable(uploaded)
  /\ pc' = IF chunk' < ChunkSize THEN "complete" ELSE "chunk"
  /\ UNCHANGED <<file, object, begun, ok, remote, uploaded, session, excused, faults>>

(* File::open or a read fails, and the `?' leaves the session as it is.     *)
ReadFails ==
  /\ pc = "read"
  /\ Fault
  /\ Return(FALSE)
  /\ excused' = TRUE
  /\ UNCHANGED <<file, object, begun, session>>

(* Mutant of UploadChunk: the bytes are counted down.                       *)
UploadChunkDown ==
  /\ pc = "chunk"
  /\ session' = [session EXCEPT !.persisted = @ + chunk]
  /\ uploaded' = uploaded - chunk
  /\ chunk' = 0
  /\ pc' = "read"
  /\ UNCHANGED <<file, object, begun, ok, remote, excused, faults>>

UploadChunk ==
  /\ pc = "chunk"
  /\ session' = [session EXCEPT !.persisted = @ + chunk]
  /\ uploaded' = uploaded + chunk
  /\ chunk' = 0
  /\ pc' = "read"
  /\ UNCHANGED <<file, object, begun, ok, remote, excused, faults>>

(* Mutant of UploadChunkFails: the range in the answer is not checked.      *)
UploadChunkShort ==
  /\ pc = "chunk"
  /\ Fault
  /\ \E n \in 0..chunk : session' = [session EXCEPT !.persisted = @ + n]
  /\ uploaded' = uploaded + chunk
  /\ pc' = "read"
  /\ UNCHANGED <<file, object, begun, ok, remote, chunk, excused>>

(* No answer, another status than 308, or a range that ends too early.      *)
UploadChunkFails ==
  /\ pc = "chunk"
  /\ Fault
  /\ \E n \in 0..chunk : session' = [session EXCEPT !.persisted = @ + n]
  /\ pc' = "cancel"
  /\ UNCHANGED <<file, object, begun, ok, remote, uploaded, chunk, excused>>

(* The store has all the bytes of the range it was told and finishes.       *)
CompleteUpload ==
  /\ pc = "complete"
  /\ session.persisted = uploaded
  /\ object' = [version |-> file.version, size |-> uploaded + chunk]
  /\ session' = NoSession
  /\ \/ Return(TRUE) /\ UNCHANGED faults
     \/ Fault /\ pc' = "cancel" /\ UNCHANGED <<ok, remote, uploaded, chunk>>
  /\ UNCHANGED <<file, begun, excused>>

(* Mutant of CompleteUploadFails: the error is returned at once.            *)
CompleteUploadFailsOutright ==
  /\ pc = "complete"
  /\ Fault
  /\ Return(FALSE)
  /\ UNCHANGED <<file, object, begun, session, excused>>

CompleteUploadFails ==
  /\ pc = "complete"
  /\ Fault
  /\ pc' = "cancel"
  /\ UNCHANGED <<file, object, begun, ok, remote, uploaded, chunk, session, excused>>

(* The answer to the cancellation is not looked at.                         *)
CancelUpload ==
  /\ pc = "cancel"
  /\ session' = NoSession
  /\ Return(FALSE)
  /\ UNCHANGED <<file, object, begun, excused, faults>>

CancelUploadFails ==
  /\ pc = "cancel"
  /\ Fault
  /\ excused' = TRUE
  /\ Return(FALSE)
  /\ UNCHANGED <<file, object, begun, session>>

-----------------------------------------------------------------------------
UploadStep ==
  \/ FetchHash \/ CompareHash \/ HashFails
  \/ CreateUpload \/ CreateUploadFails \/ ReadChunk \/ ReadFails
  \/ UploadChunk \/ UploadChunkFails \/ CompleteUpload \/ CompleteUploadFails
  \/ CancelUpload \/ CancelUploadFails

Next == Grow \/ Replace \/ Upload \/ UploadStep

Spec == Init /\ [][Next]_vars

(* Requests are answered or fail.                                           *)
FairSpec == Spec /\ WF_vars(UploadStep)

-----------------------------------------------------------------------------
Body == [version : Nat, size : Nat]

(* Type invariant.                                                          *)
TypeOK ==
  /\ file \in Body /\ object \in Body /\ remote \in Body
  /\ pc \in {"idle", "head", "hash", "create", "read", "chunk", "complete", "cancel"}
  /\ begun \in Nat /\ uploaded \in Nat /\ chunk \in Nat /\ faults \in Nat
  /\ ok \in BOOLEAN /\ excused \in BOOLEAN
  /\ session \in [open : BOOLEAN, persisted : Nat]

(* A call of `upload' is atomic for the rest of the sink: the object is     *)
(* replaced as a whole or not at all, and Ok means the store has the file   *)
(* as it was when the call began or newer, however the chunks, the short    *)
(* writes and the lost answers went (uploader.rs:45-72, 161-343).           *)
Promise == INSTANCE AtomicUpload WITH busy <- pc # "idle"

ImplementsAtomicUpload == Promise!Spec

(* What the uploader counts as uploaded is what the store has persisted of  *)
(* the session whenever it sends the next range, so a range never skips or  *)
(* repeats bytes (uploader.rs:181, 225-226, 265).                           *)
RangesMeet == pc \in {"read", "chunk", "complete"} => session.open /\ session.persisted = uploaded

(* A session that did not complete is cancelled, unless the store did not   *)
(* answer the request that opened or cancels it, or the file could not be   *)
(* read (uploader.rs:162, 171): then it is left to expire.                  *)
NoSessionLeft == pc = "idle" /\ session.open => excused

(* A call returns once the file stops growing, or does not grow by a whole  *)
(* chunk while the one before is sent (uploader.rs:166-187).                *)
UploadReturns == pc = "head" ~> pc = "idle"
===============================================================================
