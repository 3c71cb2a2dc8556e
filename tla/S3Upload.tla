------------------------------- MODULE S3Upload -------------------------------
(***************************************************************************)
(* extensions/aws-s3-upload-file/src/uploader.rs and etag_calculator.rs:    *)
(* the calls of one S3Uploader, one after the other, request by request.    *)
(*                                                                          *)
(* Sizes are counted in units of which ChunkSize make a chunk of 8 MiB.     *)
(* The file may grow at any time, and may be replaced between uploads (what *)
(* a replacement during one does is the subject of UploadSink).  A digest   *)
(* is what it was taken of: the part <<version, first unit, length>>, or    *)
(* the list of parts whose digests were hashed again.                       *)
(***************************************************************************)
EXTENDS Naturals, Sequences

CONSTANTS
  ChunkSize,   \* S3_MULTIPART_UPLOAD_CHUNK_SIZE
  MaxChunks,   \* S3_MULTIPART_UPLOAD_MAX_CHUNKS
  MaxCapacity, \* MAX_CAPACITY of EtagCalculator::file, in digests
  MaxVersion,  \* bound: replacements of the file
  MaxSize,     \* bound: size of the file
  MaxCalls,    \* bound: calls of `upload'
  MaxFaults    \* bound: failed reads and requests, lost answers

ASSUME S3Assumption ==
  /\ {ChunkSize, MaxChunks, MaxVersion} \subseteq Nat \ {0}
  /\ {MaxCapacity, MaxSize, MaxCalls, MaxFaults} \subseteq Nat

VARIABLES
  file,       \* [version, size]
  object,     \* [version, size, etag], version 0 when there is none
  pc,         \* where `upload' is
  begun,      \* history: size of the file when the call began
  ok,         \* did the last call return Ok?
  remote,     \* the etag HEAD returned
  concat,     \* EtagCalculator.concat_md5, which outlives a call
  count,      \* chunk_count, or part_number - 1
  offset,     \* position in the file
  chunk,      \* length of the chunk that was read and not sent yet
  parts,      \* completed_parts
  session,    \* is the multipart upload of this call open in the store?
  excused,    \* history: no answer came to the request that opened or aborts it
  clean,      \* history: concat_md5 was empty when the etag was begun
  faults, calls

local == <<remote, count, offset, chunk, parts>>
vars == <<file, object, pc, begun, ok, local, concat, session, excused, clean, faults, calls>>

(* A part of no bytes hashes alike in every file.                           *)
Part(version, from, length) ==
  IF length = 0 THEN <<0, 0, 0>> ELSE <<version, from, length>>

(* An etag is a digest, with the number of parts if there was a multipart   *)
(* upload ("-n").                                                           *)
Etag(of, n) == [of |-> of, parts |-> n]
NoEtag == Etag(<<>>, 0)
NoObject == [version |-> 0, size |-> 0, etag |-> NoEtag]

(* take(ChunkSize).read_to_end at the current position.                     *)
Readable(position) ==
  IF file.size - position < ChunkSize THEN file.size - position ELSE ChunkSize

Fault == faults < MaxFaults /\ faults' = faults + 1

Init ==
  /\ file \in [version : {1}, size : 0..MaxSize]
  /\ object = NoObject
  /\ pc = "idle"
  /\ begun = 0
  /\ ok = FALSE
  /\ remote = NoEtag
  /\ concat = <<>>
  /\ count = 0 /\ offset = 0 /\ chunk = 0
  /\ parts = <<>>
  /\ session = FALSE /\ excused = FALSE /\ clean = TRUE
  /\ faults = 0 /\ calls = 0

-----------------------------------------------------------------------------
Grow ==
  /\ file.size < MaxSize
  /\ file' = [file EXCEPT !.size = @ + 1]
  /\ UNCHANGED <<object, pc, begun, ok, local, concat, session, excused, clean, faults, calls>>

Replace ==
  /\ pc = "idle"
  /\ file.version < MaxVersion
  /\ file' \in [version : {file.version + 1}, size : 0..MaxSize]
  /\ UNCHANGED <<object, pc, begun, ok, local, concat, session, excused, clean, faults, calls>>

-----------------------------------------------------------------------------
Upload ==
  /\ pc = "idle"
  /\ pc' = "head"
  /\ begun' = file.size
  /\ ok' = FALSE
  /\ session' = FALSE /\ excused' = FALSE
  /\ calls < MaxCalls
  /\ calls' = calls + 1
  /\ UNCHANGED <<file, object, local, concat, clean, faults>>

Return(result) ==
  /\ pc' = "idle"
  /\ ok' = result
  /\ remote' = NoEtag
  /\ count' = 0 /\ offset' = 0 /\ chunk' = 0
  /\ parts' = <<>>

Rewind(step) ==
  /\ pc' = step
  /\ remote' = NoEtag
  /\ count' = 0 /\ offset' = 0 /\ chunk' = 0
  /\ parts' = <<>>

(* fetch_object_etag: an error is as good as no object.                     *)
FetchEtag ==
  /\ pc = "head"
  /\ \/ /\ object.version # 0
        /\ remote' = object.etag
        /\ pc' = "etag"
        /\ clean' = (concat = <<>>)
        /\ UNCHANGED faults
     \/ /\ (object.version = 0 /\ faults' = faults) \/ Fault
        /\ pc' = "first"
        /\ UNCHANGED <<remote, clean>>
  /\ UNCHANGED <<file, object, begun, ok, concat, count, offset, chunk, parts, session, excused, calls>>

-----------------------------------------------------------------------------
(* EtagCalculator::file.  A whole chunk, and there may be more.             *)
HashChunk ==
  /\ pc = "etag"
  /\ Readable(offset) = ChunkSize
  /\ concat' = Append(concat, Part(file.version, offset, ChunkSize))
  /\ IF count + 1 > MaxChunks
       THEN Return(FALSE)
       ELSE /\ count' = count + 1
            /\ offset' = offset + ChunkSize
            /\ UNCHANGED <<pc, ok, remote, chunk, parts>>
  /\ UNCHANGED <<file, object, begun, session, excused, clean, faults, calls>>

(* The last chunk, if anything is left: the etag is complete.               *)
LastChunk(n) == IF n = 0 THEN concat ELSE Append(concat, Part(file.version, offset, n))

(* Mutant of LocalEtag: a file of exactly one chunk counts as small.        *)
LocalEtagStrict ==
  LET n == Readable(offset)
      list == IF LastChunk(n) = <<>> THEN <<Part(0, 0, 0)>> ELSE LastChunk(n)
      chunks == IF n = 0 THEN count ELSE count + 1
  IN  IF offset + n > ChunkSize THEN Etag(list, chunks) ELSE Etag(list, 0)

LocalEtag ==
  LET n == Readable(offset)
      list == IF LastChunk(n) = <<>> THEN <<Part(0, 0, 0)>> ELSE LastChunk(n)
      chunks == IF n = 0 THEN count ELSE count + 1
  IN  IF offset + n >= ChunkSize THEN Etag(list, chunks) ELSE Etag(list, 0)

CompareEtag ==
  /\ pc = "etag"
  /\ Readable(offset) < ChunkSize
  /\ concat' = <<>>
  /\ IF LocalEtag = remote
       THEN Return(TRUE)
       ELSE Rewind("first") /\ ok' = ok
  /\ UNCHANGED <<file, object, begun, session, excused, clean, faults, calls>>

(* Open or read fails: concat_md5 keeps what it has.                        *)
HashFails ==
  /\ pc = "etag"
  /\ Fault
  /\ Return(FALSE)
  /\ UNCHANGED <<file, object, begun, concat, session, excused, clean, calls>>

-----------------------------------------------------------------------------
(* do_upload: open the file and read the first chunk.                       *)
ReadFirst ==
  /\ pc = "first"
  /\ chunk' = Readable(0)
  /\ offset' = 0
  /\ pc' = IF chunk' < ChunkSize THEN "put" ELSE "create"
  /\ UNCHANGED <<file, object, begun, ok, remote, concat, count, parts, session, excused, clean, faults, calls>>

ReadFirstFails ==
  /\ pc = "first"
  /\ Fault
  /\ Return(FALSE)
  /\ UNCHANGED <<file, object, begun, concat, session, excused, clean, calls>>

Stored(size, etag) == [version |-> file.version, size |-> size, etag |-> etag]

PutObject ==
  /\ pc = "put"
  /\ object' = Stored(chunk, Etag(<<Part(file.version, 0, chunk)>>, 0))
  /\ \/ Return(TRUE) /\ UNCHANGED faults
     \/ Return(FALSE) /\ Fault
  /\ UNCHANGED <<file, begun, concat, session, excused, clean, calls>>

PutObjectFails ==
  /\ pc = "put"
  /\ Fault
  /\ Return(FALSE)
  /\ UNCHANGED <<file, object, begun, concat, session, excused, clean, calls>>

-----------------------------------------------------------------------------
(* MultipartUploader.                                                       *)
CreateUpload ==
  /\ pc = "create"
  /\ session' = TRUE
  /\ pc' = "part"
  /\ UNCHANGED <<file, object, begun, ok, local, concat, excused, clean, faults, calls>>

(* Without an answer there is no upload_id, and without that no abort.      *)
CreateUploadFails ==
  /\ pc = "create"
  /\ Fault
  /\ \E opened \in BOOLEAN : session' = opened /\ excused' = opened
  /\ Return(FALSE)
  /\ UNCHANGED <<file, object, begun, concat, clean, calls>>

UploadPart ==
  /\ pc = "part" /\ chunk # 0
  /\ count < MaxChunks
  /\ parts' = Append(parts, Part(file.version, offset, chunk))
  /\ offset' = offset + chunk
  /\ chunk' = 0
  /\ pc' = "read"
  /\ UNCHANGED <<file, object, begun, ok, remote, concat, count, session, excused, clean, faults, calls>>

(* Mutant of ReadNext: the end of the file is waited out.                   *)
ReadNextFollows ==
  /\ pc = "read"
  /\ Readable(offset) # 0
  /\ chunk' = Readable(offset)
  /\ count' = count + 1
  /\ pc' = "part"
  /\ UNCHANGED <<file, object, begun, ok, remote, concat, offset, parts, session, excused, clean, faults, calls>>

(* Mutant of ReadNext: the parts are counted down.                          *)
ReadNextDown ==
  /\ pc = "read"
  /\ chunk' = Readable(offset)
  /\ count' = count - 1
  /\ pc' = IF chunk' = 0 THEN "complete" ELSE "part"
  /\ UNCHANGED <<file, object, begun, ok, remote, concat, offset, parts, session, excused, clean, faults, calls>>

ReadNext ==
  /\ pc = "read"
  /\ chunk' = Readable(offset)
  /\ count' = count + 1
  /\ pc' = IF chunk' = 0 THEN "complete" ELSE "part"
  /\ UNCHANGED <<file, object, begun, ok, remote, concat, offset, parts, session, excused, clean, faults, calls>>

(* Mutant of TooLarge: the file is cut off at the limit.                    *)
TruncateAtLimit ==
  /\ pc = "part" /\ chunk # 0
  /\ count >= MaxChunks
  /\ pc' = "complete"
  /\ UNCHANGED <<file, object, begun, ok, local, concat, session, excused, clean, faults, calls>>

TooLarge ==
  /\ pc = "part" /\ chunk # 0
  /\ count >= MaxChunks
  /\ pc' = "abort"
  /\ UNCHANGED <<file, object, begun, ok, local, concat, session, excused, clean, faults, calls>>

(* S3 assembles the parts; all but the last must have a minimum size, which *)
(* a chunk cut short by the end of a file that then grew may miss.          *)
TooSmall == \E i \in 1..(Len(parts) - 1) : parts[i][3] < ChunkSize

CompleteUpload ==
  /\ pc = "complete"
  /\ object' = Stored(offset, Etag(parts, Len(parts)))
  /\ session' = FALSE
  /\ \/ Return(TRUE) /\ UNCHANGED faults
     \/ Fault /\ pc' = "abort" /\ UNCHANGED <<ok, local>>
  /\ UNCHANGED <<file, begun, concat, excused, clean, calls>>

(* Mutant of StepFails: the error is returned without an abort.             *)
StepFailsOutright ==
  /\ pc \in {"part", "read", "complete"}
  /\ \/ Fault
     \/ pc = "complete" /\ TooSmall /\ UNCHANGED faults
  /\ Return(FALSE)
  /\ UNCHANGED <<file, object, begun, concat, session, excused, clean, calls>>

(* Any request or read of do_upload fails, the request without effect.      *)
StepFails ==
  /\ pc \in {"part", "read", "complete"}
  /\ \/ Fault
     \/ pc = "complete" /\ TooSmall /\ UNCHANGED faults
  /\ pc' = "abort"
  /\ UNCHANGED <<file, object, begun, ok, local, concat, session, excused, clean, calls>>

AbortUpload ==
  /\ pc = "abort"
  /\ session' = FALSE
  /\ Return(FALSE)
  /\ UNCHANGED <<file, object, begun, concat, excused, clean, faults, calls>>

AbortUploadFails ==
  /\ pc = "abort"
  /\ Fault
  /\ excused' = TRUE
  /\ Return(FALSE)
  /\ UNCHANGED <<file, object, begun, concat, session, clean, calls>>

-----------------------------------------------------------------------------
UploadStep ==
  \/ FetchEtag \/ HashChunk \/ CompareEtag \/ HashFails
  \/ ReadFirst \/ ReadFirstFails \/ PutObject \/ PutObjectFails
  \/ CreateUpload \/ CreateUploadFails \/ UploadPart \/ ReadNext \/ TooLarge
  \/ CompleteUpload \/ StepFails \/ AbortUpload \/ AbortUploadFails

Next == Grow \/ Replace \/ Upload \/ UploadStep

Spec == Init /\ [][Next]_vars

(* Requests are answered or fail.                                           *)
FairSpec == Spec /\ WF_vars(UploadStep)

-----------------------------------------------------------------------------
Digests == Seq(Nat \X Nat \X Nat)

(* Type invariant.                                                          *)
TypeOK ==
  /\ file \in [version : Nat, size : Nat]
  /\ object \in [version : Nat, size : Nat, etag : [of : Digests, parts : Nat]]
  /\ pc \in {"idle", "head", "etag", "first", "put", "create", "part", "read",
             "complete", "abort"}
  /\ begun \in Nat /\ count \in Nat /\ offset \in Nat /\ chunk \in Nat
  /\ faults \in Nat /\ calls \in Nat
  /\ ok \in BOOLEAN /\ session \in BOOLEAN /\ excused \in BOOLEAN /\ clean \in BOOLEAN
  /\ remote \in [of : Digests, parts : Nat]
  /\ concat \in Digests
  /\ parts \in Digests

(* A call of `upload' is atomic for the rest of the sink: the object is     *)
(* replaced as a whole or not at all, Ok means the store has the file as it *)
(* was when the call began or newer, and equal etags are never a false      *)
(* alarm, with whatever an earlier error left in concat_md5                 *)
(* (uploader.rs:40-62, 76-90, 173-196).                                     *)
Promise == INSTANCE AtomicUpload
  WITH object <- [version |-> object.version, size |-> object.size], busy <- pc # "idle"

ImplementsAtomicUpload == Promise!Spec

(* A multipart upload that did not complete is aborted, so its parts do not *)
(* stay (and cost) in the bucket, unless the store did not answer the       *)
(* request that would have told its id or aborted it (uploader.rs:161-171). *)
NoSessionLeft == pc = "idle" /\ session => excused

(* etag_calculator.rs and the uploader cut a file into the same parts at    *)
(* every size, so an object that is the file is not uploaded again when HEAD*)
(* answers, unless an error left digests of another file in concat_md5 or   *)
(* the parts were cut short because the file grew under the upload          *)
(* (etag_calculator.rs:29-77, uploader.rs:76-90).                           *)
EvenParts == \A i \in 1..(Len(object.etag.of) - 1) : object.etag.of[i][3] = ChunkSize
NoRedundantUpload ==
  [][pc = "etag" /\ pc' = "first" /\ clean /\ EvenParts =>
       ~(object.version = file.version /\ object.size = file.size)]_vars

(* A call returns, also when the file is growing while it is read: the loops*)
(* end at the chunk limit if not at the end of the file                     *)
(* (etag_calculator.rs:49, uploader.rs:178).                                *)
UploadReturns == pc = "head" ~> pc = "idle"

(* "limit the capacity to avoid occupying too much memory"                  *)
(* (etag_calculator.rs:69): what the calculator keeps between calls stays   *)
(* under MAX_CAPACITY.                                                      *)
KeepsLittle == pc = "idle" => Len(concat) <= MaxCapacity
===============================================================================
