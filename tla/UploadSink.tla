------------------------------ MODULE UploadSink ------------------------------
(***************************************************************************)
(* The event loop shared by the two upload sinks                            *)
(* (extensions/aws-s3-upload-file/src/processor.rs and                      *)
(* extensions/gcp-cloud-storage-upload-file/src/processor.rs) with the      *)
(* outline of their uploaders, the checkpoints of CheckpointView, the files *)
(* other programs write and the store the files go to.                      *)
(*                                                                          *)
(* A file is Chunks chunks that are read one after the other; its content   *)
(* is the version that was written, so an object that mixes versions was    *)
(* read while the file changed.  A write is a new version and a new         *)
(* modification time; the clock never goes back; every key has an object of *)
(* its own, and nobody but the sink writes to it.                           *)
(***************************************************************************)
EXTENDS CheckpointView, Sequences

CONSTANTS
  ExpireAfter,  \* expire_after
  Chunks,       \* reads it takes to go through a file
  CoarseMtime,  \* may a write share its timestamp with what came before it?
  MaxTime,      \* bound: where the clock stops
  MaxWrites,    \* bound: writes to the files
  MaxFaults     \* bound: failed calls and crashes

ASSUME SinkAssumption ==
  /\ ExpireAfter \in Nat
  /\ Chunks \in Nat \ {0}
  /\ CoarseMtime \in BOOLEAN
  /\ {MaxTime, MaxWrites, MaxFaults} \subseteq Nat

VARIABLES
  now,          \* the clock
  file,         \* key -> version of the file, 0 when there is none
  mtime,        \* key -> modification time of the file
  writes,       \* versions written so far
  object,       \* key -> the versions in the stored object, <<>> when there is none
  checkpoints,  \* Checkpointer.checkpoints
  last,         \* Checkpointer.last
  tmp, stable,  \* the two checkpoint files
  pending,      \* pending_uploads
  queue,        \* delay_queue, with the newest version an event of the entry saw
  pc,           \* where the loop is
  job,          \* the upload in progress
  delivered,    \* history: key -> newest version vouched for by a Delivered status
  faults        \* faults so far

environment == <<file, mtime, writes>>
checkpointer == <<checkpoints, last, tmp, stable>>
vars == <<now, environment, object, checkpointer, pending, queue, pc, job, delivered, faults>>

Content(version) == [i \in 1..Chunks |-> version]

(* key and seen come from the queue entry; remote is the object whose hash  *)
(* was fetched, open the version of the file when it was opened and got the *)
(* chunks read since.                                                       *)
Job(key, seen, time) ==
  [key |-> key, seen |-> seen, upload_time |-> time, remote |-> <<>>, open |-> 0, got |-> <<>>]

Loading == pc \in {"hash", "put"}
Uploading == pc = "head" \/ Loading

Init ==
  /\ now = 0
  /\ file = [k \in Keys |-> 0]
  /\ mtime = [k \in Keys |-> 0]
  /\ writes = 0
  /\ object = [k \in Keys |-> <<>>]
  /\ checkpoints = EmptyView
  /\ last = {}
  /\ tmp = NoFile
  /\ stable = NoFile
  /\ pending = {}
  /\ queue = {}
  /\ pc = "select"
  /\ job \in {Job(k, 0, 0) : k \in Keys}
  /\ delivered = [k \in Keys |-> 0]
  /\ faults = 0

-----------------------------------------------------------------------------
(* The environment.                                                         *)
Tick ==
  /\ now < MaxTime
  /\ now' = now + 1
  /\ UNCHANGED <<environment, object, checkpointer, pending, queue, pc, job, delivered, faults>>

WriteFile(key) ==
  /\ writes < MaxWrites
  /\ \/ now' = now + 1
     \/ CoarseMtime /\ now' = now
  /\ writes' = writes + 1
  /\ file' = [file EXCEPT ![key] = writes']
  /\ mtime' = [mtime EXCEPT ![key] = now']
  /\ UNCHANGED <<object, checkpointer, pending, queue, pc, job, delivered, faults>>

DeleteFile(key) ==
  /\ file[key] # 0
  /\ writes < MaxWrites
  /\ writes' = writes + 1
  /\ file' = [file EXCEPT ![key] = 0]
  /\ UNCHANGED <<now, mtime, object, checkpointer, pending, queue, pc, job, delivered, faults>>

-----------------------------------------------------------------------------
(* Mutant of Answered: the modification time is not looked at.              *)
AnsweredEver(key) == checkpoints.upload_times[key] # NoTime

(* The input branch of the select! loop.                                    *)
Answered(key) == Contains(checkpoints, key, mtime[key])

(* Mutant of Enqueue: pending_uploads is not asked.                         *)
EnqueueAlways(key) ==
  /\ pc = "select" /\ file[key] # 0
  /\ ~Answered(key)
  /\ pending' = pending \cup {key}
  /\ queue' = queue \cup {[key |-> key, seen |-> file[key]]}
  /\ UNCHANGED <<now, environment, object, checkpointer, pc, job, delivered, faults>>

Enqueue(key) ==
  /\ pc = "select" /\ file[key] # 0
  /\ ~Answered(key) /\ key \notin pending
  /\ pending' = pending \cup {key}
  /\ queue' = queue \cup {[key |-> key, seen |-> file[key]]}
  /\ UNCHANGED <<now, environment, object, checkpointer, pc, job, delivered, faults>>

(* Delivered at once on the strength of a checkpoint ...                    *)
AnswerFromCheckpoint(key) ==
  /\ pc = "select" /\ file[key] # 0
  /\ Answered(key)
  /\ delivered' = [delivered EXCEPT ![key] = file[key]]
  /\ UNCHANGED <<now, environment, object, checkpointer, pending, queue, pc, job, faults>>

(* ... or of an upload of the same key that waits in the queue.             *)
AnswerFromPending(key) ==
  /\ pc = "select" /\ file[key] # 0
  /\ ~Answered(key) /\ key \in pending
  /\ queue' = {IF e.key = key THEN [e EXCEPT !.seen = file[key]] ELSE e : e \in queue}
  /\ UNCHANGED <<now, environment, object, checkpointer, pending, pc, job, delivered, faults>>

(* An event whose file cannot be statted is rejected.                       *)
RejectEvent(key) ==
  /\ pc = "select" /\ file[key] = 0
  /\ UNCHANGED vars

HandleEvent(key) ==
  Enqueue(key) \/ AnswerFromCheckpoint(key) \/ AnswerFromPending(key) \/ RejectEvent(key)

(* The delay_queue branch.                                                  *)
StartUpload(e) ==
  /\ pc = "select"
  /\ queue' = queue \ {e}
  /\ pending' = pending \ {e.key}
  /\ job' = Job(e.key, e.seen, now)
  /\ pc' = "head"
  /\ UNCHANGED <<now, environment, object, checkpointer, delivered, faults>>

-----------------------------------------------------------------------------
(* upload: need_upload, then do_upload.                                     *)

(* HEAD answers with the hash of the object, or fails and is ignored.       *)
FetchEtag ==
  /\ pc = "head"
  /\ \/ object[job.key] # <<>> /\ job' = [job EXCEPT !.remote = object[job.key]] /\ pc' = "hash"
     \/ job' = job /\ pc' = "put"
  /\ UNCHANGED <<now, environment, object, checkpointer, pending, queue, delivered, faults>>

OpenFile ==
  /\ Loading /\ job.open = 0
  /\ file[job.key] # 0
  /\ job' = [job EXCEPT !.open = file[job.key]]
  /\ UNCHANGED <<now, environment, object, checkpointer, pending, queue, pc, delivered, faults>>

(* A write in place shows in the next read; after a deletion or a           *)
(* replacement the open descriptor still reads the old file.                *)
ReadChunk ==
  /\ Loading /\ job.open # 0
  /\ Len(job.got) < Chunks
  /\ \E v \in {job.open, file[job.key]} \ {0} : job' = [job EXCEPT !.got = Append(@, v)]
  /\ UNCHANGED <<now, environment, object, checkpointer, pending, queue, pc, delivered, faults>>

WholeFile == Loading /\ Len(job.got) = Chunks

(* Mutant of Finish: the upload is recorded at the time it ended.           *)
FinishLate ==
  /\ delivered' = [delivered EXCEPT ![job.key] = job.seen]
  /\ checkpoints' = UpdateView(checkpoints, job.key, now, now + ExpireAfter)
  /\ job' = Job(job.key, 0, 0)
  /\ pc' = "persist"

(* Mutant of Finish: the operands of the expiry are swapped and subtracted. *)
FinishBackwards ==
  /\ delivered' = [delivered EXCEPT ![job.key] = job.seen]
  /\ checkpoints' = UpdateView(checkpoints, job.key, job.upload_time, ExpireAfter - job.upload_time)
  /\ job' = Job(job.key, 0, 0)
  /\ pc' = "persist"

Finish ==
  /\ delivered' = [delivered EXCEPT ![job.key] = job.seen]
  /\ checkpoints' = UpdateView(checkpoints, job.key, job.upload_time, job.upload_time + ExpireAfter)
  /\ job' = Job(job.key, 0, 0)
  /\ pc' = "persist"

(* Mutant of SkipUpload: a prefix is compared.                              *)
SkipUploadOnPrefix ==
  /\ pc = "hash" /\ WholeFile
  /\ Head(job.got) = Head(job.remote)
  /\ Finish
  /\ UNCHANGED <<now, environment, object, last, tmp, stable, pending, queue, faults>>

(* Equal hashes: the object is up to date and nothing is sent.              *)
SkipUpload ==
  /\ pc = "hash" /\ WholeFile
  /\ job.got = job.remote
  /\ Finish
  /\ UNCHANGED <<now, environment, object, last, tmp, stable, pending, queue, faults>>

(* Different hashes, which equal content can have too: an S3 etag depends   *)
(* on how the object was uploaded.                                          *)
HashDiffers ==
  /\ pc = "hash" /\ WholeFile
  /\ job' = [job EXCEPT !.remote = <<>>, !.open = 0, !.got = <<>>]
  /\ pc' = "put"
  /\ UNCHANGED <<now, environment, object, checkpointer, pending, queue, delivered, faults>>

PutObject ==
  /\ pc = "put" /\ WholeFile
  /\ object' = [object EXCEPT ![job.key] = job.got]
  /\ Finish
  /\ UNCHANGED <<now, environment, last, tmp, stable, pending, queue, faults>>

(* What the store may hold after a request whose answer never came.         *)
MaybeStored == {object} \cup
  (IF pc = "put" /\ WholeFile THEN {[object EXCEPT ![job.key] = job.got]} ELSE {})

(* Mutant of UploadFails: the key stays pending.                            *)
UploadFailsPending ==
  /\ Loading
  /\ \/ job.open = 0 /\ file[job.key] = 0 /\ faults' = faults
     \/ faults < MaxFaults /\ faults' = faults + 1
  /\ object' \in MaybeStored
  /\ pending' = pending \cup {job.key}
  /\ job' = Job(job.key, 0, 0)
  /\ pc' = "persist"
  /\ UNCHANGED <<now, environment, checkpointer, queue, delivered>>

(* Any `?' of the uploader.  A missing file is no fault of the bounded kind.*)
UploadFails ==
  /\ Loading
  /\ \/ job.open = 0 /\ file[job.key] = 0 /\ faults' = faults
     \/ faults < MaxFaults /\ faults' = faults + 1
  /\ object' \in MaybeStored
  /\ job' = Job(job.key, 0, 0)
  /\ pc' = "persist"
  /\ UNCHANGED <<now, environment, checkpointer, pending, queue, delivered>>

-----------------------------------------------------------------------------
(* write_checkpoints, after every upload, failed or not.                    *)
NextState == GetState(RemoveExpired(checkpoints, now), now)
Leaves(outcomes) == \E files \in outcomes : tmp' = files[1] /\ stable' = files[2]

Persist ==
  /\ pc = "persist"
  /\ checkpoints' = RemoveExpired(checkpoints, now)
  /\ \/ /\ NextState = last
        /\ UNCHANGED <<last, tmp, stable, faults>>
     \/ /\ NextState # last
        /\ Leaves({WriteSucceeds(NextState)})
        /\ last' = NextState
        /\ UNCHANGED faults
     \/ /\ NextState # last
        /\ faults < MaxFaults /\ faults' = faults + 1
        /\ Leaves(WriteFailures(tmp, stable, NextState))
        /\ UNCHANGED last
  /\ pc' = "select"
  /\ UNCHANGED <<now, environment, object, pending, queue, job, delivered>>

-----------------------------------------------------------------------------
(* The process ends: the input stream is over, or it dies, inside           *)
(* write_checkpoints perhaps.  What waits in the queue is dropped.          *)
Stop ==
  /\ pc' = "down"
  /\ checkpoints' = EmptyView
  /\ last' = {}
  /\ pending' = {}
  /\ queue' = {}
  /\ job' = Job(job.key, 0, 0)
  /\ UNCHANGED <<now, environment, delivered>>

OneMoreFault == faults < MaxFaults /\ faults' = faults + 1

EndOfInput ==
  /\ pc = "select"
  /\ Stop
  /\ UNCHANGED <<object, tmp, stable, faults>>

Crash ==
  /\ pc # "down"
  /\ Stop /\ OneMoreFault
  /\ object' \in MaybeStored
  /\ \/ UNCHANGED <<tmp, stable>>
     \/ /\ pc = "persist" /\ NextState # last
        /\ Leaves({WriteSucceeds(NextState)} \cup WriteFailures(tmp, stable, NextState))

Load(state) ==
  /\ checkpoints' = SetState(EmptyView, state)
  /\ last' = state

(* Checkpointer::new and read_checkpoints in build_processor: a tmp file    *)
(* that parses is moved to the stable place.                                *)
Recover ==
  /\ Load(Recoverable(tmp, stable))
  /\ IF Parses(tmp) THEN stable' = tmp /\ tmp' = NoFile ELSE UNCHANGED <<tmp, stable>>
  /\ UNCHANGED faults

(* The move fails, or the tmp file cannot be read, or neither can; all that *)
(* happens is that it is logged.                                            *)
RecoverBadly ==
  /\ OneMoreFault
  /\ \E state \in {tmp.state, stable.state, {}} : Load(state)
  /\ UNCHANGED <<tmp, stable>>

Restart ==
  /\ pc = "down"
  /\ Recover \/ RecoverBadly
  /\ pc' = "select"
  /\ UNCHANGED <<now, environment, object, pending, queue, job, delivered>>

-----------------------------------------------------------------------------
UploadStep ==
  FetchEtag \/ OpenFile \/ ReadChunk \/ SkipUpload \/ HashDiffers \/ PutObject
    \/ UploadFails \/ Persist

Next ==
  \/ Tick
  \/ \E k \in Keys : WriteFile(k) \/ DeleteFile(k)
  \/ \E k \in Keys : HandleEvent(k)
  \/ \E e \in queue : StartUpload(e)
  \/ UploadStep
  \/ EndOfInput \/ Crash \/ Restart

Spec == Init /\ [][Next]_vars

-----------------------------------------------------------------------------
Versions == 0..writes

(* Type invariant.                                                          *)
TypeOK ==
  /\ now \in Nat /\ writes \in Nat /\ faults \in Nat
  /\ file \in [Keys -> Versions]
  /\ mtime \in [Keys -> Nat]
  /\ object \in [Keys -> Seq(Versions)]
  /\ checkpoints \in View
  /\ last \in SUBSET Record
  /\ tmp \in FileContent /\ stable \in FileContent
  /\ pending \in SUBSET Keys
  /\ queue \in SUBSET [key : Keys, seen : Versions]
  /\ pc \in {"select", "head", "hash", "put", "persist", "down"}
  /\ job \in [key : Keys, seen : Versions, upload_time : Nat, remote : Seq(Versions),
              open : Versions, got : Seq(Versions)]
  /\ delivered \in [Keys -> Versions]

(* pending_uploads and delay_queue are two structures for one set of waiting*)
(* uploads: each pending key has exactly one entry, so no file is uploaded  *)
(* twice for one change and no key stays pending with nothing queued        *)
(* (processor.rs:88-90, 108).                                               *)
QueueMatchesPending ==
  /\ pending = {e.key : e \in queue}
  /\ \A d, e \in queue : d.key = e.key => d = e

(* The checkpoint answers for the object: whenever a record, in memory or   *)
(* in a file a restart may load, is recent enough to suppress an upload of  *)
(* the file as it is now, the stored object is that file, however the file  *)
(* changed, the upload failed or the process died in between                *)
(* (processor.rs:88, 110, 128, checkpointer.rs:183-189).  When a write can  *)
(* share its timestamp with an earlier step the record must be younger.     *)
Suppresses(uploadAt, key) ==
  /\ file[key] # 0
  /\ IF CoarseMtime THEN uploadAt > mtime[key] ELSE uploadAt >= mtime[key]

Stored(key) == object[key] = Content(file[key])

CheckpointSound ==
  /\ \A k \in Keys :
       checkpoints.upload_times[k] # NoTime /\ Suppresses(checkpoints.upload_times[k], k)
         => Stored(k)
  /\ \A c \in last \cup tmp.state \cup stable.state :
       Suppresses(c.upload_at, c.upload_key) => Stored(c.upload_key)

(* A status of Delivered that rests on a checkpoint or on a finished upload *)
(* means the store has the file as the event saw it, or newer, in every     *)
(* chunk, and no later failure or crash takes that back                     *)
(* (processor.rs:92, 122).                                                  *)
DeliveredCovered ==
  \A k \in Keys : delivered[k] # 0 =>
    /\ object[k] # <<>>
    /\ \A i \in DOMAIN object[k] : object[k][i] >= delivered[k]

(* "The expire time of uploaded file records which used to prevent          *)
(* duplicate uploads" (aws-s3-upload-file/src/config.rs:46): past it a      *)
(* record should no longer suppress an upload.                              *)
ExpiredNeverSuppresses ==
  \A k \in Keys :
    pc = "select" /\ file[k] # 0 /\ Answered(k) => checkpoints.expire_times[k] >= now
===============================================================================
