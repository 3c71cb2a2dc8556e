--------------------------- MODULE UploadSink_proofs ---------------------------
(***************************************************************************)
(* Proofs about UploadSink and about UploadPipeline, which puts a source in *)
(* front of it, for every set of files, every expiry, chunk size and size   *)
(* of the channel and every length of run.                                  *)
(***************************************************************************)
EXTENDS UploadPipeline, CheckpointView_proofs, SequenceTheorems, TLAPS

(* The outline of a job holds whatever the version of the last write is.    *)
JobType(w) == [key : Keys, seen : 0..w, upload_time : Nat, remote : Seq(0..w),
               open : 0..w, got : Seq(0..w)]

(* A new version makes no version, object or job ill-typed.                 *)
LEMMA VersionsGrow ==
  ASSUME TypeOK
  PROVE  /\ writes + 1 \in Nat
         /\ Versions \subseteq 0..(writes + 1) /\ writes + 1 \in 0..(writes + 1)
         /\ object \in [Keys -> Seq(0..(writes + 1))]
         /\ queue \in SUBSET [key : Keys, seen : 0..(writes + 1)]
         /\ job \in JobType(writes + 1)
         /\ delivered \in [Keys -> 0..(writes + 1)]
<1> USE DEF TypeOK, Versions
<1>1. Versions \subseteq 0..(writes + 1)
  OBVIOUS
<1>2. ASSUME NEW s \in Seq(Versions) PROVE s \in Seq(0..(writes + 1))
  BY <1>1, <1>2, SeqMonotonic
<1>3. job \in JobType(writes + 1)
  BY <1>1, <1>2 DEF JobType
<1>4. object \in [Keys -> Seq(0..(writes + 1))]
  BY <1>2
<1> QED
  BY <1>1, <1>3, <1>4, SMTT(30)

(* A job that has read nothing is well-typed.                               *)
LEMMA FreshJob ==
  ASSUME writes \in Nat, NEW k \in Keys, NEW v \in Versions, NEW t \in Nat
  PROVE  Job(k, v, t) \in JobType(writes)
BY EmptySeq DEF Job, JobType, Versions

(* Whatever the store makes of a lost request is an object.                 *)
LEMMA MaybeStoredType ==
  ASSUME TypeOK, NEW o \in MaybeStored
  PROVE  o \in [Keys -> Seq(Versions)]
BY DEF TypeOK, MaybeStored

(* So are the files a write of checkpoints can leave.                       *)
LEMMA WriteTypes ==
  ASSUME TypeOK,
         NEW files \in {WriteSucceeds(NextState)} \cup WriteFailures(tmp, stable, NextState)
  PROVE  files[1] \in FileContent /\ files[2] \in FileContent
<1>1. NextState \in SUBSET Record
  BY ViewTypes DEF TypeOK, NextState
<1> QED
  BY <1>1 DEF TypeOK, WriteSucceeds, WriteFailures, FileContent, NoFile, Garbage, File

(* The state a restart loads is a set of records.                           *)
(* A restart, good or bad, loads records of the files and leaves the files, *)
(* one of them moved perhaps.                                               *)
LEMMA RestartLoads ==
  ASSUME TypeOK, Restart
  PROVE  /\ \E state \in SUBSET Record : state \subseteq tmp.state \cup stable.state /\ Load(state)
         /\ {tmp', stable'} \subseteq {tmp, stable, NoFile} /\ faults' \in Nat
         /\ UNCHANGED <<now, environment, object, pending, queue, job, delivered>> /\ pc' = "select"
<1>1. tmp.state \in SUBSET Record /\ stable.state \in SUBSET Record
  BY DEF TypeOK, FileContent
<1>2. CASE Recover
  <2>1. Recoverable(tmp, stable) \in {tmp.state, stable.state} /\ Load(Recoverable(tmp, stable))
    BY <1>2 DEF Recover, Recoverable
  <2>2. {tmp', stable'} \subseteq {tmp, stable, NoFile} /\ faults' \in Nat
    BY <1>2 DEF Recover, TypeOK
  <2> QED
    BY <1>1, <2>1, <2>2 DEF Restart
<1>3. CASE RecoverBadly
  <2>1. \E state \in {tmp.state, stable.state, {}} : Load(state)
    BY <1>3 DEF RecoverBadly
  <2>2. {tmp', stable'} \subseteq {tmp, stable, NoFile} /\ faults' \in Nat
    BY <1>3 DEF RecoverBadly, OneMoreFault, TypeOK
  <2> QED
    BY <1>1, <2>1, <2>2 DEF Restart
<1> QED
  BY <1>2, <1>3 DEF Restart

(* Every variable of the sink keeps its type: no upload, failed call, crash *)
(* or restart leaves the queue, the records or an object ill-formed         *)
(* (processor.rs:84-132, checkpointer.rs:13-18).                            *)
THEOREM SinkTypeCorrect == Spec => []TypeOK
<1>1. Init => TypeOK
  <2> SUFFICES ASSUME Init PROVE TypeOK
    OBVIOUS
  <2>1. PICK k \in Keys : job = Job(k, 0, 0)
    BY DEF Init
  <2>2. job \in JobType(writes)
    BY <2>1, FreshJob DEF Init, Versions
  <2>3. <<>> \in Seq(Versions)
    BY EmptySeq
  <2>4. EmptyView \in View
    BY DEF EmptyView, View, NoTime
  <2> QED
    BY <2>2, <2>3, <2>4 DEF Init, TypeOK, JobType, Versions, FileContent, NoFile
<1>2. TypeOK /\ [Next]_vars => TypeOK'
  <2> SUFFICES ASSUME TypeOK, [Next]_vars PROVE TypeOK'
    OBVIOUS
  <2> USE DEF environment, checkpointer
  <2>0. job \in JobType(writes)
    BY DEF TypeOK, JobType, Versions
  <2>a. writes' = writes => Versions' = Versions
    BY DEF Versions
  <2>b. writes' = writes + 1 => Versions' = 0..(writes + 1)
    BY DEF Versions
  <2>1. CASE Tick
    BY <2>a, <2>1 DEF TypeOK, Tick
  <2>2. ASSUME NEW k \in Keys, WriteFile(k) PROVE TypeOK'
    <3>0. now' \in Nat
      BY <2>2 DEF TypeOK, WriteFile
    <3>1. file' \in [Keys -> 0..(writes + 1)] /\ mtime' \in [Keys -> Nat]
      BY <2>2, <3>0, VersionsGrow DEF TypeOK, WriteFile
    <3> QED
      BY <2>b, <2>2, <3>1, VersionsGrow DEF TypeOK, JobType, WriteFile
  <2>3. ASSUME NEW k \in Keys, DeleteFile(k) PROVE TypeOK'
    <3>1. file' \in [Keys -> 0..(writes + 1)]
      BY <2>3, VersionsGrow DEF TypeOK, DeleteFile
    <3> QED
      BY <2>b, <2>3, <3>1, VersionsGrow DEF TypeOK, JobType, DeleteFile
  <2>4. ASSUME NEW k \in Keys, Enqueue(k) PROVE TypeOK'
    <3>1. [key |-> k, seen |-> file[k]] \in [key : Keys, seen : Versions]
      BY DEF TypeOK
    <3>2. queue' \in SUBSET [key : Keys, seen : Versions]
      BY <2>4, <3>1 DEF TypeOK, Enqueue
    <3> QED
      BY <2>a, <2>4, <3>2 DEF TypeOK, Enqueue
  <2>5. ASSUME NEW k \in Keys, AnswerFromCheckpoint(k) PROVE TypeOK'
    BY <2>5 DEF TypeOK, Versions, AnswerFromCheckpoint
  <2>6. ASSUME NEW k \in Keys, AnswerFromPending(k) PROVE TypeOK'
    <3>1. \A e \in queue : [e EXCEPT !.seen = file[k]] \in [key : Keys, seen : Versions]
      BY DEF TypeOK
    <3>2. queue' \in SUBSET [key : Keys, seen : Versions]
      BY <2>6, <3>1 DEF TypeOK, AnswerFromPending
    <3> QED
      BY <2>a, <2>6, <3>2 DEF TypeOK, AnswerFromPending
  <2>7. ASSUME NEW e \in queue, StartUpload(e) PROVE TypeOK'
    <3>1. job' \in JobType(writes)
      BY <2>7, FreshJob DEF TypeOK, StartUpload
    <3> QED
      BY <2>7, <3>1 DEF TypeOK, JobType, Versions, StartUpload
  <2>8. CASE FetchEtag
    <3>1. job' \in JobType(writes)
      BY <2>0, <2>8 DEF FetchEtag, TypeOK, JobType, Versions
    <3> QED
      BY <2>8, <3>1 DEF TypeOK, JobType, Versions, FetchEtag
  <2>9. CASE OpenFile
    BY <2>9 DEF TypeOK, Versions, OpenFile
  <2>10. CASE ReadChunk
    <3>1. PICK v \in {job.open, file[job.key]} \ {0} : job' = [job EXCEPT !.got = Append(@, v)]
      BY <2>10 DEF ReadChunk
    <3>2. v \in Versions /\ Append(job.got, v) \in Seq(Versions)
      BY <3>1 DEF TypeOK
    <3>3. job' \in JobType(writes)
      BY <2>0, <3>1, <3>2 DEF JobType, Versions
    <3> QED
      BY <2>10, <3>3 DEF TypeOK, JobType, Versions, ReadChunk
  <2>11. ASSUME Finish PROVE /\ checkpoints' \in View /\ job' \in JobType(writes)
                             /\ delivered' \in [Keys -> Versions] /\ pc' = "persist"
    <3>1. UpdateView(checkpoints, job.key, job.upload_time, job.upload_time + ExpireAfter) \in View
      BY ViewTypes, SinkAssumption DEF TypeOK
    <3>2. Job(job.key, 0, 0) \in JobType(writes)
      BY FreshJob DEF TypeOK, Versions
    <3> QED
      BY <2>11, <3>1, <3>2 DEF TypeOK, Finish
  <2>12. CASE SkipUpload
    BY <2>11, <2>12 DEF TypeOK, JobType, Versions, SkipUpload
  <2>13. CASE HashDiffers
    <3>0. <<>> \in Seq(0..writes) /\ 0 \in 0..writes
      BY EmptySeq DEF TypeOK
    <3>1. job' \in JobType(writes)
      BY <2>0, <2>13, <3>0 DEF HashDiffers, JobType
    <3> QED
      BY <2>13, <3>1 DEF TypeOK, JobType, Versions, HashDiffers
  <2>14. CASE PutObject
    <3>1. object' \in [Keys -> Seq(Versions)]
      BY <2>14 DEF TypeOK, PutObject
    <3> QED
      BY <2>11, <2>14, <3>1 DEF TypeOK, JobType, Versions, PutObject
  <2>15. Job(job.key, 0, 0) \in JobType(writes)
    BY FreshJob DEF TypeOK, Versions
  <2>16. CASE UploadFails
    <3>1. object' \in [Keys -> Seq(Versions)]
      BY <2>16, MaybeStoredType DEF UploadFails
    <3>2. job' \in JobType(writes) /\ faults' \in Nat
      BY <2>15, <2>16 DEF TypeOK, UploadFails
    <3>3. job' \in [key : Keys, seen : Versions, upload_time : Nat, remote : Seq(Versions),
                    open : Versions, got : Seq(Versions)]
      BY <3>2 DEF JobType, Versions
    <3> QED
      BY <2>a, <2>16, <3>1, <3>2, <3>3 DEF TypeOK, UploadFails
  <2>17. CASE Persist
    <3>1. NextState \in SUBSET Record /\ RemoveExpired(checkpoints, now) \in View
      BY ViewTypes DEF TypeOK, NextState
    <3>2. tmp' \in FileContent /\ stable' \in FileContent
      BY <2>17, WriteTypes DEF Persist, Leaves, TypeOK
    <3>3. faults' \in Nat /\ last' \in SUBSET Record
      BY <2>17, <3>1 DEF Persist, TypeOK
    <3> QED
      BY <2>17, <3>1, <3>2, <3>3 DEF TypeOK, Versions, Persist
  <2>18. ASSUME Stop, faults' \in Nat, object' \in [Keys -> Seq(Versions)],
                tmp' \in FileContent, stable' \in FileContent
         PROVE  TypeOK'
    <3>1. job' \in [key : Keys, seen : Versions, upload_time : Nat, remote : Seq(Versions),
                    open : Versions, got : Seq(Versions)]
      BY <2>15, <2>18 DEF JobType, Versions, Stop
    <3>2. checkpoints' \in View
      BY <2>18, ViewTypes DEF TypeOK, Stop
    <3> QED
      BY <2>a, <2>18, <3>1, <3>2 DEF TypeOK, Stop
  <2>19. CASE EndOfInput
    BY <2>18, <2>19 DEF TypeOK, EndOfInput
  <2>20. CASE Crash
    <3>1. object' \in [Keys -> Seq(Versions)]
      BY <2>20, MaybeStoredType DEF Crash
    <3>2. tmp' \in FileContent /\ stable' \in FileContent
      BY <2>20, WriteTypes DEF Crash, Leaves, TypeOK
    <3>3. faults' \in Nat
      BY <2>20 DEF Crash, OneMoreFault, TypeOK
    <3> QED
      BY <2>18, <2>20, <3>1, <3>2, <3>3 DEF Crash
  <2>21. CASE Restart
    <3>1. tmp' \in FileContent /\ stable' \in FileContent
      BY <2>21, RestartLoads DEF TypeOK, FileContent, NoFile
    <3>2. checkpoints' \in View /\ last' \in SUBSET Record
      BY <2>21, RestartLoads, SetStateType DEF Load
    <3> QED
      BY <2>21, <3>1, <3>2, RestartLoads DEF TypeOK, Versions
  <2>22. CASE UNCHANGED vars
    BY <2>22 DEF TypeOK, Versions, vars
  <2>23. ASSUME NEW k \in Keys, HandleEvent(k) PROVE TypeOK'
    BY <2>4, <2>5, <2>6, <2>22, <2>23 DEF HandleEvent, RejectEvent
  <2>24. CASE UploadStep
    BY <2>8, <2>9, <2>10, <2>12, <2>13, <2>14, <2>16, <2>17, <2>24 DEF UploadStep
  <2> QED
    BY <2>1, <2>2, <2>3, <2>7, <2>19, <2>20, <2>21, <2>22, <2>23, <2>24 DEF Next
<1> QED
  BY <1>1, <1>2, PTL DEF Spec

-----------------------------------------------------------------------------
(* pending_uploads and delay_queue stay one set of waiting uploads, with    *)
(* one entry for each key, however events, uploads and restarts interleave  *)
(* (processor.rs:88-90, 108).                                               *)
THEOREM OneEntryPerPendingKey == Spec => []QueueMatchesPending
<1>1. Init => QueueMatchesPending
  BY DEF Init, QueueMatchesPending
<1>2. TypeOK /\ QueueMatchesPending /\ [Next]_vars => QueueMatchesPending'
  <2> SUFFICES ASSUME TypeOK, QueueMatchesPending, [Next]_vars PROVE QueueMatchesPending'
    OBVIOUS
  <2> USE DEF QueueMatchesPending, environment, checkpointer
  <2>1. ASSUME NEW k \in Keys, Enqueue(k) PROVE QueueMatchesPending'
    <3>1. \A e \in queue' : e \in queue \/ e = [key |-> k, seen |-> file[k]]
      BY <2>1 DEF Enqueue
    <3>2. [key |-> k, seen |-> file[k]] \in queue' /\ queue \subseteq queue'
      BY <2>1 DEF Enqueue
    <3>3. \A e \in queue : e.key # k
      BY <2>1 DEF Enqueue
    <3>4. {e.key : e \in queue'} = {e.key : e \in queue} \cup {k}
      BY <3>1, <3>2
    <3>5. ASSUME NEW d \in queue', NEW e \in queue', d.key = e.key PROVE d = e
      BY <3>1, <3>3, <3>5
    <3> QED
      BY <2>1, <3>4, <3>5 DEF Enqueue
  <2>2. ASSUME NEW k \in Keys, AnswerFromPending(k) PROVE QueueMatchesPending'
    <3> DEFINE Renewed(e) == IF e.key = k THEN [e EXCEPT !.seen = file[k]] ELSE e
    <3>1. \A e \in queue : Renewed(e).key = e.key
      BY DEF TypeOK
    <3>2. queue' = {Renewed(e) : e \in queue} /\ pending' = pending
      BY <2>2 DEF AnswerFromPending
    <3> HIDE DEF Renewed
    <3>3. {e.key : e \in queue'} = {e.key : e \in queue}
      BY <3>1, <3>2
    <3>4. ASSUME NEW d \in queue', NEW e \in queue', d.key = e.key PROVE d = e
      BY <3>1, <3>2, <3>4
    <3> QED
      BY <3>2, <3>3, <3>4
  <2>3. ASSUME NEW e \in queue, StartUpload(e) PROVE QueueMatchesPending'
    BY <2>3 DEF StartUpload
  <2>4. CASE EndOfInput \/ Crash
    BY <2>4 DEF EndOfInput, Crash, Stop
  <2>5. CASE UNCHANGED <<pending, queue>>
    BY <2>5
  <2>6. ASSUME NEW k \in Keys, HandleEvent(k) PROVE QueueMatchesPending'
    BY <2>1, <2>2, <2>5, <2>6 DEF HandleEvent, AnswerFromCheckpoint, RejectEvent, vars
  <2>7. CASE UploadStep
    BY <2>5, <2>7 DEF UploadStep, FetchEtag, OpenFile, ReadChunk, SkipUpload, HashDiffers,
                      PutObject, UploadFails, Persist
  <2>8. (\E k \in Keys : WriteFile(k) \/ DeleteFile(k)) => UNCHANGED <<pending, queue>>
    BY DEF WriteFile, DeleteFile
  <2>9. Tick \/ Restart \/ UNCHANGED vars => UNCHANGED <<pending, queue>>
    BY DEF Tick, Restart, vars
  <2> QED
    BY <2>3, <2>4, <2>5, <2>6, <2>7, <2>8, <2>9 DEF Next
<1> QED
  BY <1>1, <1>2, SinkTypeCorrect, PTL DEF Spec

-----------------------------------------------------------------------------
(* Somewhere there is a record that key k was uploaded at u.                *)
Claimed(k, u) ==
  \/ checkpoints.upload_times[k] = u
  \/ \E c \in last \cup tmp.state \cup stable.state : c.upload_key = k /\ c.upload_at = u

(* So that get_state never makes up a time.                                 *)
WholeRecords == Whole(checkpoints)

(* Uploads are recorded at the time they began, one after the other.        *)
ClaimsAreOld ==
  /\ Uploading => job.upload_time <= now
  /\ \A k \in Keys, u \in Nat : Claimed(k, u) => u <= now /\ (Uploading => u <= job.upload_time)

(* What CheckpointSound says, of every claim.                               *)
ClaimsHold == \A k \in Keys, u \in Nat : Claimed(k, u) /\ Suppresses(u, k) => Stored(k)

(* A file that has not been written since its upload began was read as it   *)
(* is.                                                                      *)
ReadsAreFresh ==
  Uploading /\ Suppresses(job.upload_time, job.key) =>
    /\ job.open \in {0, file[job.key]}
    /\ \A i \in DOMAIN job.got : job.got[i] = file[job.key]

(* The object whose hash was fetched is still there.                        *)
HashIsCurrent == pc = "hash" => job.remote = object[job.key]

SinkInv ==
  /\ TypeOK /\ WholeRecords /\ ClaimsAreOld /\ ClaimsHold /\ ReadsAreFresh /\ HashIsCurrent

(* Time goes on, and only the writers touch the files.                      *)
LEMMA EnvironmentSteps ==
  ASSUME TypeOK, [Next]_vars
  PROVE  \/ now' >= now /\ UNCHANGED <<file, mtime>>
         \/ \E k \in Keys : WriteFile(k) \/ DeleteFile(k)
<1> USE DEF TypeOK, environment, checkpointer
<1>1. CASE Tick
  BY <1>1 DEF Tick
<1>2. ASSUME NEW k \in Keys, HandleEvent(k) PROVE UNCHANGED <<now, file, mtime>>
  BY <1>2 DEF HandleEvent, Enqueue, AnswerFromCheckpoint, AnswerFromPending, RejectEvent, vars
<1>3. ASSUME NEW e \in queue, StartUpload(e) PROVE UNCHANGED <<now, file, mtime>>
  BY <1>3 DEF StartUpload
<1>4. UploadStep => UNCHANGED <<now, file, mtime>>
  BY DEF UploadStep, FetchEtag, OpenFile, ReadChunk, SkipUpload, HashDiffers, PutObject,
         UploadFails, Persist
<1>5. EndOfInput \/ Crash \/ Restart => UNCHANGED <<now, file, mtime>>
  BY DEF EndOfInput, Crash, Restart, Stop
<1>6. CASE UNCHANGED vars
  BY <1>6 DEF vars
<1> QED
  BY <1>1, <1>2, <1>3, <1>4, <1>5, <1>6 DEF Next

(* Only the end of an upload touches an object.                             *)
LEMMA ObjectSteps ==
  ASSUME TypeOK, [Next]_vars
  PROVE  object' \in MaybeStored
<1> USE DEF environment, checkpointer
<1>1. PutObject => object' \in MaybeStored
  BY DEF PutObject, MaybeStored
<1>2. UploadFails \/ Crash => object' \in MaybeStored
  BY DEF UploadFails, Crash
<1>3. CASE object' = object
  BY <1>3 DEF MaybeStored
<1>4. Tick \/ (\E k \in Keys : WriteFile(k) \/ DeleteFile(k)) => object' = object
  BY DEF Tick, WriteFile, DeleteFile
<1>5. ASSUME NEW k \in Keys, HandleEvent(k) PROVE object' = object
  BY <1>5 DEF HandleEvent, Enqueue, AnswerFromCheckpoint, AnswerFromPending, RejectEvent, vars
<1>6. ASSUME NEW e \in queue, StartUpload(e) PROVE object' = object
  BY <1>6 DEF StartUpload
<1>7. FetchEtag \/ OpenFile \/ ReadChunk \/ SkipUpload \/ HashDiffers \/ Persist
        => object' = object
  BY DEF FetchEtag, OpenFile, ReadChunk, SkipUpload, HashDiffers, Persist
<1>8. EndOfInput \/ Restart \/ UNCHANGED vars => object' = object
  BY DEF EndOfInput, Restart, vars
<1> QED
  BY <1>1, <1>2, <1>3, <1>4, <1>5, <1>6, <1>7, <1>8 DEF Next, UploadStep

(* An upload in progress began in this step or goes on; until it ends it    *)
(* leaves everything but itself alone.                                      *)
LEMMA UploadSteps ==
  ASSUME TypeOK, [Next]_vars, Uploading'
  PROVE  \/ \E e \in queue : StartUpload(e)
         \/ /\ Uploading
            /\ UNCHANGED <<object, checkpoints, last, tmp, stable, delivered, queue>>
            /\ UNCHANGED <<job.key, job.seen, job.upload_time>>
            /\ \/ FetchEtag \/ OpenFile \/ ReadChunk \/ HashDiffers
               \/ UNCHANGED <<job, pc>>
<1> USE DEF environment, checkpointer, Uploading, Loading
<1>1. CASE Tick \/ \E k \in Keys : WriteFile(k) \/ DeleteFile(k)
  BY <1>1 DEF Tick, WriteFile, DeleteFile
<1>2. ASSUME NEW k \in Keys, HandleEvent(k), pc' # "select" PROVE UNCHANGED vars
  BY <1>2 DEF HandleEvent, Enqueue, AnswerFromCheckpoint, AnswerFromPending, RejectEvent
<1>3. CASE FetchEtag \/ OpenFile \/ ReadChunk \/ HashDiffers
  BY <1>3 DEF TypeOK, FetchEtag, OpenFile, ReadChunk, HashDiffers
<1>4. ~(SkipUpload \/ PutObject \/ UploadFails \/ Persist)
  BY DEF SkipUpload, PutObject, UploadFails, Persist, Finish
<1>5. ~(EndOfInput \/ Crash \/ Restart)
  BY DEF EndOfInput, Crash, Restart, Stop
<1>6. CASE UNCHANGED vars
  BY <1>6 DEF vars
<1> QED
  BY <1>1, <1>2, <1>3, <1>4, <1>5, <1>6 DEF Next, UploadStep

(* A file an upload may vouch for was read as it is.                        *)
LEMMA WholeReads ==
  ASSUME TypeOK, ReadsAreFresh, WholeFile, Suppresses(job.upload_time, job.key)
  PROVE  job.got = Content(file[job.key])
<1>1. job.got \in Seq(Versions) /\ Len(job.got) = Chunks
  BY DEF TypeOK, WholeFile
<1>2. DOMAIN job.got = 1..Chunks /\ job.got \in [1..Chunks -> Versions]
  BY <1>1, LenProperties
<1>3. \A i \in 1..Chunks : job.got[i] = file[job.key]
  BY <1>2 DEF ReadsAreFresh, WholeFile, Uploading
<1> QED
  BY <1>2, <1>3 DEF Content

(* What get_state writes are the claims of the view.                        *)
LEMMA WrittenClaims ==
  ASSUME TypeOK, WholeRecords, NEW c \in NextState
  PROVE  Claimed(c.upload_key, c.upload_at)
<1>1. RemoveExpired(checkpoints, now) \in View
  BY ViewTypes DEF TypeOK
<1>2. Whole(RemoveExpired(checkpoints, now))
  BY RemoveExpiredForgets DEF TypeOK, WholeRecords, Whole
<1>3. /\ c.upload_key \in Keys /\ c.upload_at # NoTime
      /\ c.upload_at = RemoveExpired(checkpoints, now).upload_times[c.upload_key]
  BY <1>1, <1>2, GetStateExact DEF NextState, TypeOK
<1> QED
  BY <1>3, RemoveExpiredForgets DEF TypeOK, Claimed

(* An upload that succeeds adds one claim; nothing else makes one up.       *)
LEMMA ClaimSteps ==
  ASSUME TypeOK, WholeRecords, [Next]_vars, NEW k \in Keys, NEW u \in Nat, Claimed(k, u)'
  PROVE  \/ Claimed(k, u)
         \/ (SkipUpload \/ PutObject) /\ k = job.key /\ u = job.upload_time
<1> USE DEF environment, checkpointer
<1>1. CASE UNCHANGED <<checkpoints, last, tmp, stable>>
  BY <1>1 DEF Claimed
<1>2. CASE SkipUpload \/ PutObject
  <2>1. checkpoints' = UpdateView(checkpoints, job.key, job.upload_time, job.upload_time + ExpireAfter)
    BY <1>2 DEF SkipUpload, PutObject, Finish
  <2>2. job.key \in Keys /\ job.upload_time \in Nat /\ job.upload_time + ExpireAfter \in Nat
    BY SinkAssumption DEF TypeOK
  <2>3. checkpoints'.upload_times[k] = IF k = job.key THEN job.upload_time
                                       ELSE checkpoints.upload_times[k]
    <3>1. checkpoints \in View
      BY DEF TypeOK
    <3> HIDE DEF environment, checkpointer
    <3>2. UpdateView(checkpoints, job.key, job.upload_time, job.upload_time + ExpireAfter)
            .upload_times[k] = IF k = job.key THEN job.upload_time
                               ELSE checkpoints.upload_times[k]
      BY <2>2, <3>1, UpdateViewExact
    <3> QED
      BY <2>1, <3>2
  <2>4. UNCHANGED <<last, tmp, stable>>
    BY <1>2 DEF SkipUpload, PutObject
  <2> QED
    BY <1>2, <2>3, <2>4 DEF Claimed
<1>3. ASSUME NEW files \in {WriteSucceeds(NextState)} \cup WriteFailures(tmp, stable, NextState),
             NEW c \in files[1].state \cup files[2].state
      PROVE  c \in tmp.state \cup stable.state \cup NextState
  BY <1>3 DEF WriteSucceeds, WriteFailures, NoFile, Garbage, File
<1>4. CASE Persist
  <2>1. checkpoints'.upload_times[k] = u => checkpoints.upload_times[k] = u
    <3>1. checkpoints' = RemoveExpired(checkpoints, now) /\ u # NoTime
      BY <1>4 DEF Persist, NoTime
    <3> QED
      BY <3>1, RemoveExpiredForgets DEF TypeOK
  <2>2. \A c \in (last \cup tmp.state \cup stable.state)' :
          c \in last \cup tmp.state \cup stable.state \cup NextState
    BY <1>3, <1>4 DEF Persist, Leaves
  <2> QED
    BY <2>1, <2>2, WrittenClaims DEF Claimed
<1>5. CASE EndOfInput \/ Crash
  <2>1. checkpoints'.upload_times[k] # u
    BY <1>5 DEF EndOfInput, Crash, Stop, EmptyView, NoTime
  <2>2. \A c \in (last \cup tmp.state \cup stable.state)' :
          c \in tmp.state \cup stable.state \cup NextState
    BY <1>3, <1>5 DEF EndOfInput, Crash, Stop, Leaves
  <2> QED
    BY <2>1, <2>2, WrittenClaims DEF Claimed
<1>6. CASE Restart
  <2>1. PICK state \in SUBSET Record : state \subseteq tmp.state \cup stable.state /\ Load(state)
    BY <1>6, RestartLoads
  <2>2. checkpoints'.upload_times[k] = u => \E c \in state : c.upload_key = k /\ c.upload_at = u
    BY <2>1, SetStateExact DEF Load, NoTime
  <2>3. \A c \in (last \cup tmp.state \cup stable.state)' : c \in tmp.state \cup stable.state
    BY <1>6, <2>1, RestartLoads DEF Load, NoFile
  <2> QED
    BY <2>1, <2>2, <2>3 DEF Claimed
<1>7. Tick \/ (\E j \in Keys : WriteFile(j) \/ DeleteFile(j))
        => UNCHANGED <<checkpoints, last, tmp, stable>>
  BY DEF Tick, WriteFile, DeleteFile
<1>8. ASSUME NEW j \in Keys, HandleEvent(j) PROVE UNCHANGED <<checkpoints, last, tmp, stable>>
  BY <1>8 DEF HandleEvent, Enqueue, AnswerFromCheckpoint, AnswerFromPending, RejectEvent, vars
<1>9. ASSUME NEW e \in queue, StartUpload(e) PROVE UNCHANGED <<checkpoints, last, tmp, stable>>
  BY <1>9 DEF StartUpload
<1>10. FetchEtag \/ OpenFile \/ ReadChunk \/ HashDiffers \/ UploadFails \/ UNCHANGED vars
         => UNCHANGED <<checkpoints, last, tmp, stable>>
  BY DEF FetchEtag, OpenFile, ReadChunk, HashDiffers, UploadFails, vars
<1> QED
  BY <1>1, <1>2, <1>4, <1>5, <1>6, <1>7, <1>8, <1>9, <1>10 DEF Next, UploadStep

(* The records stay whole.                                                  *)
LEMMA WholeSteps ==
  ASSUME TypeOK, WholeRecords, [Next]_vars
  PROVE  WholeRecords'
<1> USE DEF environment, checkpointer
<1>1. CASE checkpoints' = checkpoints
  BY <1>1 DEF WholeRecords, Whole
<1>2. CASE SkipUpload \/ PutObject
  <2>1. job.upload_time + ExpireAfter \in Nat /\ job.upload_time \in Nat /\ NoTime \notin Nat
    BY SinkAssumption DEF TypeOK, NoTime
  <2>2. checkpoints' = UpdateView(checkpoints, job.key, job.upload_time, job.upload_time + ExpireAfter)
    BY <1>2 DEF SkipUpload, PutObject, Finish
  <2>3. ASSUME NEW j \in Keys
        PROVE  /\ checkpoints'.upload_times[j] = IF j = job.key THEN job.upload_time
                                                 ELSE checkpoints.upload_times[j]
               /\ checkpoints'.expire_times[j] = IF j = job.key THEN job.upload_time + ExpireAfter
                                                 ELSE checkpoints.expire_times[j]
    BY <2>1, <2>2, UpdateViewExact, SMTT(30) DEF TypeOK
  <2> QED
    BY <2>1, <2>3 DEF WholeRecords, Whole
<1>3. CASE Persist
  BY <1>3, RemoveExpiredForgets DEF Persist, TypeOK, WholeRecords, Whole
<1>4. CASE EndOfInput \/ Crash
  BY <1>4 DEF EndOfInput, Crash, Stop, EmptyView, WholeRecords, Whole
<1>5. CASE Restart
  BY <1>5, RestartLoads, SetStateExact DEF Load, WholeRecords
<1>6. Tick \/ (\E j \in Keys : WriteFile(j) \/ DeleteFile(j)) => checkpoints' = checkpoints
  BY DEF Tick, WriteFile, DeleteFile
<1>7. ASSUME NEW j \in Keys, HandleEvent(j) PROVE checkpoints' = checkpoints
  BY <1>7 DEF HandleEvent, Enqueue, AnswerFromCheckpoint, AnswerFromPending, RejectEvent, vars
<1>8. ASSUME NEW e \in queue, StartUpload(e) PROVE checkpoints' = checkpoints
  BY <1>8 DEF StartUpload
<1>9. FetchEtag \/ OpenFile \/ ReadChunk \/ HashDiffers \/ UploadFails \/ UNCHANGED vars
        => checkpoints' = checkpoints
  BY DEF FetchEtag, OpenFile, ReadChunk, HashDiffers, UploadFails, vars
<1> QED
  BY <1>1, <1>2, <1>3, <1>4, <1>5, <1>6, <1>7, <1>8, <1>9 DEF Next, UploadStep

(* The records a restart could load, and what they say, survive every step. *)
LEMMA SinkKept ==
  ASSUME SinkInv, TypeOK', [Next]_vars
  PROVE  SinkInv'
<1> USE DEF SinkInv
<1>1. /\ now \in Nat /\ now' \in Nat /\ job.key \in Keys /\ job.upload_time \in Nat
      /\ now' >= now
  <2>1. (\E k \in Keys : WriteFile(k) \/ DeleteFile(k)) => now' >= now
    BY DEF WriteFile, DeleteFile, TypeOK
  <2> QED
    BY <2>1, EnvironmentSteps DEF TypeOK
<1>2. ClaimsAreOld'
  <2>1. ASSUME NEW k \in Keys, NEW u \in Nat, Claimed(k, u)' PROVE u <= now
    BY <1>1, <2>1, ClaimSteps DEF ClaimsAreOld, SkipUpload, PutObject, WholeFile, Uploading
  <2>2. ASSUME Uploading'
        PROVE  \/ job'.upload_time = now
               \/ Uploading /\ job'.upload_time = job.upload_time
    BY <2>2, UploadSteps DEF StartUpload, Job
  <2>3. ASSUME Uploading', NEW k \in Keys, NEW u \in Nat, Claimed(k, u)'
        PROVE  u <= job'.upload_time
    <3>1. ~(SkipUpload \/ PutObject)
      BY <2>3 DEF SkipUpload, PutObject, Finish, Uploading, Loading
    <3> QED
      BY <2>1, <2>2, <2>3, <3>1, ClaimSteps DEF ClaimsAreOld
  <2> QED
    BY <1>1, <2>1, <2>2, <2>3 DEF ClaimsAreOld
<1>3. ASSUME NEW k \in Keys, NEW u \in Nat, u <= now, Suppresses(u, k)'
      PROVE  UNCHANGED <<file[k], mtime[k]>> /\ Suppresses(u, k)
  <2>1. ASSUME NEW j \in Keys, WriteFile(j) PROVE j # k /\ UNCHANGED <<file[k], mtime[k]>>
    BY <1>1, <1>3, <2>1, SMTT(30) DEF WriteFile, Suppresses, TypeOK
  <2>2. ASSUME NEW j \in Keys, DeleteFile(j) PROVE j # k /\ UNCHANGED <<file[k], mtime[k]>>
    BY <1>3, <2>2 DEF DeleteFile, Suppresses, TypeOK
  <2> QED
    BY <1>3, <2>1, <2>2, EnvironmentSteps DEF Suppresses
<1>4. ClaimsHold'
  <2> SUFFICES ASSUME NEW k \in Keys, NEW u \in Nat, Claimed(k, u)', Suppresses(u, k)'
               PROVE  object'[k] = Content(file'[k])
    BY DEF ClaimsHold, Stored
  <2>1. u <= now
    BY <1>1, ClaimSteps DEF ClaimsAreOld, SkipUpload, PutObject, WholeFile, Uploading
  <2>2. file'[k] = file[k] /\ Suppresses(u, k)
    BY <1>3, <2>1
  <2>3. CASE Claimed(k, u) /\ object'[k] = object[k]
    BY <2>2, <2>3 DEF ClaimsHold, Stored
  <2>4. CASE Claimed(k, u) /\ object'[k] # object[k]
    <3>1. WholeFile /\ k = job.key /\ object'[k] = job.got
      BY <2>4, ObjectSteps DEF MaybeStored, TypeOK
    <3>2. Suppresses(job.upload_time, k)
      <4>1. u <= job.upload_time /\ mtime[k] \in Nat
        BY <2>4, <3>1 DEF ClaimsAreOld, WholeFile, Uploading, TypeOK
      <4> QED
        BY <1>1, <2>2, <4>1 DEF Suppresses
    <3> QED
      BY <2>2, <3>1, <3>2, WholeReads
  <2>5. CASE (SkipUpload \/ PutObject) /\ k = job.key /\ u = job.upload_time
    <3>1. WholeFile /\ object'[k] = job.got
      BY <2>5 DEF SkipUpload, PutObject, HashIsCurrent, TypeOK
    <3> QED
      BY <2>2, <2>5, <3>1, WholeReads
  <2> QED
    BY <2>3, <2>4, <2>5, ClaimSteps
<1>5. ReadsAreFresh'
  <2> SUFFICES ASSUME Uploading', Suppresses(job.upload_time, job.key)'
               PROVE  /\ job'.open \in {0, file'[job'.key]}
                      /\ \A i \in DOMAIN job'.got : job'.got[i] = file'[job'.key]
    BY DEF ReadsAreFresh
  <2>1. CASE \E e \in queue : StartUpload(e)
    BY <2>1 DEF StartUpload, Job
  <2>2. CASE /\ Uploading /\ UNCHANGED <<job.key, job.upload_time>>
             /\ FetchEtag \/ OpenFile \/ ReadChunk \/ HashDiffers \/ UNCHANGED <<job, pc>>
    <3>1. /\ file'[job.key] = file[job.key]
          /\ Suppresses(job.upload_time, job.key)
      BY <1>1, <1>3, <2>2 DEF ClaimsAreOld, Suppresses
    <3>2. /\ job.open \in {0, file[job.key]}
          /\ \A i \in DOMAIN job.got : job.got[i] = file[job.key]
      BY <2>2, <3>1 DEF ReadsAreFresh
    <3>3. CASE UNCHANGED <<job.open, job.got>>
      BY <2>2, <3>1, <3>2, <3>3
    <3>5. CASE OpenFile
      <4>1. job'.open = file[job.key] /\ job'.got = job.got
        BY <3>5 DEF OpenFile, TypeOK
      <4> QED
        BY <2>2, <3>1, <3>2, <4>1
    <3>6. CASE HashDiffers
      <4>1. job'.open = 0 /\ job'.got = <<>>
        BY <3>6 DEF HashDiffers, TypeOK
      <4> QED
        BY <4>1
    <3>7. FetchEtag \/ UNCHANGED <<job, pc>> => UNCHANGED <<job.open, job.got>>
      BY DEF FetchEtag, TypeOK
    <3>4. CASE ReadChunk
      <4>0. PICK v \in {job.open, file[job.key]} \ {0} : job' = [job EXCEPT !.got = Append(@, v)]
        BY <3>4, Zenon DEF ReadChunk
      <4>a. v = file[job.key]
        BY <3>2, <4>0
      <4>b. job' = [job EXCEPT !.got = Append(job.got, file[job.key])]
        BY <4>0, <4>a
      <4>1. job'.open = job.open /\ job'.got = Append(job.got, file[job.key])
        BY <1>1, <4>b DEF TypeOK
      <4>2. job.got \in Seq(Versions) /\ file[job.key] \in Versions
        BY <1>1 DEF TypeOK
      <4>3. \A i \in DOMAIN job'.got : job'.got[i] = file[job.key]
        BY <3>2, <4>1, <4>2
      <4> QED
        BY <2>2, <3>1, <3>2, <4>1, <4>3
    <3> QED
      BY <2>2, <3>3, <3>4, <3>5, <3>6, <3>7
  <2> QED
    BY <2>1, <2>2, UploadSteps
<1>6. HashIsCurrent'
  <2> SUFFICES ASSUME pc' = "hash" PROVE job'.remote = object'[job'.key]
    BY DEF HashIsCurrent
  <2>1. Uploading'
    BY DEF Uploading, Loading
  <2>2. ~ \E e \in queue : StartUpload(e)
    BY DEF StartUpload
  <2>3. ~HashDiffers
    BY DEF HashDiffers
  <2>4. CASE FetchEtag
    BY <2>4 DEF FetchEtag, TypeOK
  <2>5. CASE OpenFile \/ ReadChunk
    BY <2>5 DEF OpenFile, ReadChunk, TypeOK, HashIsCurrent
  <2>6. CASE UNCHANGED <<job, pc, object>>
    BY <2>6 DEF HashIsCurrent
  <2> QED
    BY <2>1, <2>2, <2>3, <2>4, <2>5, <2>6, UploadSteps
<1> QED
  BY <1>2, <1>4, <1>5, <1>6, WholeSteps

(* Nothing is claimed and nothing is read when the sink starts.             *)
LEMMA SinkStart ==
  ASSUME Init
  PROVE  WholeRecords /\ ClaimsAreOld /\ ClaimsHold /\ ReadsAreFresh /\ HashIsCurrent
<1>1. \A k \in Keys, u \in Nat : ~Claimed(k, u)
  BY DEF Init, Claimed, EmptyView, NoFile, NoTime
<1> QED
  BY <1>1 DEF Init, WholeRecords, Whole, EmptyView, ClaimsAreOld, ClaimsHold, ReadsAreFresh,
              HashIsCurrent, Uploading, Loading

LEMMA SinkInvariant == Spec => []SinkInv
<1>1. Init /\ TypeOK => SinkInv
  BY SinkStart DEF SinkInv
<1>2. SinkInv /\ TypeOK' /\ [Next]_vars => SinkInv'
  BY SinkKept
<1> QED
  BY <1>1, <1>2, SinkTypeCorrect, PTL DEF Spec

(* No record, in memory or in a file a restart may load, suppresses an      *)
(* upload the object needs: it answers only for a file that is stored as it *)
(* is, whatever was written, deleted, failed, lost or torn in between       *)
(* (processor.rs:88, 110, 128, checkpointer.rs:183-189).                    *)
THEOREM CheckpointsAnswerForObjects == Spec => []CheckpointSound
<1>1. SinkInv => CheckpointSound
  <2> SUFFICES ASSUME SinkInv PROVE CheckpointSound
    OBVIOUS
  <2>1. ASSUME NEW k \in Keys, checkpoints.upload_times[k] # NoTime,
               Suppresses(checkpoints.upload_times[k], k)
        PROVE  Stored(k)
    <3>1. checkpoints.upload_times[k] \in Nat
      BY <2>1 DEF SinkInv, TypeOK, View
    <3> QED
      BY <2>1, <3>1 DEF SinkInv, ClaimsHold, Claimed
  <2>2. ASSUME NEW c \in last \cup tmp.state \cup stable.state,
               Suppresses(c.upload_at, c.upload_key)
        PROVE  Stored(c.upload_key)
    <3>1. c \in Record
      BY DEF SinkInv, TypeOK, FileContent
    <3>2. c.upload_key \in Keys /\ c.upload_at \in Nat
      BY <3>1 DEF Record
    <3> QED
      BY <2>2, <3>2 DEF SinkInv, ClaimsHold, Claimed
  <2> QED
    BY <2>1, <2>2 DEF CheckpointSound
<1> QED
  BY <1>1, SinkInvariant, PTL

-----------------------------------------------------------------------------
(* No file goes back to a version before one that has been seen.            *)
SeenIsOld ==
  /\ \A k \in Keys : file[k] # 0 => file[k] >= delivered[k]
  /\ \A e \in queue : file[e.key] # 0 => file[e.key] >= e.seen
  /\ Uploading /\ file[job.key] # 0 => file[job.key] >= job.seen

(* An upload reads nothing older than what was seen when it was asked for,  *)
(* nor than what a status has vouched for.                                  *)
ReadsCover ==
  Uploading =>
    /\ job.open # 0 => job.open >= job.seen /\ job.open >= delivered[job.key]
    /\ \A i \in DOMAIN job.got : job.got[i] >= job.seen /\ job.got[i] >= delivered[job.key]

DeliveredInv == SeenIsOld /\ ReadsCover /\ DeliveredCovered

(* A status of Delivered rests on a record or on an upload that just ended. *)
LEMMA DeliveredSteps ==
  ASSUME [Next]_vars
  PROVE  \/ delivered' = delivered
         \/ \E k \in Keys : AnswerFromCheckpoint(k)
         \/ SkipUpload \/ PutObject
<1>1. Tick \/ (\E k \in Keys : WriteFile(k) \/ DeleteFile(k)) => delivered' = delivered
  BY DEF Tick, WriteFile, DeleteFile
<1>2. ASSUME NEW k \in Keys, HandleEvent(k)
      PROVE  AnswerFromCheckpoint(k) \/ delivered' = delivered
  BY <1>2 DEF HandleEvent, Enqueue, AnswerFromPending, RejectEvent, vars
<1>3. ASSUME NEW e \in queue, StartUpload(e) PROVE delivered' = delivered
  BY <1>3 DEF StartUpload
<1>4. FetchEtag \/ OpenFile \/ ReadChunk \/ HashDiffers \/ UploadFails \/ Persist
        => delivered' = delivered
  BY DEF FetchEtag, OpenFile, ReadChunk, HashDiffers, UploadFails, Persist
<1>5. EndOfInput \/ Crash \/ Restart \/ UNCHANGED vars => delivered' = delivered
  BY DEF EndOfInput, Crash, Restart, Stop, vars
<1> QED
  BY <1>1, <1>2, <1>3, <1>4, <1>5 DEF Next, UploadStep

(* What an object has to hold for a status that saw version v.              *)
Covers(o, v) == o # <<>> /\ \A i \in DOMAIN o : o[i] >= v

(* The whole file an upload read covers what the upload was asked for and   *)
(* what earlier statuses vouch for.                                         *)
LEMMA ReadCovers ==
  ASSUME TypeOK, ReadsCover, WholeFile
  PROVE  Covers(job.got, job.seen) /\ Covers(job.got, delivered[job.key])
<1>1. job.got # <<>>
  BY SinkAssumption, EmptySeq DEF TypeOK, WholeFile
<1> QED
  BY <1>1 DEF Covers, ReadsCover, WholeFile, Uploading

LEMMA SeenStep ==
  ASSUME TypeOK, TypeOK', SeenIsOld, [Next]_vars
  PROVE  SeenIsOld'
<1> USE DEF environment, checkpointer
<1>1. ASSUME NEW k \in Keys
      PROVE  /\ file[k] \in Versions /\ delivered[k] \in Versions
             /\ file'[k] = file[k] \/ file'[k] = 0 \/ file'[k] = writes + 1
             /\ writes \in Nat
  BY EnvironmentSteps DEF TypeOK, WriteFile, DeleteFile
<1>2. ASSUME NEW k \in Keys, NEW v \in Versions, file[k] # 0 => file[k] >= v, file'[k] # 0
      PROVE  file'[k] >= v
  BY <1>1, <1>2 DEF Versions
<1>3. ASSUME NEW k \in Keys, file'[k] # 0 PROVE file'[k] >= delivered'[k]
  <2>1. CASE delivered'[k] = delivered[k]
    BY <1>1, <1>2, <1>3, <2>1 DEF SeenIsOld
  <2>2. CASE AnswerFromCheckpoint(k)
    BY <1>1, <2>2 DEF AnswerFromCheckpoint, TypeOK, Versions
  <2>3. CASE k = job.key /\ (SkipUpload \/ PutObject)
    <3>1. Uploading /\ delivered'[k] = job.seen /\ job.seen \in Versions
      BY <2>3 DEF SkipUpload, PutObject, WholeFile, Uploading, Finish, TypeOK
    <3> QED
      BY <1>2, <1>3, <2>3, <3>1 DEF SeenIsOld
  <2>4. ASSUME NEW j \in Keys, j # k, AnswerFromCheckpoint(j) PROVE delivered'[k] = delivered[k]
    BY <2>4 DEF AnswerFromCheckpoint, TypeOK
  <2>5. k # job.key /\ (SkipUpload \/ PutObject) => delivered'[k] = delivered[k]
    BY DEF SkipUpload, PutObject, Finish, TypeOK
  <2> QED
    BY <2>1, <2>2, <2>3, <2>4, <2>5, DeliveredSteps
<1>4. ASSUME NEW e \in queue', file'[e.key] # 0 PROVE file'[e.key] >= e.seen
  <2>1. CASE e \in queue
    <3>1. e.key \in Keys /\ e.seen \in Versions
      BY <2>1 DEF TypeOK
    <3> QED
      BY <1>2, <1>4, <2>1, <3>1 DEF SeenIsOld
  <2>2. e.key \in Keys /\ e.seen \in Versions'
    BY DEF TypeOK
  <2>3. CASE e.seen = file[e.key] /\ UNCHANGED file
    BY <1>1, <2>2, <2>3 DEF Versions
  <2>4. e \in queue \/ (e.seen = file[e.key] /\ UNCHANGED file)
    <3>1. ASSUME NEW k \in Keys, Enqueue(k)
          PROVE  e \in queue \/ (e.seen = file[e.key] /\ UNCHANGED file)
      BY <3>1 DEF Enqueue
    <3>2. ASSUME NEW k \in Keys, AnswerFromPending(k)
          PROVE  e \in queue \/ (e.seen = file[e.key] /\ UNCHANGED file)
      <4>1. PICK d \in queue : e = IF d.key = k THEN [d EXCEPT !.seen = file[k]] ELSE d
        BY <3>2 DEF AnswerFromPending
      <4>2. d \in [key : Keys, seen : Versions]
        BY DEF TypeOK
      <4>3. d.key = k => e.key = k /\ e.seen = file[k]
        BY <4>1, <4>2
      <4> QED
        BY <3>2, <4>1, <4>3 DEF AnswerFromPending
    <3>3. ASSUME NEW k \in Keys, HandleEvent(k)
          PROVE  e \in queue \/ (e.seen = file[e.key] /\ UNCHANGED file)
      BY <3>1, <3>2, <3>3 DEF HandleEvent, AnswerFromCheckpoint, RejectEvent, vars
    <3>4. ASSUME NEW d \in queue, StartUpload(d) PROVE e \in queue
      BY <3>4 DEF StartUpload
    <3>5. Tick \/ (\E k \in Keys : WriteFile(k) \/ DeleteFile(k)) => e \in queue
      BY DEF Tick, WriteFile, DeleteFile
    <3>6. UploadStep => e \in queue
      BY DEF UploadStep, FetchEtag, OpenFile, ReadChunk, SkipUpload, HashDiffers, PutObject,
             UploadFails, Persist
    <3>7. EndOfInput \/ Crash \/ Restart \/ UNCHANGED vars => e \in queue
      BY DEF EndOfInput, Crash, Restart, Stop, vars
    <3> QED
      BY <3>3, <3>4, <3>5, <3>6, <3>7 DEF Next
  <2> QED
    BY <2>1, <2>3, <2>4
<1>5. ASSUME Uploading', file'[job'.key] # 0 PROVE file'[job'.key] >= job'.seen
  <2>1. ASSUME NEW e \in queue, StartUpload(e) PROVE file'[job'.key] >= job'.seen
    <3>1. e.key \in Keys /\ e.seen \in Versions
      BY DEF TypeOK
    <3> QED
      BY <1>2, <1>5, <2>1, <3>1 DEF StartUpload, Job, SeenIsOld
  <2>2. CASE Uploading /\ UNCHANGED <<job.key, job.seen>>
    BY <1>2, <1>5, <2>2 DEF SeenIsOld, TypeOK
  <2> QED
    BY <1>5, <2>1, <2>2, UploadSteps
<1> QED
  BY <1>3, <1>4, <1>5 DEF SeenIsOld

LEMMA ReadsStep ==
  ASSUME TypeOK, SeenIsOld, ReadsCover, [Next]_vars
  PROVE  ReadsCover'
<1> SUFFICES ASSUME Uploading'
             PROVE  /\ job'.open # 0 => job'.open >= job'.seen /\ job'.open >= delivered'[job'.key]
                    /\ \A i \in DOMAIN job'.got :
                         job'.got[i] >= job'.seen /\ job'.got[i] >= delivered'[job'.key]
  BY DEF ReadsCover
<1>1. CASE \E e \in queue : StartUpload(e)
  BY <1>1 DEF StartUpload, Job
<1>2. CASE /\ Uploading /\ delivered' = delivered
           /\ UNCHANGED <<job.key, job.seen>>
           /\ FetchEtag \/ OpenFile \/ ReadChunk \/ HashDiffers \/ UNCHANGED <<job, pc>>
  <2>1. /\ job.key \in Keys
        /\ job.open # 0 => job.open >= job.seen /\ job.open >= delivered[job.key]
        /\ \A i \in DOMAIN job.got : job.got[i] >= job.seen /\ job.got[i] >= delivered[job.key]
        /\ file[job.key] # 0 => file[job.key] >= job.seen /\ file[job.key] >= delivered[job.key]
    BY <1>2 DEF TypeOK, SeenIsOld, ReadsCover
  <2>2. CASE UNCHANGED <<job.open, job.got>>
    BY <1>2, <2>1, <2>2
  <2>3. FetchEtag \/ UNCHANGED <<job, pc>> => UNCHANGED <<job.open, job.got>>
    BY DEF FetchEtag, TypeOK
  <2>4. CASE OpenFile
    <3>1. job'.open = file[job.key] /\ job'.got = job.got
      BY <2>4 DEF OpenFile, TypeOK
    <3> QED
      BY <1>2, <2>1, <3>1
  <2>5. CASE HashDiffers
    <3>1. job'.open = 0 /\ job'.got = <<>>
      BY <2>5 DEF HashDiffers, TypeOK
    <3> QED
      BY <3>1
  <2>6. CASE ReadChunk
    <3>1. PICK v \in {job.open, file[job.key]} \ {0} :
            job'.open = job.open /\ job'.got = Append(job.got, v)
      BY <2>6 DEF ReadChunk, TypeOK
    <3>2. job.got \in Seq(Versions) /\ v \in Versions /\ v >= job.seen /\ v >= delivered[job.key]
      BY <2>1, <3>1 DEF TypeOK
    <3>3. \A i \in DOMAIN job'.got :
            job'.got[i] >= job.seen /\ job'.got[i] >= delivered[job.key]
      BY <2>1, <3>1, <3>2
    <3> QED
      BY <1>2, <2>1, <3>1, <3>3
  <2> QED
    BY <1>2, <2>2, <2>3, <2>4, <2>5, <2>6
<1> QED
  BY <1>1, <1>2, UploadSteps

LEMMA CoveredStep ==
  ASSUME ~CoarseMtime, SinkInv, ReadsCover, DeliveredCovered, [Next]_vars
  PROVE  DeliveredCovered'
<1> SUFFICES ASSUME NEW k \in Keys, delivered'[k] # 0 PROVE Covers(object'[k], delivered'[k])
  BY DEF DeliveredCovered, Covers
<1> USE DEF environment
<1>0. TypeOK
  BY DEF SinkInv
<1>1. CASE delivered'[k] = delivered[k]
  <2>1. Covers(object[k], delivered[k])
    BY <1>1 DEF DeliveredCovered, Covers
  <2>2. CASE object'[k] = object[k]
    BY <1>1, <2>1, <2>2
  <2>3. CASE object'[k] # object[k]
    <3>1. WholeFile /\ k = job.key /\ object'[k] = job.got
      BY <1>0, <2>3, ObjectSteps DEF MaybeStored, TypeOK
    <3> QED
      BY <1>0, <1>1, <3>1, ReadCovers
  <2> QED
    BY <2>2, <2>3
<1>2. CASE AnswerFromCheckpoint(k)
  <2>1. /\ delivered'[k] = file[k] /\ object' = object
        /\ file[k] # 0 /\ Answered(k)
    BY <1>0, <1>2 DEF AnswerFromCheckpoint, TypeOK
  <2>2. checkpoints.upload_times[k] \in Nat
    BY <1>0, <2>1 DEF TypeOK, View, Answered, Contains
  <2>3. Suppresses(checkpoints.upload_times[k], k)
    BY <2>1 DEF Suppresses, Answered, Contains
  <2>4. object[k] = Content(file[k])
    BY <2>2, <2>3 DEF SinkInv, ClaimsHold, Claimed, Stored
  <2>5. file[k] \in Nat
    BY <1>0 DEF TypeOK, Versions
  <2>6. DOMAIN object[k] = 1..Chunks /\ \A i \in 1..Chunks : object[k][i] = file[k]
    BY <2>4 DEF Content
  <2>7. object[k] # <<>>
    BY <2>6, SinkAssumption
  <2> QED
    BY <2>1, <2>5, <2>6, <2>7 DEF Covers
<1>3. CASE k = job.key /\ (SkipUpload \/ PutObject)
  <2>1. WholeFile /\ object'[k] = job.got /\ delivered'[k] = job.seen
    BY <1>0, <1>3 DEF SinkInv, HashIsCurrent, SkipUpload, PutObject, Finish, TypeOK
  <2> QED
    BY <1>0, <2>1, ReadCovers
<1>4. ASSUME NEW j \in Keys, j # k, AnswerFromCheckpoint(j) PROVE delivered'[k] = delivered[k]
  BY <1>0, <1>4 DEF AnswerFromCheckpoint, TypeOK
<1>5. k # job.key /\ (SkipUpload \/ PutObject) => delivered'[k] = delivered[k]
  BY <1>0 DEF SkipUpload, PutObject, Finish, TypeOK
<1> QED
  BY <1>1, <1>2, <1>3, <1>4, <1>5, DeliveredSteps

(* Where every write has a timestamp of its own, a status of Delivered that *)
(* rests on a checkpoint or on a finished upload means the store has the    *)
(* file as the event saw it, or newer, in every chunk, and no failure or    *)
(* crash after it takes that back (processor.rs:92, 122).                   *)
THEOREM DeliveredMeansStored ==
  ASSUME ~CoarseMtime
  PROVE  Spec => []DeliveredCovered
<1>1. Init => DeliveredInv
  BY DEF Init, DeliveredInv, SeenIsOld, ReadsCover, DeliveredCovered, Uploading, Loading
<1>2. SinkInv /\ TypeOK' /\ DeliveredInv /\ [Next]_vars => DeliveredInv'
  BY SeenStep, ReadsStep, CoveredStep DEF DeliveredInv, SinkInv
<1>3. DeliveredInv => DeliveredCovered
  BY DEF DeliveredInv
<1> QED
  BY <1>1, <1>2, <1>3, SinkTypeCorrect, SinkInvariant, PTL DEF Spec

-----------------------------------------------------------------------------
(* Behind the source and the channel, the sink does nothing it does not do  *)
(* behind any source: listing, sending, sleeping and the shutdown signal    *)
(* are stutters of the sink, taking an event is handling one, and the       *)
(* death of the source's process is its own (filename/src/lib.rs:60-91,     *)
(* processor.rs:69-76).                                                     *)
LEMMA PipelineMoves == [PipelineNext]_pipeline => [Next]_vars
<1> SUFFICES ASSUME [PipelineNext]_pipeline PROVE [Next]_vars
  OBVIOUS
<1>1. CASE RequestShutdown \/ List \/ SourceStops
  BY <1>1, Zenon DEF RequestShutdown, List, SourceStops
<1>2. ASSUME NEW k \in Keys, SendNext(k) PROVE [Next]_vars
  BY <1>2, Zenon DEF SendNext
<1>3. ASSUME NEW k \in Keys, TakeEvent(k) PROVE [Next]_vars
  BY <1>3, Zenon DEF TakeEvent, Next
<1>4. CASE SinkStep
  BY <1>4, Zenon DEF SinkStep, Next
<1>5. CASE InputEnds \/ Dies
  BY <1>5, Zenon DEF InputEnds, Dies, Next
<1>6. CASE UNCHANGED pipeline
  BY <1>6, Zenon DEF pipeline
<1> QED
  BY <1>1, <1>2, <1>3, <1>4, <1>5, <1>6, Zenon DEF PipelineNext, SourceStep

(* UploadPipeline implements UploadSink: what the sink promises with any    *)
(* events at any time, it keeps in front of the filename source, whose      *)
(* shutdown ends its input in the middle of its work and whose death is     *)
(* its death (filename/src/lib.rs:60-91, processor.rs:69-76).               *)
THEOREM PipelineImplementsSink == PipelineSpec => Spec
<1>1. PipelineInit => Init
  BY DEF PipelineInit
<1>2. [PipelineNext]_pipeline => [Next]_vars
  BY PipelineMoves
<1> QED
  BY <1>1, <1>2, PTL DEF PipelineSpec, Spec

(* In the whole pipeline a checkpoint that suppresses an upload is right,   *)
(* whatever shutdowns and crashes came between (processor.rs:92, 118-128).  *)
THEOREM PipelineCheckpointsAnswer == PipelineSpec => []CheckpointSound
BY PipelineImplementsSink, CheckpointsAnswerForObjects, PTL

(* In the whole pipeline a status of Delivered is never taken back, where   *)
(* every write has a timestamp of its own (processor.rs:92, 122).           *)
THEOREM PipelineDeliveredMeansStored ==
  ASSUME ~CoarseMtime
  PROVE  PipelineSpec => []DeliveredCovered
BY PipelineImplementsSink, DeliveredMeansStored, PTL
===============================================================================
