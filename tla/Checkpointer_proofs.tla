-------------------------- MODULE Checkpointer_proofs --------------------------
(***************************************************************************)
(* Proofs about Checkpointer, for every set of keys, every expiry and every *)
(* length of run.  SoundInv holds whatever calls fail; DurableInv needs the *)
(* reads of a restart and its rename to work.                               *)
(***************************************************************************)
EXTENDS Checkpointer, CheckpointView_proofs, TLAPS

(* What an up process reads back after a crash has records only.            *)
LEMMA FileStates ==
  ASSUME NEW file \in FileContent
  PROVE  /\ file.state \in SUBSET Record
         /\ \A f \in ReadsAs(file) : f \in FileContent /\ f.state \in {file.state, {}}
BY DEF FileContent, ReadsAs, Garbage

(* Every variable of the checkpointer keeps its type, whatever fails and    *)
(* wherever the process dies (checkpointer.rs:13-18, 149-153).              *)
THEOREM TypeCorrect == Spec => []TypeOK
<1>1. Init => TypeOK
  <2> SUFFICES ASSUME Init PROVE TypeOK
    OBVIOUS
  <2> QED
    BY ViewTypes DEF Init, TypeOK, FileContent, NoFile, EmptyView, View, NoTime, NoCall
<1>2. TypeOK /\ [Next]_vars => TypeOK'
  <2> SUFFICES ASSUME TypeOK, [Next]_vars PROVE TypeOK'
    OBVIOUS
  <2> USE DEF TypeOK, memory, disk
  <2>1. CASE Tick
    BY <2>1 DEF Tick
  <2>2. ASSUME NEW k \in Keys, NEW t \in 0..now, Update(k, t)
        PROVE  TypeOK'
    BY <2>2, ViewTypes, ExpireAssumption DEF Update
  <2>3. CASE BeginWrite
    BY <2>3, ViewTypes DEF BeginWrite
  <2>4. CASE CreateTmp
    BY <2>4 DEF CreateTmp, FileContent, Garbage
  <2>5. CASE WriteTmp
    BY <2>5 DEF WriteTmp, FileContent, File
  <2>6. CASE SyncTmp
    BY <2>6 DEF SyncTmp
  <2>7. CASE RenameTmp
    BY <2>7 DEF RenameTmp, FileContent, NoFile, NoCall
  <2>8. CASE CreateFails \/ WriteFails \/ SyncFails \/ RenameFails
    BY <2>8 DEF CreateFails, WriteFails, SyncFails, RenameFails, Fail, FileContent, Garbage, NoFile, NoCall
  <2>9. CASE Crash
    BY <2>9, ViewTypes DEF Crash, FileContent, Garbage, NoFile, NoCall
  <2>10. CASE RestartFromTmp
    BY <2>10, FileStates, SetStateType DEF RestartFromTmp, Load, FileContent, NoFile
  <2>11. CASE RestartFromStable
    <3>1. PICK s \in ReadsAs(stable) : Load(s.state)
      BY <2>11 DEF RestartFromStable
    <3>2. s.state \in SUBSET Record
      BY <3>1, FileStates
    <3> QED
      BY <2>11, <3>1, <3>2, SetStateType DEF RestartFromStable, Load
  <2>12. CASE UNCHANGED vars
    BY <2>12 DEF vars
  <2> QED
    BY <2>1, <2>2, <2>3, <2>4, <2>5, <2>6, <2>7, <2>8, <2>9, <2>10, <2>11, <2>12 DEF Next
<1> QED
  BY <1>1, <1>2, PTL DEF Spec

-----------------------------------------------------------------------------
(* Soundness of what the view's operators build.                            *)
LEMMA RemoveExpiredSound ==
  ASSUME NEW view \in View, NEW t \in Nat, NEW b \in Nat, SoundView(view, b)
  PROVE  SoundView(RemoveExpired(view, t), b)
BY DEF SoundView, RemoveExpired, View

(* A sound view is written as a sound state.                                *)
LEMMA GetStateSound ==
  ASSUME NEW view \in View, NEW t \in Nat, NEW b \in Nat, SoundView(view, b)
  PROVE  Sound(GetState(view, t), b)
<1>1. ASSUME NEW c \in GetState(view, t)
      PROVE  /\ c.upload_at <= b
             /\ c.expire_at = c.upload_at + ExpireAfter
             /\ c.upload_key \in Keys
             /\ c = [upload_key |-> c.upload_key,
                     upload_at  |-> view.upload_times[c.upload_key],
                     expire_at  |-> view.expire_times[c.upload_key]]
  <2>1. PICK k \in Keys :
          /\ view.expire_times[k] # NoTime
          /\ c = [upload_key |-> k,
                  upload_at  |-> IF view.upload_times[k] = NoTime THEN t
                                 ELSE view.upload_times[k],
                  expire_at  |-> view.expire_times[k]]
    BY DEF GetState
  <2>2. /\ view.upload_times[k] # NoTime
        /\ view.upload_times[k] <= b
        /\ view.expire_times[k] = view.upload_times[k] + ExpireAfter
    BY <2>1 DEF SoundView
  <2> QED
    BY <2>1, <2>2
<1> QED
  BY <1>1 DEF Sound

(* A sound state is loaded as a sound view.                                 *)
LEMMA SetStateSound ==
  ASSUME NEW state \in SUBSET Record, NEW b \in Nat, Sound(state, b)
  PROVE  SoundView(SetState(EmptyView, state), b)
<1> SUFFICES ASSUME NEW k \in Keys, HasRecord(state, k)
             PROVE  /\ RecordOf(state, k).upload_at # NoTime
                    /\ RecordOf(state, k).upload_at <= b
                    /\ RecordOf(state, k).expire_at = RecordOf(state, k).upload_at + ExpireAfter
  BY DEF SoundView, SetState, EmptyView
<1> QED
  BY RecordOfKey DEF Sound, Record, NoTime

(* Recording an upload that began at or after the bound moves the bound.    *)
LEMMA UpdateSound ==
  ASSUME NEW view \in View, NEW b \in Nat, SoundView(view, b),
         NEW k \in Keys, NEW u \in Nat, b <= u
  PROVE  SoundView(UpdateView(view, k, u, u + ExpireAfter), u)
<1> DEFINE new == UpdateView(view, k, u, u + ExpireAfter)
<1>1. /\ new.upload_times = [view.upload_times EXCEPT ![k] = u]
      /\ new.expire_times = [view.expire_times EXCEPT ![k] = u + ExpireAfter]
  BY DEF UpdateView, View
<1> QED
  BY <1>1 DEF SoundView, View, NoTime

(* A sound state stays sound for a later bound.                             *)
LEMMA SoundLater ==
  ASSUME NEW state \in SUBSET Record, NEW b \in Nat, NEW u \in Nat, b <= u, Sound(state, b)
  PROVE  Sound(state, u)
BY DEF Sound, Record

(* An empty view and an empty state claim nothing.                          *)
LEMMA EmptySound ==
  ASSUME NEW b \in Nat
  PROVE  Sound({}, b) /\ SoundView(EmptyView, b)
BY DEF Sound, SoundView, EmptyView

(* Everything the checkpointer holds, in memory and on disk, is sound,      *)
(* whichever calls fail.                                                    *)
LEMMA SoundInvariant == Spec => []SoundInv
<1>1. Init => SoundInv
  <2> SUFFICES ASSUME Init PROVE SoundInv
    OBVIOUS
  <2>1. TypeOK
    BY ViewTypes DEF Init, TypeOK, FileContent, NoFile, EmptyView, View, NoTime, NoCall
  <2> QED
    BY <2>1, EmptySound DEF Init, SoundInv, NoFile, Parses
<1>2. SoundInv /\ TypeOK' /\ [Next]_vars => SoundInv'
  <2> SUFFICES ASSUME SoundInv, TypeOK', [Next]_vars PROVE SoundInv'
    OBVIOUS
  <2> USE DEF SoundInv, memory, disk
  <2>0. TypeOK /\ now \in Nat /\ latest \in Nat /\ checkpoints \in View
    BY DEF TypeOK
  <2>1. CASE Tick
    BY <2>1, <2>0 DEF Tick
  <2>2. ASSUME NEW k \in Keys, NEW t \in 0..now, Update(k, t)
        PROVE  SoundInv'
    <3>1. t \in Nat /\ latest <= t /\ latest' = t /\ t <= now /\ now' = now
      BY <2>2, <2>0 DEF Update
    <3>2. SoundView(checkpoints, latest)'
      BY <2>2, <2>0, <3>1, UpdateSound DEF Update
    <3>3. \A state \in {last, writing, acked, tmp.state, stable.state} : Sound(state, t)
      <4>1. \A state \in {last, writing, acked, tmp.state, stable.state} :
              state \in SUBSET Record
        BY <2>0 DEF TypeOK, FileContent
      <4> QED
        BY <4>1, <2>0, <3>1, SoundLater
    <3> QED
      BY <2>2, <3>1, <3>2, <3>3 DEF Update
  <2>3. CASE BeginWrite
    <3>1. SoundView(checkpoints', latest) /\ checkpoints' \in View
      BY <2>3, <2>0, RemoveExpiredSound, ViewTypes DEF BeginWrite
    <3>2. Sound(writing', latest)
      BY <2>3, <2>0, <3>1, GetStateSound DEF BeginWrite
    <3>3. acked' \in {acked, writing'}
      BY <2>3 DEF BeginWrite
    <3> QED
      BY <2>3, <3>1, <3>2, <3>3 DEF BeginWrite
  <2>4. CASE CreateTmp
    BY <2>4, <2>0, EmptySound DEF CreateTmp, Garbage
  <2>5. CASE WriteTmp
    BY <2>5 DEF WriteTmp, File, Parses
  <2>6. CASE SyncTmp
    BY <2>6 DEF SyncTmp
  <2>7. CASE RenameTmp
    BY <2>7, <2>0, EmptySound DEF RenameTmp, NoFile
  <2>8. CASE CreateFails \/ WriteFails \/ SyncFails \/ RenameFails
    BY <2>8, <2>0, EmptySound DEF CreateFails, WriteFails, SyncFails, RenameFails, Fail, Garbage
  <2>9. CASE Crash
    BY <2>9, <2>0, EmptySound DEF Crash, Garbage
  <2>10. CASE RestartFromTmp
    <3>1. SoundView(SetState(EmptyView, tmp.state), latest)
      BY <2>0, SetStateSound DEF TypeOK, FileContent
    <3> QED
      BY <2>10, <2>0, <3>1, EmptySound DEF RestartFromTmp, Load, NoFile
  <2>11. CASE RestartFromStable
    <3>1. PICK s \in ReadsAs(stable) : Load(s.state)
      BY <2>11 DEF RestartFromStable
    <3>2. s.state \in SUBSET Record /\ Sound(s.state, latest)
      <4>1. stable \in FileContent  BY DEF SoundInv, TypeOK
      <4>2. s.state \in {stable.state, {}}  BY <3>1, <4>1, FileStates, Zenon
      <4>3. stable.state \in SUBSET Record /\ {} \in SUBSET Record  BY <4>1, FileStates
      <4>4. Sound(stable.state, latest) /\ Sound({}, latest)  BY <2>0, EmptySound
      <4> QED  BY <4>2, <4>3, <4>4
    <3>3. SoundView(SetState(EmptyView, s.state), latest)
      BY <3>2, <2>0, SetStateSound
    <3> QED
      BY <2>11, <3>1, <3>2, <3>3, <2>0, EmptySound DEF RestartFromStable, Load
  <2>12. CASE UNCHANGED vars
    BY <2>12 DEF vars
  <2> QED
    BY <2>1, <2>2, <2>3, <2>4, <2>5, <2>6, <2>7, <2>8, <2>9, <2>10, <2>11, <2>12 DEF Next
<1> QED
  BY <1>1, <1>2, TypeCorrect, PTL DEF Spec

(* No file holds a record of an upload that did not happen when it says,    *)
(* whichever calls fail (checkpointer.rs:154-181, 191-208).                 *)
THEOREM RecordsAreSound == Spec => []NoInventedUpload
<1>1. SoundInv => NoInventedUpload
  BY DEF SoundInv, NoInventedUpload, Sound
<1> QED
  BY <1>1, SoundInvariant, PTL

-----------------------------------------------------------------------------
(* What covers what.                                                        *)
LEMMA CoversReflexive ==
  ASSUME NEW s \in SUBSET Record, NEW t \in Nat
  PROVE  CoversLive(s, s, t) /\ CoversLive(s, {}, t)
BY DEF CoversLive, Covers, Record

(* Covering composes, for the records that are still alive.                 *)
LEMMA CoversTransitive ==
  ASSUME NEW x \in SUBSET Record, NEW y \in SUBSET Record, NEW z \in SUBSET Record,
         NEW t \in Nat, NEW b \in Nat, Sound(y, b), Sound(z, b),
         CoversLive(x, y, t), CoversLive(y, z, t)
  PROVE  CoversLive(x, z, t)
<1> SUFFICES ASSUME NEW e \in z, ~(e.expire_at < t)
             PROVE  Covers(x, e)
  BY DEF CoversLive
<1>1. PICK d \in y : d.upload_key = e.upload_key /\ d.upload_at >= e.upload_at
  BY DEF CoversLive, Covers
<1>2. /\ e.expire_at = e.upload_at + ExpireAfter
      /\ d.expire_at = d.upload_at + ExpireAfter
  BY DEF Sound
<1>3. ~(d.expire_at < t)
  BY <1>1, <1>2, ExpireAssumption DEF Record
<1>4. PICK f \in x : f.upload_key = d.upload_key /\ f.upload_at >= d.upload_at
  BY <1>3 DEF CoversLive, Covers
<1> QED
  BY <1>1, <1>4 DEF Covers, Record

(* What is covered at t is covered at every later time.                     *)
LEMMA CoversLater ==
  ASSUME NEW x \in SUBSET Record, NEW y \in SUBSET Record,
         NEW view \in View, NEW t \in Nat, NEW u \in Nat, t <= u
  PROVE  /\ CoversLive(x, y, t) => CoversLive(x, y, u)
         /\ ViewCoversLive(view, y, t) => ViewCoversLive(view, y, u)
BY DEF CoversLive, ViewCoversLive, Record

(* A view that covers a state still does after remove_expired, and so does  *)
(* the state that is written from it.                                       *)
LEMMA WriteCovers ==
  ASSUME NEW view \in View, NEW old \in SUBSET Record, NEW t \in Nat, NEW b \in Nat,
         SoundView(view, b), Sound(old, b), ViewCoversLive(view, old, t)
  PROVE  /\ ViewCoversLive(RemoveExpired(view, t), old, t)
         /\ CoversLive(GetState(RemoveExpired(view, t), t), old, t)
<1> DEFINE kept == RemoveExpired(view, t)
<1>1. ASSUME NEW e \in old, ~(e.expire_at < t)
      PROVE  /\ kept.upload_times[e.upload_key] = view.upload_times[e.upload_key]
             /\ kept.upload_times[e.upload_key] >= e.upload_at
             /\ kept.upload_times[e.upload_key] # NoTime
             /\ kept.expire_times[e.upload_key] # NoTime
  <2> DEFINE k == e.upload_key
  <2>1. k \in Keys /\ e.upload_at \in Nat /\ e.expire_at = e.upload_at + ExpireAfter
    BY DEF Sound, Record
  <2>2. view.upload_times[k] >= e.upload_at
    BY <1>1 DEF ViewCoversLive
  <2>3. view.upload_times[k] \in Nat /\ view.expire_times[k] = view.upload_times[k] + ExpireAfter
    BY <2>1, <2>2 DEF SoundView, View, NoTime
  <2>4. k \notin Expired(view, t)
    BY <2>1, <2>2, <2>3, <1>1, ExpireAssumption DEF Expired
  <2> QED
    BY <2>1, <2>2, <2>3, <2>4, ExpireAssumption DEF RemoveExpired, NoTime
<1>2. CoversLive(GetState(kept, t), old, t)
  <2> SUFFICES ASSUME NEW e \in old, ~(e.expire_at < t)
               PROVE  Covers(GetState(kept, t), e)
    BY DEF CoversLive
  <2> DEFINE d == [upload_key |-> e.upload_key,
                   upload_at  |-> kept.upload_times[e.upload_key],
                   expire_at  |-> kept.expire_times[e.upload_key]]
  <2>1. e.upload_key \in Keys
    BY DEF Record
  <2>2. d \in GetState(kept, t)
    BY <1>1, <2>1 DEF GetState
  <2> QED
    BY <1>1, <2>2 DEF Covers
<1>3. ViewCoversLive(kept, old, t)
  BY <1>1 DEF ViewCoversLive
<1> QED
  BY <1>2, <1>3

(* A view covers the state that is written from it.                         *)
LEMMA StateCovered ==
  ASSUME NEW view \in View, NEW t \in Nat, NEW b \in Nat, SoundView(view, b)
  PROVE  ViewCoversLive(view, GetState(view, t), t)
<1> SUFFICES ASSUME NEW k \in Keys, view.expire_times[k] # NoTime
             PROVE  /\ view.upload_times[k] # NoTime
                    /\ view.upload_times[k] \in Nat
  BY DEF ViewCoversLive, GetState
<1> QED
  BY DEF SoundView, View

(* A loaded view covers the state it was loaded from.                       *)
LEMMA LoadCovers ==
  ASSUME NEW s \in SUBSET Record, NEW t \in Nat, NEW b \in Nat, Sound(s, b)
  PROVE  ViewCoversLive(SetState(EmptyView, s), s, t)
<1> SUFFICES ASSUME NEW e \in s
             PROVE  SetState(EmptyView, s).upload_times[e.upload_key] >= e.upload_at
  BY DEF ViewCoversLive
<1>1. HasRecord(s, e.upload_key) /\ e.upload_key \in Keys
  BY DEF HasRecord, Record
<1>2. RecordOf(s, e.upload_key) = e
  BY <1>1, RecordOfKey DEF Sound
<1> QED
  BY <1>1, <1>2 DEF SetState, Record

(* A finished upload that is not older than the view's bound only adds.     *)
LEMMA UpdateCovers ==
  ASSUME NEW view \in View, NEW old \in SUBSET Record, NEW t \in Nat, NEW b \in Nat,
         Sound(old, b), ViewCoversLive(view, old, t),
         NEW k \in Keys, NEW u \in Nat, b <= u, NEW x \in Nat
  PROVE  ViewCoversLive(UpdateView(view, k, u, x), old, t)
<1>1. UpdateView(view, k, u, x).upload_times = [view.upload_times EXCEPT ![k] = u]
  BY DEF UpdateView, View
<1> QED
  BY <1>1 DEF ViewCoversLive, Sound, Record, View

-----------------------------------------------------------------------------
(* When a restart can read its files and move the tmp file, nothing that a  *)
(* successful write_checkpoints vouched for is lost before it expires       *)
(* (checkpointer.rs:91-116), and a tmp file that parses is never behind     *)
(* the stable one (checkpointer.rs:44-50).                                  *)
LEMMA DurableInvariant ==
  ASSUME Faults \cap {"recover", "read"} = {}
  PROVE  Spec => []DurableInv
<1>1. Init /\ SoundInv => DurableInv
  BY CoversReflexive DEF Init, DurableInv, TmpIsNewer, NoFile, Parses, SoundInv, TypeOK,
       CoversLive, ViewCoversLive
<1>2. DurableInv /\ SoundInv' /\ [Next]_vars => DurableInv'
  <2> SUFFICES ASSUME DurableInv, SoundInv', [Next]_vars PROVE DurableInv'
    OBVIOUS
  <2> USE DEF DurableInv, TmpIsNewer, memory, disk
  <2>0. /\ now \in Nat /\ now' \in Nat /\ latest \in Nat /\ checkpoints \in View
        /\ \A s \in {last, writing, acked, tmp.state, stable.state} :
             s \in SUBSET Record /\ Sound(s, latest)
    BY DEF SoundInv, TypeOK, FileContent
  <2>1. CASE Tick
    <3>1. now <= now' /\ UNCHANGED <<pc, checkpoints, last, writing, tmp, stable, acked>>
      BY <2>1, <2>0 DEF Tick
    <3>2. /\ CoversLive(stable.state, acked, now')
          /\ Parses(tmp) => CoversLive(tmp.state, stable.state, now')
      BY <3>1, <2>0, CoversLater
    <3>3. pc # "down" => ViewCoversLive(checkpoints, stable.state, now')
      BY <3>1, <2>0, CoversLater
    <3>4. pc \in {"create", "write", "sync", "rename"} =>
            /\ CoversLive(writing, stable.state, now')
            /\ ViewCoversLive(checkpoints, writing, now')
      BY <3>1, <2>0, CoversLater
    <3> QED
      BY <3>1, <3>2, <3>3, <3>4
  <2>2. ASSUME NEW k \in Keys, NEW t \in 0..now, Update(k, t)
        PROVE  DurableInv'
    <3>1. t \in Nat /\ latest <= t /\ t + ExpireAfter \in Nat
      BY <2>2, <2>0, ExpireAssumption DEF Update
    <3>2. ViewCoversLive(checkpoints', stable.state, now)
      BY <2>2, <2>0, <3>1, UpdateCovers DEF Update
    <3> QED
      BY <2>2, <3>2 DEF Update
  <2>3. CASE BeginWrite
    <3>1. /\ ViewCoversLive(checkpoints', stable.state, now)
          /\ CoversLive(writing', stable.state, now)
      BY <2>3, <2>0, WriteCovers DEF BeginWrite, SoundInv
    <3>4. ViewCoversLive(checkpoints', writing', now)
      BY <2>3, <2>0, StateCovered, RemoveExpiredSound, ViewTypes DEF BeginWrite, SoundInv
    <3>2. CASE ~Dirty
      BY <2>3, <2>0, <3>1, <3>2, CoversReflexive DEF BeginWrite, Dirty
    <3>3. CASE Dirty
      BY <2>3, <3>1, <3>3, <3>4 DEF BeginWrite
    <3> QED
      BY <3>2, <3>3
  <2>4. CASE CreateTmp
    BY <2>4 DEF CreateTmp, Garbage, Parses
  <2>5. CASE WriteTmp
    BY <2>5 DEF WriteTmp, File
  <2>6. CASE SyncTmp
    BY <2>6 DEF SyncTmp
  <2>7. CASE RenameTmp
    <3>1. /\ stable' = File(writing) /\ last' = writing /\ acked' = writing
          /\ tmp' = NoFile /\ checkpoints' = checkpoints /\ now' = now /\ pc' = "up"
          /\ ViewCoversLive(checkpoints, writing, now)
      BY <2>7 DEF RenameTmp
    <3>2. CoversLive(writing, writing, now)
      BY <2>0, CoversReflexive
    <3> QED
      BY <3>1, <3>2 DEF File, NoFile, Parses
  <2>8. CASE CreateFails \/ WriteFails \/ SyncFails \/ RenameFails
    BY <2>8 DEF CreateFails, WriteFails, SyncFails, RenameFails, Fail, Garbage, Parses
  <2>9. CASE Crash
    BY <2>9 DEF Crash, Garbage, Parses
  <2>10. CASE RestartFromTmp
    <3>1. /\ stable' = tmp /\ tmp' = NoFile /\ last' = tmp.state /\ acked' = acked
          /\ checkpoints' = SetState(EmptyView, tmp.state) /\ now' = now /\ pc' = "up"
      BY <2>10 DEF RestartFromTmp, Load
    <3>2. CoversLive(tmp.state, acked, now)
      BY <2>10, <2>0, CoversTransitive DEF RestartFromTmp
    <3>3. ViewCoversLive(checkpoints', tmp.state, now)
      BY <3>1, <2>0, LoadCovers
    <3> QED
      BY <3>1, <3>2, <3>3 DEF NoFile, Parses
  <2>11. CASE RestartFromStable
    <3>1. /\ last' = stable.state /\ checkpoints' = SetState(EmptyView, stable.state)
          /\ pc' = "up" /\ UNCHANGED <<now, acked, tmp, stable>>
      BY <2>11 DEF RestartFromStable, Load, ReadsAs
    <3>2. ViewCoversLive(checkpoints', stable.state, now)
      BY <3>1, <2>0, LoadCovers
    <3> QED
      BY <3>1, <3>2
  <2>12. CASE UNCHANGED vars
    BY <2>12 DEF vars
  <2> QED
    BY <2>1, <2>2, <2>3, <2>4, <2>5, <2>6, <2>7, <2>8, <2>9, <2>10, <2>11, <2>12 DEF Next
<1> QED
  BY <1>1, <1>2, SoundInvariant, PTL DEF Spec

(* Unless a file cannot be read back or the recovered tmp file not moved,   *)
(* what write_checkpoints vouched for is what a restart loads               *)
(* (checkpointer.rs:43-60, 91-116).                                         *)
THEOREM AcknowledgedStateSurvives ==
  ASSUME Faults \cap {"recover", "read"} = {}
  PROVE  Spec => []Durable
<1>1. DurableInv => Durable
  <2> SUFFICES ASSUME DurableInv PROVE Durable
    OBVIOUS
  <2>1. CoversLive(stable.state, acked, now)
    BY DEF DurableInv
  <2>2. Parses(tmp) => CoversLive(tmp.state, acked, now)
    BY CoversTransitive DEF DurableInv, TmpIsNewer, SoundInv, TypeOK, FileContent
  <2> QED
    BY <2>1, <2>2 DEF Durable, Recoverable
<1> QED
  BY <1>1, DurableInvariant, PTL

(* Under the same assumption the tmp file that read_checkpoints prefers     *)
(* covers the stable file (checkpointer.rs:45-50).                          *)
THEOREM TmpIsNeverBehind ==
  ASSUME Faults \cap {"recover", "read"} = {}
  PROVE  Spec => []TmpIsNewer
<1>1. DurableInv => TmpIsNewer
  BY DEF DurableInv
<1> QED
  BY <1>1, DurableInvariant, PTL

-----------------------------------------------------------------------------
(* StableStaysValid: what is renamed over the stable file has been written  *)
(* to the end since it was created.                                         *)
TmpIsWritten == pc \in {"sync", "rename"} => Parses(tmp)

LEMMA TmpIsWrittenInvariant == Spec => []TmpIsWritten
<1>1. Init => TmpIsWritten
  BY DEF Init, TmpIsWritten
<1>2. TmpIsWritten /\ [Next]_vars => TmpIsWritten'
  BY DEF TmpIsWritten, Parses, File, Next, vars, disk, Tick, Update, BeginWrite, CreateTmp, WriteTmp, SyncTmp,
         RenameTmp, CreateFails, WriteFails, SyncFails, RenameFails, Fail, Crash, RestartFromTmp,
         RestartFromStable, Load
<1> QED
  BY <1>1, <1>2, PTL DEF Spec

(* A stable file that parses is only ever replaced by one that does,        *)
(* whatever fails and wherever the process dies (checkpointer.rs:99-102).   *)
THEOREM StableIsNeverTorn == Spec => StableStaysValid
<1>1. TmpIsWritten /\ [Next]_vars => [Parses(stable) => Parses(stable')]_stable
  BY DEF TmpIsWritten, Next, vars, disk, Tick, Update, BeginWrite, CreateTmp, WriteTmp, SyncTmp, RenameTmp,
         CreateFails, WriteFails, SyncFails, RenameFails, Fail, Crash, RestartFromTmp, RestartFromStable, Load
<1> QED
  BY <1>1, TmpIsWrittenInvariant, PTL DEF Spec, StableStaysValid

-----------------------------------------------------------------------------
(* CallLooksAtomic: what a running call has done to what it has found.      *)
InCall == pc \in {"create", "write", "sync", "rename"}

CallInv ==
  InCall =>
    /\ last = found.last /\ stable = found.stable
    /\ pc = "create" => tmp = found.tmp
    /\ pc = "write" => tmp = Garbage
    /\ pc \in {"sync", "rename"} => tmp = File(writing)

LEMMA CallInvariant == Spec => []CallInv
<1>1. Init => CallInv
  BY DEF Init, CallInv, InCall
<1>2. CallInv /\ [Next]_vars => CallInv'
  <2> SUFFICES ASSUME CallInv, [Next]_vars PROVE CallInv'
    OBVIOUS
  <2> USE DEF CallInv, InCall, memory, disk
  <2>1. ASSUME InCall, InCall' PROVE CallInv'
    <3>1. CASE Tick \/ UNCHANGED vars
      BY <2>1, <3>1 DEF Tick, vars
    <3>2. CASE CreateTmp
      BY <2>1, <3>2 DEF CreateTmp
    <3>3. CASE WriteTmp
      BY <2>1, <3>3 DEF WriteTmp
    <3>4. CASE SyncTmp
      BY <2>1, <3>4 DEF SyncTmp
    <3> QED
      BY <2>1, <3>1, <3>2, <3>3, <3>4 DEF Next, Update, BeginWrite, RenameTmp, CreateFails, WriteFails,
           SyncFails, RenameFails, Fail, Crash, RestartFromTmp, RestartFromStable
  <2>2. ASSUME ~InCall, InCall' PROVE CallInv'
    <3>1. BeginWrite /\ pc' = "create"
      BY <2>2 DEF Next, vars, Tick, Update, BeginWrite, CreateTmp, WriteTmp, SyncTmp, RenameTmp, CreateFails,
           WriteFails, SyncFails, RenameFails, Fail, Crash, RestartFromTmp, RestartFromStable, Load
    <3> QED
      BY <2>2, <3>1 DEF BeginWrite
  <2> QED
    BY <2>1, <2>2
<1> QED
  BY <1>1, <1>2, PTL DEF Spec

(* For a caller to whom the call is a single step, as it is for the event   *)
(* loop of the sinks, write_checkpoints leaves one of the outcomes UploadSink*)
(* gives it, whatever fails and wherever the process dies                   *)
(* (checkpointer.rs:103-114, processor.rs).                                 *)
THEOREM CallsAreSteps == Spec => CallLooksAtomic
<1> DEFINE failures == WriteFailures(found.tmp, found.stable, writing)
           Atomic == InCall =>
             /\ pc' = "up" =>
                  \/ last' = writing /\ <<tmp', stable'>> = WriteSucceeds(writing)
                  \/ last' = found.last /\ <<tmp', stable'>> \in failures
             /\ pc' = "down" => <<tmp', stable'>> \in failures
<1>1. CallInv /\ [Next]_vars => [Atomic]_vars
  <2> SUFFICES ASSUME CallInv, Next, InCall PROVE Atomic
    BY DEF InCall
  <2> USE DEF CallInv, InCall, memory, disk
  <2>1. CASE RenameTmp
    BY <2>1 DEF RenameTmp, WriteSucceeds
  <2>2. CASE CreateFails \/ WriteFails \/ SyncFails \/ RenameFails
    <3>1. tmp' \in {found.tmp, Garbage, File(writing)} /\ stable' = found.stable /\ last' = found.last /\ pc' = "up"
      BY <2>2 DEF CreateFails, WriteFails, SyncFails, RenameFails, Fail
    <3> QED
      BY <3>1 DEF WriteFailures
  <2>3. CASE Crash
    <3>1. tmp' \in {found.tmp, Garbage, File(writing)} /\ stable' = found.stable /\ pc' = "down"
      BY <2>3 DEF Crash
    <3> QED
      BY <3>1 DEF WriteFailures
  <2>4. CASE ~(RenameTmp \/ CreateFails \/ WriteFails \/ SyncFails \/ RenameFails \/ Crash)
    <3>1. pc' \notin {"up", "down"}
      BY <2>4 DEF Next, Tick, Update, BeginWrite, CreateTmp, WriteTmp, SyncTmp, RestartFromTmp, RestartFromStable
    <3> QED
      BY <3>1
  <2> QED
    BY <2>1, <2>2, <2>3, <2>4
<1> QED
  BY <1>1, CallInvariant, PTL DEF Spec, CallLooksAtomic, InCall
===============================================================================
