----------------------------- MODULE Checkpointer -----------------------------
(***************************************************************************)
(* packages/common/src/checkpointer.rs, one system call at a time.  The     *)
(* sink records finished uploads with `update' and persists them with       *)
(* `write_checkpoints', which writes a tmp file, syncs it and renames it    *)
(* over the stable file.  The process may die between any two of those      *)
(* calls and the calls named in Faults may fail.                            *)
(***************************************************************************)
EXTENDS CheckpointView

CONSTANTS
  ExpireAfter,  \* the expire_after the sink passes to every update
  Faults,       \* which system calls may fail
  MaxTime       \* bound: where the clock stops

(* "recover" is the rename inside read_checkpoints; "read" an I/O error     *)
(* while one of the two files is read back.                                 *)
AllFaults == {"create", "write", "sync", "rename", "recover", "read"}

ASSUME ExpireAssumption == ExpireAfter \in Nat
ASSUME FaultsAssumption == Faults \subseteq AllFaults

VARIABLES
  now,          \* the clock
  pc,           \* "up" between calls; "create" .. "rename" inside write_checkpoints; "down"
  checkpoints,  \* Checkpointer.checkpoints
  last,         \* Checkpointer.last
  writing,      \* the local `state' of write_checkpoints
  tmp,          \* the file checkpoints.new.json
  stable,       \* the file checkpoints.json
  latest,       \* history: the start of the upload recorded last
  acked,        \* history: the state the last successful write_checkpoints vouched for
  found         \* history: what the write_checkpoints that is running has found

disk == <<tmp, stable>>
memory == <<checkpoints, last, writing>>
vars == <<now, pc, checkpoints, last, writing, tmp, stable, latest, acked, found>>

NoCall == [tmp |-> NoFile, stable |-> NoFile, last |-> {}]

Init ==
  /\ now = 0
  /\ pc = "up"
  /\ checkpoints = EmptyView
  /\ last = {}
  /\ writing = {}
  /\ tmp = NoFile
  /\ stable = NoFile
  /\ latest = 0
  /\ acked = {}
  /\ found = NoCall

-----------------------------------------------------------------------------
Tick ==
  /\ now < MaxTime
  /\ now' = now + 1
  /\ UNCHANGED <<pc, memory, disk, latest, acked, found>>

(* Mutant of Update: the expiry is counted backwards.                       *)
UpdateBackwards(key, uploadTime) ==
  /\ pc = "up"
  /\ uploadTime \in latest..now
  /\ checkpoints' = UpdateView(checkpoints, key, uploadTime, uploadTime - ExpireAfter)
  /\ latest' = uploadTime
  /\ UNCHANGED <<now, pc, last, writing, disk, acked, found>>

(* The sink reads the clock when an upload starts and passes that time here *)
(* when the upload is done; it uploads one file at a time.                  *)
Update(key, uploadTime) ==
  /\ pc = "up"
  /\ uploadTime \in latest..now
  /\ checkpoints' = UpdateView(checkpoints, key, uploadTime, uploadTime + ExpireAfter)
  /\ latest' = uploadTime
  /\ UNCHANGED <<now, pc, last, writing, disk, acked, found>>

-----------------------------------------------------------------------------
(* Mutant of Dirty: only the keys are compared.                             *)
DirtyByKeys ==
  {c.upload_key : c \in GetState(RemoveExpired(checkpoints, now), now)}
    # {c.upload_key : c \in last}

(* write_checkpoints: drop what has expired and compare with `last'.        *)
Dirty == GetState(RemoveExpired(checkpoints, now), now) # last

(* Mutant of BeginWrite: `last' is set before the write.                    *)
BeginWriteEagerly ==
  /\ pc = "up" /\ Dirty
  /\ checkpoints' = RemoveExpired(checkpoints, now)
  /\ writing' = GetState(checkpoints', now)
  /\ last' = writing'
  /\ pc' = "create"
  /\ found' = [tmp |-> tmp, stable |-> stable, last |-> last]
  /\ UNCHANGED <<now, disk, latest, acked>>

BeginWrite ==
  /\ pc = "up"
  /\ checkpoints' = RemoveExpired(checkpoints, now)
  /\ writing' = GetState(checkpoints', now)
  /\ \/ /\ ~Dirty
        /\ acked' = writing'
        /\ UNCHANGED <<pc, found>>
     \/ /\ Dirty
        /\ pc' = "create"
        /\ found' = [tmp |-> tmp, stable |-> stable, last |-> last]
        /\ acked' = acked
  /\ UNCHANGED <<now, last, disk, latest>>

(* Mutant of CreateTmp: the stable file is written in place.                *)
CreateStable ==
  /\ pc = "create"
  /\ stable' = Garbage
  /\ pc' = "write"
  /\ UNCHANGED <<now, memory, tmp, latest, acked, found>>

(* File::create truncates what the tmp file held.                           *)
CreateTmp ==
  /\ pc = "create"
  /\ tmp' = Garbage
  /\ pc' = "write"
  /\ UNCHANGED <<now, memory, stable, latest, acked, found>>

WriteTmp ==
  /\ pc = "write"
  /\ tmp' = File(writing)
  /\ pc' = "sync"
  /\ UNCHANGED <<now, memory, stable, latest, acked, found>>

SyncTmp ==
  /\ pc = "sync"
  /\ pc' = "rename"
  /\ UNCHANGED <<now, memory, disk, latest, acked, found>>

RenameTmp ==
  /\ pc = "rename"
  /\ stable' = tmp
  /\ tmp' = NoFile
  /\ last' = writing
  /\ acked' = writing
  /\ pc' = "up"
  /\ found' = NoCall
  /\ UNCHANGED <<now, checkpoints, writing, latest>>

(* The `?' after each call: the caller logs the error and carries on.       *)
Fail(call) ==
  /\ pc = call
  /\ call \in Faults
  /\ pc' = "up"
  /\ found' = NoCall
  /\ UNCHANGED <<now, memory, stable, latest, acked>>

CreateFails == Fail("create") /\ tmp' = tmp
WriteFails  == Fail("write")  /\ tmp' = tmp
SyncFails   == Fail("sync")   /\ tmp' \in {tmp, Garbage}
RenameFails == Fail("rename") /\ tmp' = tmp

-----------------------------------------------------------------------------
(* The process dies.  Until sync_all has returned the tmp file may be torn. *)
Crash ==
  /\ pc # "down"
  /\ pc' = "down"
  /\ tmp' \in IF pc = "sync" THEN {tmp, Garbage} ELSE {tmp}
  /\ checkpoints' = EmptyView
  /\ last' = {}
  /\ writing' = {}
  /\ found' = NoCall
  /\ UNCHANGED <<now, stable, latest, acked>>

(* What read_checkpoints_file may make of a file.                           *)
ReadsAs(content) == {content} \cup (IF "read" \in Faults THEN {Garbage} ELSE {})

(* Mutant of Load: the view is not filled from the state.                   *)
LoadLastOnly(state) ==
  /\ checkpoints' = EmptyView
  /\ last' = state
  /\ writing' = {}
  /\ pc' = "up"
  /\ UNCHANGED <<now, latest, acked, found>>

Load(state) ==
  /\ checkpoints' = SetState(EmptyView, state)
  /\ last' = state
  /\ writing' = {}
  /\ pc' = "up"
  /\ UNCHANGED <<now, latest, acked, found>>

(* Checkpointer::new and read_checkpoints, which prefers the tmp file and   *)
(* moves it to the stable location; that the move failed is only logged.    *)
RestartFromTmp ==
  /\ pc = "down"
  /\ Parses(tmp)
  /\ Load(tmp.state)
  /\ \/ stable' = tmp /\ tmp' = NoFile
     \/ "recover" \in Faults /\ UNCHANGED disk

RestartFromStable ==
  /\ pc = "down"
  /\ \E t \in ReadsAs(tmp) : ~Parses(t)
  /\ \E s \in ReadsAs(stable) : Load(s.state)
  /\ UNCHANGED disk

-----------------------------------------------------------------------------
Next ==
  \/ Tick
  \/ \E k \in Keys, t \in 0..now : Update(k, t)
  \/ BeginWrite
  \/ CreateTmp \/ WriteTmp \/ SyncTmp \/ RenameTmp
  \/ CreateFails \/ WriteFails \/ SyncFails \/ RenameFails
  \/ Crash
  \/ RestartFromTmp \/ RestartFromStable

Spec == Init /\ [][Next]_vars

-----------------------------------------------------------------------------
(* Type invariant.                                                          *)
TypeOK ==
  /\ now \in Nat
  /\ pc \in {"up", "create", "write", "sync", "rename", "down"}
  /\ checkpoints \in View
  /\ last \in SUBSET Record
  /\ writing \in SUBSET Record
  /\ tmp \in FileContent
  /\ stable \in FileContent
  /\ latest \in Nat
  /\ acked \in SUBSET Record
  /\ found \in [tmp : FileContent, stable : FileContent, last : SUBSET Record]

(* `state' knows of an upload of record c's key at least as recent as c.    *)
Covers(state, c) ==
  \E d \in state : d.upload_key = c.upload_key /\ d.upload_at >= c.upload_at

(* Every record of `old' that has not expired at t is covered by `new'.     *)
CoversLive(new, old, t) == \A c \in old : c.expire_at < t \/ Covers(new, c)

(* What write_checkpoints vouched for with Ok is what a restart loads, up   *)
(* to records that have expired since: a crash anywhere inside a later      *)
(* write, a failed later write, or an Ok that came from the comparison with *)
(* `last' alone never loses an upload (checkpointer.rs:95-114).             *)
Durable == CoversLive(Recoverable(tmp, stable), acked, now)

(* read_checkpoints prefers the tmp file because it "should contain more    *)
(* recent data": a tmp file that parses is never behind the stable file,    *)
(* whatever failed writes left it there (checkpointer.rs:45-50).            *)
TmpIsNewer == Parses(tmp) => CoversLive(tmp.state, stable.state, now)

(* A persisted record never claims an upload that did not happen when it    *)
(* says: no upload time lies after the last one recorded, so the clock      *)
(* fallback of get_state (checkpointer.rs:164) never enters a file, and the *)
(* expiry belongs to that very upload.                                      *)
NoInventedUpload ==
  \A file \in {tmp, stable} :
    \A c \in file.state : c.upload_at <= latest /\ c.expire_at = c.upload_at + ExpireAfter

(* The comment on write_checkpoints: "If vector dies anywhere during this   *)
(* section, the existing stable file will still be in its current valid     *)
(* state" (checkpointer.rs:99-102).  No step of the program, and no fault,  *)
(* turns a valid stable file into anything but another valid one.           *)
StableStaysValid == [][Parses(stable) => Parses(stable')]_stable

(* A call of write_checkpoints that has something to write goes from system *)
(* call to system call, and leaves what UploadSink takes it to leave in one *)
(* step: with Ok the new state in the stable file alone and in `last'; with *)
(* an error or a crash what it has found, or that and a tmp file of its     *)
(* own, and never a `last' or a stable file that is ahead of the other      *)
(* (checkpointer.rs:103-114).                                               *)
CallLooksAtomic ==
  [][LET failures == WriteFailures(found.tmp, found.stable, writing)
     IN  pc \in {"create", "write", "sync", "rename"} =>
           /\ pc' = "up" =>
                \/ last' = writing /\ <<tmp', stable'>> = WriteSucceeds(writing)
                \/ last' = found.last /\ <<tmp', stable'>> \in failures
           /\ pc' = "down" => <<tmp', stable'>> \in failures]_vars

(* The comment on the rename: it "should prevent scenarios where we don't   *)
(* have at least one full valid file to recover from"                       *)
(* (checkpointer.rs:107-111).  An acknowledged state has such a file.       *)
AlwaysRecoverable == acked # {} => Parses(tmp) \/ Parses(stable)

-----------------------------------------------------------------------------
(* The inductive invariants of the proofs in Checkpointer_proofs.           *)

(* A state that remembers one finished upload per key, none of them after   *)
(* time b, each with the expiry that follows from it; the same for a view.  *)
Sound(state, b) ==
  /\ \A c \in state : c.upload_at <= b /\ c.expire_at = c.upload_at + ExpireAfter
  /\ \A c, d \in state : c.upload_key = d.upload_key => c = d

SoundView(view, b) ==
  \A k \in Keys :
    \/ view.upload_times[k] = NoTime /\ view.expire_times[k] = NoTime
    \/ /\ view.upload_times[k] # NoTime
       /\ view.upload_times[k] <= b
       /\ view.expire_times[k] = view.upload_times[k] + ExpireAfter

SoundInv ==
  /\ TypeOK
  /\ latest <= now
  /\ SoundView(checkpoints, latest)
  /\ \A state \in {last, writing, acked, tmp.state, stable.state} : Sound(state, latest)
  /\ \A file \in {tmp, stable} : Parses(file) \/ file.state = {}

(* The view covers every record of `old' that has not expired at t.         *)
ViewCoversLive(view, old, t) ==
  \A c \in old :
    c.expire_at < t \/ view.upload_times[c.upload_key] >= c.upload_at

DurableInv ==
  /\ SoundInv
  /\ CoversLive(stable.state, acked, now)
  /\ TmpIsNewer
  /\ pc # "down" => /\ last = stable.state
                    /\ ViewCoversLive(checkpoints, stable.state, now)
  /\ pc \in {"create", "write", "sync", "rename"} =>
       /\ CoversLive(writing, stable.state, now)
       /\ ViewCoversLive(checkpoints, writing, now)
  /\ pc \in {"sync", "rename"} => tmp = File(writing)
===============================================================================
