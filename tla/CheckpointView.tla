---------------------------- MODULE CheckpointView ----------------------------
(***************************************************************************)
(* The data of packages/common/src/checkpointer.rs: the in-memory view of   *)
(* uploaded files (CheckPointsView), the state that is serialised from it   *)
(* (State::V1) and the two files that state lives in.  The module has no    *)
(* variables: Checkpointer runs these operators step by step against a      *)
(* failing disk, UploadSink runs them inside the sink's event loop.         *)
(***************************************************************************)
EXTENDS Integers

CONSTANT Keys  \* upload keys: (filename, bucket, object key) triples

(* A key without an entry in one of the two hash maps.                      *)
NoTime == -1

(* One element of State::V1.checkpoints.                                    *)
Record == [upload_key : Keys, upload_at : Nat, expire_at : Nat]

(* What a path may hold: no file, one that does not parse (empty, cut short *)
(* or torn), or a whole serialised state.                                   *)
FileContent == [kind : {"absent", "garbage", "valid"}, state : SUBSET Record]
NoFile == [kind |-> "absent", state |-> {}]
Garbage == [kind |-> "garbage", state |-> {}]
File(state) == [kind |-> "valid", state |-> state]
Parses(file) == file.kind = "valid"

View == [upload_times : [Keys -> Nat \cup {NoTime}],
         expire_times : [Keys -> Nat \cup {NoTime}]]

EmptyView == [upload_times |-> [k \in Keys |-> NoTime],
              expire_times |-> [k \in Keys |-> NoTime]]

(* Is there a record of an upload that began at `after` or later?  The      *)
(* expiry of the record plays no part in the answer.                        *)
Contains(view, key, after) ==
  /\ view.upload_times[key] # NoTime
  /\ view.upload_times[key] >= after

UpdateView(view, key, uploadAt, expireAt) ==
  [view EXCEPT !.upload_times[key] = uploadAt, !.expire_times[key] = expireAt]

Expired(view, now) ==
  {k \in Keys : view.expire_times[k] # NoTime /\ view.expire_times[k] < now}

(* Mutant of RemoveExpired: the key stays in expire_times.                  *)
RemoveHalfExpired(view, now) ==
  [view EXCEPT !.upload_times =
     [k \in Keys |-> IF k \in Expired(view, now) THEN NoTime ELSE view.upload_times[k]]]

RemoveExpired(view, now) ==
  [upload_times |->
     [k \in Keys |-> IF k \in Expired(view, now) THEN NoTime ELSE view.upload_times[k]],
   expire_times |->
     [k \in Keys |-> IF k \in Expired(view, now) THEN NoTime ELSE view.expire_times[k]]]

(* get_state walks expire_times and looks the upload time up, falling back  *)
(* to the clock for a key without one.                                      *)
GetState(view, now) ==
  {[upload_key |-> k,
    upload_at  |-> IF view.upload_times[k] = NoTime THEN now ELSE view.upload_times[k],
    expire_at  |-> view.expire_times[k]] :
      k \in {j \in Keys : view.expire_times[j] # NoTime}}

HasRecord(state, key) == \E c \in state : c.upload_key = key
RecordOf(state, key) == CHOOSE c \in state : c.upload_key = key

(* set_state inserts every record of the state over what the view holds.    *)
SetState(view, state) ==
  [upload_times |->
     [k \in Keys |-> IF HasRecord(state, k) THEN RecordOf(state, k).upload_at
                                            ELSE view.upload_times[k]],
   expire_times |->
     [k \in Keys |-> IF HasRecord(state, k) THEN RecordOf(state, k).expire_at
                                            ELSE view.expire_times[k]]]

(* The state a restart loads: the tmp file when it parses, else the stable  *)
(* file, else the empty state of Checkpointer::new.                         *)
Recoverable(tmp, stable) == IF Parses(tmp) THEN tmp.state ELSE stable.state

(* The pairs <<tmp, stable>> one call of write_checkpoints can leave, for a *)
(* caller to whom the call is a single step.  The first is success; the     *)
(* others are a failure to create, to fill and to rename the tmp file.      *)
WriteSucceeds(state) == <<NoFile, File(state)>>
WriteFailures(tmp, stable, state) ==
  {<<tmp, stable>>, <<Garbage, stable>>, <<File(state), stable>>}
===============================================================================
