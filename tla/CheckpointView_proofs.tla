------------------------- MODULE CheckpointView_proofs -------------------------
(***************************************************************************)
(* What the operators of CheckpointView return, for every set of keys: the  *)
(* facts the proofs about Checkpointer and UploadSink share.                *)
(***************************************************************************)
EXTENDS CheckpointView, TLAPS

(* The view's operators map views to views and views to states.             *)
LEMMA ViewTypes ==
  ASSUME NEW view \in View, NEW t \in Nat
  PROVE  /\ EmptyView \in View
         /\ RemoveExpired(view, t) \in View
         /\ GetState(view, t) \in SUBSET Record
         /\ \A k \in Keys, u, e \in Nat : UpdateView(view, k, u, e) \in View
<1>1. EmptyView \in View
  BY DEF EmptyView, View, NoTime
<1>2. RemoveExpired(view, t) \in View
  BY DEF RemoveExpired, View, NoTime
<1>3. GetState(view, t) \in SUBSET Record
  <2> SUFFICES ASSUME NEW k \in Keys, view.expire_times[k] # NoTime
               PROVE  [upload_key |-> k,
                       upload_at  |-> IF view.upload_times[k] = NoTime THEN t
                                      ELSE view.upload_times[k],
                       expire_at  |-> view.expire_times[k]] \in Record
    BY DEF GetState
  <2> QED
    BY DEF View, Record, NoTime
<1>4. ASSUME NEW k \in Keys, NEW u \in Nat, NEW e \in Nat
      PROVE  UpdateView(view, k, u, e) \in View
  BY DEF UpdateView, View
<1> QED
  BY <1>1, <1>2, <1>3, <1>4

(* An upload is recorded under its key and no other.                        *)
LEMMA UpdateViewExact ==
  ASSUME NEW view \in View, NEW k \in Keys, NEW u \in Nat, NEW e \in Nat, NEW j \in Keys
  PROVE  LET new == UpdateView(view, k, u, e)
         IN  /\ new.upload_times[j] = IF j = k THEN u ELSE view.upload_times[j]
             /\ new.expire_times[j] = IF j = k THEN e ELSE view.expire_times[j]
<1>1. /\ UpdateView(view, k, u, e).upload_times = [view.upload_times EXCEPT ![k] = u]
      /\ UpdateView(view, k, u, e).expire_times = [view.expire_times EXCEPT ![k] = e]
  BY DEF UpdateView, View
<1> QED
  BY <1>1 DEF View

(* A key a state has a record of has its record found.                      *)
LEMMA RecordOfKey ==
  ASSUME NEW state \in SUBSET Record, NEW k, HasRecord(state, k)
  PROVE  RecordOf(state, k) \in state /\ RecordOf(state, k).upload_key = k
<1>1. PICK c \in state : c.upload_key = k
  BY DEF HasRecord
<1> QED
  BY <1>1 DEF RecordOf

(* Loading a state into an empty view gives a view.                         *)
LEMMA SetStateType ==
  ASSUME NEW state \in SUBSET Record
  PROVE  SetState(EmptyView, state) \in View
<1> SUFFICES ASSUME NEW k \in Keys
             PROVE  HasRecord(state, k) =>
                      /\ RecordOf(state, k).upload_at \in Nat
                      /\ RecordOf(state, k).expire_at \in Nat
  BY DEF SetState, EmptyView, View
<1> QED
  BY RecordOfKey DEF Record

(* remove_expired forgets keys and changes none.                            *)
LEMMA RemoveExpiredForgets ==
  ASSUME NEW view \in View, NEW t \in Nat, NEW k \in Keys
  PROVE  LET kept == RemoveExpired(view, t)
         IN  \/ /\ kept.upload_times[k] = view.upload_times[k]
                /\ kept.expire_times[k] = view.expire_times[k]
             \/ kept.upload_times[k] = NoTime /\ kept.expire_times[k] = NoTime
BY DEF RemoveExpired

(* A key has an upload time exactly when it has an expiry.                  *)
Whole(view) == \A k \in Keys : view.upload_times[k] = NoTime <=> view.expire_times[k] = NoTime

(* Of such a view, get_state writes what it holds and makes nothing up.     *)
LEMMA GetStateExact ==
  ASSUME NEW view \in View, NEW t \in Nat, Whole(view), NEW c \in GetState(view, t)
  PROVE  /\ c.upload_key \in Keys
         /\ c.upload_at = view.upload_times[c.upload_key]
         /\ c.upload_at # NoTime
<1>1. PICK k \in Keys :
        /\ view.expire_times[k] # NoTime
        /\ c = [upload_key |-> k,
                upload_at  |-> IF view.upload_times[k] = NoTime THEN t ELSE view.upload_times[k],
                expire_at  |-> view.expire_times[k]]
  BY DEF GetState
<1> QED
  BY <1>1 DEF Whole

(* A loaded view holds what the state holds, and is whole.                  *)
LEMMA SetStateExact ==
  ASSUME NEW state \in SUBSET Record
  PROVE  /\ Whole(SetState(EmptyView, state))
         /\ \A k \in Keys : LET at == SetState(EmptyView, state).upload_times[k]
                            IN  at # NoTime =>
                                  \E c \in state : c.upload_key = k /\ c.upload_at = at
<1>1. ASSUME NEW k \in Keys, HasRecord(state, k)
      PROVE  /\ RecordOf(state, k) \in state /\ RecordOf(state, k).upload_key = k
             /\ RecordOf(state, k).upload_at # NoTime /\ RecordOf(state, k).expire_at # NoTime
  BY <1>1, RecordOfKey DEF Record, NoTime
<1> QED
  BY <1>1 DEF SetState, EmptyView, Whole
===============================================================================
