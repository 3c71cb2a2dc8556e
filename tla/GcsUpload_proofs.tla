---------------------------- MODULE GcsUpload_proofs ----------------------------
(***************************************************************************)
(* Proofs about GcsUpload, for every chunk size, every bound and every      *)
(* length of run: the uploader implements AtomicUpload.                     *)
(***************************************************************************)
EXTENDS GcsUpload, TLAPS

(* Files and objects stay within the bounds the promise is made for.        *)
Bounded ==
  /\ file \in [version : 1..MaxVersion, size : 0..MaxSize]
  /\ object \in [version : 0..MaxVersion, size : 0..MaxSize]

Before == {"idle", "head", "hash", "create"}

(* What was counted and what was read is in the file, and there is none of  *)
(* it before there is a session.                                            *)
InFile ==
  /\ uploaded + chunk <= file.size
  /\ pc \in Before => uploaded = 0 /\ chunk = 0

(* A call remembers the file it began with, and knows no result yet.        *)
SinceBegun ==
  pc # "idle" =>
    /\ begun <= file.size
    /\ ok = FALSE
    /\ pc = "complete" => begun <= uploaded + chunk

(* The hash HEAD returned is that of the object.                            *)
HashIsCurrent == pc = "hash" => object.version # 0 /\ remote = Md5Of(object)

(* No session is open before the call has opened one.                       *)
NoSessionYet == pc \in Before \ {"idle"} => ~session.open

GcsInv ==
  /\ TypeOK /\ Bounded /\ InFile /\ SinceBegun /\ HashIsCurrent
  /\ RangesMeet /\ NoSessionYet /\ NoSessionLeft

-----------------------------------------------------------------------------
LEMMA GcsStart == Init => GcsInv
<1> SUFFICES ASSUME Init PROVE GcsInv
  OBVIOUS
<1> USE GcsAssumption DEF Init, NoObject, NoSession
<1>1. TypeOK
  <2>1. NoObject \in Body /\ NoSession \in [open : BOOLEAN, persisted : Nat]
    BY DEF Body
  <2>2. file \in Body
    BY DEF Body
  <2> QED
    BY <2>1, <2>2 DEF TypeOK
<1>2. Bounded
  BY DEF Bounded
<1>3. InFile /\ SinceBegun /\ HashIsCurrent
  BY <1>1 DEF InFile, SinceBegun, HashIsCurrent, TypeOK, Body
<1>4. RangesMeet /\ NoSessionYet /\ NoSessionLeft
  BY DEF RangesMeet, NoSessionYet, NoSessionLeft
<1> QED
  BY <1>1, <1>2, <1>3, <1>4 DEF GcsInv

(* What is left of the file, up to a chunk.                                 *)
LEMMA ReadableInFile ==
  ASSUME GcsInv
  PROVE  /\ Readable(uploaded) \in Nat
         /\ uploaded + Readable(uploaded) <= file.size
         /\ Readable(uploaded) < ChunkSize => uploaded + Readable(uploaded) = file.size
<1>1. /\ uploaded \in Nat /\ chunk \in Nat /\ file.size \in Nat /\ uploaded <= file.size
  BY DEF GcsInv, TypeOK, Body, InFile
<1> QED
  BY <1>1, GcsAssumption DEF Readable

(* A call's result and its excuse are truth values.                         *)
LEMMA GcsFlagStep ==
  ASSUME ok \in BOOLEAN, excused \in BOOLEAN, [Next]_vars
  PROVE  ok' \in BOOLEAN /\ excused' \in BOOLEAN
<1>1. CASE Grow \/ Replace \/ Upload
  BY <1>1 DEF Grow, Replace, Upload
<1>2. CASE FetchHash \/ CompareHash \/ HashFails
  BY <1>2 DEF FetchHash, CompareHash, HashFails, Return
<1>3. CASE CreateUpload \/ CreateUploadFails \/ ReadChunk \/ ReadFails
  BY <1>3 DEF CreateUpload, CreateUploadFails, ReadChunk, ReadFails, Return
<1>4. CASE UploadChunk \/ UploadChunkFails \/ CompleteUpload \/ CompleteUploadFails
  BY <1>4 DEF UploadChunk, UploadChunkFails, CompleteUpload, CompleteUploadFails, Return
<1>5. CASE CancelUpload \/ CancelUploadFails \/ UNCHANGED vars
  BY <1>5 DEF CancelUpload, CancelUploadFails, Return, vars
<1> QED
  BY <1>1, <1>2, <1>3, <1>4, <1>5 DEF Next, UploadStep

(* The rest of the type invariant.                                          *)
Numbers ==
  /\ file \in Body /\ object \in Body /\ remote \in Body
  /\ pc \in {"idle", "head", "hash", "create", "read", "chunk", "complete", "cancel"}
  /\ begun \in Nat /\ uploaded \in Nat /\ chunk \in Nat /\ faults \in Nat
  /\ session \in [open : BOOLEAN, persisted : Nat]

LEMMA GcsNumberStep ==
  ASSUME GcsInv, [Next]_vars
  PROVE  Numbers'
<1>a. Numbers
  BY DEF GcsInv, TypeOK, Numbers
<1> USE <1>a, GcsAssumption DEF Numbers, Body
<1>1. CASE Grow
  BY <1>1 DEF Grow
<1>2. CASE Replace
  BY <1>2 DEF Replace
<1>3. CASE Upload
  BY <1>3 DEF Upload, NoSession
<1>4. CASE FetchHash
  BY <1>4 DEF FetchHash, Fault, Md5Of
<1>5. CASE CompareHash
  BY <1>5 DEF CompareHash, Return, NoObject
<1>6. CASE HashFails
  BY <1>6 DEF HashFails, Return, NoObject, Fault
<1>7. CASE CreateUpload
  BY <1>7 DEF CreateUpload
<1>8. CASE CreateUploadFails
  BY <1>8 DEF CreateUploadFails, Return, NoObject, Fault
<1>9. CASE ReadChunk
  BY <1>9, ReadableInFile DEF ReadChunk
<1>10. CASE ReadFails
  BY <1>10 DEF ReadFails, Return, NoObject, Fault
<1>11. CASE UploadChunk
  BY <1>11 DEF UploadChunk
<1>12. CASE UploadChunkFails
  BY <1>12 DEF UploadChunkFails, Fault
<1>13. CASE CompleteUpload
  BY <1>13 DEF CompleteUpload, Return, NoObject, NoSession, Fault
<1>14. CASE CompleteUploadFails
  BY <1>14 DEF CompleteUploadFails, Fault
<1>15. CASE CancelUpload
  BY <1>15 DEF CancelUpload, Return, NoObject, NoSession
<1>16. CASE CancelUploadFails
  BY <1>16 DEF CancelUploadFails, Return, NoObject, Fault
<1>17. CASE UNCHANGED vars
  BY <1>17 DEF vars
<1> QED
  BY <1>1, <1>2, <1>3, <1>4, <1>5, <1>6, <1>7, <1>8, <1>9, <1>10, <1>11, <1>12, <1>13, <1>14,
     <1>15, <1>16, <1>17 DEF Next, UploadStep

LEMMA GcsTypeStep == GcsInv /\ [Next]_vars => TypeOK'
BY GcsFlagStep, GcsNumberStep DEF GcsInv, TypeOK, Numbers

(* Only these touch the file or the object.                                 *)
Touching == Grow \/ Replace \/ CompleteUpload

LEMMA OthersTouchNothing ==
  ASSUME [Next]_vars, ~Touching
  PROVE  UNCHANGED <<file, object>>
BY DEF Touching, Next, UploadStep, vars, Upload, FetchHash, CompareHash, HashFails, CreateUpload,
       CreateUploadFails, ReadChunk, ReadFails, UploadChunk, UploadChunkFails,
       CompleteUploadFails, CancelUpload, CancelUploadFails

LEMMA GcsBoundStep ==
  ASSUME GcsInv, [Next]_vars
  PROVE  Bounded'
<1> USE GcsAssumption DEF GcsInv, TypeOK, Body, InFile, Bounded
<1>1. CASE Grow
  BY <1>1 DEF Grow
<1>2. CASE Replace
  BY <1>2 DEF Replace
<1>3. CASE CompleteUpload
  BY <1>3 DEF CompleteUpload
<1> QED
  BY <1>1, <1>2, <1>3, OthersTouchNothing DEF Touching

LEMMA GcsReadStep ==
  ASSUME GcsInv, [Next]_vars
  PROVE  (InFile /\ SinceBegun)'
<1> USE GcsAssumption DEF GcsInv, TypeOK, Body, InFile, SinceBegun, Before
<1>1. CASE Grow \/ Replace
  BY <1>1 DEF Grow, Replace
<1>2. CASE Upload \/ FetchHash
  BY <1>2 DEF Upload, FetchHash
<1>3. CASE CompareHash \/ HashFails
  BY <1>3 DEF CompareHash, HashFails, Return
<1>4. CASE CreateUpload \/ CreateUploadFails
  BY <1>4 DEF CreateUpload, CreateUploadFails, Return
<1>5. CASE ReadChunk
  BY <1>5, ReadableInFile DEF ReadChunk
<1>6. CASE ReadFails
  BY <1>6 DEF ReadFails, Return
<1>7. CASE UploadChunk \/ UploadChunkFails
  BY <1>7 DEF UploadChunk, UploadChunkFails
<1>8. CASE CompleteUpload \/ CompleteUploadFails
  BY <1>8 DEF CompleteUpload, CompleteUploadFails, Return
<1>9. CASE CancelUpload \/ CancelUploadFails
  BY <1>9 DEF CancelUpload, CancelUploadFails, Return
<1>10. CASE UNCHANGED vars
  BY <1>10 DEF vars
<1> QED
  BY <1>1, <1>2, <1>3, <1>4, <1>5, <1>6, <1>7, <1>8, <1>9, <1>10 DEF Next, UploadStep

LEMMA GcsHashStep ==
  ASSUME GcsInv, [Next]_vars
  PROVE  HashIsCurrent'
<1> SUFFICES ASSUME pc' = "hash" PROVE object'.version # 0 /\ remote' = Md5Of(object')
  BY DEF HashIsCurrent, Md5Of
<1> USE DEF GcsInv, HashIsCurrent
<1>1. CASE FetchHash
  BY <1>1 DEF FetchHash
<1>2. CASE UNCHANGED <<pc, object, remote>>
  BY <1>2
<1>3. Grow \/ Replace \/ UNCHANGED vars => UNCHANGED <<pc, object, remote>>
  BY DEF Grow, Replace, vars
<1>4. UploadStep => FetchHash
  BY DEF UploadStep, CompareHash, HashFails, CreateUpload, CreateUploadFails, ReadChunk, ReadFails,
         UploadChunk, UploadChunkFails, CompleteUpload, CompleteUploadFails, CancelUpload,
         CancelUploadFails, Return
<1>5. ~Upload
  BY DEF Upload
<1> QED
  BY <1>1, <1>2, <1>3, <1>4, <1>5 DEF Next

LEMMA GcsSessionStep ==
  ASSUME GcsInv, [Next]_vars
  PROVE  (RangesMeet /\ NoSessionYet /\ NoSessionLeft)'
<1> USE GcsAssumption DEF GcsInv, TypeOK, InFile, RangesMeet, NoSessionYet, NoSessionLeft, Before
<1>1. CASE Grow \/ Replace \/ UNCHANGED vars
  BY <1>1 DEF Grow, Replace, vars
<1>2. CASE Upload \/ FetchHash
  BY <1>2 DEF Upload, FetchHash, NoSession
<1>3. CASE CompareHash \/ HashFails
  BY <1>3 DEF CompareHash, HashFails, Return
<1>4. CASE CreateUpload
  BY <1>4 DEF CreateUpload
<1>5. CASE CreateUploadFails
  BY <1>5 DEF CreateUploadFails, Return
<1>6. CASE ReadChunk \/ ReadFails
  BY <1>6 DEF ReadChunk, ReadFails, Return
<1>7. CASE UploadChunk
  BY <1>7 DEF UploadChunk
<1>8. CASE UploadChunkFails \/ CompleteUploadFails
  BY <1>8 DEF UploadChunkFails, CompleteUploadFails
<1>9. CASE CompleteUpload
  BY <1>9 DEF CompleteUpload, Return, NoSession
<1>10. CASE CancelUpload \/ CancelUploadFails
  BY <1>10 DEF CancelUpload, CancelUploadFails, Return, NoSession
<1> QED
  BY <1>1, <1>2, <1>3, <1>4, <1>5, <1>6, <1>7, <1>8, <1>9, <1>10 DEF Next, UploadStep

LEMMA GcsStep == GcsInv /\ [Next]_vars => GcsInv'
BY GcsTypeStep, GcsBoundStep, GcsReadStep, GcsHashStep, GcsSessionStep DEF GcsInv

LEMMA GcsInvariant == Spec => []GcsInv
BY GcsStart, GcsStep, PTL DEF Spec

-----------------------------------------------------------------------------
(* Every variable of the uploader keeps its type, whatever fails and        *)
(* however the file grows (uploader.rs:45-72, 161-343).                     *)
THEOREM GcsTypeCorrect == Spec => []TypeOK
<1>1. GcsInv => TypeOK
  BY DEF GcsInv
<1> QED
  BY <1>1, GcsInvariant, PTL

(* Whenever a range is sent, what the uploader counts as uploaded is what   *)
(* the session has persisted: no chunk size, growth of the file or short    *)
(* write makes a range skip or repeat bytes (uploader.rs:181, 225-226, 265).*)
THEOREM NoGapNoOverlap == Spec => []RangesMeet
<1>1. GcsInv => RangesMeet
  BY DEF GcsInv
<1> QED
  BY <1>1, GcsInvariant, PTL

(* A call that ends without completing its session has cancelled it, unless *)
(* a request to the store went unanswered or the file could not be read     *)
(* (uploader.rs:162, 171).                                                  *)
THEOREM SessionsAreCancelled == Spec => []NoSessionLeft
<1>1. GcsInv => NoSessionLeft
  BY DEF GcsInv
<1> QED
  BY <1>1, GcsInvariant, PTL

-----------------------------------------------------------------------------
(* Equal hashes: the object is the file.                                    *)
LEMMA EqualHashes ==
  ASSUME GcsInv, pc = "hash", Md5Of(file) = remote
  PROVE  Promise!UpToDate(object)
<1>1. /\ object.version # 0 /\ Md5Of(file) = Md5Of(object)
      /\ file \in Body /\ object \in Body /\ begun \in Nat /\ begun <= file.size
  BY DEF GcsInv, HashIsCurrent, SinceBegun, TypeOK
<1>2. file.size = object.size
  BY <1>1 DEF Md5Of, Body
<1>3. file.size # 0 => file = object
  BY <1>1, <1>2 DEF Md5Of
<1> QED
  BY <1>1, <1>2, <1>3 DEF Promise!UpToDate, Body

(* The body a completed session makes is the file as the call read it.      *)
LEMMA CompletedBody ==
  ASSUME GcsInv, CompleteUpload
  PROVE  object' \in {b \in Promise!Body : b.version = file.version /\ Promise!UpToDate(b)}
<1>1. /\ object' = [version |-> file.version, size |-> uploaded + chunk]
      /\ begun <= uploaded + chunk /\ uploaded + chunk <= file.size
      /\ begun \in Nat /\ uploaded + chunk \in Nat
      /\ file.version \in 1..MaxVersion /\ file.size \in 0..MaxSize
  BY DEF GcsInv, CompleteUpload, SinceBegun, InFile, Bounded, TypeOK
<1>2. object' \in Promise!Body
  BY <1>1, GcsAssumption DEF Promise!Body
<1> QED
  BY <1>1, <1>2 DEF Promise!UpToDate

(* Every action of the uploader is a step of the promise or none of its     *)
(* business.                                                                *)
LEMMA GcsImplementsStep == GcsInv /\ [Next]_vars => [Promise!Next]_(Promise!vars)
<1> SUFFICES ASSUME GcsInv, [Next]_vars PROVE Promise!Next \/ UNCHANGED Promise!vars
  OBVIOUS
<1>0. pc # "idle" => ok = FALSE
  BY DEF GcsInv, SinceBegun
<1> USE DEF Promise!vars
<1>1. CASE Grow
  BY <1>1 DEF Grow, Promise!Next, Promise!Grow
<1>2. CASE Replace
  <2>1. file' \in {b \in Promise!Body : b.version = file.version + 1}
    BY <1>2, GcsAssumption DEF Replace, Promise!Body, GcsInv, TypeOK, Body
  <2> QED
    BY <1>2, <2>1 DEF Replace, Promise!Next, Promise!Replace
<1>3. CASE Upload
  BY <1>3 DEF Upload, Promise!Next, Promise!Begin
<1>4. CASE FetchHash \/ CreateUpload \/ ReadChunk \/ UploadChunk \/ UploadChunkFails
             \/ CompleteUploadFails
  BY <1>4 DEF FetchHash, CreateUpload, ReadChunk, UploadChunk, UploadChunkFails,
              CompleteUploadFails
<1>5. CASE HashFails \/ CreateUploadFails \/ ReadFails \/ CancelUpload \/ CancelUploadFails
  BY <1>0, <1>5 DEF HashFails, CreateUploadFails, ReadFails, CancelUpload, CancelUploadFails,
                    Return, Promise!Next, Promise!ReturnErr
<1>6. CASE CompareHash
  <2>1. CASE Md5Of(file) = remote
    BY <1>6, <2>1, EqualHashes DEF CompareHash, Return, Promise!Next, Promise!ReturnOk
  <2>2. CASE Md5Of(file) # remote
    BY <1>6, <2>2 DEF CompareHash
  <2> QED
    BY <2>1, <2>2
<1>7. CASE CompleteUpload
  <2>1. pc # "idle" /\ UNCHANGED <<file, begun>>
    BY <1>7 DEF CompleteUpload
  <2>2. CASE Return(TRUE)
    BY <1>7, <2>1, <2>2, CompletedBody
       DEF Return, Promise!Next, Promise!StoreAndReturnOk
  <2>3. CASE pc' = "cancel" /\ UNCHANGED ok
    BY <1>7, <2>1, <2>3, CompletedBody DEF Promise!Next, Promise!Store
  <2> QED
    BY <1>7, <2>2, <2>3 DEF CompleteUpload
<1>8. CASE UNCHANGED vars
  BY <1>8 DEF vars
<1> QED
  BY <1>1, <1>2, <1>3, <1>4, <1>5, <1>6, <1>7, <1>8 DEF Next, UploadStep

(* One call of `upload' replaces the object by the whole file or leaves it  *)
(* alone, and returns Ok only when the store has the file as it was when    *)
(* the call began or newer: for every file size and chunk size, and however *)
(* chunks, short writes and lost answers went (uploader.rs:45-72, 161-343). *)
THEOREM GcsUploadIsAtomic == Spec => ImplementsAtomicUpload
<1>1. Init => Promise!Init
  BY GcsAssumption DEF Init, NoObject, Promise!Init, Promise!Body, Promise!NoObject
<1> QED
  BY <1>1, GcsImplementsStep, GcsInvariant, PTL DEF Spec, ImplementsAtomicUpload, Promise!Spec
===============================================================================
