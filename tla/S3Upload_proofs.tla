---------------------------- MODULE S3Upload_proofs ----------------------------
(***************************************************************************)
(* Proofs about S3Upload, for every chunk size and limit, every bound and   *)
(* every length of run: the uploader implements AtomicUpload, and does not  *)
(* upload again what is stored.                                             *)
(***************************************************************************)
EXTENDS S3Upload, SequenceTheorems, TLAPS

(* Files and objects stay within the bounds the promise is made for.        *)
Bounded ==
  /\ file \in [version : 1..MaxVersion, size : 0..MaxSize]
  /\ object.version \in 0..MaxVersion /\ object.size \in 0..MaxSize

(* The parts of an upload: the first a whole chunk, none empty, the last    *)
(* ending at size, and where the ones before were whole each at its place.  *)
WellCut(list, version, size) ==
  /\ Len(list) >= 1 /\ size >= ChunkSize
  /\ list[1][3] = ChunkSize
  /\ \A i \in 1..Len(list) : list[i][1] = version /\ list[i][3] \in 1..ChunkSize
  /\ list[Len(list)][2] + list[Len(list)][3] = size
  /\ \A i \in 1..Len(list) :
       (\A j \in 1..(i - 1) : list[j][3] = ChunkSize) => list[i][2] = (i - 1) * ChunkSize

(* The etag of the object tells how the object was made.                    *)
ObjectIsCut ==
  object.version # 0 =>
    \/ /\ object.etag = Etag(<<Part(object.version, 0, object.size)>>, 0)
       /\ object.size < ChunkSize
    \/ /\ WellCut(object.etag.of, object.version, object.size)
       /\ object.etag.parts = Len(object.etag.of)

(* The calculator has hashed whole chunks, the last of them just before     *)
(* offset, and if it began with an empty list nothing but this file's.      *)
WholeChunks == \A i \in 1..Len(concat) : concat[i][3] = ChunkSize

Hashing ==
  pc = "etag" =>
    /\ object.version # 0 /\ remote = object.etag
    /\ count = 0 => offset = 0
    /\ count # 0 => /\ offset >= ChunkSize /\ Len(concat) >= 1
                    /\ concat[Len(concat)] = <<file.version, offset - ChunkSize, ChunkSize>>
    /\ clean => /\ Len(concat) = count /\ offset = count * ChunkSize
                /\ \A i \in 1..count :
                     concat[i] = <<file.version, (i - 1) * ChunkSize, ChunkSize>>

(* What is being sent is in the file and follows what was sent.             *)
Sending ==
  /\ pc = "put" => begun <= chunk /\ chunk <= file.size /\ chunk < ChunkSize
  /\ pc = "create" => chunk = ChunkSize /\ offset = 0 /\ parts = <<>>
  /\ pc \in {"part", "read", "complete"} =>
       IF parts = <<>> THEN pc = "part" /\ chunk = ChunkSize /\ offset = 0
                       ELSE WellCut(parts, file.version, offset)
  /\ pc = "part" => chunk <= ChunkSize
  /\ pc = "complete" => begun <= offset

InFile ==
  /\ pc \in {"etag", "first", "create", "part", "read", "complete"} => offset + chunk <= file.size
  /\ pc \in {"idle", "head", "etag", "first"} => chunk = 0 /\ parts = <<>>
  /\ pc \in {"idle", "head", "first"} => count = 0 /\ offset = 0

SinceBegun == pc # "idle" => begun <= file.size /\ ok = FALSE

(* No multipart upload is open before the call has opened one.              *)
NoSessionYet == pc \in {"head", "etag", "first", "put", "create"} => ~session

S3Inv ==
  /\ TypeOK /\ Bounded /\ ObjectIsCut /\ WholeChunks /\ Hashing /\ Sending /\ InFile
  /\ SinceBegun /\ NoSessionYet /\ NoSessionLeft

-----------------------------------------------------------------------------
(* The first part, a whole chunk, is well cut ...                           *)
LEMMA FirstCut ==
  ASSUME NEW v \in Nat
  PROVE  WellCut(<<<<v, 0, ChunkSize>>>>, v, ChunkSize)
BY S3Assumption DEF WellCut

(* ... and stays so when what follows is appended to it.                    *)
LEMMA NextCut ==
  ASSUME NEW list \in Digests, NEW v \in Nat, NEW size \in Nat, NEW n \in 1..ChunkSize,
         WellCut(list, v, size)
  PROVE  WellCut(Append(list, <<v, size, n>>), v, size + n)
<1> DEFINE L == Len(list)
           new == Append(list, <<v, size, n>>)
<1>1. /\ ChunkSize \in Nat /\ ChunkSize >= 1 /\ L \in Nat /\ L >= 1
      /\ \A i \in 1..L : list[i][2] \in Nat /\ list[i][3] \in Nat
  <2>1. L \in Nat /\ \A i \in 1..L : list[i] \in Nat \X Nat \X Nat
    BY DEF Digests
  <2> QED
    <3>1. Len(list) >= 1
      BY DEF WellCut
    <3>2. ChunkSize \in Nat /\ ChunkSize >= 1
      BY S3Assumption
    <3>3. ASSUME NEW i \in 1..L
          PROVE  list[i][2] \in Nat /\ list[i][3] \in Nat
      <4>1. list[i] \in Nat \X Nat \X Nat
        BY <2>1
      <4> QED
        BY <4>1
    <3> QED
      BY <2>1, <3>1, <3>2, <3>3
<1>2. Len(new) = L + 1 /\ new[L + 1] = <<v, size, n>> /\ \A i \in 1..L : new[i] = list[i]
  BY DEF Digests
<1> HIDE DEF new, L
<1>3. \A i \in 1..(L + 1) : i \in 1..L \/ i = L + 1
  BY <1>1
<1>4. \A i \in 1..(L + 1) : new[i][1] = v /\ new[i][3] \in 1..ChunkSize
  <2>1. \A i \in 1..L : list[i][1] = v /\ list[i][3] \in 1..ChunkSize
    BY DEF WellCut, L
  <2>2. new[L + 1][1] = v /\ new[L + 1][3] \in 1..ChunkSize
    BY <1>2
  <2> QED
    BY <1>2, <1>3, <2>1, <2>2
<1>5. new[1][3] = ChunkSize /\ new[L + 1][2] + new[L + 1][3] = size + n /\ size + n >= ChunkSize
  BY <1>1, <1>2 DEF WellCut
<1>6. ASSUME NEW i \in 1..(L + 1), \A j \in 1..(i - 1) : new[j][3] = ChunkSize
      PROVE  new[i][2] = (i - 1) * ChunkSize
  <2>1. CASE i \in 1..L
    <3>1. \A j \in 1..(i - 1) : j \in 1..L /\ list[j][3] = ChunkSize
      BY <1>1, <1>2, <1>6, <2>1
    <3> QED
      BY <1>2, <2>1, <3>1 DEF WellCut, L
  <2>2. CASE i = L + 1
    <3>1. \A j \in 1..L : list[j][3] = ChunkSize
      BY <1>1, <1>2, <1>6, <2>2
    <3>2. list[L][2] = (L - 1) * ChunkSize
      BY <1>1, <3>1 DEF WellCut, L
    <3>3. list[L][2] + list[L][3] = size /\ list[L][3] = ChunkSize
      BY <1>1, <3>1 DEF WellCut, L
    <3>4. (L - 1) * ChunkSize + ChunkSize = L * ChunkSize
      BY <1>1
    <3>5. size = L * ChunkSize
      BY <3>2, <3>3, <3>4
    <3>6. new[i][2] = size
      BY <1>2, <2>2
    <3>7. i - 1 = L
      BY <1>1, <2>2
    <3> QED
      BY <3>5, <3>6, <3>7
  <2> QED
    BY <1>3, <2>1, <2>2
<1> QED
  <2>1. Len(new) >= 1 /\ new[Len(new)][2] + new[Len(new)][3] = size + n
    BY <1>1, <1>2, <1>5
  <2>2. \A i \in 1..Len(new) : i \in 1..(L + 1)
    BY <1>2
  <2>3. WellCut(new, v, size + n)
    BY <1>4, <1>5, <1>6, <2>1, <2>2 DEF WellCut
  <2> QED
    BY <2>3 DEF new

-----------------------------------------------------------------------------
(* The type invariant without its truth values.                             *)
Numbers ==
  /\ file \in [version : Nat, size : Nat]
  /\ object \in [version : Nat, size : Nat, etag : [of : Digests, parts : Nat]]
  /\ pc \in {"idle", "head", "etag", "first", "put", "create", "part", "read",
             "complete", "abort"}
  /\ begun \in Nat /\ count \in Nat /\ offset \in Nat /\ chunk \in Nat
  /\ faults \in Nat /\ calls \in Nat
  /\ remote \in [of : Digests, parts : Nat]
  /\ concat \in Digests
  /\ parts \in Digests

LEMMA FlagStep ==
  ASSUME ok \in BOOLEAN, session \in BOOLEAN, excused \in BOOLEAN, clean \in BOOLEAN,
         [Next]_vars
  PROVE  ok' \in BOOLEAN /\ session' \in BOOLEAN /\ excused' \in BOOLEAN /\ clean' \in BOOLEAN
<1>1. CASE Grow \/ Replace \/ Upload
  BY <1>1 DEF Grow, Replace, Upload
<1>2. CASE FetchEtag \/ HashChunk \/ CompareEtag \/ HashFails
  BY <1>2 DEF FetchEtag, HashChunk, CompareEtag, HashFails, Return, Rewind
<1>3. CASE ReadFirst \/ ReadFirstFails \/ PutObject \/ PutObjectFails
  BY <1>3 DEF ReadFirst, ReadFirstFails, PutObject, PutObjectFails, Return
<1>4. CASE CreateUpload \/ CreateUploadFails
  BY <1>4 DEF CreateUpload, CreateUploadFails, Return, local
<1>5. CASE UploadPart \/ ReadNext \/ TooLarge \/ StepFails
  BY <1>5 DEF UploadPart, ReadNext, TooLarge, StepFails
<1>6. CASE CompleteUpload \/ AbortUpload \/ AbortUploadFails
  BY <1>6 DEF CompleteUpload, AbortUpload, AbortUploadFails, Return
<1>7. CASE UNCHANGED vars
  BY <1>7 DEF vars
<1> QED
  BY <1>1, <1>2, <1>3, <1>4, <1>5, <1>6, <1>7 DEF Next, UploadStep

(* A read returns what is left of the file, up to a chunk.                  *)
LEMMA ReadableInFile ==
  ASSUME Numbers, NEW position \in Nat, position <= file.size
  PROVE  /\ Readable(position) \in 0..ChunkSize
         /\ position + Readable(position) <= file.size
         /\ Readable(position) < ChunkSize => position + Readable(position) = file.size
BY S3Assumption DEF Numbers, Readable

LEMMA DigestTypes ==
  /\ <<>> \in Digests /\ NoEtag \in [of : Digests, parts : Nat]
  /\ \A v, f, n \in Nat : <<v, f, n>> \in Nat \X Nat \X Nat /\ Part(v, f, n) \in Nat \X Nat \X Nat
  /\ \A list \in Digests, p \in Nat \X Nat \X Nat :
       Append(list, p) \in Digests /\ <<p>> \in Digests /\ Len(list) \in Nat
BY EmptySeq DEF Digests, NoEtag, Etag, Part

LEMMA NumberStep ==
  ASSUME S3Inv, [Next]_vars
  PROVE  Numbers'
<1>0. Numbers /\ ChunkSize \in Nat
  BY S3Assumption DEF S3Inv, TypeOK, Numbers
<1>a. file.version \in Nat /\ file.size \in Nat
  BY <1>0 DEF Numbers
<1>b. /\ Fault => faults' \in Nat
      /\ count + 1 \in Nat /\ offset + ChunkSize \in Nat /\ offset + chunk \in Nat
      /\ file.size + 1 \in Nat /\ file.version + 1 \in Nat /\ calls + 1 \in Nat
  BY <1>0, <1>a DEF Numbers, Fault
<1>c. ASSUME NEW result, Return(result)
      PROVE  /\ pc' = "idle" /\ remote' \in [of : Digests, parts : Nat]
             /\ count' \in Nat /\ offset' \in Nat /\ chunk' \in Nat /\ parts' \in Digests
  BY <1>c, DigestTypes DEF Return
<1> USE <1>0 DEF Numbers
<1>1. CASE Grow
  BY <1>1 DEF Grow, local
<1>2. CASE Replace
  BY <1>2, <1>b DEF Replace, local
<1>3. CASE Upload
  BY <1>3, <1>a, <1>b DEF Upload, local
<1>4. CASE FetchEtag
  BY <1>4, <1>b DEF FetchEtag
<1>5. CASE HashChunk
  <2>1. concat' \in Digests
    BY <1>5, <1>a, DigestTypes DEF HashChunk
  <2> QED
    BY <1>5, <1>b, <1>c, <2>1 DEF HashChunk
<1>6. CASE CompareEtag
  <2>1. Rewind("first") =>
          /\ pc' = "first" /\ remote' \in [of : Digests, parts : Nat]
          /\ count' \in Nat /\ offset' \in Nat /\ chunk' \in Nat /\ parts' \in Digests
    BY DigestTypes DEF Rewind
  <2>2. concat' \in Digests
    BY <1>6, DigestTypes DEF CompareEtag
  <2> QED
    BY <1>6, <1>c, <2>1, <2>2 DEF CompareEtag
<1>7. CASE HashFails \/ ReadFirstFails \/ PutObjectFails
  BY <1>7, <1>b, <1>c DEF HashFails, ReadFirstFails, PutObjectFails
<1>8. CASE ReadFirst
  <2>1. Readable(0) \in Nat
    BY <1>a, ReadableInFile
  <2> QED
    BY <1>8, <2>1 DEF ReadFirst
<1>9. CASE PutObject
  <2>1. object' \in [version : Nat, size : Nat, etag : [of : Digests, parts : Nat]]
    <3>1. <<Part(file.version, 0, chunk)>> \in Digests
      BY <1>a, DigestTypes
    <3> QED
      BY <1>9, <1>a, <3>1 DEF PutObject, Stored, Etag
  <2> QED
    BY <1>9, <1>b, <1>c, <2>1 DEF PutObject
<1>10. CASE CreateUpload
  BY <1>10 DEF CreateUpload, local
<1>11. CASE CreateUploadFails
  BY <1>11, <1>b, <1>c DEF CreateUploadFails
<1>12. CASE UploadPart
  <2>1. parts' \in Digests
    BY <1>12, <1>a, DigestTypes DEF UploadPart
  <2> QED
    BY <1>12, <1>b, <2>1 DEF UploadPart
<1>13. CASE ReadNext
  <2>1. offset <= file.size
    BY <1>13, <1>a DEF ReadNext, S3Inv, InFile
  <2>2. Readable(offset) \in Nat
    BY <2>1, ReadableInFile
  <2> QED
    BY <1>13, <1>b, <2>2 DEF ReadNext
<1>14. CASE TooLarge
  BY <1>14 DEF TooLarge, local
<1>15. CASE StepFails
  BY <1>15, <1>b DEF StepFails, local
<1>16. CASE CompleteUpload
  <2>1. object' \in [version : Nat, size : Nat, etag : [of : Digests, parts : Nat]]
    BY <1>16, <1>a, DigestTypes DEF CompleteUpload, Stored, Etag
  <2>2. CASE Return(TRUE) /\ UNCHANGED faults
    BY <1>16, <1>c, <2>1, <2>2 DEF CompleteUpload
  <2>3. CASE Fault /\ pc' = "abort" /\ UNCHANGED local
    BY <1>16, <1>b, <2>1, <2>3 DEF CompleteUpload, local
  <2> QED
    BY <1>16, <2>2, <2>3 DEF CompleteUpload
<1>17. CASE AbortUpload \/ AbortUploadFails
  BY <1>17, <1>b, <1>c DEF AbortUpload, AbortUploadFails
<1>18. CASE UNCHANGED vars
  BY <1>18 DEF vars, local
<1> QED
  BY <1>1, <1>2, <1>3, <1>4, <1>5, <1>6, <1>7, <1>8, <1>9, <1>10, <1>11, <1>12, <1>13, <1>14,
     <1>15, <1>16, <1>17, <1>18 DEF Next, UploadStep

LEMMA TypeStep == S3Inv /\ [Next]_vars => TypeOK'
BY FlagStep, NumberStep DEF S3Inv, TypeOK, Numbers

-----------------------------------------------------------------------------
(* The facts every step starts from.                                        *)
LEMMA Sizes ==
  ASSUME S3Inv
  PROVE  /\ Numbers
         /\ ChunkSize \in Nat /\ ChunkSize # 0
         /\ file.version \in 1..MaxVersion /\ file.version \in Nat
         /\ file.size \in 0..MaxSize /\ file.size \in Nat
         /\ object.version \in 0..MaxVersion /\ object.size \in 0..MaxSize
         /\ object.version \in Nat /\ object.size \in Nat
         /\ MaxVersion \in Nat /\ MaxSize \in Nat
  BY S3Assumption DEF S3Inv, TypeOK, Numbers, Bounded

(* Only these touch the file, or the object.                                *)
LEMMA FileSteps ==
  ASSUME [Next]_vars
  PROVE  \/ Grow \/ Replace
         \/ UNCHANGED file
BY DEF Next, UploadStep, vars, Upload, FetchEtag, HashChunk, CompareEtag, HashFails, ReadFirst,
       ReadFirstFails, PutObject, PutObjectFails, CreateUpload, CreateUploadFails, UploadPart,
       ReadNext, TooLarge, CompleteUpload, StepFails, AbortUpload, AbortUploadFails

LEMMA ObjectSteps ==
  ASSUME [Next]_vars
  PROVE  \/ PutObject \/ CompleteUpload
         \/ UNCHANGED object
BY DEF Next, UploadStep, vars, Grow, Replace, Upload, FetchEtag, HashChunk, CompareEtag, HashFails,
       ReadFirst, ReadFirstFails, PutObjectFails, CreateUpload, CreateUploadFails, UploadPart,
       ReadNext, TooLarge, StepFails, AbortUpload, AbortUploadFails

LEMMA BoundStep ==
  ASSUME S3Inv, [Next]_vars
  PROVE  Bounded'
<1> USE Sizes DEF Numbers
<1>1. file' \in [version : 1..MaxVersion, size : 0..MaxSize]
  <2>1. CASE Grow
    BY <2>1 DEF Grow
  <2>2. CASE Replace
    BY <2>2 DEF Replace
  <2>3. CASE UNCHANGED file
    BY <2>3
  <2> QED
    BY <2>1, <2>2, <2>3, FileSteps
<1>2. object'.version \in 0..MaxVersion /\ object'.size \in 0..MaxSize
  <2>1. CASE PutObject
    BY <2>1 DEF PutObject, Stored, S3Inv, Sending
  <2>2. CASE CompleteUpload
    BY <2>2, SMTT(30) DEF CompleteUpload, Stored, S3Inv, InFile
  <2>3. CASE UNCHANGED object
    BY <2>3
  <2> QED
    BY <2>1, <2>2, <2>3, ObjectSteps
<1> QED
  BY <1>1, <1>2 DEF Bounded

LEMMA CutStep ==
  ASSUME S3Inv, [Next]_vars
  PROVE  ObjectIsCut'
<1>1. CASE PutObject
  BY <1>1, Sizes DEF PutObject, Stored, S3Inv, Sending, ObjectIsCut, Part
<1>2. CASE CompleteUpload
  <2>1. WellCut(parts, file.version, offset)
    BY <1>2 DEF CompleteUpload, S3Inv, Sending
  <2> QED
    BY <1>2, <2>1 DEF CompleteUpload, Stored, Etag, ObjectIsCut, WellCut
<1>3. CASE UNCHANGED object
  BY <1>3 DEF S3Inv, ObjectIsCut, WellCut, Part
<1> QED
  BY <1>1, <1>2, <1>3, ObjectSteps

(* What the calculator has hashed.                                          *)
LEMMA ChunkHashed ==
  ASSUME S3Inv, HashChunk
  PROVE  /\ concat' = Append(concat, <<file.version, offset, ChunkSize>>)
         /\ Len(concat) \in Nat /\ Len(concat') = Len(concat) + 1
         /\ concat'[Len(concat) + 1] = <<file.version, offset, ChunkSize>>
         /\ \A i \in 1..Len(concat) : concat'[i] = concat[i]
<1>1. concat \in Digests /\ concat' = Append(concat, <<file.version, offset, ChunkSize>>)
  BY Sizes DEF HashChunk, Part, Numbers
<1>2. Len(concat) \in Nat /\ <<file.version, offset, ChunkSize>> \in Nat \X Nat \X Nat
  BY <1>1, Sizes DEF Digests, Numbers
<1> QED
  BY <1>1, <1>2 DEF Digests

LEMMA ConcatStep ==
  ASSUME S3Inv, [Next]_vars
  PROVE  WholeChunks'
<1>1. CASE HashChunk
  <2>1. \A i \in 1..Len(concat') : i \in 1..Len(concat) \/ i = Len(concat) + 1
    BY <1>1, ChunkHashed
  <2> QED
    BY <1>1, <2>1, ChunkHashed DEF S3Inv, WholeChunks
<1>2. CASE CompareEtag
  BY <1>2 DEF CompareEtag, WholeChunks
<1>3. CASE UNCHANGED concat
  BY <1>3 DEF S3Inv, WholeChunks
<1>4. HashChunk \/ CompareEtag \/ UNCHANGED concat
  BY DEF Next, UploadStep, vars, Grow, Replace, Upload, FetchEtag, HashFails, ReadFirst,
         ReadFirstFails, PutObject, PutObjectFails, CreateUpload, CreateUploadFails, UploadPart,
         ReadNext, TooLarge, CompleteUpload, StepFails, AbortUpload, AbortUploadFails
<1> QED
  BY <1>1, <1>2, <1>3, <1>4

LEMMA HashingStep ==
  ASSUME S3Inv, [Next]_vars
  PROVE  Hashing'
<1> SUFFICES ASSUME pc' = "etag" PROVE Hashing'
  BY DEF Hashing
<1> USE Sizes DEF Numbers
<1>1. CASE FetchEtag
  <2>1. /\ pc = "head" /\ object.version # 0 /\ remote' = object.etag /\ clean' = (concat = <<>>)
        /\ UNCHANGED <<file, object, concat, count, offset>>
    BY <1>1 DEF FetchEtag
  <2>2. count = 0 /\ offset = 0
    BY <2>1 DEF S3Inv, InFile
  <2>3. clean' => concat = <<>>
    BY <2>1, Zenon
  <2>4. clean' => Len(concat') = count' /\ offset' = count' * ChunkSize
    BY <2>1, <2>2, <2>3
  <2> QED
    BY <2>1, <2>2, <2>4 DEF Hashing
<1>2. CASE HashChunk
  <2>1. /\ pc = "etag" /\ count' = count + 1 /\ offset' = offset + ChunkSize
        /\ UNCHANGED <<file, object, remote, clean>>
    BY <1>2 DEF HashChunk, Return
  <2>2. object'.version # 0 /\ remote' = object'.etag /\ count' # 0
    <3>1. object.version # 0 /\ remote = object.etag
      BY <2>1, Zenon DEF S3Inv, Hashing
    <3>2. count' # 0
      BY <2>1
    <3> QED
      BY <2>1, <3>1, <3>2
  <2>3. /\ offset' >= ChunkSize /\ Len(concat') >= 1
        /\ concat'[Len(concat')] = <<file'.version, offset' - ChunkSize, ChunkSize>>
    <3>1. (offset + ChunkSize) - ChunkSize = offset /\ offset + ChunkSize >= ChunkSize
      OBVIOUS
    <3>2. Len(concat') = Len(concat) + 1 /\ Len(concat) + 1 >= 1
      BY <1>2, ChunkHashed
    <3>3. concat'[Len(concat')] = <<file.version, offset, ChunkSize>>
      BY <1>2, <3>2, ChunkHashed
    <3> QED
      BY <2>1, <3>1, <3>2, <3>3
  <2>4. ASSUME clean'
        PROVE  /\ Len(concat') = count' /\ offset' = count' * ChunkSize
               /\ \A i \in 1..count' :
                    concat'[i] = <<file'.version, (i - 1) * ChunkSize, ChunkSize>>
    <3>1. /\ Len(concat) = count /\ offset = count * ChunkSize
          /\ \A i \in 1..count : concat[i] = <<file.version, (i - 1) * ChunkSize, ChunkSize>>
      BY <2>1, <2>4 DEF S3Inv, Hashing
    <3>2. (count + 1) * ChunkSize = count * ChunkSize + ChunkSize
      OBVIOUS
    <3>3. Len(concat') = count' /\ offset' = count' * ChunkSize
      BY <1>2, <2>1, <3>1, <3>2, ChunkHashed
    <3>4. concat'[count + 1] = <<file.version, ((count + 1) - 1) * ChunkSize, ChunkSize>>
      <4>1. (count + 1) - 1 = count
        OBVIOUS
      <4> QED
        BY <1>2, <3>1, <4>1, ChunkHashed
    <3>5. \A i \in 1..count' : i \in 1..count \/ i = count + 1
      BY <2>1
    <3> QED
      BY <1>2, <2>1, <3>1, <3>3, <3>4, <3>5, ChunkHashed
  <2> QED
    BY <2>2, <2>3, <2>4 DEF Hashing
<1>3. CASE Grow
  <2>1. file'.version = file.version /\ UNCHANGED <<object, pc, remote, concat, count, offset, clean>>
    BY <1>3 DEF Grow, local
  <2> QED
    BY <2>1 DEF S3Inv, Hashing
<1>4. CASE UNCHANGED vars
  BY <1>4 DEF S3Inv, Hashing, vars, local
<1>5. ~(Replace \/ Upload)
  BY DEF Replace, Upload
<1>6. UploadStep => FetchEtag \/ HashChunk
  BY DEF UploadStep, CompareEtag, HashFails, ReadFirst, ReadFirstFails, PutObject, PutObjectFails,
         CreateUpload, CreateUploadFails, UploadPart, ReadNext, TooLarge, CompleteUpload,
         StepFails, AbortUpload, AbortUploadFails, Return, Rewind
<1> QED
  BY <1>1, <1>2, <1>3, <1>4, <1>5, <1>6 DEF Next

(* How the multipart upload goes on.                                        *)
LEMMA PartSent ==
  ASSUME S3Inv, UploadPart
  PROVE  parts' # <<>> /\ WellCut(parts', file.version, offset')
<1>1. /\ parts' = Append(parts, <<file.version, offset, chunk>>)
      /\ offset' = offset + chunk /\ chunk \in 1..ChunkSize
      /\ parts \in Digests /\ offset \in Nat /\ file.version \in Nat
  <2>1. chunk \in Nat /\ chunk # 0 /\ chunk <= ChunkSize
    BY Sizes DEF UploadPart, Numbers, S3Inv, Sending
  <2>2. Part(file.version, offset, chunk) = <<file.version, offset, chunk>>
    BY <2>1 DEF Part
  <2>3. chunk \in 1..ChunkSize
    BY <2>1, Sizes
  <2> QED
    BY <2>2, <2>3, Sizes DEF UploadPart, Numbers
<1>2. CASE parts = <<>>
  <2>1. chunk = ChunkSize /\ offset = 0
    BY <1>2 DEF S3Inv, Sending, UploadPart
  <2>2. parts' = <<<<file.version, 0, ChunkSize>>>> /\ offset' = ChunkSize
    BY <1>1, <1>2, <2>1, Sizes
  <2>3. WellCut(parts', file.version, offset')
    BY <1>1, <2>2, FirstCut
  <2> QED
    BY <2>3 DEF WellCut
<1>3. CASE parts # <<>>
  <2>1. WellCut(parts, file.version, offset)
    BY <1>3 DEF S3Inv, Sending, UploadPart
  <2>2. Len(parts') = Len(parts) + 1 /\ Len(parts) \in Nat
    BY <1>1 DEF Digests
  <2> QED
    BY <1>1, <2>1, <2>2, NextCut
<1> QED
  BY <1>2, <1>3

LEMMA SendingStep ==
  ASSUME S3Inv, [Next]_vars
  PROVE  Sending'
<1> USE Sizes DEF Numbers
<1>1. CASE Grow
  BY <1>1, SMTT(30) DEF Grow, local, S3Inv, Sending
<1>2. CASE ReadFirst
  <2>1. /\ Readable(0) \in 0..ChunkSize /\ Readable(0) <= file.size
        /\ Readable(0) < ChunkSize => Readable(0) = file.size
    BY ReadableInFile
  <2>2. begun <= file.size /\ parts = <<>>
    BY <1>2 DEF ReadFirst, S3Inv, SinceBegun, InFile
  <2> QED
    BY <1>2, <2>1, <2>2, SMTT(30) DEF ReadFirst, Sending
<1>3. CASE CreateUpload
  BY <1>3 DEF CreateUpload, local, S3Inv, Sending
<1>4. CASE UploadPart
  BY <1>4, PartSent DEF UploadPart, Sending
<1>5. CASE ReadNext
  <2>1. parts # <<>> /\ WellCut(parts, file.version, offset) /\ offset <= file.size
    <3>1. pc = "read" /\ Sending /\ InFile /\ chunk \in Nat
      BY <1>5 DEF ReadNext, S3Inv
    <3>2. parts # <<>> /\ WellCut(parts, file.version, offset)
      BY <3>1, Zenon DEF Sending
    <3>3. offset + chunk <= file.size
      BY <3>1 DEF InFile
    <3> QED
      BY <3>1, <3>2, <3>3, SMTT(30)
  <2>2. /\ Readable(offset) \in 0..ChunkSize
        /\ Readable(offset) < ChunkSize => offset + Readable(offset) = file.size
    BY <2>1, ReadableInFile
  <2>3. begun <= file.size
    BY <1>5 DEF ReadNext, S3Inv, SinceBegun
  <2>4. Readable(offset) = 0 => begun <= offset
    BY <2>2, <2>3
  <2> QED
    BY <1>5, <2>1, <2>2, <2>4 DEF ReadNext, Sending
<1>6. CASE pc' \in {"idle", "head", "etag", "first", "abort"}
  BY <1>6 DEF Sending
<1>7. CASE UNCHANGED vars
  BY <1>7 DEF vars, local, S3Inv, Sending
<1>8. Replace \/ Upload => pc' \in {"idle", "head"}
  BY DEF Replace, Upload
<1>9. FetchEtag \/ HashChunk \/ CompareEtag \/ HashFails \/ ReadFirstFails \/ PutObject
        \/ PutObjectFails \/ CreateUploadFails \/ TooLarge \/ CompleteUpload \/ StepFails
        \/ AbortUpload \/ AbortUploadFails
      => pc' \in {"idle", "head", "etag", "first", "abort"}
  BY DEF FetchEtag, HashChunk, CompareEtag, HashFails, ReadFirstFails, PutObject, PutObjectFails,
         CreateUploadFails, TooLarge, CompleteUpload, StepFails, AbortUpload, AbortUploadFails,
         Return, Rewind
<1> QED
  BY <1>1, <1>2, <1>3, <1>4, <1>5, <1>6, <1>7, <1>8, <1>9 DEF Next, UploadStep

LEMMA InFileStep ==
  ASSUME S3Inv, [Next]_vars
  PROVE  InFile'
<1>0. InFile
  BY DEF S3Inv
<1>a. /\ offset \in Nat /\ chunk \in Nat /\ count \in Nat /\ file.size \in Nat
      /\ ChunkSize \in Nat
  BY Sizes DEF Numbers
<1>n. Numbers
  BY Sizes
<1>b. file'.size \in Nat
  BY NumberStep DEF Numbers
<1>1. CASE Grow
  <2>1. file'.size = file.size + 1 /\ UNCHANGED <<pc, offset, chunk, parts, count>>
    BY <1>1, Sizes DEF Grow, local, Numbers
  <2> QED
    BY <1>0, <1>a, <2>1 DEF InFile
<1>13. CASE Replace
  BY <1>0, <1>13 DEF Replace, local, InFile
<1>2. CASE Upload \/ FetchEtag
  <2>1. /\ pc \in {"idle", "head"} /\ pc' \in {"head", "etag", "first"}
        /\ UNCHANGED <<file, offset, chunk, parts, count>>
    BY <1>2 DEF Upload, FetchEtag, local
  <2>2. chunk = 0 /\ parts = <<>> /\ count = 0 /\ offset = 0
    BY <1>0, <2>1 DEF InFile
  <2> QED
    BY <1>a, <2>1, <2>2 DEF InFile
<1>3. CASE HashChunk
  <2>1. offset <= file.size /\ chunk = 0 /\ parts = <<>>
    BY <1>0, <1>3, <1>a DEF HashChunk, InFile
  <2>2. offset + ChunkSize <= file.size
    <3>1. Readable(offset) = ChunkSize
      BY <1>3 DEF HashChunk
    <3>2. offset + Readable(offset) <= file.size
      BY <1>a, <1>n, <2>1, ReadableInFile
    <3> QED
      BY <3>1, <3>2
  <2>3. CASE pc' = "idle"
    <3>1. chunk' = 0 /\ parts' = <<>> /\ count' = 0 /\ offset' = 0
      BY <1>3, <2>3 DEF HashChunk, Return
    <3> QED
      BY <2>3, <3>1 DEF InFile
  <2>4. CASE pc' = "etag"
    <3>1. offset' = offset + ChunkSize /\ UNCHANGED <<file, chunk, parts>>
      BY <1>3, <2>4 DEF HashChunk, Return
    <3> QED
      BY <1>a, <2>1, <2>2, <2>4, <3>1 DEF InFile
  <2>5. pc' \in {"idle", "etag"}
    BY <1>3 DEF HashChunk, Return
  <2> QED
    BY <2>3, <2>4, <2>5
<1>4. CASE Return(TRUE) \/ Return(FALSE) \/ Rewind("first")
  <2>1. /\ pc' \in {"idle", "first"} /\ parts' = <<>>
        /\ chunk' = 0 /\ count' = 0 /\ offset' = 0
    BY <1>4 DEF Return, Rewind
  <2> QED
    BY <1>b, <2>1 DEF InFile
<1>5. CASE ReadFirst
  <2>1. Readable(0) \in Nat /\ Readable(0) <= file.size
    BY <1>a, <1>n, ReadableInFile
  <2>2. pc = "first" /\ offset = 0 /\ count = 0 /\ parts = <<>>
    BY <1>0, <1>5 DEF ReadFirst, InFile
  <2> QED
    BY <1>5, <1>a, <2>1, <2>2 DEF ReadFirst, InFile
<1>6. CASE CreateUpload
  BY <1>0, <1>6 DEF CreateUpload, local, InFile
<1>7. CASE UploadPart
  BY <1>0, <1>7 DEF UploadPart, InFile
<1>8. CASE ReadNext
  <2>1. offset <= file.size
    BY <1>0, <1>8, <1>a DEF ReadNext, InFile
  <2>2. Readable(offset) \in Nat /\ offset + Readable(offset) <= file.size
    BY <1>a, <1>n, <2>1, ReadableInFile
  <2> QED
    BY <1>8, <1>a, <2>2 DEF ReadNext, InFile
<1>9. CASE pc' = "abort"
  BY <1>9 DEF InFile
<1>10. CASE UNCHANGED vars
  BY <1>0, <1>10 DEF vars, local, InFile
<1>11. CompareEtag \/ HashFails \/ ReadFirstFails \/ PutObject \/ PutObjectFails
         \/ CreateUploadFails \/ AbortUpload \/ AbortUploadFails
       => Return(TRUE) \/ Return(FALSE) \/ Rewind("first")
  BY DEF CompareEtag, HashFails, ReadFirstFails, PutObject, PutObjectFails, CreateUploadFails,
         AbortUpload, AbortUploadFails
<1>12. TooLarge \/ StepFails \/ CompleteUpload => Return(TRUE) \/ pc' = "abort"
  BY DEF TooLarge, StepFails, CompleteUpload
<1> QED
  BY <1>1, <1>2, <1>3, <1>4, <1>5, <1>6, <1>7, <1>8, <1>9, <1>10, <1>11, <1>12,
     <1>13 DEF Next, UploadStep

(* The actions that neither begin a call nor end it.                        *)
LEMMA ResultSteps ==
  ASSUME [Next]_vars
  PROVE  \/ Grow \/ Replace \/ Upload
         \/ pc' = "idle"
         \/ UNCHANGED <<file, begun, ok>> /\ (pc' = pc \/ pc # "idle")
BY DEF Next, UploadStep, vars, FetchEtag, HashChunk, CompareEtag, HashFails, ReadFirst,
       ReadFirstFails, PutObject, PutObjectFails, CreateUpload, CreateUploadFails, UploadPart,
       ReadNext, TooLarge, CompleteUpload, StepFails, AbortUpload, AbortUploadFails, Return, Rewind

LEMMA BegunStep ==
  ASSUME S3Inv, [Next]_vars
  PROVE  SinceBegun'
<1>1. CASE Grow
  <2>1. file'.size = file.size + 1 /\ UNCHANGED <<pc, begun, ok>>
    BY <1>1, Sizes DEF Grow, Numbers
  <2>2. begun \in Nat /\ file.size \in Nat
    BY Sizes DEF Numbers
  <2>3. pc # "idle" => begun <= file.size
    BY DEF S3Inv, SinceBegun
  <2>4. pc # "idle" => begun <= file'.size
    BY <2>1, <2>2, <2>3
  <2> QED
    BY <2>1, <2>4 DEF S3Inv, SinceBegun
<1>2. CASE Upload
  <2>1. begun' <= file'.size
    BY <1>2, Sizes DEF Upload
  <2> QED
    BY <1>2, <2>1 DEF Upload, SinceBegun
<1>3. CASE pc' = "idle"
  BY <1>3 DEF SinceBegun
<1>4. CASE UNCHANGED <<file, begun, ok>> /\ (pc' = pc \/ pc # "idle")
  BY <1>4 DEF S3Inv, SinceBegun
<1>5. Replace => pc' = "idle"
  BY DEF Replace
<1> QED
  BY <1>1, <1>2, <1>3, <1>4, <1>5, ResultSteps

(* No session without a request that opened it.                             *)
LEMMA SessionStep ==
  ASSUME S3Inv, [Next]_vars
  PROVE  (NoSessionYet /\ NoSessionLeft)'
<1> USE DEF S3Inv, NoSessionYet, NoSessionLeft
<1>1. CASE Grow \/ Replace \/ Upload \/ UNCHANGED vars
  BY <1>1 DEF Grow, Replace, Upload, vars
<1>2. CASE FetchEtag \/ HashChunk \/ CompareEtag \/ HashFails
  BY <1>2 DEF FetchEtag, HashChunk, CompareEtag, HashFails, Return, Rewind
<1>3. CASE ReadFirst \/ ReadFirstFails \/ PutObject \/ PutObjectFails
  BY <1>3 DEF ReadFirst, ReadFirstFails, PutObject, PutObjectFails, Return
<1>4. CASE CreateUpload \/ UploadPart \/ ReadNext \/ TooLarge \/ StepFails
  BY <1>4 DEF CreateUpload, UploadPart, ReadNext, TooLarge, StepFails
<1>5. CASE CreateUploadFails
  BY <1>5 DEF CreateUploadFails, Return
<1>6. CASE CompleteUpload \/ AbortUpload \/ AbortUploadFails
  BY <1>6 DEF CompleteUpload, AbortUpload, AbortUploadFails, Return
<1> QED
  BY <1>1, <1>2, <1>3, <1>4, <1>5, <1>6 DEF Next, UploadStep

LEMMA S3Start == Init => S3Inv
<1> SUFFICES ASSUME Init PROVE S3Inv
  OBVIOUS
<1> USE S3Assumption DEF Init
<1>1. Numbers
  BY DigestTypes DEF Numbers, NoObject, NoEtag, Etag
<1>2. TypeOK
  BY <1>1 DEF TypeOK, Numbers
<1>3. Bounded
  BY DEF Bounded, NoObject
<1>4. ObjectIsCut /\ WholeChunks /\ Hashing /\ Sending
  BY DEF ObjectIsCut, WholeChunks, Hashing, Sending, NoObject
<1>5. InFile /\ SinceBegun /\ NoSessionYet /\ NoSessionLeft
  BY DEF InFile, SinceBegun, NoSessionYet, NoSessionLeft
<1> QED
  BY <1>2, <1>3, <1>4, <1>5 DEF S3Inv

LEMMA S3Step == S3Inv /\ [Next]_vars => S3Inv'
BY TypeStep, BoundStep, CutStep, ConcatStep, HashingStep, SendingStep, InFileStep, BegunStep,
   SessionStep DEF S3Inv

LEMMA S3Invariant == Spec => []S3Inv
BY S3Start, S3Step, PTL DEF Spec

-----------------------------------------------------------------------------
(* Every variable of the uploader keeps its type, whatever fails and        *)
(* whatever an error leaves in concat_md5 (uploader.rs:40-196).             *)
THEOREM S3TypeCorrect == Spec => []TypeOK
<1>1. S3Inv => TypeOK
  BY DEF S3Inv
<1> QED
  BY <1>1, S3Invariant, PTL

(* A call that ends without completing its multipart upload has aborted it, *)
(* unless the store did not answer the request that would have told its id  *)
(* or aborted it (uploader.rs:161-171).                                     *)
THEOREM SessionsAreAborted == Spec => []NoSessionLeft
<1>1. S3Inv => NoSessionLeft
  BY DEF S3Inv
<1> QED
  BY <1>1, S3Invariant, PTL

-----------------------------------------------------------------------------
(* Where the calculator is when it has read to the end of the file.         *)
LEMMA AtEnd ==
  ASSUME S3Inv, pc = "etag", Readable(offset) < ChunkSize
  PROVE  /\ Readable(offset) \in Nat /\ offset + Readable(offset) = file.size
         /\ object.version # 0 /\ remote = object.etag
         /\ begun <= file.size
<1>1. offset \in Nat /\ offset <= file.size
  BY Sizes DEF S3Inv, InFile, Numbers
<1>2. Readable(offset) \in 0..ChunkSize /\ offset + Readable(offset) = file.size
  BY <1>1, Sizes, ReadableInFile
<1>3. object.version # 0 /\ remote = object.etag /\ begun <= file.size
  BY DEF S3Inv, Hashing, SinceBegun
<1> QED
  BY <1>2, <1>3, Sizes

UpToDate == Promise!UpToDate([version |-> object.version, size |-> object.size])

(* Equal etags: the object is the file, whatever was in concat_md5 before.  *)
LEMMA EqualEtags ==
  ASSUME S3Inv, pc = "etag", Readable(offset) < ChunkSize, LocalEtag = remote
  PROVE  UpToDate
<1> DEFINE n == Readable(offset)
           list == IF LastChunk(n) = <<>> THEN <<Part(0, 0, 0)>> ELSE LastChunk(n)
           chunks == IF n = 0 THEN count ELSE count + 1
<1>0. /\ n \in Nat /\ n < ChunkSize /\ offset + n = file.size /\ offset \in Nat /\ count \in Nat
      /\ file.version \in Nat /\ file.size \in Nat /\ object.version \in Nat /\ object.size \in Nat
      /\ ChunkSize \in Nat /\ ChunkSize # 0 /\ begun \in Nat /\ begun <= file.size
      /\ object.version # 0 /\ object.etag = LocalEtag
      /\ concat \in Digests /\ Len(concat) \in Nat
  BY AtEnd, Sizes DEF Numbers, Digests
<1>a. /\ n \in Nat /\ offset \in Nat /\ file.version \in Nat
      /\ object.version \in Nat /\ object.size \in Nat
  BY <1>0
<1>1. LocalEtag = IF file.size >= ChunkSize THEN Etag(list, chunks) ELSE Etag(list, 0)
  BY <1>0 DEF LocalEtag
<1>2. LastChunk(n) = IF n = 0 THEN concat ELSE Append(concat, <<file.version, offset, n>>)
  <2>1. n # 0 => Part(file.version, offset, n) = <<file.version, offset, n>>
    BY <1>a DEF Part
  <2> HIDE DEF n
  <2> QED
    BY <2>1 DEF LastChunk
<1> HIDE DEF n
<1>3. CASE count = 0
  <2>1. offset = 0 /\ n = file.size
    BY <1>0, <1>3 DEF S3Inv, Hashing
  <2>2. object.etag = Etag(list, 0)
    BY <1>0, <1>1, <2>1
  <2>3. object.etag = Etag(<<Part(object.version, 0, object.size)>>, 0) /\ object.size < ChunkSize
    BY <1>0, <2>2 DEF S3Inv, ObjectIsCut, WellCut, Etag
  <2>4. list = <<Part(object.version, 0, object.size)>>
    BY <2>2, <2>3 DEF Etag
  <2>5. Len(list) = 1 /\ list[1] = Part(object.version, 0, object.size) /\ list[1][3] = object.size
    <3>1. Part(object.version, 0, object.size)[3] = object.size
      BY <1>a DEF Part
    <3> QED
      BY <2>4, <3>1
  <2>6. concat = <<>>
    <3>1. CASE concat # <<>> /\ n = 0
      <4>1. list = concat
        BY <1>2, <3>1
      <4>2. list[1][3] = ChunkSize
        BY <2>5, <4>1 DEF S3Inv, WholeChunks
      <4> QED
        BY <1>0, <2>3, <2>5, <4>2
    <3>2. CASE concat # <<>> /\ n # 0
      <4>0. Len(concat) >= 1
        BY <1>0, <3>2, EmptySeq DEF Digests
      <4>1. LastChunk(n) = Append(concat, <<file.version, offset, n>>) /\ Len(concat) >= 1
        BY <1>2, <3>2, <4>0
      <4>2. Len(LastChunk(n)) = Len(concat) + 1
        BY <1>0, <4>1 DEF Digests
      <4>c. LastChunk(n) # <<>>
        <5>1. Len(LastChunk(n)) # 0
          BY <1>0, <4>0, <4>2
        <5>2. Len(<<>>) = 0
          OBVIOUS
        <5> QED
          BY <5>1, <5>2, Zenon
      <4>3. list = LastChunk(n)
        BY <4>c, Zenon
      <4> QED
        <5>1. Len(concat) + 1 = 1
          BY <2>5, <4>2, <4>3
        <5> QED
          BY <1>0, <4>0, <5>1
    <3> QED
      BY <3>1, <3>2
  <2>7. CASE n = 0
    <3>1. list = <<Part(0, 0, 0)>>
      BY <1>2, <2>6, <2>7
    <3>2. object.size = 0
      BY <2>5, <3>1 DEF Part
    <3> QED
      BY <1>0, <2>1, <2>7, <3>2 DEF UpToDate, Promise!UpToDate
  <2>8. CASE n # 0
    <3>1. LastChunk(n) = <<<<file.version, 0, n>>>>
      BY <1>0, <1>2, <2>1, <2>6, <2>8
    <3>2. LastChunk(n) # <<>>
      <4>1. Len(LastChunk(n)) = 1
        BY <3>1
      <4> QED
        BY <4>1
    <3>3. Part(object.version, 0, object.size) = <<file.version, 0, n>>
      BY <2>5, <3>1, <3>2
    <3>4. object.size = n /\ object.version = file.version
      <4>1. Part(object.version, 0, object.size)[3] = n
        BY <3>3
      <4>2. object.size = n
        <5>1. Part(object.version, 0, object.size)[3] = object.size
          BY <1>a DEF Part
        <5> QED
          BY <4>1, <5>1
      <4>3. Part(object.version, 0, object.size) = <<object.version, 0, object.size>>
        BY <1>a, <2>8, <4>2 DEF Part
      <4> QED
        BY <3>3, <4>2, <4>3
    <3> QED
      BY <1>0, <2>1, <3>4 DEF UpToDate, Promise!UpToDate
  <2> QED
    BY <2>7, <2>8
<1>4. CASE count # 0
  <2>1. /\ offset >= ChunkSize /\ Len(concat) >= 1
        /\ concat[Len(concat)] = <<file.version, offset - ChunkSize, ChunkSize>>
    BY <1>4, AtEnd DEF S3Inv, Hashing
  <2>2. object.etag = Etag(list, chunks) /\ chunks # 0
    BY <1>0, <1>1, <1>4, <2>1
  <2>3. WellCut(list, object.version, object.size)
    BY <1>0, <2>2 DEF S3Inv, ObjectIsCut, Etag
  <2>4. list[Len(list)] = IF n = 0 THEN <<file.version, offset - ChunkSize, ChunkSize>>
                          ELSE <<file.version, offset, n>>
    <3>1. CASE n = 0
      <4>1. list = concat
        BY <1>2, <2>1, <3>1
      <4> QED
        BY <2>1, <3>1, <4>1
    <3>2. CASE n # 0
      <4>1. LastChunk(n) = Append(concat, <<file.version, offset, n>>)
        BY <1>2, <3>2
      <4>2. /\ Len(LastChunk(n)) = Len(concat) + 1
            /\ LastChunk(n)[Len(concat) + 1] = <<file.version, offset, n>>
        BY <1>0, <4>1, SMTT(30) DEF Digests
      <4>3. list = LastChunk(n)
        BY <1>0, <4>2
      <4> QED
        BY <3>2, <4>2, <4>3
    <3> QED
      BY <3>1, <3>2
  <2>5. /\ list[Len(list)][1] = object.version
        /\ list[Len(list)][2] + list[Len(list)][3] = object.size
    <3>1. Len(list) \in 1..Len(list)
      BY <1>0, <2>2, <2>3, Sizes DEF WellCut, Etag, Numbers, Digests
    <3> QED
      BY <2>3, <3>1 DEF WellCut
  <2>6. object.version = file.version /\ object.size = file.size
    BY <1>0, <2>1, <2>4, <2>5
  <2> QED
    BY <1>0, <2>6 DEF UpToDate, Promise!UpToDate
<1> QED
  BY <1>3, <1>4

Image == [version |-> object.version, size |-> object.size]

(* What the last request of an upload stores is the file as the call read   *)
(* it.                                                                      *)
LEMMA StoredBody ==
  ASSUME S3Inv, PutObject \/ CompleteUpload
  PROVE  Image' \in {b \in Promise!Body : b.version = file.version /\ Promise!UpToDate(b)}
<1>1. PICK size \in Nat : /\ object'.version = file.version /\ object'.size = size
                          /\ begun <= size /\ size <= file.size
  <2>1. CASE PutObject
    <3>1. begun <= chunk /\ chunk <= file.size
      BY <2>1 DEF PutObject, S3Inv, Sending
    <3> QED
      BY <2>1, <3>1, Sizes DEF PutObject, Stored, Numbers
  <2>2. CASE CompleteUpload
    <3>1. begun <= offset /\ offset <= file.size
      BY <2>2, Sizes, SMTT(30) DEF CompleteUpload, S3Inv, Sending, InFile, Numbers
    <3> QED
      BY <2>2, <3>1, Sizes DEF CompleteUpload, Stored, Numbers
  <2> QED
    BY <2>1, <2>2
<1>2. Image' = [version |-> file.version, size |-> size]
  BY <1>1 DEF Image
<1>3. file.version \in 1..MaxVersion /\ file.size \in 0..MaxSize /\ begun \in Nat
  BY Sizes DEF Numbers
<1>4. Image' \in Promise!Body
  BY <1>1, <1>2, <1>3, S3Assumption DEF Promise!Body
<1>5. Promise!UpToDate(Image')
  BY <1>1, <1>2, <1>3 DEF Promise!UpToDate
<1> QED
  BY <1>2, <1>4, <1>5

(* Every action of the uploader is a step of the promise or none of its     *)
(* business.                                                                *)
LEMMA S3ImplementsStep == S3Inv /\ [Next]_vars => [Promise!Next]_(Promise!vars)
<1> SUFFICES ASSUME S3Inv, [Next]_vars PROVE Promise!Next \/ UNCHANGED Promise!vars
  OBVIOUS
<1>0. pc # "idle" => ok = FALSE
  BY DEF S3Inv, SinceBegun
<1> USE DEF Promise!vars
<1>1. CASE Grow
  BY <1>1 DEF Grow, Promise!Next, Promise!Grow
<1>2. CASE Replace
  <2>1. file' \in {b \in Promise!Body : b.version = file.version + 1}
    BY <1>2, S3Assumption, Sizes DEF Replace, Promise!Body
  <2> QED
    BY <1>2, <2>1 DEF Replace, Promise!Next, Promise!Replace
<1>3. CASE Upload
  BY <1>3 DEF Upload, Promise!Next, Promise!Begin
<1>4. CASE FetchEtag \/ ReadFirst \/ CreateUpload \/ UploadPart \/ ReadNext \/ TooLarge
             \/ StepFails
  BY <1>4 DEF FetchEtag, ReadFirst, CreateUpload, UploadPart, ReadNext, TooLarge, StepFails
<1>5. CASE HashFails \/ ReadFirstFails \/ PutObjectFails \/ CreateUploadFails \/ AbortUpload
             \/ AbortUploadFails
  BY <1>0, <1>5 DEF HashFails, ReadFirstFails, PutObjectFails, CreateUploadFails, AbortUpload,
                    AbortUploadFails, Return, Promise!Next, Promise!ReturnErr
<1>6. CASE HashChunk
  <2>1. CASE Return(FALSE)
    BY <1>0, <1>6, <2>1 DEF HashChunk, Return, Promise!Next, Promise!ReturnErr
  <2>2. CASE UNCHANGED <<pc, ok>>
    BY <1>6, <2>2 DEF HashChunk
  <2> QED
    BY <1>6, <2>1, <2>2 DEF HashChunk
<1>7. CASE CompareEtag
  <2>1. CASE LocalEtag = remote
    <3>1. UpToDate
      BY <1>7, <2>1, EqualEtags DEF CompareEtag
    <3> QED
      BY <1>7, <2>1, <3>1 DEF CompareEtag, Return, UpToDate, Promise!Next, Promise!ReturnOk
  <2>2. CASE LocalEtag # remote
    BY <1>7, <2>2 DEF CompareEtag, Rewind
  <2> QED
    BY <2>1, <2>2
<1>8. CASE PutObject
  <2>1. pc # "idle" /\ UNCHANGED <<file, begun>>
    BY <1>8 DEF PutObject
  <2>2. CASE Return(TRUE)
    BY <1>8, <2>1, <2>2, StoredBody DEF Image, Return, Promise!Next, Promise!StoreAndReturnOk
  <2>3. CASE Return(FALSE)
    BY <1>0, <1>8, <2>1, <2>3, StoredBody
       DEF Image, Return, Promise!Next, Promise!StoreAndReturnErr
  <2> QED
    BY <1>8, <2>2, <2>3 DEF PutObject
<1>9. CASE CompleteUpload
  <2>1. pc # "idle" /\ UNCHANGED <<file, begun>>
    BY <1>9 DEF CompleteUpload
  <2>2. CASE Return(TRUE)
    BY <1>9, <2>1, <2>2, StoredBody DEF Image, Return, Promise!Next, Promise!StoreAndReturnOk
  <2>3. CASE pc' = "abort" /\ UNCHANGED ok
    BY <1>9, <2>1, <2>3, StoredBody DEF Image, Promise!Next, Promise!Store
  <2> QED
    BY <1>9, <2>2, <2>3 DEF CompleteUpload
<1>10. CASE UNCHANGED vars
  BY <1>10 DEF vars
<1> QED
  BY <1>1, <1>2, <1>3, <1>4, <1>5, <1>6, <1>7, <1>8, <1>9, <1>10 DEF Next, UploadStep

(* One call of `upload' replaces the object by the whole file or leaves it  *)
(* alone, and returns Ok only when the store has the file as it was when    *)
(* the call began or newer: for every file and chunk size, however parts    *)
(* and answers were lost, and with whatever an earlier error left in        *)
(* concat_md5 (uploader.rs:40-62, 76-90, 173-196).                          *)
THEOREM S3UploadIsAtomic == Spec => ImplementsAtomicUpload
<1>1. Init => Promise!Init
  BY S3Assumption DEF Init, NoObject, Promise!Init, Promise!Body, Promise!NoObject
<1> QED
  BY <1>1, S3ImplementsStep, S3Invariant, PTL DEF Spec, ImplementsAtomicUpload, Promise!Spec

-----------------------------------------------------------------------------
LEMMA Multiples ==
  ASSUME NEW a \in Nat, NEW b \in Nat, NEW c \in Nat, a <= b
  PROVE  a * c <= b * c
<1>1. b * c = a * c + (b - a) * c
  OBVIOUS
<1>2. (b - a) * c >= 0
  OBVIOUS
<1> QED
  BY <1>1, <1>2

(* A size is cut in one way only: into whole chunks and a rest that may be  *)
(* empty, or into whole chunks and a last one that is not.                  *)
LEMMA OneCut ==
  ASSUME NEW a \in Nat, NEW b \in Nat, NEW c \in Nat \ {0}, NEW m \in 1..c, NEW n \in 0..(c - 1),
         a * c + m = b * c + n
  PROVE  IF n = 0 THEN m = c /\ b = a + 1 ELSE m = n /\ b = a
<1>1. a * c \in Nat /\ b * c \in Nat
  OBVIOUS
<1>2. (a + 1) * c = a * c + c /\ (b + 1) * c = b * c + c /\ (a + 2) * c = a * c + c + c
  OBVIOUS
<1>3. CASE b < a
  <2>1. (b + 1) * c <= a * c
    BY <1>3, Multiples
  <2> QED
    BY <1>1, <1>2, <2>1
<1>4. CASE b = a
  BY <1>1, <1>4
<1>5. CASE b = a + 1
  BY <1>1, <1>2, <1>5
<1>6. CASE b > a + 1
  <2>1. (a + 2) * c <= b * c
    BY <1>6, Multiples
  <2> QED
    BY <1>1, <1>2, <2>1
<1> QED
  BY <1>3, <1>4, <1>5, <1>6

(* Where HEAD found the file, evenly cut, and concat_md5 was empty when the *)
(* calculator began, the etags are equal.                                   *)
LEMMA SameEtag ==
  ASSUME S3Inv, pc = "etag", Readable(offset) < ChunkSize, clean, EvenParts,
         object.version = file.version, object.size = file.size
  PROVE  LocalEtag = remote
<1> DEFINE n == Readable(offset)
           list == IF LastChunk(n) = <<>> THEN <<Part(0, 0, 0)>> ELSE LastChunk(n)
           chunks == IF n = 0 THEN count ELSE count + 1
           of == object.etag.of
<1>a. /\ n \in Nat /\ offset \in Nat /\ count \in Nat /\ file.version \in Nat /\ file.size \in Nat
      /\ ChunkSize \in Nat \ {0}
  BY AtEnd, Sizes DEF Numbers
<1>b. n < ChunkSize /\ offset + n = file.size
  BY AtEnd
<1>c. object.version # 0 /\ remote = object.etag
  BY AtEnd
<1>d. /\ Len(concat) = count /\ offset = count * ChunkSize
      /\ \A i \in 1..count : concat[i] = <<file.version, (i - 1) * ChunkSize, ChunkSize>>
  BY DEF S3Inv, Hashing
<1>e. concat \in Digests /\ of \in Digests
  BY Sizes DEF Numbers
<1>1. LocalEtag = IF file.size >= ChunkSize THEN Etag(list, chunks) ELSE Etag(list, 0)
  BY <1>b DEF LocalEtag
<1>2. LastChunk(n) = IF n = 0 THEN concat ELSE Append(concat, <<file.version, offset, n>>)
  <2>1. n # 0 => Part(file.version, offset, n) = <<file.version, offset, n>>
    BY <1>a DEF Part
  <2> HIDE DEF n
  <2> QED
    BY <2>1 DEF LastChunk
<1> HIDE DEF n, of
<1>3. CASE object.etag = Etag(<<Part(object.version, 0, object.size)>>, 0) /\ object.size < ChunkSize
  <2>1. count = 0 /\ offset = 0 /\ n = file.size
    <3>1. count # 0 => offset >= ChunkSize
      BY DEF S3Inv, Hashing
    <3>2. count = 0
      BY <1>3, <1>a, <1>b, <3>1
    <3> QED
      BY <1>a, <1>b, <1>d, <3>2
  <2>2. concat = <<>>
    BY <1>d, <1>e, <2>1, EmptySeq DEF Digests
  <2>3. list = <<Part(file.version, 0, file.size)>>
    <3>1. CASE n = 0
      BY <1>2, <2>1, <2>2, <3>1 DEF Part
    <3>2. CASE n # 0
      <4>1. LastChunk(n) = <<Part(file.version, 0, file.size)>>
        BY <1>2, <2>1, <2>2, <3>2 DEF Part
      <4>2. Len(LastChunk(n)) = 1
        BY <4>1
      <4> QED
        BY <4>1, <4>2
    <3> QED
      BY <3>1, <3>2
  <2> QED
    BY <1>1, <1>3, <1>a, <1>c, <2>3
<1>4. CASE WellCut(of, object.version, object.size) /\ object.etag.parts = Len(of)
  <2> DEFINE L == Len(of)
  <2>1. L \in Nat /\ L >= 1 /\ file.size >= ChunkSize
    BY <1>4, <1>e DEF WellCut, Digests
  <2>2. \A i \in 1..(L - 1) : of[i][3] = ChunkSize
    BY DEF EvenParts, of
  <2>3. \A i \in 1..L : of[i][1] = file.version /\ of[i][2] = (i - 1) * ChunkSize
    <3>1. ASSUME NEW i \in 1..L PROVE \A j \in 1..(i - 1) : of[j][3] = ChunkSize
      BY <2>1, <2>2
    <3> QED
      BY <1>4, <3>1 DEF WellCut
  <2>4. of[L][3] \in 1..ChunkSize /\ (L - 1) * ChunkSize + of[L][3] = file.size
    BY <1>4, <2>1, <2>3 DEF WellCut
  <2>5. IF n = 0 THEN of[L][3] = ChunkSize /\ count = (L - 1) + 1 ELSE of[L][3] = n /\ count = L - 1
    <3>0. L - 1 \in Nat
      BY <2>1
    <3>1. PICK a \in Nat, m \in 1..ChunkSize : a = L - 1 /\ m = of[L][3]
      BY <2>4, <3>0, Zenon
    <3>2. n \in 0..(ChunkSize - 1)
      BY <1>a, <1>b
    <3>3. a * ChunkSize + m = count * ChunkSize + n
      BY <1>b, <1>d, <2>4, <3>1
    <3>4. IF n = 0 THEN m = ChunkSize /\ count = a + 1 ELSE m = n /\ count = a
      BY <1>a, <3>2, <3>3, OneCut
    <3> QED
      BY <3>1, <3>4
  <2>6. chunks = L
    BY <1>a, <2>1, <2>5
  <2>7. \A i \in 1..L : of[i] = <<of[i][1], of[i][2], of[i][3]>>
    <3>1. \A i \in 1..L : of[i] \in Nat \X Nat \X Nat
      BY <1>e DEF Digests
    <3> QED
      BY <3>1
  <2> HIDE DEF L
  <2>8. LastChunk(n) \in Digests /\ Len(LastChunk(n)) = L
        /\ \A i \in 1..L : LastChunk(n)[i] = of[i]
    <3>1. CASE n = 0
      <4>1. \A i \in 1..L : of[i][3] = ChunkSize
        BY <2>1, <2>2, <2>5, <3>1
      <4>2. \A i \in 1..L : concat[i] = <<file.version, (i - 1) * ChunkSize, ChunkSize>>
        BY <1>d, <2>1, <2>5, <3>1
      <4>3. \A i \in 1..L : concat[i] = of[i]
        BY <2>3, <2>7, <4>1, <4>2
      <4> QED
        BY <1>2, <1>d, <1>e, <2>1, <2>5, <3>1, <4>3
    <3>2. CASE n # 0
      <4>1. count = L - 1 /\ of[L][3] = n /\ offset = (L - 1) * ChunkSize
        BY <1>d, <2>5, <3>2
      <4>2. \A i \in 1..(L - 1) : concat[i] = of[i]
        <5>1. ASSUME NEW i \in 1..(L - 1)
              PROVE  /\ i \in 1..L
                     /\ concat[i] = <<file.version, (i - 1) * ChunkSize, ChunkSize>>
          BY <1>d, <2>1, <4>1
        <5> QED
          BY <2>2, <2>3, <2>7, <5>1
      <4>3. of[L] = <<file.version, offset, n>>
        BY <2>1, <2>3, <2>7, <4>1
      <4>4. LastChunk(n) = Append(concat, <<file.version, offset, n>>)
        BY <1>2, <3>2
      <4>5. /\ LastChunk(n) \in Digests /\ Len(LastChunk(n)) = L
            /\ LastChunk(n)[L] = of[L] /\ \A i \in 1..(L - 1) : LastChunk(n)[i] = concat[i]
        <5>1. <<file.version, offset, n>> \in Nat \X Nat \X Nat
          BY <1>a
        <5>2. Len(concat) + 1 = L
          BY <1>d, <2>1, <4>1
        <5>3. /\ LastChunk(n) \in Digests /\ Len(LastChunk(n)) = Len(concat) + 1
              /\ LastChunk(n)[Len(concat) + 1] = <<file.version, offset, n>>
              /\ \A i \in 1..Len(concat) : LastChunk(n)[i] = concat[i]
          BY <1>e, <4>4, <5>1 DEF Digests
        <5> QED
          BY <1>d, <4>1, <4>3, <5>2, <5>3
      <4>6. \A i \in 1..L : i \in 1..(L - 1) \/ i = L
        BY <2>1
      <4> QED
        BY <4>2, <4>5, <4>6
    <3> QED
      BY <3>1, <3>2
  <2>9. LastChunk(n) = of
    BY <1>e, <2>8, SeqEqual DEF Digests, L
  <2>10. list = of
    <3>1. of # <<>>
      BY <2>1 DEF L
    <3> QED
      BY <2>9, <3>1
  <2>11. object.etag = Etag(of, L)
    BY <1>4, Sizes DEF Etag, of, L, Numbers
  <2> QED
    BY <1>1, <1>c, <2>1, <2>6, <2>10, <2>11
<1> QED
  BY <1>3, <1>4, <1>c DEF S3Inv, ObjectIsCut, of

(* An object that is the file, cut into the same parts, is not uploaded     *)
(* again when HEAD answers, for every file size, chunk size and limit,      *)
(* unless an error left digests in concat_md5                               *)
(* (etag_calculator.rs:29-77, uploader.rs:76-90).                           *)
THEOREM StoredFilesAreSkipped == Spec => NoRedundantUpload
<1> DEFINE Redundant == pc = "etag" /\ pc' = "first" /\ clean /\ EvenParts =>
                          ~(object.version = file.version /\ object.size = file.size)
<1>1. S3Inv /\ [Next]_vars => [Redundant]_vars
  <2> SUFFICES ASSUME S3Inv, [Next]_vars, pc = "etag", pc' = "first", clean, EvenParts,
                      object.version = file.version, object.size = file.size
               PROVE  FALSE
    OBVIOUS
  <2>1. CompareEtag
    BY DEF Next, UploadStep, vars, Grow, Replace, Upload, FetchEtag, HashChunk, HashFails,
           ReadFirst, ReadFirstFails, PutObject, PutObjectFails, CreateUpload, CreateUploadFails,
           UploadPart, ReadNext, TooLarge, CompleteUpload, StepFails, AbortUpload,
           AbortUploadFails, Return
  <2>2. Readable(offset) < ChunkSize /\ LocalEtag # remote
    BY <2>1 DEF CompareEtag, Return
  <2> QED
    BY <2>2, SameEtag
<1> QED
  BY <1>1, S3Invariant, PTL DEF Spec, NoRedundantUpload
===============================================================================
