----------------------------- MODULE Multipart -----------------------------
(***************************************************************************)
(* The upload of one file to S3 (tools/uploader/s3.go): UploadObject sends *)
(* a small file with one request and a larger one as a multipart upload,   *)
(* whose parts a bounded group of goroutines reads into pooled buffers and *)
(* sends; the upload is completed when every part is there and aborted     *)
(* when one fails.                                                         *)
(*                                                                         *)
(* A file is a number of part-sized chunks and a version; somebody may     *)
(* write to it while it is read.  S3 is external: a request may be lost,   *)
(* or take effect and lose its answer.  The context that cog passes is     *)
(* never cancelled (cobra runs its commands with the background context),  *)
(* so the early return of s3.go:191 is not taken; that of the group is     *)
(* cancelled by the first part that fails.                                 *)
(***************************************************************************)
EXTENDS Naturals, Sequences, FiniteSets

CONSTANTS Sizes,            \* sizes of the file, in parts
          Buffers,          \* the buffers the pool can have made
          MaxPartUploads,   \* UPLOADER_MAX_PART_UPLOAD_RETRIES, see NewS3Uploader
          MaxFaults, MaxEdits,
          Absent, None

ASSUME MultipartAssumption ==
    /\ Sizes \subseteq Nat \ {0}
    /\ \E n \in Sizes : \A m \in Sizes : m <= n
    /\ MaxPartUploads \in Nat \ {0}
    /\ Cardinality(Buffers) >= MaxPartUploads
    /\ MaxEdits \in Nat

VARIABLES file,      \* its size and version
          expected,  \* expectedParts, from the size when the upload began
          pc,        \* where UploadObject is
          started,   \* the parts whose goroutines have been started
          part,      \* where each part's goroutine is
          tries,     \* how often it has called UploadPart
          bufOf,     \* the buffer it took from the pool
          data,      \* what the buffers hold
          egDone,    \* the group's context is cancelled
          mpu,       \* the multipart upload at the server
          stored,    \* the parts the server has
          object,    \* the object under the key
          lost,      \* a request that would have closed the upload was lost
          faults

uploader == <<expected, pc, started>>
group == <<part, tries, bufOf, data, egDone>>
server == <<mpu, stored, object>>
vars == <<file, uploader, group, server, lost, faults>>

MaxSize == CHOOSE n \in Sizes : \A m \in Sizes : m <= n
AllParts == 1..MaxSize

\* tools/uploader/s3.go:72: the last assignment, which is meant for the
\* retries, overwrites MaxPartUploads; the retries stay 0.
MaxPartUploadRetries == 0

\* Chunk number p of the file, as the upload of part p reads it: past the end
\* of a file that has become shorter the part is empty.
Chunk(f, p) == IF p <= f.size THEN <<f.version, p>> ELSE <<f.version, 0>>
Chunks == (0 .. MaxEdits) \X (0 .. MaxSize)

\* No object is the one that is not there.
ASSUME AbsentAssumption ==
    \A n \in Sizes : Absent \notin [1..n -> Chunks]

Content(f, n) == [p \in 1..n |-> Chunk(f, p)]

Init ==
    /\ file \in [size : Sizes, version : {0}]
    /\ expected = 0 /\ pc = "stat" /\ started = 0
    /\ part = [p \in AllParts |-> "none"]
    /\ tries = [p \in AllParts |-> 0]
    /\ bufOf = [p \in AllParts |-> None]
    /\ data = [b \in Buffers |-> None]
    /\ egDone = FALSE
    /\ mpu = "none" /\ stored = [p \in AllParts |-> None] /\ object = Absent
    /\ lost = FALSE /\ faults = 0

Fault == faults < MaxFaults /\ faults' = faults + 1
Goto(to) == pc' = to

-----------------------------------------------------------------------------
(* UploadObject                                                            *)

\* The size is taken once; up to three parts' worth is sent with PutObject.
Stat ==
    /\ pc = "stat" /\ expected' = file.size
    /\ Goto(IF file.size <= 3 THEN "put" ELSE "create")
    /\ UNCHANGED <<file, started, group, server, lost, faults>>

\* The whole file is read into a buffer and sent with the size of before:
\* the request fails if that is no longer the file's.
PutObject ==
    /\ pc = "put"
    /\ \/ /\ file.size = expected /\ Goto("sent")
          /\ object' = Content(file, expected) /\ UNCHANGED faults
       \/ file.size # expected /\ Goto("error") /\ UNCHANGED <<object, faults>>
       \/ Goto("error") /\ Fault /\ UNCHANGED object
    /\ UNCHANGED <<file, expected, started, group, mpu, stored, lost>>

PutAnswer ==
    /\ pc = "sent"
    /\ \/ Goto("ok") /\ UNCHANGED faults
       \/ Goto("error") /\ Fault
    /\ UNCHANGED <<file, expected, started, group, server, lost>>

CreateMultipartUpload ==
    /\ pc = "create"
    /\ \/ Goto("parts") /\ mpu' = "open" /\ UNCHANGED <<lost, faults>>
       \/ Goto("error") /\ Fault /\ UNCHANGED <<mpu, lost>>
       \/ Goto("error") /\ Fault /\ mpu' = "open" /\ lost' = TRUE
    /\ UNCHANGED <<file, expected, started, group, stored, object>>

Running == {p \in AllParts : part[p] \in {"get", "read", "send", "record"}}

\* g.Go blocks while the group is at its limit.  A part that failed does not
\* stop the loop.
GoPart ==
    /\ pc = "parts" /\ started < expected
    /\ Cardinality(Running) < MaxPartUploads
    /\ started' = started + 1
    /\ part' = [part EXCEPT ![started + 1] = "get"]
    /\ UNCHANGED <<file, expected, pc, tries, bufOf, data, egDone, server, lost,
                   faults>>

-----------------------------------------------------------------------------
(* The goroutine of a part                                                 *)

\* Mutant: the buffer goes back to the pool once it is filled.
InUseWhileRead == {bufOf[p] : p \in {q \in AllParts : part[q] = "read"}}

\* The buffers that goroutines have taken and not put back.  One that fails
\* keeps its buffer.
InUse == {bufOf[p] : p \in {q \in AllParts :
                                part[q] \in {"read", "send", "record", "failed"}}}

\* Which of the free buffers the pool hands out makes no difference.
PoolGet(p) ==
    /\ part[p] = "get" /\ Buffers \ InUse # {}
    /\ bufOf' = [bufOf EXCEPT ![p] = CHOOSE b \in Buffers \ InUse : TRUE]
    /\ part' = [part EXCEPT ![p] = "read"]
    /\ UNCHANGED <<file, uploader, tries, data, egDone, server, lost, faults>>

FailPart(p) ==
    /\ part' = [part EXCEPT ![p] = "failed"] /\ egDone' = TRUE

\* The file is opened again for every part.
ReadPart(p) ==
    /\ part[p] = "read"
    /\ \/ /\ data' = [data EXCEPT ![bufOf[p]] = Chunk(file, p)]
          /\ part' = [part EXCEPT ![p] = "send"]
          /\ UNCHANGED <<egDone, faults>>
       \/ FailPart(p) /\ Fault /\ UNCHANGED data
    /\ UNCHANGED <<file, uploader, tries, bufOf, server, lost>>

\* An error that may be retried is retried while the count allows it.
Retry(p) == MaxPartUploadRetries > 0 /\ tries[p] < MaxPartUploadRetries

\* doUploadPart: one request, which reads the buffer while it is sent.  It
\* fails at once when the group's context is cancelled.
UploadPart(p) ==
    /\ part[p] = "send"
    /\ tries' = [tries EXCEPT ![p] = @ + 1]
    /\ \/ /\ ~egDone
          /\ stored' = [stored EXCEPT ![p] = data[bufOf[p]]]
          /\ part' = [part EXCEPT ![p] = "record"]
          /\ UNCHANGED <<egDone, faults>>
       \/ /\ \/ egDone /\ UNCHANGED faults
             \/ ~egDone /\ Fault
          /\ IF Retry(p) /\ ~egDone
                THEN UNCHANGED <<part, egDone>> ELSE FailPart(p)
          /\ \/ UNCHANGED stored
             \/ stored' = [stored EXCEPT ![p] = data[bufOf[p]]]
    /\ UNCHANGED <<file, uploader, bufOf, data, mpu, object, lost>>

\* The ETag goes into the part's slot and the buffer back to the pool.
RecordPart(p) ==
    /\ part[p] = "record"
    /\ part' = [part EXCEPT ![p] = "done"]
    /\ bufOf' = [bufOf EXCEPT ![p] = None]
    /\ UNCHANGED <<file, uploader, tries, data, egDone, server, lost, faults>>

-----------------------------------------------------------------------------
(* The end of the upload                                                   *)

Ended == {p \in 1..expected : part[p] \in {"done", "failed"}}

\* g.Wait returns when every goroutine has ended.
AllEnded == started = expected /\ Ended = 1..expected

Wait ==
    /\ pc = "parts" /\ AllEnded
    /\ Goto(IF egDone THEN "abort" ELSE "complete")
    /\ UNCHANGED <<file, expected, started, group, server, lost, faults>>

\* Mutant: the upload is not aborted when completing it fails.
NoAbort == "error"

\* What becomes of an upload whose completion failed.
AfterFailedComplete == "abort"

\* The parts are put together in the order of their numbers.
CompleteMultipartUpload ==
    /\ pc = "complete"
    /\ \/ /\ mpu' = "completed" /\ object' = [p \in 1..expected |-> stored[p]]
          /\ Goto("completed") /\ UNCHANGED faults
       \/ Goto(AfterFailedComplete) /\ Fault /\ UNCHANGED <<mpu, object>>
    /\ UNCHANGED <<file, expected, started, group, stored, lost>>

CompleteAnswer ==
    /\ pc = "completed"
    /\ \/ Goto("ok") /\ UNCHANGED faults
       \/ Goto(AfterFailedComplete) /\ Fault
    /\ UNCHANGED <<file, expected, started, group, server, lost>>

\* One request, whose error is dropped; the server forgets the parts.
AbortMPU ==
    /\ pc = "abort" /\ Goto("error")
    /\ \/ /\ mpu' = IF mpu = "open" THEN "aborted" ELSE mpu
          /\ UNCHANGED <<lost, faults>>
       \/ Fault /\ lost' = TRUE /\ UNCHANGED mpu
    /\ UNCHANGED <<file, expected, started, group, stored, object>>

\* Somebody writes to the file.
WriteFile ==
    /\ file.version < MaxEdits
    /\ \E n \in Sizes : file' = [size |-> n, version |-> file.version + 1]
    /\ UNCHANGED <<uploader, group, server, lost, faults>>

Upload ==
    \/ Stat \/ PutObject \/ PutAnswer \/ CreateMultipartUpload \/ GoPart
    \/ \E p \in AllParts : PoolGet(p) \/ ReadPart(p) \/ UploadPart(p) \/ RecordPart(p)
    \/ Wait \/ CompleteMultipartUpload \/ CompleteAnswer \/ AbortMPU

Next == Upload \/ WriteFile

\* Goroutines run, and requests end, with an answer or an error.
Spec == Init /\ [][Next]_vars /\ WF_vars(Upload)

-----------------------------------------------------------------------------
(* Properties                                                              *)

Answered == IF pc \in {"ok", "error"} THEN pc ELSE "none"

Put == INSTANCE ObjectPut WITH answer <- Answered

\* To its caller UploadObject is a single Put: the object appears at once and
\* whole, though its parts are read, sent and fail in any order, from buffers
\* that are reused (s3.go:196-246); success is answered only after it appeared;
\* and an answer comes, whatever fails.
ImplementsPut == Put!Spec

\* A multipart upload is not left open at the server, where its parts are paid
\* for, when UploadObject returns (s3.go:250, 264): unless a request about it
\* was lost.
NothingLeftOpen == (pc \in {"ok", "error"} /\ mpu = "open") => lost

\* Nobody uses a buffer that a part is being sent from (s3.go:242, "At this
\* point nothing should be using it").
BuffersHaveOneUser ==
    \A p, q \in AllParts :
        (p # q /\ part[p] \in {"read", "send"} /\ part[q] \in {"read", "send"})
            => bufOf[p] # bufOf[q]
=============================================================================
