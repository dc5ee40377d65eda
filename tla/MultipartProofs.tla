--------------------------- MODULE MultipartProofs ---------------------------
(***************************************************************************)
(* The upload of a file of any size, with any number of goroutines and     *)
(* buffers, is a single Put to its caller (the safety half of              *)
(* ImplementsPut; that an answer comes is left to TLC), and does not leave *)
(* the multipart upload open.  The first rests on the buffers: no two      *)
(* goroutines use one at a time, so what is sent as part p is a chunk p    *)
(* of the file (Sending), and every part is stored when the upload is      *)
(* completed (Complete).                                                   *)
(***************************************************************************)
EXTENDS Multipart, TLAPS

Labels == {"stat", "put", "sent", "create", "parts", "complete", "completed",
           "abort", "ok", "error"}
States == {"none", "get", "read", "send", "record", "done", "failed"}

\* The states in which a goroutine has a buffer.
Holding == {"read", "send", "record", "failed"}

Types ==
    /\ file \in [size : Sizes, version : 0 .. MaxEdits]
    /\ expected \in Nat /\ started \in Nat
    /\ pc \in Labels
    /\ part \in [AllParts -> States]
    /\ bufOf \in [AllParts -> Buffers \cup {None}]
    /\ data \in [Buffers -> Chunks \cup {None}]
    /\ stored \in [AllParts -> Chunks \cup {None}]
    /\ egDone \in BOOLEAN

\* The size of the file is the one that was found, unless it was written to.
Size ==
    /\ pc = "stat" => started = 0
    /\ started <= expected
    /\ pc # "stat" =>
          expected \in Sizes /\ (file.version = 0 => expected = file.size)
    /\ \A p \in AllParts : part[p] # "none" => p <= started

\* A chunk p of a version of the file, or what is read past its end.
GoodChunk(f, p, x) ==
    /\ x \in Chunks
    /\ \E v \in 0 .. f.version : x \in {<<v, p>>, <<v, 0>>}
    /\ f.version = 0 => x = <<0, p>>

Buffering ==
    /\ \A p \in AllParts : part[p] \in Holding => bufOf[p] \in Buffers
    /\ \A p, q \in AllParts :
          p # q /\ part[p] \in Holding /\ part[q] \in Holding =>
              bufOf[p] # bufOf[q]

Sending ==
    \A p \in AllParts :
        /\ part[p] # "none" => pc \notin {"stat", "put", "sent", "create"}
        /\ part[p] = "send" => GoodChunk(file, p, data[bufOf[p]])
        /\ part[p] \in {"record", "done"} => GoodChunk(file, p, stored[p])
        /\ part[p] = "failed" => egDone

Complete ==
    pc = "complete" => \A p \in 1..expected : part[p] = "done"

\* When the object is there, and when the multipart upload is open.
Closing ==
    /\ pc \in {"stat", "put", "create", "parts", "complete"} =>
          object = Absent
    /\ pc \in {"sent", "completed", "ok"} => object # Absent
    /\ pc \in {"stat", "put", "sent", "create"} => mpu = "none"
    /\ pc = "completed" => mpu = "completed"
    /\ pc \in {"ok", "error"} => NothingLeftOpen

IInv == Types /\ Size /\ Buffering /\ Sending /\ Complete /\ Closing

-----------------------------------------------------------------------------

\* There is a largest size, and its parts are all the parts.
LEMMA MaxSizeFact ==
    /\ MaxSize \in Sizes /\ MaxSize \in Nat
    /\ \A n \in Sizes : n \in Nat /\ n <= MaxSize /\ 1..n \subseteq AllParts
<1>1. MaxSize \in Sizes /\ \A n \in Sizes : n <= MaxSize
  BY MultipartAssumption DEF MaxSize
<1> QED
  BY <1>1, MultipartAssumption DEF AllParts

\* What the upload of part p reads is a chunk p of the file.
LEMMA ChunkIsGood ==
    ASSUME NEW f \in [size : Sizes, version : 0 .. MaxEdits],
           NEW p \in AllParts, f.version = 0 => p <= f.size
    PROVE GoodChunk(f, p, Chunk(f, p))
<1>1. p \in 0 .. MaxSize /\ 0 \in 0 .. MaxSize /\ p \in Nat
  BY MaxSizeFact DEF AllParts
<1>2. f.version \in 0 .. MaxEdits /\ f.version \in 0 .. f.version
  BY MultipartAssumption
<1>3. Chunk(f, p) \in Chunks
  BY <1>1, <1>2 DEF Chunk, Chunks
<1> QED
  BY <1>2, <1>3 DEF GoodChunk, Chunk

\* A chunk stays one when the file is written to.
LEMMA GoodChunkStays ==
    ASSUME NEW f \in [size : Sizes, version : 0 .. MaxEdits],
           NEW g \in [size : Sizes, version : 0 .. MaxEdits],
           g.version = f.version + 1, NEW p, NEW x, GoodChunk(f, p, x)
    PROVE GoodChunk(g, p, x)
<1>1. f.version \in Nat /\ g.version # 0
      /\ 0 .. f.version \subseteq 0 .. g.version
  BY MultipartAssumption
<1> QED
  BY <1>1 DEF GoodChunk

\* An object that is made of the file's chunks is good, and is there.
LEMMA PartsAreGood ==
    ASSUME NEW n \in Sizes, NEW o, o = [p \in 1..n |-> o[p]],
           file \in [size : Sizes, version : 0 .. MaxEdits],
           file.version = 0 => n = file.size,
           \A p \in 1..n : GoodChunk(file, p, o[p])
    PROVE Put!Good(o) /\ o # Absent
<1>1. o \in [1..n -> Chunks] /\ DOMAIN o = 1..n
  BY DEF GoodChunk
<1>2. o # Absent
  BY <1>1, AbsentAssumption
<1>3. file.version = 0 => o = [p \in 1..file.size |-> <<0, p>>]
  BY DEF GoodChunk
<1> QED
  BY <1>1, <1>2, <1>3 DEF Put!Good, GoodChunk

LEMMA InitIInv == Init => IInv
<1> SUFFICES ASSUME Init PROVE IInv
  OBVIOUS
<1> USE DEF Init
<1>1. file \in [size : Sizes, version : 0 .. MaxEdits]
  BY MultipartAssumption
<1>2. Types
  BY <1>1 DEF Types, Labels, States
<1>3. Size /\ Buffering /\ Sending /\ Complete /\ Closing
  BY DEF Size, Buffering, Sending, Complete, Closing, Holding
<1> QED
  BY <1>2, <1>3 DEF IInv

-----------------------------------------------------------------------------

\* The steps of UploadObject that are not those of a part.
Main ==
    \/ Stat \/ PutObject \/ PutAnswer \/ CreateMultipartUpload \/ Wait
    \/ CompleteMultipartUpload \/ CompleteAnswer \/ AbortMPU

\* They leave the goroutines and what they sent alone.
LEMMA MainFrame ==
    Main => UNCHANGED <<file, started, group, stored>>
  BY DEF Main, Stat, PutObject, PutAnswer, CreateMultipartUpload, Wait,
         CompleteMultipartUpload, CompleteAnswer, AbortMPU, group, server

\* What a request does to its part: it is stored, or it fails, for good.
LEMMA UploadEffect ==
    ASSUME NEW p \in AllParts, UploadPart(p)
    PROVE /\ UNCHANGED <<file, uploader, bufOf, data, mpu, object, lost>>
          /\ part[p] = "send"
          /\ \/ UNCHANGED stored
             \/ stored' = [stored EXCEPT ![p] = data[bufOf[p]]]
          /\ \/ /\ part' = [part EXCEPT ![p] = "record"] /\ UNCHANGED egDone
                /\ stored' = [stored EXCEPT ![p] = data[bufOf[p]]]
             \/ part' = [part EXCEPT ![p] = "failed"] /\ egDone' = TRUE
<1>1. ~Retry(p)
  BY DEF Retry, MaxPartUploadRetries
<1> QED
  BY <1>1 DEF UploadPart, FailPart

\* A goroutine leaves UploadObject's own state alone, and moves one part.
LEMMA PartFrame ==
    ASSUME Types, NEW p \in AllParts,
           PoolGet(p) \/ ReadPart(p) \/ UploadPart(p) \/ RecordPart(p)
    PROVE /\ UNCHANGED <<file, expected, pc, started, mpu, object, lost>>
          /\ part[p] \in {"get", "read", "send", "record"}
          /\ part'[p] \in {"read", "send", "record", "done", "failed"}
          /\ \A q \in AllParts : q # p => part'[q] = part[q]
<1> USE DEF Types, uploader, server
<1>1. CASE PoolGet(p)
  BY <1>1 DEF PoolGet
<1>2. CASE ReadPart(p)
  BY <1>2 DEF ReadPart, FailPart
<1>3. CASE UploadPart(p)
  <2>1. \E t \in States : part' = [part EXCEPT ![p] = t]
                         /\ t \in {"record", "failed"}
    BY <1>3, UploadEffect DEF States
  <2> QED
    BY <1>3, <2>1, UploadEffect
<1>4. CASE RecordPart(p)
  BY <1>4 DEF RecordPart
<1> QED
  BY <1>1, <1>2, <1>3, <1>4

LEMMA TypesStep == Types /\ Size /\ Buffering /\ [Next]_vars => Types'
<1> SUFFICES ASSUME Types, Size, Buffering, [Next]_vars PROVE Types'
  OBVIOUS
<1> USE DEF Types, Goto
<1>1. CASE Main
  <2>1. UNCHANGED <<file, started, part, bufOf, data, stored, egDone>>
    BY <1>1, MainFrame DEF group
  <2>2. pc' \in Labels
    BY <1>1 DEF Main, Stat, PutObject, PutAnswer, CreateMultipartUpload, Wait,
                CompleteMultipartUpload, CompleteAnswer, AbortMPU, Labels,
                AfterFailedComplete
  <2>3. expected' \in Nat
    BY <1>1, MultipartAssumption
       DEF Main, Stat, PutObject, PutAnswer, CreateMultipartUpload, Wait,
           CompleteMultipartUpload, CompleteAnswer, AbortMPU
  <2> QED
    BY <2>1, <2>2, <2>3
<1>2. CASE GoPart
  <2>1. part' \in [AllParts -> States]
    BY <1>2 DEF GoPart, States
  <2> QED
    BY <1>2, <2>1 DEF GoPart, server
<1>3. ASSUME NEW p \in AllParts, PoolGet(p) PROVE Types'
  BY <1>3 DEF PoolGet, uploader, server, States
<1>4. ASSUME NEW p \in AllParts, ReadPart(p) PROVE Types'
  <2>1. Chunk(file, p) \in Chunks
    BY MaxSizeFact, MultipartAssumption DEF Chunk, Chunks, AllParts
  <2>2. data' \in [Buffers -> Chunks \cup {None}]
    BY <1>4, <2>1 DEF ReadPart
  <2>3. part' \in [AllParts -> States] /\ egDone' \in BOOLEAN
    BY <1>4 DEF ReadPart, FailPart, States
  <2>4. UNCHANGED <<file, expected, pc, started, bufOf, stored>>
    BY <1>4 DEF ReadPart, uploader, server
  <2> QED
    BY <2>2, <2>3, <2>4
<1>5. ASSUME NEW p \in AllParts, UploadPart(p) PROVE Types'
  <2>1. data[bufOf[p]] \in Chunks \cup {None}
    BY <1>5, UploadEffect DEF Buffering, Holding
  <2> QED
    <3>1. stored' \in [AllParts -> Chunks \cup {None}]
      BY <1>5, <2>1, UploadEffect
    <3>2. part' \in [AllParts -> States] /\ egDone' \in BOOLEAN
      BY <1>5, UploadEffect DEF States
    <3> QED
      BY <1>5, <3>1, <3>2, UploadEffect DEF uploader
<1>6. ASSUME NEW p \in AllParts, RecordPart(p) PROVE Types'
  BY <1>6 DEF RecordPart, uploader, server, States
<1>7. CASE WriteFile
  BY <1>7, MultipartAssumption DEF WriteFile, uploader, group, server
<1>8. CASE UNCHANGED vars
  BY <1>8 DEF vars, uploader, group, server
<1> QED
  BY <1>1, <1>2, <1>3, <1>4, <1>5, <1>6, <1>7, <1>8 DEF Next, Upload, Main

LEMMA SizeStep == Types /\ Size /\ [Next]_vars => Size'
<1> SUFFICES ASSUME Types, Size, [Next]_vars PROVE Size'
  OBVIOUS
<1> USE DEF Size, Goto
<1>1. CASE Main
  <2>1. UNCHANGED <<file, started, part>>
    BY <1>1, MainFrame DEF group
  <2>2. CASE Stat
    BY <2>1, <2>2, MultipartAssumption DEF Stat, Types
  <2>3. CASE ~Stat
    BY <1>1, <2>1, <2>3
       DEF Main, PutObject, PutAnswer, CreateMultipartUpload, Wait,
           CompleteMultipartUpload, CompleteAnswer, AbortMPU,
           AfterFailedComplete
  <2> QED
    BY <2>2, <2>3
<1>2. CASE GoPart
  BY <1>2 DEF GoPart, Types, AllParts
<1>3. ASSUME NEW p \in AllParts,
             PoolGet(p) \/ ReadPart(p) \/ UploadPart(p) \/ RecordPart(p)
      PROVE Size'
  BY <1>3, PartFrame
<1>4. CASE WriteFile
  BY <1>4, MultipartAssumption DEF WriteFile, Types, uploader, group
<1>5. CASE UNCHANGED vars
  BY <1>5 DEF vars, uploader, group
<1> QED
  BY <1>1, <1>2, <1>3, <1>4, <1>5 DEF Next, Upload, Main

LEMMA BufferingStep == Types /\ Buffering /\ [Next]_vars => Buffering'
<1> SUFFICES ASSUME Types, Buffering, [Next]_vars PROVE Buffering'
  OBVIOUS
<1> USE DEF Buffering, Holding
<1>1. CASE Main
  BY <1>1, MainFrame DEF group
<1>2. CASE GoPart
  <2>1. /\ UNCHANGED bufOf
        /\ \A q \in AllParts : part'[q] \in Holding => part[q] \in Holding
    BY <1>2 DEF GoPart, Types
  <2> QED
    BY <2>1
<1>3. ASSUME NEW p \in AllParts, PoolGet(p) PROVE Buffering'
  <2>1. bufOf'[p] \in Buffers \ InUse
    BY <1>3 DEF PoolGet, Types
  <2>2. \A q \in AllParts : q # p => /\ bufOf'[q] = bufOf[q]
                                   /\ part'[q] = part[q]
    BY <1>3 DEF PoolGet, Types
  <2>3. \A q \in AllParts : part[q] \in Holding => bufOf[q] \in InUse
    BY DEF InUse
  <2> QED
    BY <2>1, <2>2, <2>3
<1>4. ASSUME NEW p \in AllParts, ReadPart(p) \/ UploadPart(p)
      PROVE Buffering'
  <2>1. UNCHANGED bufOf /\ part[p] \in Holding
    BY <1>4 DEF ReadPart, UploadPart
  <2>2. \A q \in AllParts : part'[q] \in Holding => part[q] \in Holding
    BY <1>4, <2>1, PartFrame
  <2> QED
    BY <2>1, <2>2
<1>5. ASSUME NEW p \in AllParts, RecordPart(p) PROVE Buffering'
  <2>1. /\ part'[p] = "done"
        /\ \A q \in AllParts : q # p => /\ bufOf'[q] = bufOf[q]
                                      /\ part'[q] = part[q]
    BY <1>5 DEF RecordPart, Types
  <2> QED
    BY <2>1
<1>6. CASE WriteFile \/ UNCHANGED vars
  BY <1>6 DEF WriteFile, vars, group
<1> QED
  BY <1>1, <1>2, <1>3, <1>4, <1>5, <1>6 DEF Next, Upload, Main

\* What the goroutines send and have stored are chunks of the file.
LEMMA SendingStep ==
    Types /\ Size /\ Buffering /\ Sending /\ [Next]_vars => Sending'
<1> SUFFICES ASSUME Types, Size, Buffering, Sending, [Next]_vars
             PROVE Sending'
  OBVIOUS
<1> USE DEF Sending, Goto
<1>f. file \in [size : Sizes, version : 0 .. MaxEdits]
  BY DEF Types
<1>1. CASE Main
  <2>1. /\ UNCHANGED <<file, part, bufOf, data, stored, egDone, started>>
    BY <1>1, MainFrame DEF group
  <2>2. \/ pc \in {"stat", "put", "sent", "create"}
        \/ pc' \notin {"stat", "put", "sent", "create"}
    BY <1>1 DEF Main, Stat, PutObject, PutAnswer, CreateMultipartUpload, Wait,
                CompleteMultipartUpload, CompleteAnswer, AbortMPU,
                AfterFailedComplete
  <2> QED
    BY <2>1, <2>2
<1>2. CASE GoPart
  <2>1. /\ UNCHANGED <<file, pc, bufOf, data, stored, egDone>>
        /\ pc = "parts"
        /\ \A q \in AllParts :
              part'[q] # part[q] => part'[q] = "get"
    BY <1>2 DEF GoPart, server, Types
  <2> QED
    BY <2>1
<1>3. ASSUME NEW p \in AllParts, PoolGet(p) PROVE Sending'
  <2>1. /\ UNCHANGED <<file, pc, data, stored, egDone>> /\ part[p] = "get"
        /\ part'[p] = "read"
        /\ \A q \in AllParts : q # p => /\ bufOf'[q] = bufOf[q]
                                      /\ part'[q] = part[q]
    BY <1>3 DEF PoolGet, Types, uploader, server
  <2> QED
    BY <2>1
<1>4. ASSUME NEW p \in AllParts, ReadPart(p) PROVE Sending'
  <2>1. /\ UNCHANGED <<file, pc, bufOf, stored>> /\ part[p] = "read"
        /\ \A q \in AllParts : q # p => part'[q] = part[q]
        /\ egDone => egDone'
    BY <1>4 DEF ReadPart, FailPart, Types, uploader, server
  <2>2. \/ part'[p] = "failed" /\ egDone' /\ UNCHANGED data
        \/ part'[p] = "send" /\ data' = [data EXCEPT ![bufOf[p]] = Chunk(file, p)]
    BY <1>4 DEF ReadPart, FailPart, Types
  <2>3. GoodChunk(file, p, Chunk(file, p))
    <3>1. pc # "stat" /\ p <= started
      BY <2>1 DEF Size
    <3>2. file.version = 0 => p <= file.size
      BY <1>f, <3>1, MultipartAssumption DEF Size, Types, AllParts
    <3> QED
      BY <1>f, <3>2, ChunkIsGood
  <2>4. bufOf[p] \in Buffers
        /\ \A q \in AllParts : q # p /\ part[q] = "send" =>
              bufOf[q] \in Buffers /\ bufOf[q] # bufOf[p]
    BY <2>1 DEF Buffering, Holding
  <2>5. part'[p] = "send" => GoodChunk(file, p, data'[bufOf[p]])
    BY <2>2, <2>3, <2>4 DEF Types
  <2>6. \A q \in AllParts : q # p /\ part[q] = "send" =>
              data'[bufOf[q]] = data[bufOf[q]]
    BY <2>2, <2>4 DEF Types
  <2> QED
    BY <2>1, <2>2, <2>5, <2>6
<1>5. ASSUME NEW p \in AllParts, UploadPart(p) PROVE Sending'
  <2>1. /\ UNCHANGED <<file, pc, bufOf, data>> /\ part[p] = "send"
        /\ \A q \in AllParts : q # p => /\ part'[q] = part[q]
                                      /\ stored'[q] = stored[q]
    BY <1>5, UploadEffect DEF Types, uploader
  <2>2. \/ /\ part'[p] = "record" /\ UNCHANGED egDone
           /\ stored'[p] = data[bufOf[p]]
        \/ part'[p] = "failed" /\ egDone'
    BY <1>5, UploadEffect DEF Types
  <2> QED
    BY <2>1, <2>2
<1>6. ASSUME NEW p \in AllParts, RecordPart(p) PROVE Sending'
  <2>1. /\ UNCHANGED <<file, pc, data, stored, egDone>>
        /\ part[p] = "record" /\ part'[p] = "done"
        /\ \A q \in AllParts : q # p => /\ bufOf'[q] = bufOf[q]
                                      /\ part'[q] = part[q]
    BY <1>6 DEF RecordPart, Types, uploader, server
  <2> QED
    BY <2>1
<1>7. CASE WriteFile
  <2>1. /\ UNCHANGED <<pc, part, bufOf, data, stored, egDone>>
        /\ file' \in [size : Sizes, version : 0 .. MaxEdits]
        /\ file'.version = file.version + 1
    BY <1>f, <1>7, MultipartAssumption
       DEF WriteFile, uploader, group, server
  <2> QED
    BY <1>f, <2>1, GoodChunkStays
<1>8. CASE UNCHANGED vars
  BY <1>8 DEF vars, uploader, group, server
<1> QED
  BY <1>1, <1>2, <1>3, <1>4, <1>5, <1>6, <1>7, <1>8 DEF Next, Upload, Main

\* When the upload is completed every part is done.
LEMMA CompleteStep ==
    Types /\ Size /\ Sending /\ Complete /\ [Next]_vars => Complete'
<1> SUFFICES ASSUME Types, Size, Sending, Complete, [Next]_vars
             PROVE Complete'
  OBVIOUS
<1> USE DEF Complete, Goto
<1>1. CASE Main
  <2>1. UNCHANGED <<part, started>>
    BY <1>1, MainFrame DEF group
  <2>2. CASE Wait
    <3>1. UNCHANGED expected
      BY <2>2 DEF Wait
    <3>2. pc' = "complete" => \A p \in 1..expected : p \in Ended /\ ~egDone
      BY <2>2 DEF Wait, AllEnded
    <3>3. \A p \in AllParts : part[p] = "failed" => egDone
      BY DEF Sending
    <3>4. 1..expected \subseteq AllParts
      BY <2>2, MaxSizeFact DEF Wait, Size
    <3> QED
      BY <2>1, <3>1, <3>2, <3>3, <3>4 DEF Ended
  <2>3. CASE ~Wait
    BY <1>1, <2>1, <2>3
       DEF Main, Stat, PutObject, PutAnswer, CreateMultipartUpload,
           CompleteMultipartUpload, CompleteAnswer, AbortMPU,
           AfterFailedComplete
  <2> QED
    BY <2>2, <2>3
<1>2. CASE GoPart
  BY <1>2 DEF GoPart
<1>3. ASSUME NEW p \in AllParts,
             PoolGet(p) \/ ReadPart(p) \/ UploadPart(p) \/ RecordPart(p)
      PROVE Complete'
  <2>1. /\ UNCHANGED <<expected, pc>> /\ part[p] # "done"
        /\ \A q \in AllParts : q # p => part'[q] = part[q]
    BY <1>3, PartFrame
  <2>2. pc = "complete" => 1..expected \subseteq AllParts
    BY MaxSizeFact DEF Size
  <2> QED
    BY <2>1, <2>2
<1>4. CASE WriteFile \/ UNCHANGED vars
  BY <1>4 DEF WriteFile, vars, uploader, group
<1> QED
  BY <1>1, <1>2, <1>3, <1>4 DEF Next, Upload, Main

LEMMA ClosingStep ==
    Types /\ Size /\ Sending /\ Complete /\ Closing /\ [Next]_vars => Closing'
<1> SUFFICES ASSUME Types, Size, Sending, Complete, Closing, [Next]_vars
             PROVE Closing'
  OBVIOUS
<1> USE DEF Closing, NothingLeftOpen, Goto
<1>1. CASE Stat
  BY <1>1 DEF Stat, server
<1>2. CASE PutObject
  <2>1. CASE pc' = "sent"
    <3>1. 1..expected \subseteq AllParts /\ expected \in Sizes
      BY <1>2, MaxSizeFact DEF PutObject, Size
    <3>2. \A p \in 1..expected : file.version = 0 => p <= file.size
      BY <1>2, <3>1, MultipartAssumption DEF PutObject, Size
    <3>3. \A p \in 1..expected : GoodChunk(file, p, Chunk(file, p))
      BY <3>1, <3>2, ChunkIsGood DEF Types
    <3>4. Content(file, expected) # Absent
      <4> DEFINE o == Content(file, expected)
      <4>1. o = [p \in 1..expected |-> o[p]]
            /\ \A p \in 1..expected : GoodChunk(file, p, o[p])
        BY <3>3 DEF Content
      <4> HIDE DEF o
      <4>2. o # Absent
        BY <1>2, <3>1, <4>1, PartsAreGood DEF PutObject, Size, Types
      <4> QED
        BY <4>2 DEF o
    <3> QED
      BY <1>2, <2>1, <3>4 DEF PutObject
  <2>2. CASE pc' = "error"
    BY <1>2, <2>2 DEF PutObject
  <2> QED
    BY <1>2, <2>1, <2>2 DEF PutObject
<1>3. CASE PutAnswer
  BY <1>3 DEF PutAnswer, server
<1>4. CASE CreateMultipartUpload
  BY <1>4 DEF CreateMultipartUpload
<1>5. CASE Wait
  BY <1>5 DEF Wait, server
<1>6. CASE CompleteMultipartUpload
  <2>1. CASE pc' = "abort"
    BY <1>6, <2>1 DEF CompleteMultipartUpload, AfterFailedComplete
  <2>2. CASE pc' = "completed"
    <3>1. /\ object' = [p \in 1..expected |-> stored[p]]
          /\ mpu' = "completed" /\ pc' = "completed"
      BY <1>6, <2>2 DEF CompleteMultipartUpload, AfterFailedComplete
    <3>2. expected \in Sizes /\ 1..expected \subseteq AllParts
      BY <1>6, MaxSizeFact DEF CompleteMultipartUpload, Size
    <3>3. \A p \in 1..expected : GoodChunk(file, p, stored[p])
      BY <1>6, <3>2 DEF CompleteMultipartUpload, Complete, Sending
    <3>4. object' # Absent
      <4> DEFINE o == [p \in 1..expected |-> stored[p]]
      <4>1. o = [p \in 1..expected |-> o[p]]
            /\ \A p \in 1..expected : GoodChunk(file, p, o[p])
        BY <3>3
      <4> HIDE DEF o
      <4>2. o # Absent
        BY <1>6, <3>2, <4>1, PartsAreGood
           DEF CompleteMultipartUpload, Size, Types
      <4> QED
        BY <3>1, <4>2 DEF o
    <3> QED
      BY <3>1, <3>4
  <2> QED
    BY <1>6, <2>1, <2>2 DEF CompleteMultipartUpload, AfterFailedComplete
<1>7. CASE CompleteAnswer
  BY <1>7 DEF CompleteAnswer, server, AfterFailedComplete
<1>8. CASE AbortMPU
  BY <1>8 DEF AbortMPU
<1>9. CASE GoPart
  BY <1>9 DEF GoPart, server
<1>10. ASSUME NEW p \in AllParts,
              PoolGet(p) \/ ReadPart(p) \/ UploadPart(p) \/ RecordPart(p)
       PROVE Closing'
  BY <1>10, PartFrame
<1>11. CASE WriteFile \/ UNCHANGED vars
  BY <1>11 DEF WriteFile, vars, uploader, server
<1> QED
  BY <1>1, <1>2, <1>3, <1>4, <1>5, <1>6, <1>7, <1>8, <1>9, <1>10, <1>11
     DEF Next, Upload

-----------------------------------------------------------------------------

\* The invariant holds for every file and every number of goroutines.
THEOREM MultipartInv == Spec => []IInv
<1>1. IInv /\ [Next]_vars => IInv'
  BY TypesStep, SizeStep, BufferingStep, SendingStep, CompleteStep,
     ClosingStep DEF IInv
<1> QED
  BY InitIInv, <1>1, PTL DEF Spec

\* A multipart upload is not left open, unless a request about it was lost.
THEOREM MultipartNothingLeftOpen == Spec => []NothingLeftOpen
<1>1. IInv => NothingLeftOpen
  BY DEF IInv, Closing, NothingLeftOpen
<1> QED
  BY MultipartInv, <1>1, PTL

\* No two goroutines use one buffer, also when a part has failed.
THEOREM MultipartBuffers == Spec => []BuffersHaveOneUser
<1>1. IInv => BuffersHaveOneUser
  BY DEF IInv, Buffering, Holding, BuffersHaveOneUser
<1> QED
  BY MultipartInv, <1>1, PTL

\* Every step of the upload is a step of a Put, or one that its caller does
\* not see.
LEMMA StepRefines == IInv /\ [Next]_vars => [Put!Next]_(Put!vars)
<1> SUFFICES ASSUME IInv, [Next]_vars PROVE [Put!Next]_(Put!vars)
  OBVIOUS
<1>t. Types /\ Size /\ Sending /\ Complete /\ Closing
  BY DEF IInv
<1>a. ASSUME NEW o, o = [p \in 1..expected |-> o[p]], object' = o,
             expected \in Sizes, file.version = 0 => expected = file.size,
             \A p \in 1..expected : GoodChunk(file, p, o[p]),
             object = Absent, Answered = "none", UNCHANGED <<file, Answered>>
      PROVE Put!Next
  <2>1. Put!Good(o) /\ o # Absent
    BY <1>t, <1>a, PartsAreGood DEF Types
  <2> QED
    BY <1>a, <2>1 DEF Put!Next, Put!Appear
<1> USE DEF Answered, Goto
<1>1. CASE Stat \/ CreateMultipartUpload \/ Wait
  <2>1. UNCHANGED <<object, file>>
    BY <1>1 DEF Stat, CreateMultipartUpload, Wait, server
  <2>2. \/ UNCHANGED Answered
        \/ Answered = "none" /\ Answered' = "error"
    BY <1>1 DEF Stat, CreateMultipartUpload, Wait
  <2> QED
    BY <2>1, <2>2 DEF Put!Next, Put!Answer, Put!AnswerError, Put!vars
<1>2. CASE PutObject
  <2>1. CASE pc' = "error"
    BY <1>2, <2>1 DEF PutObject, Put!Next, Put!Answer, Put!AnswerError
  <2>2. CASE pc' = "sent"
    <3> DEFINE o == Content(file, expected)
    <3>1. /\ pc = "put" /\ file.size = expected /\ object' = o
          /\ UNCHANGED file
      BY <1>2, <2>2 DEF PutObject
    <3>2. expected \in Sizes /\ 1..expected \subseteq AllParts
      BY <1>t, <3>1, MaxSizeFact DEF Size
    <3>3. \A p \in 1..expected : o[p] = Chunk(file, p) /\ p <= file.size
      BY <3>1, <3>2, MultipartAssumption DEF Content
    <3>4. \A p \in 1..expected : GoodChunk(file, p, o[p])
      BY <1>t, <3>2, <3>3, ChunkIsGood DEF Types
    <3>5. o = [p \in 1..expected |-> o[p]]
      BY DEF Content
    <3>6. object = Absent /\ Answered = "none" /\ UNCHANGED Answered
      BY <1>t, <2>2, <3>1 DEF Closing
    <3> HIDE DEF o, Answered
    <3> QED
      BY <1>a, <3>1, <3>2, <3>4, <3>5, <3>6
  <2> QED
    BY <1>2, <2>1, <2>2 DEF PutObject
<1>3. CASE PutAnswer \/ CompleteAnswer
  <2>1. /\ UNCHANGED <<object, file>> /\ object # Absent
        /\ pc \in {"sent", "completed"}
        /\ pc' \in {"ok", "error", "abort"}
    BY <1>3, <1>t
       DEF PutAnswer, CompleteAnswer, server, Closing, AfterFailedComplete
  <2> QED
    BY <2>1
       DEF Put!Next, Put!Answer, Put!AnswerOk, Put!AnswerError, Put!vars
<1>4. CASE CompleteMultipartUpload
  <2>1. CASE pc' = "abort"
    BY <1>4, <2>1 DEF CompleteMultipartUpload, Put!vars
  <2>2. CASE pc' = "completed"
    <3> DEFINE o == [p \in 1..expected |-> stored[p]]
    <3>1. pc = "complete" /\ object' = o /\ UNCHANGED file
      BY <1>4, <2>2 DEF CompleteMultipartUpload, AfterFailedComplete
    <3>2. /\ expected \in Sizes /\ 1..expected \subseteq AllParts
          /\ file.version = 0 => expected = file.size
      BY <1>t, <3>1, MaxSizeFact DEF Size
    <3>3. \A p \in 1..expected : GoodChunk(file, p, o[p])
      BY <1>t, <3>1, <3>2 DEF Complete, Sending
    <3>4. o = [p \in 1..expected |-> o[p]]
      OBVIOUS
    <3>5. object = Absent /\ Answered = "none" /\ UNCHANGED Answered
      BY <1>t, <2>2, <3>1 DEF Closing
    <3> HIDE DEF o, Answered
    <3> QED
      BY <1>a, <3>1, <3>2, <3>3, <3>4, <3>5
  <2> QED
    BY <1>4, <2>1, <2>2 DEF CompleteMultipartUpload, AfterFailedComplete
<1>5. CASE AbortMPU
  BY <1>5 DEF AbortMPU, Put!Next, Put!Answer, Put!AnswerError, Put!vars
<1>6. CASE GoPart
  BY <1>6 DEF GoPart, server, Put!vars
<1>7. ASSUME NEW p \in AllParts,
             PoolGet(p) \/ ReadPart(p) \/ UploadPart(p) \/ RecordPart(p)
      PROVE UNCHANGED Put!vars
  BY <1>7, <1>t, PartFrame DEF Put!vars
<1>8. CASE WriteFile
  <2>1. /\ file'.version = file.version + 1
        /\ UNCHANGED <<object, Answered>>
    BY <1>8, MultipartAssumption DEF WriteFile, uploader, server
  <2> QED
    BY <2>1 DEF Put!Next, Put!Write
<1>9. CASE UNCHANGED vars
  BY <1>9 DEF vars, uploader, server, Put!vars
<1> QED
  BY <1>1, <1>2, <1>3, <1>4, <1>5, <1>6, <1>7, <1>8, <1>9 DEF Next, Upload

\* To its caller the upload is a Put: the safety half of ImplementsPut.
THEOREM MultipartRefinesPut ==
    Spec => Put!Init /\ [][Put!Next]_(Put!vars)
<1>1. Init => Put!Init
  BY DEF Init, Put!Init, Answered
<1> QED
  BY <1>1, MultipartInv, StepRefines, PTL DEF Spec
=============================================================================
