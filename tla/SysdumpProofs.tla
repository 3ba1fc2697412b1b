---- MODULE SysdumpProofs ----
(***************************************************************************)
(* Proofs about Sysdump, for any number of chunks and any pipe, and any    *)
(* policies and changes to them: the types, that the status entry is the   *)
(* whole status, that policies nobody touches are in the bundle, that a    *)
(* bundle reported written is whole, and that only the archive can fail.   *)
(***************************************************************************)
EXTENDS Sysdump, FiniteSetTheorems, SequenceTheorems, TLAPS

\* Where the status call may print, and where stdout is the pipe.
WriteEndHeld == {"print", "close"}
Redirected == WriteEndHeld \cup {"restore"}

AfterStatus == {"policies", "read", "logs", "ok", "failed"} \cup Archiving
AfterPolicies == AfterStatus \ {"policies", "read"}

\* The pipe, its reader and stdout go together with the step of captureStatus.
PipeInStep ==
    /\ writeEnd <=> pc \in WriteEndHeld
    /\ stdout = IF pc \in Redirected THEN "pipe" ELSE "terminal"
    /\ pc \in {"probe", "pipe"} => reader = "none"
    /\ pc \in Redirected \cup {"join"} => reader # "none"
    /\ pc \in AfterStatus => reader # "reading"
    /\ reader = "none" => printed = 0
    /\ reader = "done" => pipe = <<>> /\ ~writeEnd

\* What was read and what is still in the pipe are the chunks in their order.
ChunksInOrder ==
    /\ \A i \in 1..Len(buf) : buf[i] = i
    /\ \A i \in 1..Len(pipe) : pipe[i] = Len(buf) + i

\* Each part of the dump leaves its entry.
EntriesInStep ==
    /\ pc # "probe" => "probe.txt" \in files
    /\ "status.txt" \in files <=> pc \in AfterStatus
    /\ "policies.yaml" \in files <=> pc \in AfterPolicies
    /\ pc \in AfterPolicies \ {"logs"} => "meta.json" \in files

\* A policy nobody has changed since the listing is still to be read, has turned
\* out unreadable, or is dumped.
SteadyInStep ==
    /\ pc \notin AfterPolicies \cup {"read"} => steady = {}
    /\ pc # "read" => listed = {}
    /\ \A n \in steady : n \in listed \cup unread \/ store[n] \in dumped

\* How much of the archive is written, unless a call on it has failed.
ArchiveInStep ==
    /\ pc \in Collecting \cup {"create"} => tarred = 0
    /\ pc \in Collecting \cup {"create", "entries", "gzip"} => ~retErr
    /\ pc = "entries" => tarred <= Cardinality(files)
    /\ pc = "gzip" => tarred = Pieces(files)
    /\ pc = "file" /\ ~retErr => flushed = Pieces(files)
    /\ pc = "ok" => archive = Pieces(files)
    /\ retErr \/ pc = "failed" => broke

DumpInv ==
    /\ TypeOK
    /\ PipeInStep
    /\ ChunksInOrder
    /\ EntriesInStep
    /\ SteadyInStep
    /\ ArchiveInStep

\* There are finitely many entries, so the archive has a number of pieces.
LEMMA FilesFinite ==
    ASSUME NEW F \in SUBSET Entries
    PROVE  IsFiniteSet(F) /\ Cardinality(F) \in Nat
<1>1. IsFiniteSet(Entries)
  <2>1. ASSUME NEW x, NEW y PROVE IsFiniteSet({x, y})
    <3>1. IsFiniteSet({x})
      <4>1. {x} = {} \cup {x}
        OBVIOUS
      <4> QED
        BY <4>1, FS_EmptySet, FS_AddElement
    <3>2. {x, y} = {x} \cup {y}
      OBVIOUS
    <3> QED
      BY <3>1, <3>2, FS_AddElement
  <2>2. Entries = ({"probe.txt", "status.txt"} \cup {"policies.yaml", "meta.json"})
                  \cup ({"k8s-events.txt", "server.log"} \cup {"docker.log", "docker.log"})
    BY DEF Entries, Always, Optional
  <2> QED
    BY <2>1, <2>2, FS_Union
<1> QED
  BY <1>1, FS_Subset, FS_CardinalityType

\* A dump starts with no entry, no pipe and no archive.
LEMMA InitInv == Init => DumpInv
<1> SUFFICES ASSUME Init PROVE DumpInv
  OBVIOUS
<1>1. <<>> \in Seq(1..MaxChunks) /\ Len(<<>>) = 0
  BY EmptySeq
<1>2. pipe = <<>> /\ buf = <<>> /\ printed = 0
  BY DEF Init
<1>3. Pieces(files) \in Nat
  BY FilesFinite DEF Init, Pieces
<1>4. /\ tarred \in 0..Pieces(files) /\ flushed \in 0..tarred
      /\ archive \in 0..flushed
      /\ printed \in 0..MaxChunks /\ changes \in 0..MaxChanges
      /\ Len(pipe) <= PipeSize /\ Len(buf) + Len(pipe) = printed
  BY <1>1, <1>2, <1>3, SizesAssumption DEF Init
<1>5. TypeOK
  <2>1. pipe \in Seq(1..MaxChunks) /\ buf \in Seq(1..MaxChunks)
    BY <1>1, <1>2
  <2>2. store \in PolicyMap /\ saved \in PolicyMap
    BY DEF Init, StoreInit
  <2>3. pc \in Busy /\ files \subseteq Entries
    BY DEF Init, Busy, Collecting
  <2> QED
    BY <1>4, <2>1, <2>2, <2>3 DEF Init, TypeOK
<1>6. PipeInStep
  BY DEF Init, PipeInStep, WriteEndHeld, Redirected, AfterStatus, Archiving
<1>7. ChunksInOrder
  BY <1>1, <1>2 DEF ChunksInOrder
<1>8. EntriesInStep /\ SteadyInStep
  BY DEF Init, EntriesInStep, SteadyInStep, AfterStatus, AfterPolicies, Archiving
<1>9. ArchiveInStep
  BY DEF Init, ArchiveInStep
<1> QED
  BY <1>5, <1>6, <1>7, <1>8, <1>9 DEF DumpInv

\* The pipe is a queue between the status printer and the goroutine: a chunk is
\* in one of the two places, and in its order.
LEMMA ChunksStep ==
    ASSUME DumpInv, [Next]_vars
    PROVE  /\ pipe' \in Seq(1..MaxChunks) /\ Len(pipe') <= PipeSize
           /\ buf' \in Seq(1..MaxChunks) /\ printed' \in 0..MaxChunks
           /\ Len(buf') + Len(pipe') = printed'
           /\ ChunksInOrder'
<1>1. /\ pipe \in Seq(1..MaxChunks) /\ Len(pipe) <= PipeSize
      /\ buf \in Seq(1..MaxChunks) /\ printed \in 0..MaxChunks
      /\ Len(buf) + Len(pipe) = printed
      /\ Len(buf) \in Nat /\ Len(pipe) \in Nat
      /\ PipeSize \in Nat /\ MaxChunks \in Nat
      /\ \A i \in 1..Len(buf) : buf[i] = i
      /\ \A i \in 1..Len(pipe) : pipe[i] = Len(buf) + i
  BY SizesAssumption, LenProperties DEF DumpInv, TypeOK, ChunksInOrder
<1>2. CASE PrintChunk
  <2>1. /\ printed < MaxChunks /\ Len(pipe) < PipeSize
        /\ pipe' = Append(pipe, printed + 1) /\ printed' = printed + 1
        /\ buf' = buf
    BY <1>2 DEF PrintChunk
  <2>2. printed + 1 \in 1..MaxChunks
    BY <1>1, <2>1
  <2>3. /\ pipe' \in Seq(1..MaxChunks) /\ Len(pipe') = Len(pipe) + 1
        /\ \A i \in 1..Len(pipe) : pipe'[i] = pipe[i]
        /\ pipe'[Len(pipe) + 1] = printed + 1
    BY <1>1, <2>1, <2>2, AppendProperties
  <2>4. ASSUME NEW i \in 1..Len(pipe') PROVE pipe'[i] = Len(buf) + i
    <3>1. CASE i \in 1..Len(pipe)
      BY <1>1, <2>3, <3>1
    <3>2. CASE i = Len(pipe) + 1
      BY <1>1, <2>3, <3>2
    <3> QED
      BY <1>1, <2>3, <3>1, <3>2
  <2> QED
    BY <1>1, <2>1, <2>2, <2>3, <2>4 DEF ChunksInOrder
<1>3. CASE ReadChunk
  <2> DEFINE c == Head(pipe)
  <2>1. /\ pipe # <<>> /\ buf' = Append(buf, c) /\ pipe' = Tail(pipe)
        /\ printed' = printed
    BY <1>3 DEF ReadChunk
  <2>2. /\ c \in 1..MaxChunks /\ c = pipe[1] /\ Len(pipe) # 0
        /\ pipe' \in Seq(1..MaxChunks) /\ Len(pipe') = Len(pipe) - 1
        /\ \A i \in 1..Len(pipe') : pipe'[i] = pipe[i + 1]
    BY <1>1, <2>1, HeadTailProperties, EmptySeq
  <2>3. c = Len(buf) + 1
    BY <1>1, <2>2
  <2>4. /\ buf' \in Seq(1..MaxChunks) /\ Len(buf') = Len(buf) + 1
        /\ \A i \in 1..Len(buf) : buf'[i] = buf[i]
        /\ buf'[Len(buf) + 1] = c
    BY <1>1, <2>1, <2>2, AppendProperties
  <2>5. ASSUME NEW i \in 1..Len(buf') PROVE buf'[i] = i
    <3>1. CASE i \in 1..Len(buf)
      BY <1>1, <2>4, <3>1
    <3>2. CASE i = Len(buf) + 1
      BY <2>3, <2>4, <3>2
    <3> QED
      BY <1>1, <2>4, <3>1, <3>2
  <2>6. ASSUME NEW i \in 1..Len(pipe') PROVE pipe'[i] = Len(buf') + i
    <3>1. i + 1 \in 1..Len(pipe) /\ pipe'[i] = pipe[i + 1]
      BY <1>1, <2>2
    <3>2. pipe[i + 1] = Len(buf) + (i + 1)
      BY <1>1, <3>1
    <3> QED
      BY <1>1, <2>4, <3>1, <3>2
  <2>7. ChunksInOrder'
    BY <2>5, <2>6 DEF ChunksInOrder
  <2>8. printed' = printed
    BY <2>1
  <2>9. Len(pipe') <= PipeSize
    <3>1. Len(pipe') = Len(pipe) - 1 /\ Len(pipe) \in Nat /\ Len(pipe) <= PipeSize
      BY <1>1, <2>2
    <3> QED
      BY <1>1, <3>1
  <2>10. Len(buf') + Len(pipe') = printed'
    <3>1. /\ Len(pipe') = Len(pipe) - 1 /\ Len(pipe) \in Nat
          /\ Len(buf') = Len(buf) + 1 /\ Len(buf) \in Nat
          /\ Len(buf) + Len(pipe) = printed
      BY <1>1, <2>2, <2>4
    <3> QED
      BY <2>8, <3>1
  <2> QED
    BY <1>1, <2>2, <2>4, <2>7, <2>8, <2>9, <2>10
<1>4. CASE UNCHANGED <<pipe, buf, printed>>
  BY <1>1, <1>4 DEF ChunksInOrder
<1> QED
  BY <1>2, <1>3, <1>4 DEF Next, Main, Reader, Probe, OpenPipe, StatusReturns,
     CloseWriteEnd, RestoreStdout, Join, ListPolicies, ReadPolicy, CaptureLogs,
     CreateFile, WriteEntry, CloseTar, CloseGzip, CloseFile, ReadEnd, PolicyChanges,
     statusVars, vars

\* stdout, the write end and the goroutine follow the step of captureStatus.
LEMMA PipeStep ==
    ASSUME DumpInv, [Next]_vars
    PROVE  /\ env' \in {"k8s", "docker", "none"}
           /\ pc' \in Busy \cup {"ok", "failed"}
           /\ stdout' \in {"terminal", "pipe"}
           /\ writeEnd' \in BOOLEAN /\ statusErr' \in BOOLEAN
           /\ reader' \in {"none", "reading", "done"}
           /\ PipeInStep'
<1> USE DEF PipeInStep, WriteEndHeld, Redirected, AfterStatus, Archiving, Collecting,
            Busy, Goto, Collect, Fails, Give, statusVars
<1>1. /\ env \in {"k8s", "docker", "none"}
      /\ pc \in Busy \cup {"ok", "failed"}
      /\ stdout \in {"terminal", "pipe"}
      /\ writeEnd \in BOOLEAN /\ statusErr \in BOOLEAN
      /\ reader \in {"none", "reading", "done"}
      /\ PipeInStep
  BY DEF DumpInv, TypeOK
<1>2. CASE Probe
  BY <1>1, <1>2 DEF Probe
<1>3. CASE OpenPipe
  <2>1. pc = "pipe" /\ UNCHANGED <<env, pipe, printed, statusErr>>
    BY <1>3 DEF OpenPipe
  <2>2. reader = "none" /\ ~writeEnd /\ stdout = "terminal"
    BY <1>1, <2>1
  <2>3. CASE /\ stdout' = "pipe" /\ writeEnd' = TRUE /\ reader' = "reading"
             /\ pc' = "print"
    BY <1>1, <2>1, <2>3
  <2>4. CASE pc' = "policies" /\ UNCHANGED <<stdout, writeEnd, reader>>
    BY <1>1, <2>1, <2>2, <2>4
  <2> QED
    BY <1>3, <2>3, <2>4 DEF OpenPipe
<1>4. CASE PrintChunk
  <2>1. /\ pc = "print"
        /\ UNCHANGED <<env, pc, stdout, writeEnd, reader, statusErr>>
    BY <1>4 DEF PrintChunk
  <2>2. writeEnd /\ reader = "reading"
    BY <1>1, <2>1
  <2> QED
    BY <1>1, <2>1, <2>2
<1>5. CASE StatusReturns
  <2>1. statusErr' \in BOOLEAN
    BY <1>5, Zenon DEF StatusReturns
  <2>2. /\ pc = "print" /\ pc' = "close"
        /\ UNCHANGED <<env, stdout, pipe, writeEnd, reader, printed>>
    BY <1>5 DEF StatusReturns
  <2> QED
    BY <1>1, <2>1, <2>2
<1>6. CASE CloseWriteEnd
  BY <1>1, <1>6 DEF CloseWriteEnd
<1>7. CASE RestoreStdout
  BY <1>1, <1>7 DEF RestoreStdout
<1>8. CASE Join
  BY <1>1, <1>8 DEF Join
<1>9. CASE ListPolicies
  BY <1>1, <1>9 DEF ListPolicies
<1>10. CASE ReadPolicy
  BY <1>1, <1>10 DEF ReadPolicy
<1>11. CASE CaptureLogs
  BY <1>1, <1>11 DEF CaptureLogs
<1>12. CASE CreateFile
  BY <1>1, <1>12 DEF CreateFile
<1>13. CASE WriteEntry
  BY <1>1, <1>13 DEF WriteEntry
<1>14. CASE CloseTar
  BY <1>1, <1>14 DEF CloseTar
<1>15. CASE CloseGzip
  BY <1>1, <1>15 DEF CloseGzip
<1>16. CASE CloseFile
  BY <1>1, <1>16 DEF CloseFile
<1>17. CASE ReadChunk
  <2>1. reader = "reading" /\ UNCHANGED <<env, pc, stdout, writeEnd, reader, statusErr, printed>>
    BY <1>17 DEF ReadChunk
  <2> QED
    BY <1>1, <2>1
<1>18. CASE ReadEnd
  BY <1>1, <1>18 DEF ReadEnd
<1>19. CASE PolicyChanges
  BY <1>1, <1>19 DEF PolicyChanges
<1>20. CASE UNCHANGED vars
  BY <1>1, <1>20 DEF vars
<1> QED
  BY <1>2, <1>3, <1>4, <1>5, <1>6, <1>7, <1>8, <1>9, <1>10, <1>11, <1>12, <1>13,
     <1>14, <1>15, <1>16, <1>17, <1>18, <1>19, <1>20 DEF Next, Main, Reader

\* Each part of the dump adds its entry and no other.
LEMMA EntriesStep ==
    ASSUME DumpInv, [Next]_vars
    PROVE  files' \subseteq Entries /\ EntriesInStep'
<1> USE DEF EntriesInStep, AfterStatus, AfterPolicies, Archiving, Collecting, Busy,
            Goto, Collect, Fails, Give, Entries, Always, Optional
<1>1. /\ files \subseteq Entries /\ EntriesInStep
      /\ env \in {"k8s", "docker", "none"} /\ pc \in Busy \cup {"ok", "failed"}
  BY DEF DumpInv, TypeOK
<1>2. CASE Probe
  BY <1>1, <1>2 DEF Probe
<1>3. CASE OpenPipe
  BY <1>1, <1>3 DEF OpenPipe
<1>4. CASE StatusReturns \/ CloseWriteEnd \/ RestoreStdout
  BY <1>1, <1>4 DEF StatusReturns, CloseWriteEnd, RestoreStdout
<1>5. CASE Join
  BY <1>1, <1>5 DEF Join
<1>6. CASE ListPolicies
  BY <1>1, <1>6 DEF ListPolicies
<1>7. CASE ReadPolicy
  BY <1>1, <1>7 DEF ReadPolicy
<1>8. CASE CaptureLogs
  <2>1. PICK got \in SUBSET Optional(env) : files' = files \cup got \cup {"meta.json"}
    BY <1>8 DEF CaptureLogs
  <2>2. got \subseteq Optional("k8s") \cup Optional("docker")
    BY <1>1, <2>1
  <2>3. pc = "logs" /\ pc' = "create"
    BY <1>8 DEF CaptureLogs
  <2> QED
    BY <1>1, <2>1, <2>2, <2>3
<1>9. CASE CreateFile \/ WriteEntry \/ CloseTar \/ CloseGzip
  BY <1>1, <1>9 DEF CreateFile, WriteEntry, CloseTar, CloseGzip
<1>10. CASE CloseFile
  BY <1>1, <1>10 DEF CloseFile
<1>11. CASE UNCHANGED <<pc, files>>
  BY <1>1, <1>11
<1> QED
  BY <1>2, <1>3, <1>4, <1>5, <1>6, <1>7, <1>8, <1>9, <1>10, <1>11
  DEF Next, Main, Reader, PrintChunk, ReadChunk, ReadEnd, PolicyChanges, vars

\* Whatever others do to the policies, a listed one that they leave alone is
\* there to be read until it is dumped.
LEMMA PoliciesStep ==
    ASSUME DumpInv, [Next]_vars
    PROVE  /\ store' \in PolicyMap /\ saved' \in PolicyMap
           /\ listed' \subseteq Names /\ dumped' \subseteq Docs
           /\ steady' \subseteq Names /\ unread' \subseteq Names
           /\ changes' \in 0..MaxChanges
           /\ SteadyInStep'
<1> USE DEF SteadyInStep, AfterStatus, AfterPolicies, Archiving, Collecting, Busy,
            Goto, Fails, Give, policyVars
<1>1. /\ store \in PolicyMap /\ saved \in PolicyMap
      /\ listed \subseteq Names /\ dumped \subseteq Docs
      /\ steady \subseteq Names /\ unread \subseteq Names
      /\ changes \in 0..MaxChanges /\ MaxChanges \in Nat
      /\ SteadyInStep
      /\ pc \in Busy \cup {"ok", "failed"}
  BY SizesAssumption DEF DumpInv, TypeOK
<1>2. \A n \in Names : store[n] # NoDoc => store[n] \in Docs
  BY <1>1 DEF PolicyMap
<1>3. CASE PolicyChanges
  <2>1. pc = "read" /\ changes < MaxChanges /\ changes' = changes + 1
        /\ UNCHANGED <<pc, listed, dumped, unread>>
    BY <1>3 DEF PolicyChanges
  <2>2. PICK n \in Names : /\ Remove(n) \/ \E d \in Docs : Put(n, d)
                           /\ steady' = steady \ {n}
    BY <1>3 DEF PolicyChanges
  <2>3. store' \in PolicyMap /\ saved' = saved
    BY <1>1, <2>2 DEF Remove, Put, PolicyMap
  <2>4. \A m \in Names \ {n} : store'[m] = store[m]
    BY <1>1, <2>2 DEF Remove, Put, PolicyMap
  <2>5. changes' \in 0..MaxChanges
    BY <1>1, <2>1
  <2> QED
    BY <1>1, <2>1, <2>2, <2>3, <2>4, <2>5
<1>4. CASE ListPolicies
  <2>1. Present \subseteq Names /\ {store[n] : n \in Present} \subseteq Docs
    BY <1>2 DEF Present
  <2> QED
    BY <1>1, <1>4, <2>1 DEF ListPolicies
<1>5. CASE ReadPolicy
  BY <1>1, <1>2, <1>5 DEF ReadPolicy
<1>6. CASE /\ UNCHANGED policyVars
           /\ pc \in AfterPolicies <=> pc' \in AfterPolicies
           /\ pc = "read" <=> pc' = "read"
  BY <1>1, <1>6
<1>7. CASE Probe \/ OpenPipe \/ StatusReturns \/ CloseWriteEnd \/ RestoreStdout \/ Join
  <2>1. UNCHANGED policyVars
    BY <1>7 DEF Probe, OpenPipe, StatusReturns, CloseWriteEnd, RestoreStdout, Join
  <2>2. pc \in {"probe", "pipe", "print", "close", "restore", "join"}
    BY <1>7 DEF Probe, OpenPipe, StatusReturns, CloseWriteEnd, RestoreStdout, Join
  <2>3. pc' \in {"pipe", "print", "policies", "close", "restore", "join"}
    BY <1>7 DEF Probe, OpenPipe, StatusReturns, CloseWriteEnd, RestoreStdout, Join
  <2> QED
    BY <1>6, <2>1, <2>2, <2>3
<1>8. CASE CaptureLogs \/ CreateFile \/ WriteEntry \/ CloseTar \/ CloseGzip \/ CloseFile
  <2>1. UNCHANGED policyVars
    BY <1>8 DEF CaptureLogs, CreateFile, WriteEntry, CloseTar, CloseGzip, CloseFile
  <2>2. pc \in AfterPolicies /\ pc' \in AfterPolicies
    BY <1>8 DEF CaptureLogs, CreateFile, WriteEntry, CloseTar, CloseGzip, CloseFile
  <2> QED
    BY <1>6, <2>1, <2>2
<1>9. CASE PrintChunk \/ ReadChunk \/ ReadEnd \/ UNCHANGED vars
  BY <1>6, <1>9 DEF PrintChunk, ReadChunk, ReadEnd, vars
<1> QED
  BY <1>3, <1>4, <1>5, <1>7, <1>8, <1>9 DEF Next, Main, Reader

\* The archive advances piece by piece, and what has gone wrong on the way is
\* remembered until the file is closed.
LEMMA ArchiveStep ==
    ASSUME DumpInv, [Next]_vars
    PROVE  /\ tarred' \in 0..Pieces(files') /\ flushed' \in 0..tarred'
           /\ archive' \in 0..flushed'
           /\ retErr' \in BOOLEAN /\ broke' \in BOOLEAN
           /\ ArchiveInStep'
<1> USE DEF ArchiveInStep, Archiving, Collecting, Busy, Goto, Fails, Give, archiveVars
<1>1. /\ files \subseteq Entries /\ files' \subseteq Entries
      /\ tarred \in 0..Pieces(files) /\ flushed \in 0..tarred /\ archive \in 0..flushed
      /\ retErr \in BOOLEAN /\ broke \in BOOLEAN
      /\ pc \in Busy \cup {"ok", "failed"}
      /\ ArchiveInStep
  BY EntriesStep DEF DumpInv, TypeOK
<1>2. /\ Cardinality(files) \in Nat /\ Pieces(files) = Cardinality(files) + 1
      /\ Pieces(files') \in Nat
  BY <1>1, FilesFinite DEF Pieces
<1>3. CASE Probe \/ OpenPipe \/ PrintChunk \/ StatusReturns \/ CloseWriteEnd
           \/ RestoreStdout \/ Join \/ ListPolicies \/ ReadPolicy \/ CaptureLogs
           \/ PolicyChanges
  <2>1. /\ pc \in Collecting /\ pc' \in Collecting \cup {"create"}
        /\ UNCHANGED archiveVars
    BY <1>3 DEF Probe, OpenPipe, PrintChunk, StatusReturns, CloseWriteEnd,
       RestoreStdout, Join, ListPolicies, ReadPolicy, CaptureLogs, PolicyChanges
  <2>2. tarred = 0 /\ flushed = 0 /\ archive = 0
    BY <1>1, <2>1
  <2> QED
    BY <1>1, <1>2, <2>1, <2>2
<1>4. CASE CreateFile
  <2>1. pc = "create" /\ files' = files /\ UNCHANGED <<tarred, flushed, archive>>
    BY <1>4 DEF CreateFile
  <2>2. \/ pc' = "entries" /\ UNCHANGED <<retErr, broke>>
        \/ retErr' = TRUE /\ broke' = TRUE /\ pc' = "failed"
    BY <1>4 DEF CreateFile
  <2>3. tarred' = 0 /\ flushed' = 0 /\ archive' = 0
    BY <1>1, <2>1
  <2>4. retErr' \in BOOLEAN /\ broke' \in BOOLEAN
    BY <1>1, <2>2
  <2> QED
    BY <1>1, <1>2, <2>1, <2>2, <2>3, <2>4
<1>5. CASE WriteEntry \/ CloseTar
  <2>1. /\ pc = "entries" /\ files' = files /\ archive' = archive
        /\ tarred' = tarred + 1
    BY <1>5 DEF WriteEntry, CloseTar
  <2>2. \/ tarred < Cardinality(files) /\ pc' \in {"entries", "file"}
        \/ tarred = Cardinality(files) /\ pc' \in {"gzip", "file"}
    BY <1>5 DEF WriteEntry, CloseTar
  <2>3. \/ /\ pc' # "file" /\ flushed' \in {flushed, tarred'}
           /\ UNCHANGED <<retErr, broke>>
        \/ /\ pc' = "file" /\ flushed' = flushed /\ retErr' = TRUE /\ broke' = TRUE
    BY <1>5 DEF WriteEntry, CloseTar
  <2>4. /\ tarred' \in 0..Pieces(files') /\ flushed' \in 0..tarred'
        /\ archive' \in 0..flushed'
    BY <1>1, <1>2, <2>1, <2>2, <2>3
  <2>5. retErr' \in BOOLEAN /\ broke' \in BOOLEAN
    BY <1>1, <2>3
  <2>6. pc' # "file" => ~retErr'
    BY <1>1, <2>1, <2>3
  <2>7. retErr' => broke'
    BY <1>1, <2>3
  <2>8. pc' = "file" => retErr'
    BY <2>3
  <2>9. tarred \in Nat
    BY <1>1, <1>2
  <2>10. pc' = "entries" => tarred' <= Cardinality(files')
    BY <1>2, <2>1, <2>2, <2>9
  <2>11. pc' = "gzip" => tarred' = Pieces(files')
    BY <1>2, <2>1, <2>2, <2>9
  <2>12. ArchiveInStep'
    BY <2>2, <2>6, <2>7, <2>8, <2>10, <2>11
  <2> QED
    BY <2>4, <2>5, <2>12
<1>6. CASE CloseGzip
  <2>1. pc = "gzip" /\ files' = files /\ UNCHANGED <<tarred, archive>>
    BY <1>6 DEF CloseGzip
  <2>2. \/ flushed' = tarred /\ pc' = "file" /\ UNCHANGED <<retErr, broke>>
        \/ flushed' = flushed /\ retErr' = TRUE /\ broke' = TRUE /\ pc' = "file"
    BY <1>6 DEF CloseGzip
  <2>3. retErr' \in BOOLEAN /\ broke' \in BOOLEAN
    BY <1>1, <2>2
  <2>4. /\ tarred' \in 0..Pieces(files') /\ flushed' \in 0..tarred'
        /\ archive' \in 0..flushed'
    BY <1>1, <1>2, <2>1, <2>2
  <2>5. ArchiveInStep'
    BY <1>1, <2>1, <2>2
  <2> QED
    BY <2>3, <2>4, <2>5
<1>7. CASE CloseFile
  <2>1. pc = "file" /\ files' = files /\ UNCHANGED <<tarred, flushed>>
    BY <1>7 DEF CloseFile
  <2>2. \/ archive' = flushed /\ UNCHANGED <<retErr, broke>>
        \/ archive' = flushed - 1 /\ flushed > 0 /\ retErr' = TRUE /\ broke' = TRUE
    BY <1>7 DEF CloseFile
  <2>3. pc' = IF retErr' THEN "failed" ELSE "ok"
    BY <1>7 DEF CloseFile
  <2>4. retErr' \in BOOLEAN /\ broke' \in BOOLEAN
    BY <1>1, <2>2
  <2>5. /\ tarred' \in 0..Pieces(files') /\ flushed' \in 0..tarred'
        /\ archive' \in 0..flushed'
    BY <1>1, <1>2, <2>1, <2>2
  <2>6. ArchiveInStep'
    BY <1>1, <2>1, <2>2, <2>3
  <2> QED
    BY <2>4, <2>5, <2>6
<1>8. CASE UNCHANGED <<pc, files, archiveVars>>
  BY <1>1, <1>2, <1>8
<1> QED
  BY <1>3, <1>4, <1>5, <1>6, <1>7, <1>8 DEF Next, Main, Reader, ReadChunk,
     ReadEnd, vars

\* The five parts of the state advance together.
LEMMA NextKeepsInv == DumpInv /\ [Next]_vars => DumpInv'
<1> SUFFICES ASSUME DumpInv, [Next]_vars PROVE DumpInv'
  OBVIOUS
<1>1. TypeOK'
  BY ChunksStep, PipeStep, EntriesStep, PoliciesStep, ArchiveStep DEF TypeOK
<1> QED
  BY <1>1, ChunksStep, PipeStep, EntriesStep, PoliciesStep, ArchiveStep DEF DumpInv

\* The invariant of a dump, whatever its pipe, its status and its policies.
LEMMA DumpInvariant == Spec => []DumpInv
  BY InitInv, NextKeepsInv, PTL DEF Spec

\* Every variable of sysdump stays within its type; the pipe never holds more
\* than its size, and no chunk is lost or made up between its two ends.
THEOREM Typing == Spec => []TypeOK
<1>1. DumpInv => TypeOK
  BY DEF DumpInv
<1> QED
  BY <1>1, DumpInvariant, PTL

\* The status entry is taken when the goroutine has read all that the status
\* printer has written, and stdout is the terminal again by then.
THEOREM WholeStatus == Spec => []StatusIsWhole
<1>1. ASSUME DumpInv, "status.txt" \in files
      PROVE  reader # "reading" /\ stdout = "terminal" /\ buf = [i \in 1..printed |-> i]
  <2>1. pc \in AfterStatus
    BY <1>1 DEF DumpInv, EntriesInStep
  <2>2. reader \in {"none", "done"} /\ stdout = "terminal"
    BY <1>1, <2>1 DEF DumpInv, TypeOK, PipeInStep, AfterStatus, Archiving,
       Redirected, WriteEndHeld
  <2>3. /\ pipe \in Seq(1..MaxChunks) /\ buf \in Seq(1..MaxChunks)
        /\ printed \in Nat /\ Len(buf) + Len(pipe) = printed
        /\ Len(pipe) \in Nat /\ Len(buf) \in Nat
    BY <1>1, SizesAssumption, LenProperties DEF DumpInv, TypeOK
  <2>4. Len(pipe) = 0
    <3>1. CASE reader = "none"
      BY <1>1, <2>3, <3>1 DEF DumpInv, PipeInStep
    <3>2. CASE reader = "done"
      BY <1>1, <3>2, EmptySeq DEF DumpInv, PipeInStep
    <3> QED
      BY <2>2, <3>1, <3>2
  <2>5. Len(buf) = printed
    BY <2>3, <2>4
  <2>6. buf = [i \in 1..Len(buf) |-> buf[i]]
    BY <2>3, LenProperties
  <2>7. \A i \in 1..printed : buf[i] = i
    BY <1>1, <2>5 DEF DumpInv, ChunksInOrder
  <2> QED
    BY <2>2, <2>5, <2>6, <2>7
<1>2. DumpInv => StatusIsWhole
  BY <1>1 DEF StatusIsWhole
<1> QED
  BY <1>2, DumpInvariant, PTL

\* A policy that nobody touches from the listing on, and whose file can be read,
\* is in the bundle in the version the directory holds.
THEOREM SteadyDumped == Spec => []SteadyPoliciesDumped
<1>1. DumpInv => SteadyPoliciesDumped
  BY DEF DumpInv, EntriesInStep, SteadyInStep, SteadyPoliciesDumped, AfterPolicies
<1> QED
  BY <1>1, DumpInvariant, PTL

\* When sysdump reports its bundle written, all its pieces are in the file, and
\* the entries that every bundle has are among them.
THEOREM WholeBundle == Spec => []BundleIsWhole
<1>1. DumpInv => BundleIsWhole
  BY DEF DumpInv, EntriesInStep, ArchiveInStep, BundleIsWhole, Always, AfterStatus,
     AfterPolicies
<1> QED
  BY <1>1, DumpInvariant, PTL

\* sysdump fails only when a call on the archive has failed.
THEOREM FailsByArchive == Spec => []OnlyArchiveFails
<1>1. DumpInv => OnlyArchiveFails
  BY DEF DumpInv, ArchiveInStep, OnlyArchiveFails
<1> QED
  BY <1>1, DumpInvariant, PTL
====
