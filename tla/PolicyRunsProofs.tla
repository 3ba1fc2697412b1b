---- MODULE PolicyRunsProofs ----
(***************************************************************************)
(* What a run of kkctl on the policy directory may leave behind, proved    *)
(* for any number of runs: the temporary files of an apply, the prefix it  *)
(* published, the delete with a bad input, the listing that was cut short. *)
(***************************************************************************)
EXTENDS PolicyFilesProofs

\* A process that has not started has done nothing, and a running process is
\* where its kind of request leads.
OpAtPoint ==
    \A p \in Procs :
        /\ pc[p] = "idle" => job[p] = NoRequest /\ pos[p] = 1
        /\ pc[p] # "idle" => job[p] # NoRequest
        /\ pc[p] \in Writing \cup {"input", "doc", "create"} => job[p].op = "apply"
        /\ pc[p] \in {"targets", "delete"} => job[p].op = "delete"
        /\ pc[p] \in {"readdir", "read"} => job[p].op = "list"
        /\ pc[p] \in {"scan", "unlink", "rmdir"} => job[p].op = "purge"

IsApply(p) == job[p] # NoRequest /\ job[p].op = "apply"

PublishedBy(p) == {f \in published : f.by = p}

Prefix(p) ==
    {[doc |-> job[p].docs[i], by |-> p, at |-> i] : i \in 1..(pos[p] - 1)}

PublishedSoFar ==
    \A p \in Procs :
        /\ ~IsApply(p) => PublishedBy(p) = {}
        /\ IsApply(p) => /\ PublishedBy(p) = Prefix(p)
                         /\ pos[p] <= Len(job[p].docs) + 1
                         /\ pc[p] = "ok" => pos[p] = Len(job[p].docs) + 1

TempsOfRuns == crashes = 0 => \A f \in temps : f.by \in Procs

Removing == \E q \in Procs : job[q] # NoRequest /\ job[q].op \in {"delete", "purge"}

\* Until somebody removes, all that a listing has still to visit is there.
ListedStillThere ==
    ~Removing => \A p \in Procs : pc[p] = "read" => todo[p] \subseteq Present

RunsInv ==
    /\ OpAtPoint
    /\ PublishedSoFar
    /\ TempsOfRuns
    /\ TempsAccounted
    /\ BadInputDeletesNothing
    /\ ListedStillThere
    /\ ListingCutOnlyByRemoval

\* Before the first process starts there is nothing to account for.
LEMMA RunsInit == Init => RunsInv
  BY DEF Init, RunsInv, OpAtPoint, PublishedSoFar, IsApply, PublishedBy,
     TempsOfRuns, TempsAccounted, BadInputDeletesNothing, ListedStillThere,
     ListingCutOnlyByRemoval, Writing

\* Pc, request and document index of every other process stay.
OthersStay(p) ==
    \A q \in Procs : q # p => pc'[q] = pc[q] /\ pos'[q] = pos[q] /\ todo'[q] = todo[q]

\* A step of one process touches no other process's control.
LEMMA StepIsLocal ==
    ASSUME TypeOK, NEW p \in Procs, Step(p) \/ Kill(p)
    PROVE  OthersStay(p) /\ job' = job /\ crashes' = crashes
<1> USE DEF OthersStay, Goto, Advance, Local, fsVars, TypeOK
<1>1. CASE ReadInput(p) \/ ApplyDoc(p) \/ CreateTemp(p) \/ Write(p) \/ Chmod(p)
  BY <1>1 DEF ReadInput, ApplyDoc, CreateTemp, Write, Chmod
<1>2. CASE Sync(p) \/ Close(p) \/ Rename(p) \/ WriteFails(p) \/ Cleanup(p) \/ Kill(p)
  BY <1>2 DEF Sync, Close, Rename, WriteFails, Cleanup, Kill
<1>3. CASE CollectTargets(p) \/ DeleteDoc(p) \/ ReadDir(p) \/ ReadFile(p)
  BY <1>3 DEF CollectTargets, DeleteDoc, ReadDir, ReadFile
<1>4. CASE ScanForPurge(p) \/ Unlink(p) \/ RemoveDir(p)
  BY <1>4 DEF ScanForPurge, Unlink, RemoveDir
<1> QED
  BY <1>1, <1>2, <1>3, <1>4 DEF Step, ApplyStep, OtherStep

\* A process never leaves the code of its own command.
LEMMA OpAtPointStep ==
    ASSUME TypeOK, OpAtPoint, NEW p \in Procs, Step(p) \/ Kill(p)
    PROVE  OpAtPoint'
<1>0. OthersStay(p) /\ job' = job
  BY StepIsLocal
<1>1. /\ pc'[p] # "idle"
      /\ pc[p] # "idle"
      /\ pc'[p] \in Writing \cup {"input", "doc", "create"} => job[p].op = "apply"
      /\ pc'[p] \in {"targets", "delete"} => job[p].op = "delete"
      /\ pc'[p] \in {"readdir", "read"} => job[p].op = "list"
      /\ pc'[p] \in {"scan", "unlink", "rmdir"} => job[p].op = "purge"
  <2> USE DEF OpAtPoint, Goto, At, TypeOK, Writing, Local, fsVars
  <2>1. CASE ReadInput(p) \/ ApplyDoc(p) \/ CreateTemp(p) \/ Write(p) \/ Chmod(p)
    BY <2>1 DEF ReadInput, ApplyDoc, CreateTemp, Write, Chmod
  <2>2. CASE Sync(p) \/ Close(p) \/ Rename(p) \/ WriteFails(p) \/ Cleanup(p)
    BY <2>2 DEF Sync, Close, Rename, WriteFails, Cleanup
  <2>3. CASE CollectTargets(p) \/ DeleteDoc(p) \/ ReadDir(p) \/ ReadFile(p)
    BY <2>3 DEF CollectTargets, DeleteDoc, ReadDir, ReadFile
  <2>4. CASE ScanForPurge(p) \/ Unlink(p) \/ RemoveDir(p)
    BY <2>4 DEF ScanForPurge, Unlink, RemoveDir
  <2>5. CASE Kill(p)
    BY <2>5 DEF Kill, Running
  <2> QED
    BY <2>1, <2>2, <2>3, <2>4, <2>5 DEF Step, ApplyStep, OtherStep
<1> QED
  BY <1>0, <1>1 DEF OpAtPoint, OthersStay

\* An apply publishes its documents in turn, and only a rename publishes.
LEMMA PublishedStep ==
    ASSUME FilesInv, OpAtPoint, PublishedSoFar, NEW p \in Procs, Step(p) \/ Kill(p)
    PROVE  PublishedSoFar'
<1>0. OthersStay(p) /\ job' = job /\ TypeOK
  BY StepIsLocal DEF FilesInv
<1>1. ASSUME NEW q \in Procs, q # p, PublishedBy(q)' = PublishedBy(q)
      PROVE  /\ ~IsApply(q)' => PublishedBy(q)' = {}
             /\ IsApply(q)' => /\ PublishedBy(q)' = Prefix(q)'
                               /\ (pos[q] <= Len(job[q].docs) + 1)'
                               /\ (pc[q] = "ok" => pos[q] = Len(job[q].docs) + 1)'
  BY <1>0, <1>1 DEF PublishedSoFar, OthersStay, IsApply, Prefix
<1>2. CASE Rename(p)
  <2>1. IsApply(p) /\ More(p) /\ pos[p] \in Nat \ {0} /\ Len(job[p].docs) \in Nat
    BY <1>0, <1>2 DEF Rename, At, FilesInv, AtDocument, OpAtPoint, Writing,
       IsApply, TypeOK, Request
  <2>2. published' = published \cup {Temp(p)} /\ Temp(p).by = p
    BY <1>2 DEF Rename, Temp
  <2>3. pos'[p] = pos[p] + 1 /\ pc'[p] = "doc"
    BY <1>0, <1>2 DEF Rename, Advance, Goto, TypeOK
  <2>4. PublishedBy(p)' = PublishedBy(p) \cup {Temp(p)}
    BY <2>2 DEF PublishedBy
  <2>5. Prefix(p)' = Prefix(p) \cup {Temp(p)}
    <3>1. 1..(pos'[p] - 1) = (1..(pos[p] - 1)) \cup {pos[p]}
      BY <2>1, <2>3
    <3> QED
      BY <1>0, <3>1 DEF Prefix, Temp, Doc
  <2>6. (pos[p] <= Len(job[p].docs) + 1)'
    BY <1>0, <2>1, <2>3 DEF More
  <2>7. \A q \in Procs : q # p => PublishedBy(q)' = PublishedBy(q)
    BY <2>2 DEF PublishedBy
  <2> QED
    BY <1>0, <1>1, <2>1, <2>3, <2>4, <2>5, <2>6, <2>7 DEF PublishedSoFar, IsApply
<1>3. CASE published' = published /\ pos'[p] = pos[p] /\ (pc'[p] = "ok" => pc[p] = "ok")
  <2>1. \A q \in Procs : PublishedBy(q)' = PublishedBy(q)
    BY <1>3 DEF PublishedBy
  <2> QED
    BY <1>0, <1>1, <1>3, <2>1 DEF PublishedSoFar, IsApply, Prefix
<1>4. CASE published' = published /\ ~IsApply(p)
  <2>1. \A q \in Procs : PublishedBy(q)' = PublishedBy(q)
    BY <1>4 DEF PublishedBy
  <2> QED
    BY <1>0, <1>1, <1>4, <2>1 DEF PublishedSoFar, IsApply
<1>5. CASE ApplyDoc(p) /\ ~More(p) /\ published' = published /\ pos' = pos
  <2>1. \A q \in Procs : PublishedBy(q)' = PublishedBy(q)
    BY <1>5 DEF PublishedBy
  <2>2. IsApply(p) /\ pos[p] \in Nat \ {0} /\ Len(job[p].docs) \in Nat
    BY <1>0, <1>5 DEF ApplyDoc, At, OpAtPoint, IsApply, TypeOK, Request
  <2>3. pos[p] = Len(job[p].docs) + 1
    BY <1>5, <2>2 DEF PublishedSoFar, More
  <2> QED
    BY <1>0, <1>1, <1>5, <2>1, <2>2, <2>3 DEF PublishedSoFar, IsApply, Prefix
<1>6. ASSUME ApplyStep(p), ~Rename(p), ~(ApplyDoc(p) /\ ~More(p))
      PROVE  published' = published /\ pos'[p] = pos[p] /\ pc'[p] # "ok"
  BY <1>0, <1>6 DEF ApplyStep, ReadInput, ApplyDoc, CreateTemp, Write, Chmod, Sync,
     Close, WriteFails, Cleanup, Local, fsVars, Goto, TypeOK
<1>7. ASSUME OtherStep(p)
      PROVE  published' = published /\ ~IsApply(p)
  BY <1>7 DEF OtherStep, CollectTargets, DeleteDoc, ReadDir, ReadFile, ScanForPurge,
     Unlink, RemoveDir, Local, fsVars, At, OpAtPoint, IsApply
<1>8. ASSUME Kill(p)
      PROVE  published' = published /\ pos'[p] = pos[p] /\ pc'[p] # "ok"
  BY <1>0, <1>8 DEF Kill, Local, Goto, TypeOK
<1>9. ApplyDoc(p) => published' = published /\ pos' = pos
  BY DEF ApplyDoc, Local
<1> QED
  BY <1>2, <1>3, <1>4, <1>5, <1>6, <1>7, <1>8, <1>9 DEF Step

\* A temporary file is made, renamed and cleaned up by one write of one process.
LEMMA TempsStep ==
    ASSUME FilesInv, TempsOfRuns, TempsAccounted, NEW p \in Procs, Step(p) \/ Kill(p)
    PROVE  TempsOfRuns' /\ TempsAccounted'
<1> SUFFICES ASSUME crashes' = 0, NEW f \in temps'
             PROVE  /\ f.by \in Procs
                    /\ \/ pc'[f.by] \in Writing /\ f = Temp(f.by)'
                       \/ pc'[f.by] \in {"killed", "failed"}
  BY DEF TempsOfRuns, TempsAccounted
<1>0. OthersStay(p) /\ job' = job /\ crashes = 0 /\ TypeOK
  BY StepIsLocal DEF FilesInv
<1>1. CASE f \notin temps
  <2>1. CreateTemp(p) /\ f = Temp(p)
    BY <1>1 DEF Step, ApplyStep, OtherStep, ReadInput, ApplyDoc, CreateTemp, Write,
       Chmod, Sync, Close, Rename, WriteFails, Cleanup, CollectTargets, DeleteDoc,
       ReadDir, ReadFile, ScanForPurge, Unlink, RemoveDir, Kill, fsVars
  <2>2. f.by = p /\ pc'[p] = "write" /\ Temp(p)' = Temp(p)
    BY <1>0, <1>1, <2>1 DEF CreateTemp, Goto, TypeOK, Temp, Doc, Local
  <2> QED
    BY <2>1, <2>2 DEF Writing
<1>2. CASE f \in temps
  <2>1. /\ f.by \in Procs
        /\ \/ pc[f.by] \in Writing /\ f = Temp(f.by)
           \/ pc[f.by] \in {"killed", "failed"}
    BY <1>0, <1>2 DEF TempsOfRuns, TempsAccounted
  <2>2. CASE f.by # p
    <3>1. pc'[f.by] = pc[f.by] /\ Temp(f.by)' = Temp(f.by)
      BY <1>0, <2>1, <2>2 DEF OthersStay, Temp, Doc
    <3> QED
      BY <2>1, <3>1
  <2>3. CASE f.by = p /\ pc[p] \in Writing
    <3>1. CASE pos'[p] = pos[p]
      <4>1. Temp(p)' = Temp(p)
        BY <1>0, <3>1 DEF Temp, Doc
      <4>2. ~Rename(p)
        BY <1>0, <3>1 DEF Rename, Advance, TypeOK
      <4>3. pc'[p] \in Writing \/ pc'[p] \in {"killed", "failed"}
        BY <1>0, <2>3, <4>2 DEF Step, ApplyStep, OtherStep, ReadInput, ApplyDoc,
           CreateTemp, Write, Chmod, Sync, Close, WriteFails, Cleanup,
           CollectTargets, DeleteDoc, ReadDir, ReadFile, ScanForPurge, Unlink,
           RemoveDir, Kill, At, Goto, Writing, TypeOK
      <4> QED
        BY <2>1, <2>3, <4>1, <4>3 DEF Writing
    <3>2. CASE pos'[p] # pos[p]
      <4>1. Rename(p)
        BY <2>3, <3>2 DEF Step, ApplyStep, OtherStep, ReadInput, ApplyDoc, CreateTemp,
           Write, Chmod, Sync, Close, WriteFails, Cleanup, CollectTargets, DeleteDoc,
           ReadDir, ReadFile, ScanForPurge, Unlink, RemoveDir, Kill, At, Local, Writing
      <4> QED
        BY <2>1, <2>3, <4>1 DEF Rename, Writing
    <3> QED
      BY <3>1, <3>2
  <2>4. CASE f.by = p /\ pc[p] \in {"killed", "failed"}
    BY <2>4 DEF Step, ApplyStep, OtherStep, ReadInput, ApplyDoc, CreateTemp, Write,
       Chmod, Sync, Close, Rename, WriteFails, Cleanup, CollectTargets, DeleteDoc,
       ReadDir, ReadFile, ScanForPurge, Unlink, RemoveDir, Kill, At, Running, Writing
  <2> QED
    BY <2>1, <2>2, <2>3, <2>4
<1> QED
  BY <1>1, <1>2

\* A delete with a bad document stays in collectDeleteTargets or fails there.
LEMMA BadInputStep ==
    ASSUME FilesInv, OpAtPoint, BadInputDeletesNothing,
           NEW p \in Procs, Step(p) \/ Kill(p)
    PROVE  BadInputDeletesNothing'
<1>0. OthersStay(p) /\ job' = job /\ TypeOK
  BY StepIsLocal DEF FilesInv
<1> SUFFICES ASSUME job[p] # NoRequest, job[p].op = "delete",
                    NEW i \in 1..Len(job[p].docs), ~NamedDoc(job[p].docs[i])
             PROVE  pc'[p] \in {"targets", "failed", "killed"} /\ pos'[p] = 1
  BY <1>0 DEF BadInputDeletesNothing, OthersStay, NamedDoc
<1>1. pc[p] \in {"targets", "failed", "killed"} /\ pos[p] = 1
  BY DEF BadInputDeletesNothing
<1>2. CollectTargets(p) \/ Kill(p)
  BY <1>1 DEF Step, ApplyStep, OtherStep, ReadInput, ApplyDoc, CreateTemp, Write,
     Chmod, Sync, Close, Rename, WriteFails, Cleanup, DeleteDoc, ReadDir, ReadFile,
     ScanForPurge, Unlink, RemoveDir, At, Writing
<1> QED
  BY <1>0, <1>1, <1>2 DEF CollectTargets, Kill, Goto, Local, TypeOK

\* As long as nobody removes, what a listing still has to read stays there.
LEMMA ListingStep ==
    ASSUME FilesInv, OpAtPoint, ListedStillThere, ListingCutOnlyByRemoval,
           NEW p \in Procs, Step(p) \/ Kill(p)
    PROVE  ListedStillThere' /\ ListingCutOnlyByRemoval'
<1>0. OthersStay(p) /\ job' = job /\ TypeOK
  BY StepIsLocal DEF FilesInv
<1>1. Removing' = Removing
  BY <1>0 DEF Removing
<1>2. CASE Removing
  BY <1>1, <1>2 DEF ListedStillThere, ListingCutOnlyByRemoval, Removing
<1>3. CASE ~Removing
  <2>1. job[p] # NoRequest /\ job[p].op \notin {"delete", "purge"}
    BY <1>3, <1>0 DEF Removing, OpAtPoint, Step, ApplyStep, OtherStep, ReadInput,
       ApplyDoc, CreateTemp, Write, Chmod, Sync, Close, Rename, WriteFails, Cleanup,
       CollectTargets, DeleteDoc, ReadDir, ReadFile, ScanForPurge, Unlink, RemoveDir,
       Kill, At, Running, Writing
  <2>2. ApplyStep(p) \/ ReadDir(p) \/ ReadFile(p) \/ Kill(p)
    BY <2>1 DEF Step, OtherStep, OpAtPoint, CollectTargets, DeleteDoc, ScanForPurge,
       Unlink, RemoveDir, At
  <2>3. Present \subseteq Present'
    <3>1. CASE Rename(p)
      <4>1. Temp(p) # None /\ dir \in [Names -> File \cup {None}]
        BY <1>0, <3>1, NoneAssumption, TempIsFile
           DEF Rename, At, FilesInv, AtDocument, Writing, TypeOK
      <4> QED
        BY <3>1, <4>1 DEF Rename, Present
    <3>2. CASE ~Rename(p)
      BY <2>2, <3>2 DEF Present, ApplyStep, ReadInput, ApplyDoc, CreateTemp, Write,
         Chmod, Sync, Close, WriteFails, Cleanup, ReadDir, ReadFile, Kill, fsVars
    <3> QED
      BY <3>1, <3>2
  <2>4. pc'[p] = "read" => todo'[p] \subseteq Present
    BY <1>0, <1>3, <2>2 DEF ListedStillThere, ApplyStep, ReadInput, ApplyDoc,
       CreateTemp, Write, Chmod, Sync, Close, Rename, WriteFails, Cleanup, ReadDir,
       ReadFile, Kill, Goto, TypeOK, At
  <2>5. pc'[p] = "missing" => pc[p] = "missing"
    BY <1>0, <1>3, <2>2 DEF ListedStillThere, ApplyStep, ReadInput, ApplyDoc,
       CreateTemp, Write, Chmod, Sync, Close, Rename, WriteFails, Cleanup, ReadDir,
       ReadFile, Kill, Goto, TypeOK, At, Present
  <2>6. ListedStillThere'
    BY <1>0, <1>3, <2>3, <2>4 DEF ListedStillThere, OthersStay
  <2>7. ListingCutOnlyByRemoval'
    BY <1>0, <1>3, <2>5 DEF ListingCutOnlyByRemoval, OthersStay, Removing
  <2> QED
    BY <2>6, <2>7
<1> QED
  BY <1>2, <1>3

\* A process that starts has everything before it.
LEMMA StartRuns ==
    ASSUME FilesInv, RunsInv, NEW p \in Procs, NEW r \in Requests, Start(p, r)
    PROVE  RunsInv'
<1>1. r \in Request /\ r # NoRequest /\ TypeOK
  BY ConstantsAssumption DEF FilesInv
<1>2. /\ pc[p] = "idle" /\ pc'[p] = Entry(r.op) /\ job'[p] = r
      /\ pos'[p] = 1 /\ job[p] = NoRequest
      /\ UNCHANGED <<dir, temps, pos, todo, published, crashes>>
      /\ \A q \in Procs : q # p => pc'[q] = pc[q] /\ job'[q] = job[q]
  BY <1>1 DEF Start, At, Goto, TypeOK, RunsInv, OpAtPoint
<1>3. OpAtPoint'
  BY <1>1, <1>2 DEF RunsInv, OpAtPoint, Entry, Request, Ops, Writing
<1>4. PublishedSoFar'
  <2>1. Len(r.docs) \in Nat
    BY <1>1 DEF Request
  <2>2. PublishedBy(p) = {}
    BY <1>2 DEF RunsInv, PublishedSoFar, IsApply
  <2>3. \A q \in Procs : PublishedBy(q)' = PublishedBy(q)
    BY <1>2 DEF PublishedBy
  <2>4. Prefix(p)' = {} /\ pc'[p] # "ok"
    BY <1>1, <1>2 DEF Prefix, Entry, Request, Ops
  <2>5. \A q \in Procs : q # p => Prefix(q)' = Prefix(q)
    BY <1>2 DEF Prefix
  <2>6. /\ PublishedBy(p)' = Prefix(p)'
        /\ (pos[p] <= Len(job[p].docs) + 1)'
    BY <1>2, <2>1, <2>2, <2>3, <2>4
  <2>7. \A q \in Procs : q # p =>
          /\ ~IsApply(q)' => PublishedBy(q)' = {}
          /\ IsApply(q)' => /\ PublishedBy(q)' = Prefix(q)'
                            /\ (pos[q] <= Len(job[q].docs) + 1)'
                            /\ (pc[q] = "ok" => pos[q] = Len(job[q].docs) + 1)'
    BY <1>2, <2>3, <2>5 DEF RunsInv, PublishedSoFar, IsApply
  <2>8. PublishedBy(p)' = {}
    BY <2>2, <2>3
  <2> QED
    BY <2>4, <2>6, <2>7, <2>8 DEF PublishedSoFar
<1>5. TempsOfRuns' /\ TempsAccounted'
  <2>1. \A q \in Procs : q # p => Temp(q)' = Temp(q)
    BY <1>2 DEF Temp, Doc
  <2> QED
    BY <1>2, <2>1 DEF RunsInv, TempsOfRuns, TempsAccounted, Writing
<1>6. BadInputDeletesNothing'
  BY <1>1, <1>2 DEF RunsInv, BadInputDeletesNothing, Entry, NamedDoc
<1>7. ListedStillThere' /\ ListingCutOnlyByRemoval'
  <2>1. Removing => Removing'
    BY <1>2 DEF Removing
  <2>2. pc'[p] \notin {"read", "missing"}
    BY <1>1, <1>2 DEF Entry, Request, Ops
  <2> QED
    BY <1>2, <2>1, <2>2 DEF RunsInv, ListedStillThere, ListingCutOnlyByRemoval,
       Present, Removing
<1> QED
  BY <1>3, <1>4, <1>5, <1>6, <1>7 DEF RunsInv

\* The kernel's write-back changes nothing RunsInv speaks of; a crash ends every
\* run, and lifts what TempsAccounted asks.
LEMMA WorldRuns ==
    ASSUME FilesInv, RunsInv,
           \/ \E f \in written \ stable : WriteBack(f)
           \/ \E n \in Names : FlushEntry(n)
           \/ HostCrash
           \/ UNCHANGED vars
    PROVE  RunsInv'
<1>1. CASE UNCHANGED <<dir, temps, pc, job, pos, todo, published, crashes>>
  BY <1>1 DEF RunsInv, OpAtPoint, PublishedSoFar, IsApply, PublishedBy, Prefix,
     TempsOfRuns, TempsAccounted, BadInputDeletesNothing, ListedStillThere, Present,
     ListingCutOnlyByRemoval, Removing, Temp, Doc, NamedDoc
<1>2. CASE HostCrash
  <2>1. /\ UNCHANGED <<job, pos, todo, published>>
        /\ crashes' # 0
        /\ \A q \in Procs : pc'[q] = pc[q] \/ (pc[q] \in Running /\ pc'[q] = "killed")
        /\ \A q \in Procs : pc'[q] \notin Running
    BY <1>2 DEF HostCrash, FilesInv, TypeOK, Running, Writing
  <2>2. OpAtPoint' /\ PublishedSoFar' /\ TempsOfRuns' /\ TempsAccounted'
    BY <2>1 DEF RunsInv, OpAtPoint, PublishedSoFar, IsApply, PublishedBy, Prefix,
       TempsOfRuns, TempsAccounted, Running, Writing
  <2>3. BadInputDeletesNothing' /\ ListedStillThere' /\ ListingCutOnlyByRemoval'
    BY <2>1 DEF RunsInv, BadInputDeletesNothing, ListedStillThere, NamedDoc,
       ListingCutOnlyByRemoval, Removing, Running
  <2> QED
    BY <2>2, <2>3 DEF RunsInv
<1> QED
  BY <1>1, <1>2 DEF WriteBack, FlushEntry, Local, vars

\* The invariant of the runs is inductive, given that of the files.
LEMMA RunsStep == FilesInv /\ RunsInv /\ [Next]_vars => RunsInv'
<1> SUFFICES ASSUME FilesInv, RunsInv, [Next]_vars PROVE RunsInv'
  OBVIOUS
<1>1. ASSUME NEW p \in Procs, Step(p) \/ Kill(p) PROVE RunsInv'
  BY <1>1, OpAtPointStep, PublishedStep, TempsStep, BadInputStep, ListingStep
     DEF RunsInv, FilesInv
<1> QED
  BY <1>1, StartRuns, WorldRuns DEF Next

\* Hence it always holds.
LEMMA RunsInvariant == Spec => []RunsInv
  BY RunsInit, RunsStep, FilesInvariant, PTL DEF Spec

\* No run that goes on or succeeds leaves a temporary file of an earlier write
\* in the policy directory (writePolicyFile's cleanup).
THEOREM NoStrayTemps == Spec => []TempsAccounted
<1>1. RunsInv => TempsAccounted
  BY DEF RunsInv
<1> QED
  BY <1>1, RunsInvariant, PTL

\* What an apply has published is a prefix of its input, all of it on success.
THEOREM ApplyPublishesPrefix == Spec => []ApplyIsPrefix
<1>1. RunsInv => ApplyIsPrefix
  BY DEF RunsInv, ApplyIsPrefix, PublishedSoFar, IsApply, PublishedBy, Prefix
<1> QED
  BY <1>1, RunsInvariant, PTL

\* A delete whose input has a bad document anywhere removes nothing.
THEOREM BadDeleteIsHarmless == Spec => []BadInputDeletesNothing
<1>1. RunsInv => BadInputDeletesNothing
  BY DEF RunsInv
<1> QED
  BY <1>1, RunsInvariant, PTL

\* However many applies replace policies meanwhile, a listing only misses a file
\* when a delete or a purge has been started.
THEOREM ApplyNeverCutsListing == Spec => []ListingCutOnlyByRemoval
<1>1. RunsInv => ListingCutOnlyByRemoval
  BY DEF RunsInv
<1> QED
  BY <1>1, RunsInvariant, PTL
====
